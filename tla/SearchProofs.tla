---------------------------- MODULE SearchProofs ----------------------------
(***************************************************************************)
(* Theorems about one search of Explorer, for every certificate graph,     *)
(* every outcome of the checks, and every path length and budget.          *)
(***************************************************************************)
EXTENDS Explorer, FiniteSetTheorems, SequenceTheorems, FunctionTheorems,
        WellFoundedInduction, TLAPS

-----------------------------------------------------------------------------
(***************************************************************************)
(* Numbers and sequences.                                                  *)
(***************************************************************************)

\* A set of numbers that is not empty has a least element.
LEMMA LeastNumber ==
    ASSUME NEW T \in SUBSET Nat, T # {}
    PROVE  \E n \in T : \A m \in T : n <= m
<1>1. PICK t \in T : TRUE
  OBVIOUS
<1> DEFINE below == {k \in T : k <= t}
           initials == {1..k : k \in below}
<1>2. IsFiniteSet(1..t)
  <2>1. t \in Int /\ 1 \in Int
    OBVIOUS
  <2> QED BY <2>1, FS_Interval
<1>3. IsWellFoundedOn(StrictSubsetOrdering(1..t), SUBSET (1..t))
  <2> DEFINE I == 1..t
  <2>1. IsFiniteSet(I)
    BY <1>2
  <2> HIDE DEF I
  <2>2. IsWellFoundedOn(StrictSubsetOrdering(I), SUBSET I)
    BY <2>1, FS_StrictSubsetOrderingWellFounded, FS_FiniteSubsetsOfFinite
  <2> QED BY <2>2 DEF I
<1>4. initials \subseteq SUBSET (1..t) /\ initials # {}
  <2>1. t \in below
    OBVIOUS
  <2>2. \A k \in below : 1..k \subseteq 1..t
    OBVIOUS
  <2> QED BY <2>1, <2>2
<1>5. PICK x \in initials :
         \A y \in initials : <<y, x>> \notin StrictSubsetOrdering(1..t)
  <2> HIDE DEF initials
  <2> QED BY <1>3, <1>4, WFMin
<1>6. PICK n \in below : x = 1..n
  OBVIOUS
<1>7. ASSUME NEW m \in T, m < n PROVE FALSE
  <2>1. m \in below /\ 1..m \in initials
    BY <1>7
  <2>2. 1..m \subseteq 1..n /\ 1..m # 1..n
    <3>1. n \in 1..n /\ n \notin 1..m
      BY <1>7
    <3> QED BY <1>7, <3>1
  <2>3. 1..m \subseteq 1..t /\ 1..n \subseteq 1..t
    BY <1>4, <1>6, <2>1
  <2> QED BY <1>5, <1>6, <2>1, <2>2, <2>3 DEF StrictSubsetOrdering
<1> QED
  BY <1>7

\* A set of numbers with a bound has a greatest element.
LEMMA GreatestNumber ==
    ASSUME NEW T \in SUBSET Nat, T # {}, NEW b \in Nat, \A m \in T : m <= b
    PROVE  \E n \in T : \A m \in T : m <= n
<1> DEFINE gaps == {b - m : m \in T}
<1>1. gaps \in SUBSET Nat /\ gaps # {}
  <2>1. \A m \in T : b - m \in Nat
    OBVIOUS
  <2> QED BY <2>1, Zenon
<1>2. PICK g \in gaps : \A h \in gaps : g <= h
  <2> HIDE DEF gaps
  <2> QED BY <1>1, LeastNumber
<1> QED
  BY <1>2

\* Least, as the search uses it, is the least element.
LEMMA LeastOf ==
    ASSUME NEW T \in SUBSET Nat, T # {}
    PROVE  Least(T) \in T /\ \A m \in T : Least(T) <= m
<1>1. \E n \in T : \A m \in T : n <= m
  BY LeastNumber
<1> QED
  BY <1>1 DEF Least

\* All but the last element of a sequence.
LEMMA FrontOf ==
    ASSUME NEW T, NEW p \in Seq(T), p # <<>>
    PROVE  LET f == SubSeq(p, 1, Len(p) - 1)
           IN  /\ f \in Seq(T) /\ Len(f) = Len(p) - 1
               /\ \A i \in 1..Len(p) - 1 : f[i] = p[i]
<1>1. Len(p) \in Nat \ {0} /\ \A i \in 1..Len(p) - 1 : p[i] \in T
  BY EmptySeq, ElementOfSeq, LenProperties
<1> DEFINE n == Len(p) - 1
<1>2. n \in Nat /\ 1 \in Int /\ n - 1 + 1 = n
  BY <1>1
<1>3. \A i \in 1..n : 1 + i - 1 = i
  BY <1>1
<1> HIDE DEF n
<1>4. /\ SubSeq(p, 1, n) \in Seq(T)
      /\ Len(SubSeq(p, 1, n)) = IF 1 <= n THEN n - 1 + 1 ELSE 0
      /\ \A i \in 1..n - 1 + 1 : SubSeq(p, 1, n)[i] = p[1 + i - 1]
  BY <1>1, <1>2, SubSeqProperties DEF n
<1> QED
  BY <1>2, <1>3, <1>4 DEF n

\* Sequences that agree up to a position have the same initial segment.
LEMMA SamePrefix ==
    ASSUME NEW T, NEW p \in Seq(T), NEW q \in Seq(T), NEW n \in Nat,
           n <= Len(p), n <= Len(q), \A i \in 1..n : p[i] = q[i]
    PROVE  SubSeq(p, 1, n) = SubSeq(q, 1, n)
<1>1. Len(p) \in Nat /\ Len(q) \in Nat
  BY LenProperties
<1>2. \A i \in 1..n : p[i] \in T /\ q[i] \in T
  BY <1>1, ElementOfSeq
<1>3. /\ SubSeq(p, 1, n) \in Seq(T) /\ SubSeq(q, 1, n) \in Seq(T)
      /\ Len(SubSeq(p, 1, n)) = n /\ Len(SubSeq(q, 1, n)) = n
      /\ \A i \in 1..n : SubSeq(p, 1, n)[i] = p[i] /\ SubSeq(q, 1, n)[i] = q[i]
  BY <1>2, SubSeqProperties
<1> QED
  BY <1>3, SeqEqual

-----------------------------------------------------------------------------
(***************************************************************************)
(* The graph.                                                              *)
(***************************************************************************)
IsWalk(p, S) ==
    /\ p \in Seq(Certs) /\ p # <<>> /\ p[1] = world.leaf
    /\ \A i \in 1..Len(p) - 1 :
          p[i] \notin world.anchors /\ p[i + 1] \in S /\ <<p[i], p[i + 1]>> \in world.issued
    /\ \A i, j \in 1..Len(p) : p[i] = p[j] => i = j

\* The bound on the length of a walk is no restriction.
LEMMA WalkIff ==
    ASSUME NEW S \in SUBSET Certs, NEW p
    PROVE  p \in Walks(S) <=> IsWalk(p, S)
<1>1. ASSUME p \in Walks(S) PROVE IsWalk(p, S)
  <2>1. Cardinality(Certs) \in Nat
    BY ExplorerAssumption, FS_CardinalityType
  <2>2. PICK n \in 1..Cardinality(Certs) : p \in [1..n -> Certs]
    BY <1>1 DEF Walks
  <2>3. p \in Seq(Certs) /\ Len(p) = n /\ DOMAIN p = 1..n /\ n \in Nat \ {0}
    BY <2>1, <2>2
  <2>4. p # <<>>
    BY <2>3, EmptySeq
  <2> QED BY <1>1, <2>3, <2>4 DEF Walks, IsWalk, Issuers
<1>2. ASSUME IsWalk(p, S) PROVE p \in Walks(S)
  <2>1. /\ p \in Seq(Certs) /\ Len(p) \in Nat \ {0} /\ p \in [1..Len(p) -> Certs]
        /\ DOMAIN p = 1..Len(p)
    BY <1>2, LenProperties, EmptySeq DEF IsWalk
  <2>2. p \in Injection(1..Len(p), Certs)
    BY <1>2, <2>1 DEF IsWalk, Injection, IsInjective
  <2>3. Cardinality(1..Len(p)) = Len(p)
    <3>1. 1 \in Int /\ Len(p) \in Int /\ 1 <= Len(p)
      BY <2>1
    <3>2. Cardinality(1..Len(p)) = Len(p) - 1 + 1
      BY <3>1, FS_Interval
    <3> QED BY <3>1, <3>2
  <2>4. Len(p) <= Cardinality(Certs) /\ Cardinality(Certs) \in Nat
    BY <2>2, <2>3, ExplorerAssumption, FS_Injection, FS_CardinalityType
  <2>5. p \in UNION {[1..n -> Certs] : n \in 1..Cardinality(Certs)}
    BY <2>1, <2>4
  <2> QED BY <1>2, <2>1, <2>5 DEF Walks, IsWalk, Issuers
<1> QED
  BY <1>1, <1>2

\* Anchors are reachable, and so are the children of what is.
LEMMA ReachableClosed ==
    ASSUME NEW S
    PROVE  /\ ReachableIn(S) \subseteq S
           /\ world.anchors \cap S \subseteq ReachableIn(S)
           /\ \A c \in S : \A r \in ReachableIn(S) :
                 <<c, r>> \in world.issued => c \in ReachableIn(S)
BY DEF ReachableIn, Issuers

\* What reaches an anchor in a set reaches it in a larger one.
LEMMA ReachableMonotone ==
    ASSUME NEW T, NEW S \in SUBSET T
    PROVE  ReachableIn(S) \subseteq ReachableIn(T)
<1> DEFINE Closed(U, R) == /\ world.anchors \cap U \subseteq R
                           /\ \A c \in U : Issuers(U, c) \cap R # {} => c \in R
<1>1. ASSUME NEW c \in ReachableIn(S), NEW R \in SUBSET T, Closed(T, R) PROVE c \in R
  <2>1. Closed(S, R \cap S)
    BY <1>1 DEF Issuers
  <2>2. R \cap S \in SUBSET S
    OBVIOUS
  <2> QED BY <1>1, <2>1, <2>2 DEF ReachableIn
<1>2. ReachableIn(S) \subseteq T
  BY DEF ReachableIn
<1> QED
  BY <1>1, <1>2 DEF ReachableIn

\* The reachability filter spares every chain: all its certificates above the leaf reach
\* the anchor it ends at.
LEMMA ChainsReach ==
    ASSUME NEW S \in SUBSET Certs, NEW q \in Chains(S), NEW i \in 2..Len(q)
    PROVE  q[i] \in ReachableIn(S)
<1>1. IsWalk(q, S) /\ q[Len(q)] \in world.anchors
  BY WalkIff DEF Chains
<1>2. Len(q) \in Nat
  BY <1>1, LenProperties DEF IsWalk
<1> DEFINE bad == {j \in 2..Len(q) : q[j] \notin ReachableIn(S)}
<1>3. ASSUME i \in bad PROVE FALSE
  <2>1. PICK m \in bad : \A j \in bad : j <= m
    <3>1. bad \in SUBSET Nat /\ bad # {} /\ \A j \in bad : j <= Len(q)
      BY <1>2, <1>3
    <3> HIDE DEF bad
    <3> QED BY <1>2, <3>1, GreatestNumber
  <2>2. \A j \in 2..Len(q) : q[j] \in S
    <3>1. ASSUME NEW j \in 2..Len(q) PROVE q[j] \in S
      <4>1. j - 1 \in 1..Len(q) - 1 /\ (j - 1) + 1 = j
        BY <1>2
      <4> QED BY <1>1, <4>1 DEF IsWalk
    <3> QED BY <3>1
  <2>3. m # Len(q)
    <3>1. q[Len(q)] \in S \/ Len(q) < 2
      BY <1>2, <2>2
    <3> QED BY <1>1, <1>2, <3>1, ReachableClosed
  <2>4. m + 1 \in 2..Len(q) /\ m + 1 \notin bad /\ m \in 1..Len(q) - 1
    BY <1>2, <2>1, <2>3
  <2>5. q[m + 1] \in ReachableIn(S) /\ <<q[m], q[m + 1]>> \in world.issued /\ q[m] \in S
    BY <1>1, <2>2, <2>4 DEF IsWalk
  <2> QED BY <2>5, ReachableClosed
<1> QED
  BY <1>3

\* A chain of checks passes or ends with the code of one of its rules.
LEMMA FirstFailingCode ==
    ASSUME NEW rules, DOMAIN rules \subseteq Nat
    PROVE  \/ FirstFailing(rules) = "NONE"
           \/ \E i \in DOMAIN rules : FirstFailing(rules) = rules[i].code
<1> DEFINE failing == {i \in DOMAIN rules : ~rules[i].passes}
           first == CHOOSE i \in failing : \A j \in failing : i <= j
<1>1. CASE failing # {}
  <2>1. \E i \in failing : \A j \in failing : i <= j
    <3>1. failing \in SUBSET Nat
      OBVIOUS
    <3> HIDE DEF failing
    <3> QED BY <1>1, <3>1, LeastNumber
  <2>2. first \in failing
    BY <2>1
  <2> QED BY <1>1, <2>2 DEF FirstFailing
<1>2. CASE failing = {}
  BY <1>2 DEF FirstFailing
<1> QED
  BY <1>1, <1>2

\* No check of a certificate, an edge or a whole path fails for want of issuers.
LEMMA CheckCodes ==
    ASSUME NEW p, NEW c
    PROVE  LET codes == {LeafFailure, EdgeFailure(p, c), TerminalFailure(p)}
           IN  /\ codes \subseteq Codes \cup {"NONE"}
               /\ codes \cap {"NO_ISSUER", "NO_TRUSTED_ANCHOR"} = {}
<1> DEFINE ours == (Codes \ {"NO_ISSUER", "NO_TRUSTED_ANCHOR"}) \cup {"NONE"}
<1>1. LeafFailure \in ours
  <2> DEFINE rules == <<Rule("UNSUPPORTED", world.leaf \notin world.unsupported),
                        Rule("VALIDITY", world.leaf \in world.current),
                        Rule("LEAF_USAGE", world.leafUsage)>>
  <2>1. DOMAIN rules = 1..3
    OBVIOUS
  <2>2. \A i \in 1..3 : rules[i].code \in ours
    BY DEF Rule, Codes
  <2>3. LeafFailure = FirstFailing(rules)
    BY DEF LeafFailure
  <2> HIDE DEF rules
  <2> QED BY <2>1, <2>2, <2>3, FirstFailingCode
<1>2. EdgeFailure(p, c) \in ours
  <2> DEFINE edge == <<p[Len(p)], c>>
             rules == <<Rule("UNSUPPORTED", c \notin world.unsupported),
                        Rule("SIGNATURE_INVALID", edge \in world.signed),
                        Rule("VALIDITY", c \in world.current),
                        Rule("CA_USAGE", c \in world.caUsage),
                        Rule("PATHLEN_EXCEEDED", Below(p) <= world.pathLen[c]),
                        Rule("REVOCATION", edge \in world.good)>>
  <2>1. DOMAIN rules = 1..6
    OBVIOUS
  <2>2. \A i \in 1..6 : rules[i].code \in ours
    BY DEF Rule, Codes
  <2>3. EdgeFailure(p, c) = FirstFailing(rules)
    BY DEF EdgeFailure
  <2> HIDE DEF rules
  <2> QED BY <2>1, <2>2, <2>3, FirstFailingCode
<1>3. TerminalFailure(p) \in ours
  <2> DEFINE anchor == p[Len(p)]
             rules == <<Rule("UNSUPPORTED", anchor \notin world.unsupported),
                        Rule("VALIDITY", anchor \in world.current),
                        Rule("NAMES_OR_POLICIES",
                             \A i, j \in DOMAIN p : <<p[i], p[j]>> \notin world.excluded)>>
  <2>1. DOMAIN rules = 1..3
    OBVIOUS
  <2>2. \A i \in 1..3 : rules[i].code \in ours
    BY DEF Rule, Codes
  <2>3. TerminalFailure(p) = FirstFailing(rules)
    BY DEF TerminalFailure
  <2> HIDE DEF rules
  <2> QED BY <2>1, <2>2, <2>3, FirstFailingCode
<1> QED
  BY <1>1, <1>2, <1>3

\* Walks that the search may stand at: every edge passes and may still reach an anchor.
Passes(p) == \A i \in 1..Len(p) - 1 : EdgeFailure(SubSeq(p, 1, i), p[i + 1]) = "NONE"

SoundWalks(S) ==
    {p \in Walks(S) : Passes(p) /\ \A i \in 2..Len(p) : p[i] \in ReachableIn(S)}

\* The valid paths are the sound walks to an anchor whose first and last checks pass.
LEMMA ValidIff ==
    ASSUME NEW S \in SUBSET Certs, NEW q
    PROVE  q \in ValidPaths(S) <=>
              /\ q \in SoundWalks(S) /\ q[Len(q)] \in world.anchors
              /\ LeafFailure = "NONE" /\ TerminalFailure(q) = "NONE"
BY ChainsReach DEF ValidPaths, Chains, SoundWalks, Passes

\* Walks from which the recording pass tries every issuer.
Open(S) ==
    {p \in SoundWalks(S) :
        LeafFailure = "NONE" /\ Len(p) <= MaxPathLen /\ p[Len(p)] \notin world.anchors}

\* What is said of the graph changes only with the graph.
LEMMA Frozen ==
    ASSUME UNCHANGED <<world, active>>
    PROVE  /\ Walks(active)' = Walks(active) /\ Chains(active)' = Chains(active)
           /\ ReachableIn(active)' = ReachableIn(active) /\ LeafFailure' = LeafFailure
           /\ SoundWalks(active)' = SoundWalks(active) /\ Open(active)' = Open(active)
           /\ ValidPaths(active)' = ValidPaths(active)
<1>1. Walks(active)' = Walks(active)
  BY DEF Walks, Issuers
<1>2. Chains(active)' = Chains(active)
  BY <1>1 DEF Chains
<1>3. ReachableIn(active)' = ReachableIn(active)
  BY DEF ReachableIn, Issuers
<1>4. LeafFailure' = LeafFailure
  BY DEF LeafFailure
<1>5. \A p, c : EdgeFailure(p, c)' = EdgeFailure(p, c)
  BY DEF EdgeFailure, Below
<1>6. \A p : Passes(p)' = Passes(p)
  BY <1>5 DEF Passes
<1>7. SoundWalks(active)' = SoundWalks(active)
  BY <1>1, <1>3, <1>6 DEF SoundWalks
<1>8. Open(active)' = Open(active)
  BY <1>4, <1>7 DEF Open
<1>9. \A p : TerminalFailure(p)' = TerminalFailure(p)
  BY DEF TerminalFailure
<1>10. ValidPaths(active)' = ValidPaths(active)
  BY <1>2, <1>4, <1>5, <1>9 DEF ValidPaths
<1> QED
  BY <1>1, <1>2, <1>3, <1>4, <1>7, <1>8, <1>10

\* An initial segment of a sequence, by position.
LEMMA InitialSegment ==
    ASSUME NEW T, NEW p \in Seq(T), NEW n \in 1..Len(p)
    PROVE  LET f == SubSeq(p, 1, n)
           IN  /\ f \in Seq(T) /\ Len(f) = n /\ f # <<>>
               /\ \A i \in 1..n : f[i] = p[i] /\ SubSeq(f, 1, i) = SubSeq(p, 1, i)
<1>1. Len(p) \in Nat /\ n \in Nat \ {0} /\ n <= Len(p)
  BY LenProperties
<1>2. \A i \in 1..n : p[i] \in T
  BY <1>1, ElementOfSeq
<1>3. /\ SubSeq(p, 1, n) \in Seq(T) /\ Len(SubSeq(p, 1, n)) = n
      /\ \A i \in 1..n : SubSeq(p, 1, n)[i] = p[i]
  BY <1>1, <1>2, SubSeqProperties
<1>4. SubSeq(p, 1, n) # <<>>
  BY <1>1, <1>3, EmptySeq
<1>5. \A i \in 1..n : SubSeq(SubSeq(p, 1, n), 1, i) = SubSeq(p, 1, i)
  <2> DEFINE f == SubSeq(p, 1, n)
  <2>1. f \in Seq(T) /\ Len(f) = n /\ \A i \in 1..n : f[i] = p[i]
    BY <1>3
  <2> HIDE DEF f
  <2>2. ASSUME NEW i \in 1..n PROVE SubSeq(f, 1, i) = SubSeq(p, 1, i)
    <3>1. i \in Nat /\ i <= n /\ i <= Len(p) /\ \A j \in 1..i : f[j] = p[j]
      BY <1>1, <2>1
    <3> QED BY <2>1, <3>1, SamePrefix
  <2> QED BY <2>2 DEF f
<1> QED
  BY <1>3, <1>4, <1>5

LEMMA SoundPrefix ==
    ASSUME NEW S \in SUBSET Certs, NEW p \in SoundWalks(S), NEW n \in 1..Len(p)
    PROVE  SubSeq(p, 1, n) \in SoundWalks(S)
<1> DEFINE f == SubSeq(p, 1, n)
<1>1. IsWalk(p, S) /\ Passes(p) /\ \A i \in 2..Len(p) : p[i] \in ReachableIn(S)
  BY WalkIff DEF SoundWalks
<1>2. p \in Seq(Certs) /\ Len(p) \in Nat
  BY <1>1, LenProperties DEF IsWalk
<1>3. /\ f \in Seq(Certs) /\ Len(f) = n /\ f # <<>>
      /\ \A i \in 1..n : f[i] = p[i] /\ SubSeq(f, 1, i) = SubSeq(p, 1, i)
  BY <1>2, InitialSegment
<1> HIDE DEF f
<1>4. IsWalk(f, S)
  <2>1. f[1] = world.leaf
    BY <1>1, <1>2, <1>3 DEF IsWalk
  <2>2. \A i \in 1..n - 1 : i \in 1..Len(p) - 1 /\ f[i] = p[i] /\ f[i + 1] = p[i + 1]
    BY <1>2, <1>3
  <2>3. \A i \in 1..n : i \in 1..Len(p) /\ f[i] = p[i]
    BY <1>2, <1>3
  <2> QED BY <1>1, <1>3, <2>1, <2>2, <2>3 DEF IsWalk
<1>5. Passes(f)
  <2>1. \A i \in 1..n - 1 : /\ i \in 1..Len(p) - 1 /\ f[i + 1] = p[i + 1]
                           /\ SubSeq(f, 1, i) = SubSeq(p, 1, i)
    BY <1>2, <1>3
  <2> QED BY <1>1, <1>3, <2>1 DEF Passes
<1>6. \A i \in 2..n : f[i] \in ReachableIn(S)
  BY <1>1, <1>2, <1>3
<1> QED
  BY <1>3, <1>4, <1>5, <1>6, WalkIff DEF SoundWalks, f

\* A sound walk goes on to an issuer that passes and may reach an anchor.
LEMMA SoundAppend ==
    ASSUME NEW S \in SUBSET Certs, NEW p \in SoundWalks(S), NEW c \in ReachableIn(S),
           p[Len(p)] \notin world.anchors, <<p[Len(p)], c>> \in world.issued,
           \A i \in 1..Len(p) : p[i] # c, EdgeFailure(p, c) = "NONE"
    PROVE  Append(p, c) \in SoundWalks(S)
<1> DEFINE q == Append(p, c)
<1>1. IsWalk(p, S) /\ Passes(p) /\ \A i \in 2..Len(p) : p[i] \in ReachableIn(S)
  BY WalkIff DEF SoundWalks
<1>2. p \in Seq(Certs) /\ Len(p) \in Nat \ {0} /\ c \in S /\ c \in Certs
  BY <1>1, LenProperties, EmptySeq, ReachableClosed DEF IsWalk
<1>3. /\ q \in Seq(Certs) /\ Len(q) = Len(p) + 1 /\ q # <<>>
      /\ \A i \in 1..Len(p) : q[i] = p[i]
      /\ q[Len(p) + 1] = c
  BY <1>2, AppendProperties
<1> HIDE DEF q
<1>4. IsWalk(q, S)
  <2>1. q[1] = world.leaf
    BY <1>1, <1>2, <1>3 DEF IsWalk
  <2>2. ASSUME NEW i \in 1..Len(q) - 1
        PROVE  q[i] \notin world.anchors /\ q[i + 1] \in S /\ <<q[i], q[i + 1]>> \in world.issued
    <3>1. CASE i = Len(p)
      <4>1. Len(p) \in 1..Len(p)
        BY <1>2
      <4>2. q[i] = p[Len(p)] /\ q[i + 1] = c
        BY <1>3, <3>1, <4>1
      <4> QED BY <1>2, <4>2
    <3>2. CASE i # Len(p)
      <4>1. i \in 1..Len(p) - 1 /\ q[i] = p[i] /\ q[i + 1] = p[i + 1]
        BY <1>2, <1>3, <3>2
      <4> QED BY <1>1, <4>1 DEF IsWalk
    <3> QED BY <3>1, <3>2
  <2>3. ASSUME NEW i \in 1..Len(q), NEW j \in 1..Len(q), q[i] = q[j] PROVE i = j
    <3>1. \A k \in 1..Len(q) : k \in 1..Len(p) \/ k = Len(p) + 1
      BY <1>2, <1>3
    <3>2. \A k, l \in 1..Len(p) : p[k] = p[l] => k = l
      BY <1>1 DEF IsWalk
    <3> QED BY <1>3, <2>3, <3>1, <3>2
  <2> QED BY <1>3, <2>1, <2>2, <2>3 DEF IsWalk
<1>5. \A i \in 1..Len(p) : SubSeq(q, 1, i) = SubSeq(p, 1, i)
  <2>1. ASSUME NEW i \in 1..Len(p) PROVE SubSeq(q, 1, i) = SubSeq(p, 1, i)
    <3>1. i \in Nat /\ i <= Len(p) /\ i <= Len(q) /\ \A j \in 1..i : q[j] = p[j]
      BY <1>2, <1>3
    <3> QED BY <1>2, <1>3, <3>1, SamePrefix
  <2> QED BY <2>1
<1>6. Passes(q)
  <2>1. ASSUME NEW i \in 1..Len(q) - 1
        PROVE  EdgeFailure(SubSeq(q, 1, i), q[i + 1]) = "NONE"
    <3>1. CASE i = Len(p)
      <4>1. SubSeq(q, 1, i) = SubSeq(p, 1, Len(p)) /\ q[i + 1] = c
        BY <1>2, <1>3, <1>5, <3>1
      <4>2. SubSeq(p, 1, Len(p)) = p
        BY <1>2, SubSeqFull
      <4> QED BY <4>1, <4>2
    <3>2. CASE i # Len(p)
      <4>1. i \in 1..Len(p) - 1 /\ q[i + 1] = p[i + 1] /\ SubSeq(q, 1, i) = SubSeq(p, 1, i)
        BY <1>2, <1>3, <1>5, <3>2
      <4> QED BY <1>1, <4>1 DEF Passes
    <3> QED BY <3>1, <3>2
  <2> QED BY <2>1 DEF Passes
<1>7. \A i \in 2..Len(q) : q[i] \in ReachableIn(S)
  BY <1>1, <1>2, <1>3
<1> QED
  BY <1>4, <1>6, <1>7, WalkIff DEF SoundWalks, q

-----------------------------------------------------------------------------
(***************************************************************************)
(* The call stack.  A walk is pending if the search has it before it: it   *)
(* shares an initial segment with the path, and where the two part, its    *)
(* next certificate is still to be tried.                                  *)
(***************************************************************************)
ActiveOK == world \in WorldType /\ active \subseteq Certs /\ world.leaf \in active

TodoOK(i) ==
    /\ path[i] \notin world.anchors
    /\ \A x \in todo[i] : /\ x \in active /\ <<path[i], x>> \in world.issued
                          /\ \A j \in 1..i : path[j] # x
                          /\ i < Len(path) => path[i + 1] < x

StackInv ==
    /\ path \in Seq(Certs) /\ todo \in Seq(SUBSET Certs)
    /\ Len(todo) <= Len(path) /\ Len(path) <= Len(todo) + 1
    /\ path # <<>> => path \in SoundWalks(active)
    /\ \A i \in 1..Len(todo) : TodoOK(i)

Agrees(q, i) == q \in Seq(Certs) /\ i <= Len(q) /\ \A j \in 1..i : path[j] = q[j]

Pending(q) ==
    \E i \in 1..Len(path) :
        Agrees(q, i) /\ (i <= Len(todo) => i < Len(q) /\ q[i + 1] \in todo[i])

\* The sizes and types behind StackInv.
LEMMA StackFacts ==
    ASSUME ActiveOK, StackInv
    PROVE  /\ Len(path) \in Nat /\ Len(todo) \in Nat
           /\ path # <<>> => Len(path) \in Nat \ {0}
           /\ path = <<>> => Len(path) = 0 /\ Len(todo) = 0 /\ todo = <<>>
           /\ \A i \in 1..Len(path) : path[i] \in Certs
           /\ \A i \in 1..Len(todo) : todo[i] \in SUBSET Certs
<1>1. path \in Seq(Certs) /\ todo \in Seq(SUBSET Certs)
  BY DEF StackInv
<1>2. Len(path) \in Nat /\ Len(todo) \in Nat
  BY <1>1, LenProperties
<1>3. path # <<>> => Len(path) \in Nat \ {0}
  BY <1>1, EmptySeq
<1>4. path = <<>> => Len(path) = 0 /\ Len(todo) = 0
  BY <1>2, EmptySeq DEF StackInv
<1>5. todo # <<>> => Len(todo) # 0
  BY <1>1, EmptySeq
<1>6. \A i \in 1..Len(path) : path[i] \in Certs
  BY <1>1, ElementOfSeq
<1>7. \A i \in 1..Len(todo) : todo[i] \in SUBSET Certs
  BY <1>1, ElementOfSeq
<1> QED
  BY <1>2, <1>3, <1>4, <1>5, <1>6, <1>7

\* A call returns at its entry.
LEMMA RefuseKept ==
    ASSUME ActiveOK, StackInv, UNCHANGED <<world, active, todo>>,
           path # <<>>, Len(todo) < Len(path),
           path' = SubSeq(path, 1, Len(path) - 1)
    PROVE  StackInv' /\ \A q : Pending(q) => Pending(q)' \/ Agrees(q, Len(path))
<1>1. Len(path) \in Nat \ {0} /\ Len(todo) = Len(path) - 1
  BY StackFacts DEF StackInv
<1>2. /\ path' \in Seq(Certs) /\ Len(path') = Len(path) - 1
      /\ \A i \in 1..Len(path) - 1 : path'[i] = path[i]
  BY FrontOf DEF StackInv
<1>3. path' # <<>> => path' \in SoundWalks(active)'
  <2>1. ASSUME path' # <<>> PROVE Len(path) - 1 \in 1..Len(path)
    BY <1>1, <1>2, <2>1, EmptySeq
  <2> QED BY <2>1, SoundPrefix, Frozen DEF StackInv, ActiveOK
<1>4. \A i \in 1..Len(todo') : TodoOK(i)'
  <2>1. ASSUME NEW i \in 1..Len(todo) PROVE TodoOK(i)'
    <3>1. /\ i \in 1..Len(path) - 1 /\ i + 1 \in 1..Len(path)
          /\ \A j \in 1..i : path'[j] = path[j]
          /\ i < Len(path') => path'[i + 1] = path[i + 1] /\ i < Len(path)
      BY <1>1, <1>2
    <3>2. TodoOK(i)
      BY DEF StackInv
    <3> QED BY <3>1, <3>2 DEF TodoOK
  <2> QED BY <2>1
<1>5. StackInv'
  BY <1>1, <1>2, <1>3, <1>4 DEF StackInv
<1>6. ASSUME NEW q, Pending(q), ~Agrees(q, Len(path)) PROVE Pending(q)'
  <2>1. PICK i \in 1..Len(path) :
           Agrees(q, i) /\ (i <= Len(todo) => i < Len(q) /\ q[i + 1] \in todo[i])
    BY <1>6 DEF Pending
  <2>2. i \in 1..Len(path')
    BY <1>1, <1>2, <1>6, <2>1
  <2>3. Agrees(q, i)'
    BY <1>1, <1>2, <2>1, <2>2 DEF Agrees
  <2> QED BY <2>1, <2>2, <2>3 DEF Pending
<1> QED
  BY <1>5, <1>6

\* A call is entered, with the issuers of its certificate to try.
LEMMA EnterKept ==
    ASSUME ActiveOK, StackInv, UNCHANGED <<world, active, path>>,
           path # <<>>, Len(todo) < Len(path), Current \notin world.anchors,
           todo' = Append(todo, Candidates)
    PROVE  /\ StackInv'
           /\ \A q : Pending(q) =>
                 \/ Pending(q)'
                 \/ /\ Agrees(q, Len(path))
                    /\ Len(q) = Len(path) \/ q[Len(path) + 1] \notin Candidates
<1>1. Len(path) \in Nat \ {0} /\ Len(todo) = Len(path) - 1
  BY StackFacts DEF StackInv
<1>2. Candidates \in SUBSET Certs
  BY DEF Candidates, Issuers, ActiveOK
<1>3. /\ todo' \in Seq(SUBSET Certs) /\ Len(todo') = Len(path)
      /\ \A i \in 1..Len(path) - 1 : todo'[i] = todo[i]
      /\ todo'[Len(path)] = Candidates
  BY <1>1, <1>2, AppendProperties DEF StackInv
<1>4. path # <<>> => path' \in SoundWalks(active)'
  BY Frozen DEF StackInv
<1>5. ASSUME NEW i \in 1..Len(todo') PROVE TodoOK(i)'
  <2>1. CASE i = Len(path)
    <3>1. \A x \in Candidates : /\ x \in active /\ <<path[i], x>> \in world.issued
                                /\ \A j \in 1..i : path[j] # x
      <4>1. DOMAIN path = 1..Len(path)
        BY LenProperties DEF StackInv
      <4> QED BY <2>1, <4>1 DEF Candidates, Issuers, Current
    <3> QED BY <1>1, <1>3, <2>1, <3>1 DEF TodoOK, Current
  <2>2. CASE i # Len(path)
    <3>1. i \in 1..Len(todo) /\ i \in 1..Len(path) - 1
      BY <1>1, <1>3, <2>2
    <3> QED BY <1>3, <3>1 DEF TodoOK, StackInv
  <2> QED BY <2>1, <2>2
<1>6. StackInv'
  BY <1>1, <1>3, <1>4, <1>5 DEF StackInv
<1>7. ASSUME NEW q, Pending(q),
             ~Agrees(q, Len(path)) \/ (Len(q) # Len(path) /\ q[Len(path) + 1] \in Candidates)
      PROVE  Pending(q)'
  <2>1. PICK i \in 1..Len(path) :
           Agrees(q, i) /\ (i <= Len(todo) => i < Len(q) /\ q[i + 1] \in todo[i])
    BY <1>7 DEF Pending
  <2>2. Agrees(q, i)'
    BY <2>1 DEF Agrees
  <2>3. i <= Len(todo') => i < Len(q) /\ q[i + 1] \in todo'[i]
    <3>1. CASE i = Len(path)
      BY <1>1, <1>3, <1>7, <2>1, <3>1 DEF Agrees
    <3>2. CASE i # Len(path)
      BY <1>1, <1>3, <2>1, <3>2
    <3> QED BY <3>1, <3>2
  <2> QED BY <2>1, <2>2, <2>3 DEF Pending
<1> QED
  BY <1>6, <1>7

\* The loop of the innermost call tries its least issuer, and may go on to it.
Tries(parent) ==
    /\ path # <<>> /\ Len(todo) = Len(path) /\ todo[Len(todo)] # {}
    /\ parent = Least(todo[Len(todo)])
    /\ todo' = [todo EXCEPT ![Len(todo)] = @ \ {parent}]

LEMMA TryFacts ==
    ASSUME ActiveOK, StackInv, NEW parent, Tries(parent)
    PROVE  LET n == Len(path)
           IN  /\ n \in Nat \ {0} /\ Len(todo) = n
               /\ parent \in todo[n] /\ parent \in active /\ parent \in Certs
               /\ \A x \in todo[n] : parent <= x
               /\ path[n] \notin world.anchors /\ <<path[n], parent>> \in world.issued
               /\ \A j \in 1..n : path[j] # parent
               /\ todo' \in Seq(SUBSET Certs) /\ Len(todo') = n
               /\ \A i \in 1..n - 1 : todo'[i] = todo[i]
               /\ todo'[n] = todo[n] \ {parent}
<1> DEFINE n == Len(path)
<1>1. n \in Nat \ {0} /\ Len(todo) = n /\ n \in 1..Len(todo)
  BY StackFacts DEF Tries
<1>2. todo[n] \in SUBSET Certs /\ todo[n] \in SUBSET Nat /\ todo[n] # {}
  BY <1>1, StackFacts, ExplorerAssumption DEF Tries
<1>3. parent \in todo[n] /\ \A x \in todo[n] : parent <= x
  BY <1>1, <1>2, LeastOf DEF Tries
<1>4. TodoOK(n)
  BY <1>1 DEF StackInv
<1>5. /\ todo' \in Seq(SUBSET Certs) /\ Len(todo') = n
      /\ \A i \in 1..n : todo'[i] = IF i = n THEN todo[n] \ {parent} ELSE todo[i]
  <2> DEFINE left == todo[n] \ {parent}
  <2>1. left \in SUBSET Certs
    BY <1>2
  <2>2. todo' = [todo EXCEPT ![n] = left] /\ todo \in Seq(SUBSET Certs)
    BY <1>1 DEF Tries, StackInv
  <2> HIDE DEF left
  <2>3. /\ [todo EXCEPT ![n] = left] \in Seq(SUBSET Certs)
        /\ Len([todo EXCEPT ![n] = left]) = Len(todo)
        /\ \A j \in 1..Len(todo) :
              [todo EXCEPT ![n] = left][j] = IF j = n THEN left ELSE todo[j]
    BY <1>1, <2>1, <2>2, ExceptSeq
  <2> QED BY <1>1, <2>2, <2>3 DEF left
<1>6. /\ parent \in active /\ parent \in Certs
      /\ path[n] \notin world.anchors /\ <<path[n], parent>> \in world.issued
      /\ \A j \in 1..n : path[j] # parent
  BY <1>2, <1>3, <1>4 DEF TodoOK
<1> QED
  BY <1>1, <1>3, <1>5, <1>6

LEMMA SkipKept ==
    ASSUME ActiveOK, StackInv, NEW parent, Tries(parent), UNCHANGED <<world, active, path>>
    PROVE  /\ StackInv'
           /\ \A q : Pending(q) =>
                 \/ Pending(q)'
                 \/ /\ Agrees(q, Len(path)) /\ Len(path) < Len(q)
                    /\ q[Len(path) + 1] = parent
<1> DEFINE n == Len(path)
<1>1. /\ n \in Nat \ {0} /\ Len(todo) = n /\ Len(todo') = n
      /\ todo' \in Seq(SUBSET Certs)
      /\ \A i \in 1..n - 1 : todo'[i] = todo[i]
      /\ todo'[n] = todo[n] \ {parent}
  BY TryFacts
<1>2. \A i \in 1..n : todo'[i] \subseteq todo[i]
  <2>1. \A i \in 1..n : i \in 1..n - 1 \/ i = n
    BY <1>1
  <2> QED BY <1>1, <2>1
<1>3. \A i \in 1..Len(todo') : TodoOK(i)'
  BY <1>1, <1>2 DEF TodoOK, StackInv
<1>4. StackInv'
  BY <1>1, <1>3, Frozen DEF StackInv
<1>5. ASSUME NEW q, Pending(q),
             ~(Agrees(q, n) /\ n < Len(q) /\ q[n + 1] = parent)
      PROVE  Pending(q)'
  <2>1. PICK i \in 1..n :
           Agrees(q, i) /\ (i <= Len(todo) => i < Len(q) /\ q[i + 1] \in todo[i])
    BY <1>5 DEF Pending
  <2>2. Agrees(q, i)'
    BY <2>1 DEF Agrees
  <2>3. i < Len(q) /\ q[i + 1] \in todo'[i]
    <3>1. i < Len(q) /\ q[i + 1] \in todo[i]
      BY <1>1, <2>1
    <3>2. CASE i = n
      BY <1>1, <1>5, <2>1, <3>1, <3>2
    <3>3. CASE i # n
      BY <1>1, <3>1, <3>3
    <3> QED BY <3>2, <3>3
  <2> QED BY <2>1, <2>2, <2>3 DEF Pending
<1> QED
  BY <1>4, <1>5

LEMMA FollowKept ==
    ASSUME ActiveOK, StackInv, NEW parent, Tries(parent), UNCHANGED <<world, active>>,
           path' = Append(path, parent), EdgeFailure(path, parent) = "NONE",
           parent \in ReachableIn(active)
    PROVE  StackInv' /\ \A q : Pending(q) => Pending(q)'
<1> DEFINE n == Len(path)
<1>1. /\ n \in Nat \ {0} /\ Len(todo) = n /\ Len(todo') = n
      /\ todo' \in Seq(SUBSET Certs) /\ parent \in Certs
      /\ \A i \in 1..n - 1 : todo'[i] = todo[i]
      /\ todo'[n] = todo[n] \ {parent}
      /\ \A x \in todo[n] : parent <= x
      /\ path[n] \notin world.anchors /\ <<path[n], parent>> \in world.issued
      /\ \A j \in 1..n : path[j] # parent
  BY TryFacts
<1>2. /\ path' \in Seq(Certs) /\ Len(path') = n + 1 /\ path' # <<>>
      /\ \A i \in 1..n : path'[i] = path[i]
      /\ path'[n + 1] = parent
  BY <1>1, AppendProperties DEF StackInv
<1>3. path' \in SoundWalks(active)'
  <2>1. path \in SoundWalks(active) /\ active \in SUBSET Certs
    BY DEF StackInv, Tries, ActiveOK
  <2>2. Append(path, parent) \in SoundWalks(active)
    BY <1>1, <2>1, SoundAppend
  <2> QED BY <2>2, Frozen
<1>4. ASSUME NEW i \in 1..Len(todo') PROVE TodoOK(i)'
  <2>1. TodoOK(i) /\ \A j \in 1..i : path'[j] = path[j]
    BY <1>1, <1>2 DEF StackInv
  <2>2. CASE i = n
    <3>1. \A x \in todo[n] \ {parent} : parent < x
      <4>1. ASSUME NEW x \in todo[n] \ {parent} PROVE parent < x
        <5>1. x \in Nat /\ parent \in Nat /\ parent <= x /\ x # parent
          <6>1. todo[n] \in SUBSET Certs
            BY <1>1, StackFacts
          <6> QED BY <1>1, <6>1, ExplorerAssumption
        <5> QED BY <5>1
      <4> QED BY <4>1
    <3> QED BY <1>1, <1>2, <2>1, <2>2, <3>1 DEF TodoOK
  <2>3. CASE i # n
    <3>1. i \in 1..n - 1 /\ i + 1 \in 1..n
      BY <1>1, <2>3
    <3> QED BY <1>1, <1>2, <2>1, <3>1 DEF TodoOK
  <2> QED BY <2>2, <2>3
<1>5. StackInv'
  BY <1>1, <1>2, <1>3, <1>4 DEF StackInv
<1>6. ASSUME NEW q, Pending(q) PROVE Pending(q)'
  <2>1. PICK i \in 1..n :
           Agrees(q, i) /\ (i <= Len(todo) => i < Len(q) /\ q[i + 1] \in todo[i])
    BY <1>6 DEF Pending
  <2>2. i < Len(q) /\ q[i + 1] \in todo[i] /\ Agrees(q, i)'
    BY <1>1, <1>2, <2>1 DEF Agrees
  <2>3. CASE i = n /\ q[n + 1] = parent
    <3>1. i + 1 <= Len(q) /\ q \in Seq(Certs)
      <4>1. i < Len(q) /\ q \in Seq(Certs)
        BY <2>1, <2>2 DEF Agrees
      <4>2. Len(q) \in Nat
        BY <4>1, LenProperties
      <4> QED BY <1>1, <4>1, <4>2
    <3>2. ASSUME NEW j \in 1..i + 1 PROVE path'[j] = q[j]
      <4>1. CASE j = i + 1
        BY <1>2, <2>3, <4>1
      <4>2. CASE j # i + 1
        <5>1. j \in 1..n
          BY <1>1, <2>3, <4>2
        <5> QED BY <1>2, <2>1, <2>3, <5>1 DEF Agrees
      <4> QED BY <4>1, <4>2
    <3>3. Agrees(q, i + 1)'
      BY <3>1, <3>2 DEF Agrees
    <3>4. i + 1 \in 1..Len(path') /\ ~(i + 1 <= Len(todo'))
      BY <1>1, <1>2, <2>3
    <3> QED BY <3>3, <3>4 DEF Pending
  <2>4. CASE i = n /\ q[n + 1] # parent
    <3>1. q[i + 1] \in todo'[i]
      BY <1>1, <2>2, <2>4
    <3> QED BY <1>1, <1>2, <2>2, <3>1 DEF Pending
  <2>5. CASE i # n
    <3>1. q[i + 1] \in todo'[i]
      BY <1>1, <2>2, <2>5
    <3> QED BY <1>1, <1>2, <2>2, <3>1 DEF Pending
  <2> QED BY <2>3, <2>4, <2>5
<1> QED
  BY <1>5, <1>6

\* The loop is over, and the call returns.
LEMMA UnwindKept ==
    ASSUME ActiveOK, StackInv, UNCHANGED <<world, active>>,
           path # <<>>, Len(todo) = Len(path), todo[Len(todo)] = {},
           todo' = SubSeq(todo, 1, Len(todo) - 1), path' = SubSeq(path, 1, Len(path) - 1)
    PROVE  StackInv' /\ \A q : Pending(q) => Pending(q)'
<1> DEFINE n == Len(path)
<1>1. n \in Nat \ {0} /\ Len(todo) = n /\ todo # <<>>
  BY StackFacts, EmptySeq
<1>2. /\ path' \in Seq(Certs) /\ Len(path') = n - 1
      /\ \A i \in 1..n - 1 : path'[i] = path[i]
  BY FrontOf DEF StackInv
<1>3. /\ todo' \in Seq(SUBSET Certs) /\ Len(todo') = n - 1
      /\ \A i \in 1..n - 1 : todo'[i] = todo[i]
  BY <1>1, FrontOf DEF StackInv
<1>4. path' # <<>> => path' \in SoundWalks(active)'
  <2>1. ASSUME path' # <<>> PROVE n - 1 \in 1..n
    BY <1>1, <1>2, <2>1, EmptySeq
  <2> QED BY <2>1, SoundPrefix, Frozen DEF StackInv, ActiveOK
<1>5. ASSUME NEW i \in 1..Len(todo') PROVE TodoOK(i)'
  <2>1. /\ i \in 1..n - 1 /\ \A j \in 1..i : path'[j] = path[j]
        /\ todo'[i] = todo[i]
        /\ i < Len(path') => path'[i + 1] = path[i + 1] /\ i < n
    BY <1>1, <1>2, <1>3
  <2>2. TodoOK(i)
    BY <1>1, <2>1 DEF StackInv
  <2> QED BY <2>1, <2>2 DEF TodoOK
<1>6. StackInv'
  BY <1>1, <1>2, <1>3, <1>4, <1>5 DEF StackInv
<1>7. ASSUME NEW q, Pending(q) PROVE Pending(q)'
  <2>1. PICK i \in 1..n :
           Agrees(q, i) /\ (i <= Len(todo) => i < Len(q) /\ q[i + 1] \in todo[i])
    BY <1>7 DEF Pending
  <2>2. i \in 1..n - 1 /\ q[i + 1] \in todo'[i] /\ i < Len(q)
    BY <1>1, <1>3, <2>1
  <2>3. Agrees(q, i)'
    BY <1>1, <1>2, <2>1, <2>2 DEF Agrees
  <2> QED BY <1>2, <2>2, <2>3 DEF Pending
<1> QED
  BY <1>6, <1>7

\* A pass begins at the leaf, which is before every walk.
LEMMA LeafIsSound ==
    ASSUME ActiveOK
    PROVE  <<world.leaf>> \in SoundWalks(active)
<1> DEFINE p == <<world.leaf>>
<1>1. world.leaf \in Certs
  BY DEF ActiveOK
<1>2. p \in Seq(Certs) /\ Len(p) = 1 /\ p[1] = world.leaf /\ p # <<>>
  BY <1>1
<1> HIDE DEF p
<1>3. IsWalk(p, active) /\ Passes(p) /\ \A i \in 2..Len(p) : p[i] \in ReachableIn(active)
  BY <1>2 DEF IsWalk, Passes
<1> QED
  BY <1>3, WalkIff DEF SoundWalks, ActiveOK, p

LEMMA RenewKept ==
    ASSUME ActiveOK, StackInv, UNCHANGED <<world, active, todo>>,
           path = <<>>, path' = <<world.leaf>>
    PROVE  StackInv' /\ \A q \in Walks(active) : Pending(q)'
<1>1. /\ path' \in Seq(Certs) /\ Len(path') = 1 /\ path'[1] = world.leaf
      /\ Len(todo) = 0
  BY StackFacts DEF ActiveOK
<1>2. StackInv'
  BY <1>1, LeafIsSound, Frozen DEF StackInv
<1>3. ASSUME NEW q \in Walks(active) PROVE Pending(q)'
  <2>1. IsWalk(q, active) /\ Len(q) \in Nat \ {0}
    <3>1. IsWalk(q, active)
      BY WalkIff DEF ActiveOK
    <3> QED BY <3>1, EmptySeq DEF IsWalk
  <2>2. Agrees(q, 1)'
    BY <1>1, <2>1 DEF Agrees, IsWalk
  <2> QED BY <1>1, <2>2 DEF Pending
<1> QED
  BY <1>2, <1>3

-----------------------------------------------------------------------------
(***************************************************************************)
(* The inductive invariant of one search.                                  *)
(***************************************************************************)
Finished == Completed /\ found = <<>>

ControlInv ==
    /\ SearchTypeOK /\ ActiveOK
    /\ pc = "start" => path = <<>> /\ found = <<>> /\ ~exhausted /\ depth = 1
    /\ pc # "start" => world.leaf \in touched
    /\ Running => found = <<>> /\ ~exhausted /\ LeafFailure = "NONE"
    /\ pc = "record" => depth = MaxPathLen
    /\ touched \subseteq active
    /\ Running => \A i \in 1..Len(path) : path[i] \in touched
    /\ (Running /\ path # <<>>) =>
          Len(path) <= depth + 1 /\ (Current \notin world.anchors => Len(path) <= depth)

\* What the passes owe: within its depth limit a pass has every valid path before it or
\* has found a better one, and those the earlier passes could have found do not exist.
ResultInv ==
    /\ found # <<>> => /\ pc = "done" /\ IsBest(found, active)
                       /\ Len(found) <= MaxPathLen + 1
                       /\ \A i \in 1..Len(found) : found[i] \in touched
    /\ pc = "deepen" => \A q \in ValidPaths(active) :
          /\ (~cutoff \/ Len(q) <= depth + 1) => Pending(q)
          /\ depth > 1 => Len(q) > depth
    /\ (pc = "record" \/ Finished) =>
          \A q \in ValidPaths(active) : cutoff /\ Len(q) > MaxPathLen + 1

\* A branch that settles a walk for good.
Settles(b, q) ==
    /\ b[1] \in Seq(Certs) /\ Covers(b, q) /\ b[2] # "NO_ISSUER"
    /\ b[2] = "NO_TRUSTED_ANCHOR" =>
          Len(b[1]) >= 2 /\ b[1][Len(b[1])] \notin ReachableIn(active)

Recorded(q) == cutoff \/ q \in Open(active) \/ \E b \in branches : Settles(b, q)

\* The last certificate of a walk is touched once the walk before it is gone through.
Tapped(q) ==
    (Len(q) >= 2 /\ SubSeq(q, 1, Len(q) - 1) \in Open(active)) => q[Len(q)] \in touched

\* What the recording pass owes to every walk of the graph.
RecordInv ==
    /\ pc = "record" => \A q \in Walks(active) : Pending(q) \/ (Recorded(q) /\ Tapped(q))
    /\ Finished => \A q \in Walks(active) : Recorded(q) /\ Tapped(q)

SearchInv == ControlInv /\ StackInv /\ ResultInv /\ RecordInv

\* How a walk goes on that agrees with the path as far as the path goes.
LEMMA AgreesWhole ==
    ASSUME ActiveOK, StackInv, path # <<>>,
           NEW q \in Walks(active), Agrees(q, Len(path))
    PROVE  /\ SubSeq(q, 1, Len(path)) = path
           /\ (Len(q) = Len(path) \/ Current \in world.anchors) => q = path
           /\ Len(q) # Len(path) => q[Len(path) + 1] \in Candidates
<1> DEFINE n == Len(path)
<1>1. /\ path \in Seq(Certs) /\ q \in Seq(Certs) /\ n \in Nat \ {0} /\ Len(q) \in Nat
      /\ n <= Len(q) /\ \A j \in 1..n : path[j] = q[j]
  BY StackFacts, LenProperties DEF StackInv, Agrees
<1>2. IsWalk(q, active)
  BY WalkIff DEF ActiveOK
<1>3. SubSeq(q, 1, n) = SubSeq(path, 1, n) /\ SubSeq(path, 1, n) = path
  <2>1. n \in Nat /\ n <= Len(path)
    BY <1>1
  <2>2. SubSeq(q, 1, n) = SubSeq(path, 1, n)
    BY <1>1, <2>1, SamePrefix
  <2> QED BY <1>1, <2>2, SubSeqFull
<1>4. Len(q) = n => q = path
  <2>1. SubSeq(q, 1, Len(q)) = q
    BY <1>1, SubSeqFull
  <2> QED BY <1>3, <2>1
<1>5. ASSUME Len(q) # n
      PROVE  Current \notin world.anchors /\ q[n + 1] \in Candidates
  <2>1. n \in 1..Len(q) - 1 /\ n \in 1..Len(q) /\ n + 1 \in 1..Len(q)
    BY <1>1, <1>5
  <2>2. /\ q[n] \notin world.anchors /\ q[n + 1] \in active
        /\ <<q[n], q[n + 1]>> \in world.issued
    BY <1>2, <2>1 DEF IsWalk
  <2>3. q[n] = Current
    BY <1>1 DEF Current
  <2>4. \A i \in 1..n : path[i] # q[n + 1]
    <3>1. \A i \in 1..n : i \in 1..Len(q) /\ i # n + 1
      BY <1>1
    <3> QED BY <1>1, <1>2, <2>1, <3>1 DEF IsWalk
  <2>5. DOMAIN path = 1..n
    BY <1>1, LenProperties
  <2> QED BY <2>2, <2>3, <2>4, <2>5 DEF Candidates, Issuers
<1> QED
  BY <1>3, <1>4, <1>5

\* A walk that goes on to the issuer that is tried has the longer path before it.
LEMMA AgreesLonger ==
    ASSUME ActiveOK, StackInv, path # <<>>, NEW q \in Walks(active),
           Agrees(q, Len(path)), Len(path) < Len(q)
    PROVE  LET longer == Append(path, q[Len(path) + 1])
           IN  /\ longer \in Seq(Certs) /\ Len(longer) = Len(path) + 1
               /\ longer[Len(path) + 1] = q[Len(path) + 1]
               /\ Len(path) + 1 <= Len(q) /\ Len(q) \in Nat
               /\ longer = SubSeq(q, 1, Len(path) + 1)
<1> DEFINE n == Len(path)
           c == q[n + 1]
           longer == Append(path, c)
<1>1. /\ path \in Seq(Certs) /\ q \in Seq(Certs) /\ n \in Nat \ {0} /\ Len(q) \in Nat
      /\ n < Len(q) /\ n + 1 <= Len(q) /\ \A j \in 1..n : path[j] = q[j]
  BY StackFacts, LenProperties DEF StackInv, Agrees
<1>2. c \in Certs
  <2>1. n + 1 \in 1..Len(q)
    BY <1>1
  <2> QED BY <1>1, <2>1, ElementOfSeq
<1>3. /\ longer \in Seq(Certs) /\ Len(longer) = n + 1 /\ longer[n + 1] = c
      /\ \A j \in 1..n : longer[j] = path[j]
  BY <1>1, <1>2, AppendProperties
<1>4. \A j \in 1..n + 1 : longer[j] = q[j]
  <2>1. \A j \in 1..n + 1 : j \in 1..n \/ j = n + 1
    BY <1>1
  <2> HIDE DEF longer
  <2> QED BY <1>1, <1>3, <2>1
<1>5. SubSeq(longer, 1, n + 1) = SubSeq(q, 1, n + 1)
  <2> HIDE DEF longer
  <2>1. n + 1 \in Nat /\ n + 1 <= Len(longer)
    BY <1>1, <1>3
  <2> QED BY <1>1, <1>3, <1>4, <2>1, SamePrefix
<1>6. SubSeq(longer, 1, n + 1) = longer
  <2> HIDE DEF longer
  <2> QED BY <1>3, SubSeqFull
<1> QED
  BY <1>1, <1>3, <1>5, <1>6

\* What a sound walk says of each edge.
LEMMA SoundEdge ==
    ASSUME NEW S, NEW w \in SoundWalks(S), NEW i \in 1..Len(w) - 1
    PROVE  EdgeFailure(SubSeq(w, 1, i), w[i + 1]) = "NONE"
BY DEF SoundWalks, Passes

\* An issuer that a valid path goes on to passes, and is not where the path is cut.
LEMMA TriedOnValid ==
    ASSUME ActiveOK, StackInv, path # <<>>, NEW q \in ValidPaths(active),
           Agrees(q, Len(path)), Len(path) < Len(q)
    PROVE  LET parent == q[Len(path) + 1]
           IN  /\ EdgeFailure(path, parent) = "NONE" /\ parent \in ReachableIn(active)
               /\ parent \notin world.anchors => Len(path) + 1 < Len(q)
<1> DEFINE n == Len(path)
<1>1. q \in SoundWalks(active) /\ q[Len(q)] \in world.anchors /\ q \in Walks(active)
  BY ValidIff DEF ActiveOK, SoundWalks
<1>2. n \in Nat \ {0} /\ Len(q) \in Nat /\ n + 1 <= Len(q) /\ n \in 1..Len(q) - 1
  BY <1>1, StackFacts, AgreesLonger
<1>3. SubSeq(q, 1, n) = path
  BY <1>1, AgreesWhole
<1>4. EdgeFailure(path, q[n + 1]) = "NONE"
  BY <1>1, <1>2, <1>3, SoundEdge
<1>5. q[n + 1] \in ReachableIn(active)
  <2>1. n + 1 \in 2..Len(q)
    BY <1>2
  <2> QED BY <1>1, <2>1 DEF SoundWalks
<1>6. q[n + 1] \notin world.anchors => n + 1 < Len(q)
  BY <1>1, <1>2
<1> QED
  BY <1>4, <1>5, <1>6

\* An issuer that is turned down, or not followed at the limit, is the last certificate of
\* the walks through it that Tapped speaks of.
LEMMA TriedIsLast ==
    ASSUME ActiveOK, StackInv, path # <<>>, NEW q \in Walks(active),
           Agrees(q, Len(path)), Len(path) < Len(q),
           \/ EdgeFailure(path, q[Len(path) + 1]) # "NONE"
           \/ q[Len(path) + 1] \notin ReachableIn(active)
           \/ Len(path) >= MaxPathLen,
           SubSeq(q, 1, Len(q) - 1) \in Open(active)
    PROVE  Len(q) = Len(path) + 1
<1> DEFINE n == Len(path)
           w == SubSeq(q, 1, Len(q) - 1)
<1>1. n \in Nat \ {0} /\ Len(q) \in Nat /\ n + 1 <= Len(q) /\ q \in Seq(Certs)
  BY StackFacts, AgreesLonger DEF Agrees
<1>2. q # <<>>
  BY <1>1, EmptySeq
<1>3. Len(w) = Len(q) - 1 /\ \A i \in 1..Len(q) - 1 : w[i] = q[i]
  BY <1>1, <1>2, FrontOf
<1>4. w \in SoundWalks(active) /\ Len(w) <= MaxPathLen
  BY DEF Open
<1>5. ASSUME n + 1 < Len(q) PROVE FALSE
  <2>1. n \in 1..Len(w) - 1 /\ n + 1 \in 2..Len(w) /\ w[n + 1] = q[n + 1]
    BY <1>1, <1>3, <1>5
  <2>2. SubSeq(w, 1, n) = path
    <3>1. SubSeq(q, 1, n) = path
      BY AgreesWhole
    <3>2. Len(q) - 1 \in 1..Len(q) /\ n \in 1..Len(q) - 1
      BY <1>1, <1>5
    <3>3. SubSeq(w, 1, n) = SubSeq(q, 1, n)
      BY <1>1, <3>2, InitialSegment
    <3> QED BY <3>1, <3>3
  <2> HIDE DEF w
  <2>3. EdgeFailure(path, q[n + 1]) = "NONE"
    BY <1>4, <2>1, <2>2, SoundEdge
  <2>4. q[n + 1] \in ReachableIn(active)
    BY <1>4, <2>1 DEF SoundWalks
  <2>5. ~(n >= MaxPathLen)
    BY <1>1, <1>3, <1>4, <1>5, ExplorerAssumption
  <2> QED BY <2>3, <2>4, <2>5
<1> QED
  BY <1>1, <1>5

\* The branch of an issuer that is turned down settles every walk through it.
LEMMA TriedSettles ==
    ASSUME ActiveOK, StackInv, path # <<>>, NEW q \in Walks(active),
           Agrees(q, Len(path)), Len(path) < Len(q), NEW code,
           code # "NO_ISSUER",
           code = "NO_TRUSTED_ANCHOR" => q[Len(path) + 1] \notin ReachableIn(active)
    PROVE  Settles(<<Append(path, q[Len(path) + 1]), code>>, q)
<1> DEFINE longer == Append(path, q[Len(path) + 1])
           b == <<longer, code>>
<1>1. /\ longer \in Seq(Certs) /\ Len(longer) = Len(path) + 1
      /\ longer[Len(path) + 1] = q[Len(path) + 1]
      /\ Len(path) + 1 <= Len(q) /\ longer = SubSeq(q, 1, Len(path) + 1)
      /\ Len(path) \in Nat \ {0}
  BY AgreesLonger, StackFacts
<1>2. b[1] = longer /\ b[2] = code
  OBVIOUS
<1> HIDE DEF longer
<1>3. Covers(b, q)
  BY <1>1, <1>2 DEF Covers
<1>4. Len(b[1]) >= 2 /\ b[1][Len(b[1])] = q[Len(path) + 1]
  BY <1>1, <1>2
<1> HIDE DEF b
<1>5. Settles(b, q)
  BY <1>1, <1>2, <1>3, <1>4 DEF Settles
<1> QED
  BY <1>5 DEF b, longer

\* A branch that is the walk itself settles it.
LEMMA OwnBranchSettles ==
    ASSUME NEW q \in Seq(Certs), NEW code, code \notin {"NO_ISSUER", "NO_TRUSTED_ANCHOR"}
    PROVE  Settles(<<q, code>>, q)
<1> DEFINE b == <<q, code>>
<1>1. b[1] = q /\ b[2] = code
  OBVIOUS
<1>2. Len(q) \in Nat /\ SubSeq(q, 1, Len(q)) = q
  BY LenProperties, SubSeqFull
<1> HIDE DEF b
<1>3. Settles(b, q)
  BY <1>1, <1>2 DEF Settles, Covers
<1> QED
  BY <1>3 DEF b

LEMMA StartStack ==
    ASSUME ControlInv, StackInv, Start
    PROVE  /\ StackInv' /\ world' = world /\ active' = active
           /\ path' # <<>> => \A q \in Walks(active) : Pending(q)'
<1>1. path = <<>> /\ ActiveOK /\ UNCHANGED <<world, active, todo>>
  BY DEF ControlInv, Start
<1>2. CASE path' = <<world.leaf>>
  BY <1>1, <1>2, RenewKept
<1>3. CASE UNCHANGED path
  BY <1>1, <1>3, Frozen DEF StackInv, TodoOK
<1> QED
  BY <1>1, <1>2, <1>3 DEF Start

\* What TryIssuer does with the issuer it tries.
Turned(parent) ==
    \E code :
        /\ Reject(Append(path, parent), code) /\ code # "NO_ISSUER"
        /\ EdgeFailure(path, parent) # "NONE" \/ parent \notin ReachableIn(active)
        /\ code = "NO_TRUSTED_ANCHOR" => parent \notin ReachableIn(active)
        /\ UNCHANGED <<path, cutoff>>

Followed(parent) ==
    /\ EdgeFailure(path, parent) = "NONE" /\ parent \in ReachableIn(active)
    /\ parent \notin world.anchors => depth - Len(path) + 1 > 1
    /\ path' = Append(path, parent)
    /\ UNCHANGED <<cutoff, branches>>

Cut(parent) ==
    /\ parent \notin world.anchors
    /\ depth - Len(path) + 1 <= 1
    /\ cutoff' = TRUE
    /\ UNCHANGED <<path, branches>>

LEMMA TryCases ==
    ASSUME ControlInv, StackInv, TryIssuer
    PROVE  \E parent :
              /\ Tries(parent) /\ touched' = touched \cup {parent}
              /\ UNCHANGED <<world, active, pc, depth, found, exhausted>>
              /\ budget' \in 0..MaxBranches
              /\ Turned(parent) \/ Followed(parent) \/ Cut(parent)
<1> DEFINE parent == Least(todo[Len(todo)])
           failure == EdgeFailure(path, parent)
           longer == Append(path, parent)
<1>1. Tries(parent) /\ touched' = touched \cup {parent}
  BY DEF TryIssuer, Tries
<1>2. UNCHANGED <<world, active, pc, depth, found, exhausted>>
  BY DEF TryIssuer
<1>3. budget' \in 0..MaxBranches
  BY ExplorerAssumption DEF TryIssuer, CanSpend, Spend, ControlInv, SearchTypeOK
<1>4. depth \in Int /\ Len(path) \in Int
  BY StackFacts DEF ControlInv, SearchTypeOK
<1>5. \/ /\ failure # "NONE"
         /\ Reject(longer, failure)
         /\ UNCHANGED <<path, cutoff>>
      \/ /\ failure = "NONE" /\ parent \in world.anchors
         /\ path' = longer
         /\ UNCHANGED <<cutoff, branches>>
      \/ /\ failure = "NONE" /\ parent \notin world.anchors
         /\ parent \notin ReachableIn(active)
         /\ Reject(longer, "NO_TRUSTED_ANCHOR")
         /\ UNCHANGED <<path, cutoff>>
      \/ /\ failure = "NONE" /\ parent \notin world.anchors
         /\ parent \in ReachableIn(active)
         /\ IF depth - Len(path) + 1 <= 1
            THEN cutoff' = TRUE /\ UNCHANGED path
            ELSE path' = longer /\ UNCHANGED cutoff
         /\ UNCHANGED branches
  BY DEF TryIssuer
<1>6. parent \in active
  BY <1>1, TryFacts DEF ControlInv
<1>7. failure \notin {"NO_ISSUER", "NO_TRUSTED_ANCHOR"}
  BY CheckCodes
<1>8. Turned(parent) \/ Followed(parent) \/ Cut(parent)
  <2> HIDE DEF parent
  <2>1. CASE failure # "NONE"
    BY <1>5, <1>7, <2>1 DEF Turned
  <2>2. CASE failure = "NONE" /\ parent \in world.anchors
    BY <1>5, <1>6, <2>2, ReachableClosed DEF Followed
  <2>3. CASE failure = "NONE" /\ parent \notin world.anchors /\ parent \notin ReachableIn(active)
    BY <1>5, <2>3 DEF Turned
  <2>4. CASE failure = "NONE" /\ parent \notin world.anchors /\ parent \in ReachableIn(active)
    BY <1>4, <1>5, <2>4 DEF Followed, Cut
  <2> QED BY <2>1, <2>2, <2>3, <2>4
<1> QED
  <2> HIDE DEF parent
  <2> QED BY <1>1, <1>2, <1>3, <1>8

\* Each step keeps the call stack in order.
LEMMA StackKept ==
    ASSUME ControlInv, StackInv, SearchStep
    PROVE  StackInv' /\ UNCHANGED <<world, active>>
<1>1. ActiveOK
  BY DEF ControlInv
<1>2. CASE Start
  BY <1>2, StartStack
<1>3. ASSUME UNCHANGED <<world, active, path, todo>> PROVE StackInv'
  BY <1>3, Frozen DEF StackInv, TodoOK
<1>4. CASE Exhaust
  BY <1>3, <1>4 DEF Exhaust
<1>5. CASE EnterAnchor
  <2>1. CASE UNCHANGED path
    BY <1>3, <1>5, <2>1 DEF EnterAnchor
  <2>2. CASE path' = SubSeq(path, 1, Len(path) - 1)
    BY <1>1, <1>5, <2>2, RefuseKept DEF EnterAnchor
  <2> QED BY <1>5, <2>1, <2>2 DEF EnterAnchor
<1>6. CASE Enter
  <2>1. CASE Candidates = {}
    BY <1>1, <1>6, <2>1, RefuseKept DEF Enter
  <2>2. CASE Candidates # {}
    BY <1>1, <1>6, <2>2, EnterKept DEF Enter
  <2> QED BY <2>1, <2>2, <1>6 DEF Enter
<1>7. CASE TryIssuer
  <2>1. PICK parent :
           /\ Tries(parent) /\ UNCHANGED <<world, active>>
           /\ Turned(parent) \/ Followed(parent) \/ Cut(parent)
    BY <1>7, TryCases
  <2>2. CASE UNCHANGED path
    BY <1>1, <2>1, <2>2, SkipKept
  <2>3. CASE Followed(parent)
    BY <1>1, <2>1, <2>3, FollowKept DEF Followed
  <2> QED BY <2>1, <2>2, <2>3 DEF Turned, Cut
<1>8. CASE Return
  BY <1>1, <1>8, UnwindKept DEF Return
<1>9. CASE NextPass
  <2>1. CASE path' = <<world.leaf>>
    BY <1>1, <1>9, <2>1, RenewKept DEF NextPass
  <2>2. CASE UNCHANGED path
    BY <1>3, <1>9, <2>2 DEF NextPass
  <2> QED BY <1>9, <2>1, <2>2 DEF NextPass
<1> QED
  BY <1>2, <1>4, <1>5, <1>6, <1>7, <1>8, <1>9
     DEF SearchStep, Exhaust, EnterAnchor, Enter, TryIssuer, Return, NextPass

\* The sizes of the path and of its front.
LEMMA PopFacts ==
    ASSUME ControlInv, StackInv, path # <<>>, path' = SubSeq(path, 1, Len(path) - 1)
    PROVE  /\ Len(path') = Len(path) - 1 /\ Len(path) \in Nat \ {0} /\ Len(path') \in Nat
           /\ \A i \in 1..Len(path') : i \in 1..Len(path) /\ path'[i] = path[i]
           /\ path' # <<>> => /\ Len(path') \in 1..Len(path) - 1
                              /\ path[Len(path')] \notin world.anchors
<1>1. ActiveOK /\ path \in Seq(Certs) /\ path \in SoundWalks(active)
  BY DEF ControlInv, StackInv
<1>2. Len(path) \in Nat \ {0}
  BY <1>1, StackFacts
<1>3. /\ path' \in Seq(Certs) /\ Len(path') = Len(path) - 1
      /\ \A i \in 1..Len(path) - 1 : path'[i] = path[i]
  BY <1>1, FrontOf
<1>4. path' # <<>> => Len(path') \in 1..Len(path) - 1
  BY <1>2, <1>3, EmptySeq
<1>5. IsWalk(path, active)
  BY <1>1, WalkIff DEF SoundWalks, ActiveOK
<1>6. path' # <<>> => path[Len(path')] \notin world.anchors
  BY <1>4, <1>5 DEF IsWalk
<1> QED
  BY <1>2, <1>3, <1>4, <1>6

LEMMA ControlKept ==
    ASSUME ControlInv, StackInv, SearchStep
    PROVE  ControlInv'
<1>1. /\ StackInv' /\ UNCHANGED <<world, active>> /\ LeafFailure' = LeafFailure
      /\ ActiveOK /\ ActiveOK' /\ SearchTypeOK /\ Len(path) \in Nat
  BY StackKept, Frozen, StackFacts DEF ControlInv, ActiveOK
<1>2. /\ path' \in Seq(Certs) /\ todo' \in Seq(SUBSET Certs)
      /\ Len(todo') <= Len(path') /\ Len(path') <= Len(todo') + 1
      /\ world' \in WorldType /\ active' \subseteq Certs
  BY <1>1 DEF StackInv, ActiveOK
<1>3. CanSpend /\ Spend => budget' \in 0..MaxBranches
  BY <1>1, ExplorerAssumption DEF SearchTypeOK, CanSpend, Spend
<1>4. depth \in 1..MaxPathLen /\ MaxPathLen \in 1..MaxPathLen /\ depth \in Nat
  BY <1>1, ExplorerAssumption DEF SearchTypeOK
<1>5. CASE Start
  <2>1. CASE LeafFailure # "NONE"
    BY <1>1, <1>2, <1>5, <2>1 DEF Start, ControlInv, SearchTypeOK, Running, ActiveOK
  <2>2. CASE LeafFailure = "NONE"
    <3>1. path' = <<world.leaf>> /\ Len(path') = 1 /\ path'[1] = world.leaf
      BY <1>5, <2>2 DEF Start
    <3>2. 1 <= depth /\ 1 <= depth + 1
      BY <1>4
    <3>3. SearchTypeOK'
      BY <1>1, <1>2, <1>5, <2>2 DEF Start, ControlInv, SearchTypeOK, Running, ActiveOK
    <3>4. pc' = "deepen" /\ found' = <<>> /\ ~exhausted' /\ LeafFailure' = "NONE"
      BY <1>1, <1>5, <2>2 DEF Start, ControlInv
    <3>5. /\ world'.leaf \in touched' /\ touched' \subseteq active' /\ depth' = depth
          /\ \A i \in 1..Len(path') : path'[i] \in touched'
      BY <1>1, <1>5, <3>1 DEF Start, ControlInv, ActiveOK
    <3> QED BY <1>1, <3>1, <3>2, <3>3, <3>4, <3>5 DEF ControlInv, Running
  <2> QED BY <2>1, <2>2
<1>6. CASE Running /\ Exhaust
  BY <1>1, <1>2, <1>6 DEF Exhaust, ControlInv, SearchTypeOK, Running
<1>7. ASSUME Running, path # <<>>, path' = SubSeq(path, 1, Len(path) - 1),
             UNCHANGED <<pc, depth, cutoff, touched, found, exhausted>>,
             budget' \in 0..MaxBranches
      PROVE  ControlInv'
  <2>1. /\ Len(path') = Len(path) - 1 /\ Len(path) \in Nat \ {0}
        /\ \A i \in 1..Len(path') : i \in 1..Len(path) /\ path'[i] = path[i]
        /\ path' # <<>> => /\ Len(path') \in 1..Len(path) - 1
                           /\ path[Len(path')] \notin world.anchors
    BY <1>7, PopFacts
  <2>2. SearchTypeOK'
    BY <1>1, <1>2, <1>7 DEF SearchTypeOK
  <2>3. Len(path') <= depth
    BY <1>4, <1>7, <2>1 DEF ControlInv
  <2>4. \A i \in 1..Len(path') : path'[i] \in touched'
    BY <1>7, <2>1 DEF ControlInv
  <2>5. Running' /\ pc' # "start" /\ depth' = depth
    BY <1>7 DEF Running
  <2>6. Len(path') <= depth' + 1 /\ Len(path') <= depth'
    BY <1>4, <2>1, <2>3, <2>5
  <2> QED BY <1>1, <1>7, <2>2, <2>4, <2>5, <2>6 DEF ControlInv, Running
<1>8. CASE Running /\ EnterAnchor
  <2>1. CASE TerminalFailure(path) = "NONE"
    <3>1. pc' = "done" /\ found' \in Seq(Certs)
      BY <1>1, <1>8, <2>1 DEF EnterAnchor, SearchTypeOK
    <3>2. SearchTypeOK'
      BY <1>1, <1>2, <1>3, <1>8, <3>1 DEF EnterAnchor, SearchTypeOK
    <3> QED BY <1>1, <1>8, <3>1, <3>2 DEF EnterAnchor, ControlInv, Running
  <2>2. CASE TerminalFailure(path) # "NONE"
    BY <1>3, <1>7, <1>8, <2>2 DEF EnterAnchor
  <2> QED BY <2>1, <2>2
<1>9. CASE Running /\ Enter
  <2>1. CASE Candidates = {}
    BY <1>3, <1>7, <1>9, <2>1 DEF Enter
  <2>2. CASE Candidates # {}
    <3>1. SearchTypeOK'
      BY <1>1, <1>2, <1>3, <1>9 DEF Enter, SearchTypeOK
    <3>2. UNCHANGED <<path, pc, depth, touched, found, exhausted, world, active>>
      BY <1>9, <2>2 DEF Enter
    <3> QED BY <1>1, <1>9, <3>1, <3>2 DEF ControlInv, Running, Current
  <2> QED BY <2>1, <2>2
<1>10. CASE Running /\ TryIssuer
  <2>1. PICK parent :
           /\ Tries(parent) /\ touched' = touched \cup {parent}
           /\ UNCHANGED <<world, active, pc, depth, found, exhausted>>
           /\ budget' \in 0..MaxBranches
           /\ Turned(parent) \/ Followed(parent) \/ Cut(parent)
    BY <1>10, TryCases
  <2>2. parent \in active /\ parent \in Certs /\ path[Len(path)] \notin world.anchors
    BY <1>1, <2>1, TryFacts DEF ControlInv
  <2>3. cutoff' \in BOOLEAN
    BY <1>1, <2>1 DEF SearchTypeOK, Turned, Followed, Cut
  <2>4. SearchTypeOK' /\ touched' \subseteq active'
    BY <1>1, <1>2, <2>1, <2>2, <2>3 DEF SearchTypeOK, ControlInv
  <2>5. CASE UNCHANGED path
    BY <1>1, <1>10, <2>1, <2>4, <2>5 DEF ControlInv, Running, Current
  <2>6. CASE Followed(parent)
    <3>1. path' = Append(path, parent) /\ path \in Seq(Certs) /\ path # <<>>
      BY <1>1, <2>1, <2>6 DEF Followed, SearchTypeOK, Tries
    <3>2. /\ Len(path') = Len(path) + 1 /\ path'[Len(path) + 1] = parent
          /\ \A i \in 1..Len(path) : path'[i] = path[i]
      BY <2>2, <3>1, AppendProperties
    <3>3. Len(path) <= depth
      BY <1>10, <2>2, <3>1 DEF ControlInv, Current
    <3>4. parent \notin world.anchors => Len(path) + 1 <= depth
      BY <1>1, <1>4, <2>6 DEF Followed
    <3>5. Len(path') <= depth' + 1
      BY <1>1, <1>4, <2>1, <3>2, <3>3
    <3>6. Current' \notin world'.anchors => Len(path') <= depth'
      BY <2>1, <3>2, <3>4 DEF Current
    <3>7. \A i \in 1..Len(path') : path'[i] \in touched'
      <4>1. \A i \in 1..Len(path') : i \in 1..Len(path) \/ i = Len(path) + 1
        BY <1>1, <3>2
      <4> QED BY <1>10, <2>1, <3>2, <4>1 DEF ControlInv
    <3> QED BY <1>1, <1>10, <2>1, <2>4, <3>5, <3>6, <3>7 DEF ControlInv, Running
  <2> QED BY <2>1, <2>5, <2>6 DEF Turned, Cut
<1>11. CASE Running /\ Return
  BY <1>1, <1>7, <1>11 DEF Return, SearchTypeOK
<1>12. CASE Running /\ NextPass
  <2>1. CASE pc' = "done" /\ UNCHANGED <<depth, cutoff>>
    BY <1>1, <1>2, <1>12, <2>1 DEF NextPass, ControlInv, SearchTypeOK, Running
  <2>2. CASE /\ path' = <<world.leaf>> /\ cutoff' \in BOOLEAN /\ depth' \in 1..MaxPathLen
             /\ pc' \in {"deepen", "record"}
             /\ pc' = "record" => depth' = MaxPathLen
    <3> DEFINE d == depth'
    <3>1. Len(path') = 1 /\ path'[1] = world.leaf
      BY <2>2
    <3>2. SearchTypeOK'
      BY <1>1, <1>2, <1>12, <2>2 DEF NextPass, SearchTypeOK
    <3>3. found' = <<>> /\ ~exhausted' /\ LeafFailure' = "NONE"
      BY <1>1, <1>12 DEF NextPass, ControlInv
    <3>4. /\ world'.leaf \in touched' /\ touched' \subseteq active'
          /\ \A i \in 1..Len(path') : path'[i] \in touched'
      BY <1>1, <1>12, <3>1 DEF NextPass, ControlInv
    <3>5. Len(path') <= depth' /\ Len(path') <= depth' + 1
      <4>1. d \in 1..MaxPathLen /\ MaxPathLen \in Nat
        BY <2>2, ExplorerAssumption
      <4> HIDE DEF d
      <4>2. 1 <= d /\ 1 <= d + 1
        BY <4>1
      <4> QED BY <3>1, <4>2 DEF d
    <3> QED BY <1>1, <2>2, <3>2, <3>3, <3>4, <3>5 DEF ControlInv, Running
  <2>3. pc = "deepen" /\ cutoff /\ depth < MaxPathLen => depth + 1 \in 1..MaxPathLen
    BY <1>4, ExplorerAssumption
  <2> QED BY <1>1, <1>4, <1>12, <2>1, <2>2, <2>3 DEF NextPass, SearchTypeOK
<1> QED
  BY <1>5, <1>6, <1>8, <1>9, <1>10, <1>11, <1>12 DEF SearchStep

\* A valid path has a length.
LEMMA ValidSize ==
    ASSUME ActiveOK, NEW q \in ValidPaths(active)
    PROVE  q \in Walks(active) /\ q \in Seq(Certs) /\ Len(q) \in Nat \ {0}
<1>1. q \in Walks(active)
  BY DEF ValidPaths, Chains
<1>2. IsWalk(q, active)
  BY <1>1, WalkIff DEF ActiveOK
<1> QED
  BY <1>1, <1>2, EmptySeq DEF IsWalk

\* The first valid path a deepening pass comes to is the best there is: what is still
\* before the pass comes later in the order of siblings and is no shorter, what an earlier
\* pass went through does not count as a path, and what the limit hides is longer.
LEMMA PathIsBest ==
    ASSUME ControlInv, StackInv, ResultInv, pc = "deepen",
           path # <<>>, Len(todo) < Len(path),
           Current \in world.anchors, TerminalFailure(path) = "NONE"
    PROVE  IsBest(path, active)
<1> DEFINE n == Len(path)
<1>1. /\ ActiveOK /\ n \in Nat \ {0} /\ Len(todo) \in Nat /\ depth \in Nat \ {0}
      /\ n <= depth + 1 /\ Len(todo) = n - 1
  <2>1. ActiveOK /\ n \in Nat \ {0} /\ Len(todo) \in Nat
    BY StackFacts DEF ControlInv
  <2>2. depth \in Nat \ {0} /\ n <= depth + 1
    BY DEF ControlInv, SearchTypeOK, Running
  <2> QED BY <2>1, <2>2 DEF StackInv
<1>2. path \in ValidPaths(active)
  BY <1>1, ValidIff DEF ControlInv, StackInv, ActiveOK, Running, Current
<1>3. ASSUME NEW q \in ValidPaths(active) PROVE q = path \/ Precedes(path, q)
  <2>1. q \in Walks(active) /\ Len(q) \in Nat \ {0}
    BY <1>1, ValidSize
  <2>2. /\ (~cutoff \/ Len(q) <= depth + 1) => Pending(q)
        /\ depth > 1 => Len(q) > depth
    BY DEF ResultInv
  <2>3. CASE ~Pending(q)
    BY <1>1, <2>1, <2>2, <2>3 DEF Precedes
  <2>4. CASE Pending(q)
    <3>1. PICK i \in 1..n :
             Agrees(q, i) /\ (i <= Len(todo) => i < Len(q) /\ q[i + 1] \in todo[i])
      BY <2>4 DEF Pending
    <3>2. CASE i = n
      BY <1>1, <2>1, <3>1, <3>2, AgreesWhole
    <3>3. CASE i # n
      <4>1. /\ i \in 1..Len(todo) /\ i < n /\ i + 1 \in 1..n
            /\ i < Len(q) /\ q[i + 1] \in todo[i] /\ \A j \in 1..i : path[j] = q[j]
        BY <1>1, <3>1, <3>3 DEF Agrees
      <4>2. path[i + 1] < q[i + 1]
        BY <4>1 DEF StackInv, TodoOK
      <4>3. n <= Len(q)
        <5>1. CASE depth > 1
          BY <1>1, <2>1, <2>2, <5>1
        <5>2. CASE depth = 1
          BY <1>1, <2>1, <4>1, <5>2
        <5> QED BY <1>1, <5>1, <5>2
      <4>4. \A j \in 1..(i + 1) - 1 : path[j] = q[j]
        BY <4>1
      <4>5. Len(path) < Len(q) \/ Len(path) = Len(q)
        BY <1>1, <2>1, <4>3
      <4> QED BY <4>1, <4>2, <4>4, <4>5 DEF Precedes
    <3> QED BY <3>2, <3>3
  <2> QED BY <2>3, <2>4
<1> QED
  BY <1>2, <1>3 DEF IsBest

\* A step within a pass that leaves no valid path behind.
LEMMA ResultHolds ==
    ASSUME ControlInv, ResultInv, Running,
           UNCHANGED <<world, active, pc, depth, found, exhausted>>, cutoff => cutoff',
           \A q \in ValidPaths(active) :
              (pc = "deepen" /\ Pending(q) /\ (~cutoff' \/ Len(q) <= depth + 1)) => Pending(q)'
    PROVE  ResultInv'
<1>1. ValidPaths(active)' = ValidPaths(active)
  BY Frozen
<1>2. found' = <<>> /\ pc' = pc /\ pc \in {"deepen", "record"} /\ depth' = depth
  BY DEF ControlInv, Running
<1>3. ASSUME pc' = "deepen", NEW q \in ValidPaths(active)
      PROVE  /\ (~cutoff' \/ Len(q) <= depth' + 1) => Pending(q)'
             /\ depth' > 1 => Len(q) > depth'
  BY <1>2, <1>3 DEF ResultInv
<1>4. ASSUME pc' = "record" \/ Finished', NEW q \in ValidPaths(active)
      PROVE  cutoff' /\ Len(q) > MaxPathLen + 1
  BY <1>2, <1>4 DEF ResultInv, Finished, Completed
<1> QED
  BY <1>1, <1>2, <1>3, <1>4 DEF ResultInv

LEMMA ResultKept ==
    ASSUME ControlInv, StackInv, ResultInv, SearchStep
    PROVE  ResultInv'
<1>1. /\ StackInv' /\ UNCHANGED <<world, active>> /\ ActiveOK /\ ControlInv'
      /\ ValidPaths(active)' = ValidPaths(active)
  BY StackKept, ControlKept, Frozen DEF ControlInv
<1>2. /\ depth \in Nat \ {0} /\ MaxPathLen \in Nat \ {0} /\ Len(path) \in Nat
      /\ depth <= MaxPathLen
  BY <1>1, StackFacts, ExplorerAssumption DEF ControlInv, SearchTypeOK
<1>3. CASE Start
  <2>1. found = <<>> /\ found' = <<>>
    BY <1>3 DEF ControlInv, Start
  <2>2. CASE LeafFailure # "NONE"
    <3>1. ValidPaths(active) = {} /\ pc' = "done"
      BY <1>3, <2>2 DEF ValidPaths, Start
    <3> QED BY <1>1, <2>1, <3>1 DEF ResultInv
  <2>3. CASE LeafFailure = "NONE"
    <3>1. pc' = "deepen" /\ path' # <<>> /\ depth' = depth
      BY <1>3, <2>3 DEF Start
    <3>2. \A q \in ValidPaths(active) : Pending(q)'
      BY <1>1, <1>3, <3>1, StartStack, ValidSize
    <3>3. depth = 1
      BY <1>3 DEF ControlInv, Start
    <3> QED BY <1>1, <2>1, <3>1, <3>2, <3>3 DEF ResultInv, Finished, Completed
  <2> QED BY <2>2, <2>3
<1>4. CASE Running /\ Exhaust
  BY <1>1, <1>4 DEF Exhaust, ResultInv, ControlInv, Finished, Completed
<1>5. CASE Running /\ EnterAnchor
  <2>1. CASE TerminalFailure(path) = "NONE" /\ pc = "deepen"
    <3>1. IsBest(path, active)
      BY <1>5, <2>1, PathIsBest DEF EnterAnchor
    <3>2. Len(path) <= MaxPathLen + 1 /\ \A i \in 1..Len(path) : path[i] \in touched
      <4>1. Len(path) <= depth + 1 /\ \A i \in 1..Len(path) : path[i] \in touched
        BY <1>5 DEF ControlInv, EnterAnchor
      <4> QED BY <1>2, <4>1
    <3>3. found' = path /\ pc' = "done" /\ touched' = touched /\ path # <<>>
      BY <1>5, <2>1 DEF EnterAnchor
    <3>4. IsBest(found, active)'
      BY <1>1, <3>1, <3>3 DEF IsBest
    <3> QED BY <3>2, <3>3, <3>4 DEF ResultInv, Finished
  <2>2. CASE TerminalFailure(path) = "NONE" /\ pc = "record"
    <3>1. path \in ValidPaths(active)
      BY <1>1, <1>5, <2>2, ValidIff DEF ControlInv, StackInv, ActiveOK, EnterAnchor, Current
    <3>2. Len(path) > MaxPathLen + 1
      BY <2>2, <3>1 DEF ResultInv
    <3>3. Len(path) <= depth + 1
      BY <1>5 DEF ControlInv, EnterAnchor
    <3> QED BY <1>2, <3>2, <3>3
  <2>3. CASE TerminalFailure(path) # "NONE"
    <3>1. \A q \in ValidPaths(active) : Pending(q) => Pending(q)'
      <4>1. ASSUME NEW q \in ValidPaths(active), Pending(q) PROVE Pending(q)'
        <5>1. Pending(q)' \/ Agrees(q, Len(path))
          BY <1>1, <1>5, <2>3, <4>1, RefuseKept DEF EnterAnchor
        <5>2. Agrees(q, Len(path)) => q = path
          BY <1>1, <1>5, AgreesWhole, ValidSize DEF EnterAnchor
        <5>3. TerminalFailure(q) = "NONE"
          BY DEF ValidPaths
        <5> QED BY <2>3, <5>1, <5>2, <5>3
      <4> QED BY <4>1
    <3> QED BY <1>1, <1>5, <2>3, <3>1, ResultHolds DEF EnterAnchor
  <2> QED BY <1>5, <2>1, <2>2, <2>3 DEF Running
<1>6. CASE Running /\ Enter
  <2>1. ASSUME NEW q \in ValidPaths(active), Pending(q) PROVE Pending(q)'
    <3>1. Agrees(q, Len(path)) => Len(q) # Len(path) /\ q[Len(path) + 1] \in Candidates
      <4>1. q[Len(q)] \in world.anchors
        BY DEF ValidPaths, Chains
      <4> QED BY <1>1, <1>6, <4>1, AgreesWhole, ValidSize DEF Enter, Current
    <3>2. CASE Candidates = {}
      BY <1>1, <1>6, <2>1, <3>1, <3>2, RefuseKept DEF Enter
    <3>3. CASE Candidates # {}
      BY <1>1, <1>6, <2>1, <3>1, <3>3, EnterKept DEF Enter
    <3> QED BY <3>2, <3>3
  <2> QED BY <1>1, <1>6, <2>1, ResultHolds DEF Enter
<1>7. CASE Running /\ TryIssuer
  <2>1. PICK parent :
           /\ Tries(parent) /\ touched' = touched \cup {parent}
           /\ UNCHANGED <<world, active, pc, depth, found, exhausted>>
           /\ budget' \in 0..MaxBranches
           /\ Turned(parent) \/ Followed(parent) \/ Cut(parent)
    BY <1>7, TryCases
  <2>2. path # <<>> /\ (cutoff => cutoff')
    BY <2>1 DEF Tries, Turned, Followed, Cut
  <2>3. ASSUME NEW q \in ValidPaths(active), Pending(q), ~cutoff' \/ Len(q) <= depth + 1
        PROVE  Pending(q)'
    <3>1. CASE Followed(parent)
      BY <1>1, <2>1, <2>3, <3>1, FollowKept DEF Followed
    <3>2. CASE UNCHANGED path /\ Agrees(q, Len(path)) /\ Len(path) < Len(q)
               /\ q[Len(path) + 1] = parent /\ Turned(parent)
      BY <1>1, <2>2, <3>2, TriedOnValid DEF Turned
    <3>3. CASE UNCHANGED path /\ Agrees(q, Len(path)) /\ Len(path) < Len(q)
               /\ q[Len(path) + 1] = parent /\ Cut(parent)
      <4>1. Len(path) + 1 < Len(q) /\ Len(q) \in Nat
        BY <1>1, <2>2, <3>3, TriedOnValid, ValidSize DEF Cut
      <4>2. depth - Len(path) + 1 <= 1 /\ cutoff'
        BY <3>3 DEF Cut
      <4> QED BY <1>2, <2>3, <4>1, <4>2
    <3>4. CASE UNCHANGED path /\ ~(/\ Agrees(q, Len(path)) /\ Len(path) < Len(q)
                                  /\ q[Len(path) + 1] = parent)
      BY <1>1, <2>1, <2>3, <3>4, SkipKept
    <3> QED BY <2>1, <3>1, <3>2, <3>3, <3>4 DEF Turned, Cut
  <2> QED BY <1>7, <2>1, <2>2, <2>3, ResultHolds
<1>8. CASE Running /\ Return
  <2>1. \A q : Pending(q) => Pending(q)'
    BY <1>1, <1>8, UnwindKept DEF Return
  <2> QED BY <1>1, <1>8, <2>1, ResultHolds DEF Return
<1>9. CASE Running /\ NextPass
  <2>1. \A q : ~Pending(q)
    <3>1. 1..Len(path) = {}
      BY <1>1, <1>9, StackFacts DEF NextPass
    <3> QED BY <3>1 DEF Pending
  <2>2. found = <<>> /\ found' = <<>> /\ path = <<>> /\ UNCHANGED <<todo, exhausted>>
    BY <1>9 DEF ControlInv, NextPass
  <2>3. ASSUME pc' = "deepen", NEW q \in ValidPaths(active)
        PROVE  Pending(q)' /\ Len(q) > depth'
    <3>1. pc = "deepen" /\ depth' = depth + 1 /\ path' = <<world.leaf>>
      BY <1>9, <2>3 DEF NextPass
    <3>2. Len(q) > depth + 1
      <4>1. Len(q) \in Nat /\ ~(Len(q) <= depth + 1)
        BY <1>1, <2>1, <3>1, ValidSize DEF ResultInv
      <4> QED BY <1>2, <4>1
    <3>3. Pending(q)'
      BY <1>1, <2>2, <3>1, RenewKept, ValidSize
    <3> QED BY <3>1, <3>2, <3>3
  <2>4. ASSUME pc' \in {"record", "done"}, NEW q \in ValidPaths(active)
        PROVE  cutoff' /\ Len(q) > MaxPathLen + 1
    <3>1. CASE pc = "record"
      BY <1>9, <3>1 DEF NextPass, ResultInv
    <3>2. CASE pc = "deepen"
      <4>1. cutoff' = cutoff /\ ~(cutoff /\ depth < MaxPathLen)
        BY <1>9, <2>4, <3>2 DEF NextPass
      <4>2. Len(q) \in Nat /\ cutoff /\ ~(Len(q) <= depth + 1)
        BY <1>1, <2>1, <3>2, ValidSize DEF ResultInv
      <4>3. depth = MaxPathLen
        BY <1>2, <4>1, <4>2
      <4> QED BY <1>2, <4>1, <4>2, <4>3
    <3> QED BY <1>9, <3>1, <3>2 DEF Running
  <2>5. pc' \in {"deepen", "record", "done"}
    BY <1>9 DEF NextPass
  <2> QED BY <1>1, <2>2, <2>3, <2>4, <2>5 DEF ResultInv, Finished, Completed
<1> QED
  BY <1>3, <1>4, <1>5, <1>6, <1>7, <1>8, <1>9 DEF SearchStep

\* A step of the recording pass that settles the walks it leaves behind.
LEMMA RecordHolds ==
    ASSUME Running, RecordInv, UNCHANGED <<world, active, pc>>,
           branches \subseteq branches', touched \subseteq touched', cutoff => cutoff',
           pc = "record" => \A q \in Walks(active) :
              Pending(q) => Pending(q)' \/ (Recorded(q)' /\ Tapped(q)')
    PROVE  RecordInv'
<1>1. /\ Walks(active)' = Walks(active) /\ Open(active)' = Open(active)
      /\ ReachableIn(active)' = ReachableIn(active)
  BY Frozen
<1>2. pc' # "done" /\ (pc' = "record" => pc = "record")
  BY DEF Running
<1>3. \A b, q : Settles(b, q) => Settles(b, q)'
  BY <1>1 DEF Settles, Covers
<1>4. \A q : Recorded(q) => Recorded(q)'
  BY <1>1, <1>3 DEF Recorded
<1>5. \A q : Tapped(q) => Tapped(q)'
  BY <1>1 DEF Tapped
<1> QED
  BY <1>1, <1>2, <1>4, <1>5 DEF RecordInv, Finished, Completed

\* The last certificate of the path has been touched.
LEMMA PathIsTapped ==
    ASSUME ControlInv, StackInv, Running, path # <<>>, touched \subseteq touched',
           NEW q, q = path
    PROVE  Tapped(q)'
<1>1. Len(path) \in 1..Len(path)
  BY StackFacts DEF ControlInv
<1>2. path[Len(path)] \in touched
  BY <1>1 DEF ControlInv
<1> QED
  BY <1>2 DEF Tapped

LEMMA PathIsOpen ==
    ASSUME ControlInv, StackInv, pc = "record", path # <<>>, Current \notin world.anchors
    PROVE  path \in Open(active)
BY DEF ControlInv, StackInv, Open, Running, Current

LEMMA RecordKept ==
    ASSUME ControlInv, StackInv, ResultInv, RecordInv, SearchStep
    PROVE  RecordInv'
<1>1. /\ UNCHANGED <<world, active>> /\ ActiveOK /\ Len(path) \in Nat
      /\ Walks(active)' = Walks(active) /\ Open(active)' = Open(active)
      /\ ReachableIn(active)' = ReachableIn(active) /\ LeafFailure' = LeafFailure
  BY StackKept, StackFacts, Frozen DEF ControlInv
<1>2. \A b, q : Settles(b, q) => Settles(b, q)'
  BY <1>1 DEF Settles, Covers
<1>3. \A q \in Walks(active) : IsWalk(q, active) /\ q \in Seq(Certs) /\ Len(q) \in Nat \ {0}
  <2>1. ASSUME NEW q \in Walks(active) PROVE IsWalk(q, active)
    BY <1>1, WalkIff DEF ActiveOK
  <2> QED BY <2>1, EmptySeq DEF IsWalk
<1>4. CASE Start
  <2>1. CASE LeafFailure # "NONE"
    <3>1. pc' = "done" /\ branches' = {<<<<world.leaf>>, LeafFailure>>}
      BY <1>4, <2>1 DEF Start
    <3>2. Open(active)' = {}
      BY <1>1, <2>1 DEF Open
    <3>3. ASSUME NEW q \in Walks(active) PROVE Recorded(q)' /\ Tapped(q)'
      <4> DEFINE f == <<world.leaf>>
                 b == <<f, LeafFailure>>
      <4>1. b[1] = f /\ b[2] = LeafFailure /\ b \in branches'
        BY <3>1
      <4>2. b[2] \notin {"NO_ISSUER", "NO_TRUSTED_ANCHOR"}
        BY CheckCodes
      <4>3. world.leaf \in Certs
        BY <1>1 DEF ActiveOK
      <4>4. f \in Seq(Certs) /\ Len(f) = 1 /\ f[1] = q[1]
        BY <1>3, <4>3 DEF IsWalk
      <4> HIDE DEF f
      <4>5. SubSeq(f, 1, 1) = SubSeq(q, 1, 1) /\ SubSeq(f, 1, 1) = f
        <5>1. 1 \in Nat /\ 1 <= Len(f) /\ 1 <= Len(q) /\ \A i \in 1..1 : f[i] = q[i]
          BY <1>3, <4>4
        <5>2. SubSeq(f, 1, 1) = SubSeq(q, 1, 1)
          BY <1>3, <4>4, <5>1, SamePrefix
        <5> QED BY <4>4, <5>2, SubSeqFull
      <4>6. Settles(b, q)
        <5> HIDE DEF b
        <5>1. b[1] \in Seq(Certs) /\ Len(b[1]) = 1 /\ 1 <= Len(q) /\ b[1] = SubSeq(q, 1, 1)
          BY <1>3, <4>1, <4>4, <4>5
        <5>2. Covers(b, q)
          BY <5>1 DEF Covers
        <5> QED BY <4>2, <5>1, <5>2 DEF Settles
      <4>7. \E c \in branches' : Settles(c, q)'
        <5> HIDE DEF b
        <5> QED BY <1>2, <4>1, <4>6
      <4> QED BY <3>2, <4>7 DEF Recorded, Tapped
    <3> QED BY <1>1, <3>1, <3>3 DEF RecordInv
  <2>2. CASE LeafFailure = "NONE"
    BY <1>4, <2>2 DEF Start, RecordInv, Finished, Completed
  <2> QED BY <2>1, <2>2
<1>5. CASE Running /\ Exhaust
  BY <1>5 DEF Exhaust, RecordInv, Finished, Completed
<1>6. CASE Running /\ EnterAnchor
  <2>1. CASE TerminalFailure(path) = "NONE" /\ pc = "deepen"
    <3>1. found' = path /\ path # <<>> /\ pc' = "done"
      BY <1>6, <2>1 DEF EnterAnchor
    <3> QED BY <3>1 DEF RecordInv, Finished
  <2>2. CASE TerminalFailure(path) = "NONE" /\ pc = "record"
    <3>1. path \in ValidPaths(active)
      BY <1>1, <1>6, <2>2, ValidIff DEF ControlInv, StackInv, ActiveOK, EnterAnchor, Current
    <3>2. Len(path) > MaxPathLen + 1 /\ Len(path) <= depth + 1 /\ depth = MaxPathLen
      BY <1>6, <2>2, <3>1 DEF ResultInv, ControlInv, EnterAnchor
    <3> QED BY <1>1, <3>2, ExplorerAssumption
  <2>3. CASE TerminalFailure(path) # "NONE"
    <3> DEFINE code == TerminalFailure(path)
    <3>1. Reject(path, code) /\ path # <<>> /\ Current \in world.anchors
          /\ path' = SubSeq(path, 1, Len(path) - 1) /\ UNCHANGED <<pc, cutoff, touched, todo>>
          /\ Len(todo) < Len(path)
      BY <1>6, <2>3 DEF EnterAnchor
    <3>2. code \notin {"NO_ISSUER", "NO_TRUSTED_ANCHOR"}
      BY CheckCodes
    <3> HIDE DEF code
    <3>3. ASSUME pc = "record", NEW q \in Walks(active), Pending(q), ~Pending(q)'
          PROVE  Recorded(q)' /\ Tapped(q)'
      <4>1. Agrees(q, Len(path))
        BY <1>1, <3>1, <3>3, RefuseKept
      <4>2. q = path
        BY <1>1, <3>1, <4>1, AgreesWhole
      <4>3. Settles(<<q, code>>, q)
        BY <1>3, <3>2, OwnBranchSettles
      <4>4. <<q, code>> \in branches'
        BY <3>1, <3>3, <4>2 DEF Reject
      <4>5. \E c \in branches' : Settles(c, q)'
        BY <1>2, <4>3, <4>4
      <4>6. Tapped(q)'
        BY <1>6, <3>1, <4>2, PathIsTapped
      <4> QED BY <4>5, <4>6 DEF Recorded
    <3>4. branches \subseteq branches'
      BY <3>1, <1>6 DEF Reject, Running
    <3> QED BY <1>1, <1>6, <3>1, <3>3, <3>4, RecordHolds
  <2> QED BY <1>6, <2>1, <2>2, <2>3 DEF Running
<1>7. CASE Running /\ Enter
  <2>1. /\ path # <<>> /\ Current \notin world.anchors
        /\ UNCHANGED <<pc, cutoff, touched>> /\ Len(todo) < Len(path)
    BY <1>7 DEF Enter
  <2>2. branches \subseteq branches'
    BY <1>7 DEF Enter, Reject
  <2>3. ASSUME pc = "record", NEW q \in Walks(active), Pending(q), ~Pending(q)'
        PROVE  Recorded(q)' /\ Tapped(q)'
    <3>1. q = path
      <4>1. CASE Candidates = {}
        <5>1. Agrees(q, Len(path))
          BY <1>1, <1>7, <2>1, <2>3, <4>1, RefuseKept DEF Enter
        <5> QED BY <1>1, <2>1, <4>1, <5>1, AgreesWhole
      <4>2. CASE Candidates # {}
        <5>1. /\ Agrees(q, Len(path))
              /\ Len(q) = Len(path) \/ q[Len(path) + 1] \notin Candidates
          BY <1>1, <1>7, <2>1, <2>3, <4>2, EnterKept DEF Enter
        <5> QED BY <1>1, <2>1, <5>1, AgreesWhole
      <4> QED BY <4>1, <4>2
    <3>2. q \in Open(active)
      BY <2>1, <2>3, <3>1, PathIsOpen
    <3>3. Tapped(q)'
      BY <1>7, <2>1, <3>1, PathIsTapped
    <3> QED BY <1>1, <3>2, <3>3 DEF Recorded
  <2> QED BY <1>1, <1>7, <2>1, <2>2, <2>3, RecordHolds
<1>8. CASE Running /\ TryIssuer
  <2>1. PICK parent :
           /\ Tries(parent) /\ touched' = touched \cup {parent}
           /\ UNCHANGED <<world, active, pc, depth, found, exhausted>>
           /\ budget' \in 0..MaxBranches
           /\ Turned(parent) \/ Followed(parent) \/ Cut(parent)
    BY <1>8, TryCases
  <2>2. path # <<>> /\ (cutoff => cutoff') /\ touched \subseteq touched'
    BY <2>1 DEF Tries, Turned, Followed, Cut
  <2>3. branches \subseteq branches'
    BY <1>8, <2>1 DEF Turned, Followed, Cut, Reject, Running
  <2>4. ASSUME pc = "record", NEW q \in Walks(active), Pending(q), ~Pending(q)'
        PROVE  Recorded(q)' /\ Tapped(q)'
    <3>1. UNCHANGED path /\ (Turned(parent) \/ Cut(parent))
      <4>1. ~Followed(parent)
        BY <1>1, <2>1, <2>4, FollowKept DEF Followed
      <4> QED BY <2>1, <4>1 DEF Turned, Cut
    <3>2. Agrees(q, Len(path)) /\ Len(path) < Len(q) /\ q[Len(path) + 1] = parent
      BY <1>1, <2>1, <2>4, <3>1, SkipKept
    <3>3. \/ EdgeFailure(path, q[Len(path) + 1]) # "NONE"
          \/ q[Len(path) + 1] \notin ReachableIn(active)
          \/ Len(path) >= MaxPathLen
      <4>1. CASE Turned(parent)
        BY <3>2, <4>1 DEF Turned
      <4>2. CASE Cut(parent)
        BY <1>1, <2>4, <4>2, ExplorerAssumption DEF Cut, ControlInv
      <4> QED BY <3>1, <4>1, <4>2
    <3>4. Tapped(q)'
      <4>1. SubSeq(q, 1, Len(q) - 1) \in Open(active) => q[Len(q)] = parent
        BY <1>1, <2>2, <3>2, <3>3, TriedIsLast
      <4> QED BY <1>1, <2>1, <4>1 DEF Tapped
    <3>5. Recorded(q)'
      <4>1. CASE Turned(parent)
        <5>1. PICK code :
                 /\ Reject(Append(path, parent), code) /\ code # "NO_ISSUER"
                 /\ code = "NO_TRUSTED_ANCHOR" => parent \notin ReachableIn(active)
          BY <4>1 DEF Turned
        <5>2. <<Append(path, parent), code>> \in branches'
          BY <2>4, <5>1 DEF Reject
        <5>3. Settles(<<Append(path, parent), code>>, q)
          BY <1>1, <2>2, <3>2, <5>1, TriedSettles
        <5>4. \E c \in branches' : Settles(c, q)'
          BY <1>2, <5>2, <5>3
        <5> QED BY <5>4 DEF Recorded
      <4>2. CASE Cut(parent)
        BY <4>2 DEF Cut, Recorded
      <4> QED BY <3>1, <4>1, <4>2
    <3> QED BY <3>4, <3>5
  <2> QED BY <1>1, <1>8, <2>1, <2>2, <2>3, <2>4, RecordHolds
<1>9. CASE Running /\ Return
  <2>1. \A q : Pending(q) => Pending(q)'
    BY <1>1, <1>9, UnwindKept DEF Return
  <2> QED BY <1>1, <1>9, <2>1, RecordHolds DEF Return
<1>10. CASE Running /\ NextPass
  <2>1. \A q : ~Pending(q)
    <3>1. 1..Len(path) = {}
      BY <1>1, <1>10, StackFacts DEF NextPass
    <3> QED BY <3>1 DEF Pending
  <2>2. CASE pc = "record"
    <3>1. UNCHANGED <<cutoff, branches, touched>> /\ pc' = "done"
      BY <1>10, <2>2 DEF NextPass
    <3>2. ASSUME NEW q \in Walks(active) PROVE Recorded(q)' /\ Tapped(q)'
      <4>1. Recorded(q) /\ Tapped(q)
        BY <2>1, <2>2 DEF RecordInv
      <4> QED BY <1>1, <1>2, <3>1, <4>1 DEF Recorded, Tapped
    <3> QED BY <1>1, <3>1, <3>2 DEF RecordInv
  <2>3. CASE pc = "deepen"
    <3>1. /\ pc' \in {"deepen", "record"} /\ path' = <<world.leaf>> /\ path = <<>>
          /\ UNCHANGED todo
      BY <1>10, <2>3 DEF NextPass
    <3>2. \A q \in Walks(active) : Pending(q)'
      BY <1>1, <3>1, RenewKept
    <3> QED BY <1>1, <3>1, <3>2 DEF RecordInv, Finished, Completed
  <2> QED BY <1>10, <2>2, <2>3 DEF Running
<1> QED
  BY <1>4, <1>5, <1>6, <1>7, <1>8, <1>9, <1>10 DEF SearchStep

\* A search that has not begun.
Unbegun ==
    /\ pc = "start" /\ depth = 1 /\ path = <<>> /\ todo = <<>> /\ cutoff = FALSE
    /\ touched = {} /\ branches = {} /\ budget = 0
    /\ found = <<>> /\ exhausted = FALSE

LEMMA UnbegunInv ==
    ASSUME ActiveOK, Unbegun
    PROVE  SearchInv
<1>1. 1 \in 1..MaxPathLen /\ 0 \in 0..MaxBranches
  BY ExplorerAssumption
<1>2. path \in Seq(Certs) /\ todo \in Seq(SUBSET Certs) /\ Len(path) = 0 /\ Len(todo) = 0
  BY DEF Unbegun
<1>3. SearchTypeOK
  <2>1. cutoff \in BOOLEAN /\ exhausted \in BOOLEAN
    BY Zenon DEF Unbegun
  <2>2. /\ depth \in 1..MaxPathLen /\ budget \in 0..MaxBranches /\ touched \subseteq Certs
        /\ found \in Seq(Certs)
        /\ pc \in {"start", "deepen", "record", "done"}
    BY <1>1, <1>2 DEF Unbegun
  <2>3. Len(todo) <= Len(path) /\ Len(path) <= Len(todo) + 1
    BY <1>2
  <2> QED BY <1>2, <2>1, <2>2, <2>3 DEF ActiveOK, SearchTypeOK
<1>4. ControlInv
  BY <1>3 DEF Unbegun, ControlInv, Running
<1>5. StackInv
  BY <1>2 DEF Unbegun, StackInv
<1>6. ResultInv /\ RecordInv
  BY DEF Unbegun, ResultInv, RecordInv, Finished, Completed
<1> QED
  BY <1>4, <1>5, <1>6 DEF SearchInv

LEMMA SearchKept ==
    ASSUME SearchInv, SearchStep
    PROVE  SearchInv'
BY ControlKept, StackKept, ResultKept, RecordKept DEF SearchInv

LEMMA SearchStays ==
    ASSUME SearchInv, UNCHANGED evars
    PROVE  SearchInv'
<1>1. /\ UNCHANGED <<world, active>> /\ UNCHANGED search
      /\ pc' = pc /\ depth' = depth /\ path' = path /\ todo' = todo /\ cutoff' = cutoff
      /\ touched' = touched /\ branches' = branches /\ budget' = budget
      /\ found' = found /\ exhausted' = exhausted
  BY DEF evars, search
<1>2. /\ Walks(active)' = Walks(active) /\ ReachableIn(active)' = ReachableIn(active)
      /\ SoundWalks(active)' = SoundWalks(active) /\ Open(active)' = Open(active)
      /\ ValidPaths(active)' = ValidPaths(active) /\ LeafFailure' = LeafFailure
  BY <1>1, Frozen
<1>3. ControlInv'
  BY <1>1, <1>2 DEF SearchInv, ControlInv, SearchTypeOK, ActiveOK, Running, Current
<1>4. StackInv'
  BY <1>1, <1>2 DEF SearchInv, StackInv, TodoOK
<1>5. \A q : Pending(q)' <=> Pending(q)
  BY <1>1 DEF Pending, Agrees
<1>6. ResultInv'
  BY <1>1, <1>2, <1>5 DEF SearchInv, ResultInv, Finished, Completed, IsBest
<1>7. \A b, q : Settles(b, q)' <=> Settles(b, q)
  BY <1>2 DEF Settles, Covers
<1>8. \A q : (Recorded(q)' <=> Recorded(q)) /\ (Tapped(q)' <=> Tapped(q))
  BY <1>1, <1>2, <1>7 DEF Recorded, Tapped
<1>9. RecordInv'
  BY <1>1, <1>2, <1>5, <1>8 DEF SearchInv, RecordInv, Finished, Completed
<1> QED
  BY <1>3, <1>4, <1>6, <1>9 DEF SearchInv

-----------------------------------------------------------------------------
(***************************************************************************)
(* The theorems.                                                           *)
(***************************************************************************)

\* What the inductive invariant says of a search that has ended.
LEMMA SearchResult ==
    ASSUME SearchInv
    PROVE  SearchTypeOK /\ FoundIsBest /\ NothingMissed /\ ProofCoversEveryChain
<1>1. SearchTypeOK /\ FoundIsBest /\ NothingMissed
  BY DEF SearchInv, ControlInv, ResultInv, FoundIsBest, NothingMissed, Finished
<1>2. ASSUME Finished, ~cutoff, NEW q \in Chains(active)
      PROVE  \E b \in branches :
                Covers(b, q) /\ b[2] \notin {"NO_ISSUER", "NO_TRUSTED_ANCHOR"}
  <2>1. q \in Walks(active) /\ q[Len(q)] \in world.anchors /\ q \in Seq(Certs)
    <3>1. q \in Walks(active) /\ q[Len(q)] \in world.anchors
      BY DEF Chains
    <3> QED BY <3>1, WalkIff DEF SearchInv, ControlInv, ActiveOK, IsWalk
  <2>2. PICK b \in branches : Settles(b, q)
    BY <1>2, <2>1 DEF SearchInv, RecordInv, Recorded, Open
  <2>3. ASSUME b[2] = "NO_TRUSTED_ANCHOR" PROVE FALSE
    <3> DEFINE n == Len(b[1])
    <3>1. /\ b[1] \in Seq(Certs) /\ n >= 2 /\ n <= Len(q) /\ b[1] = SubSeq(q, 1, n)
          /\ b[1][n] \notin ReachableIn(active)
      BY <2>2, <2>3 DEF Settles, Covers
    <3>2. n \in 2..Len(q) /\ n \in 1..Len(q) /\ n \in 1..n
      BY <2>1, <3>1, LenProperties
    <3>3. q[n] \in ReachableIn(active)
      BY <3>2, ChainsReach DEF SearchInv, ControlInv, ActiveOK
    <3> HIDE DEF n
    <3>4. SubSeq(q, 1, n)[n] = q[n]
      BY <2>1, <3>2, InitialSegment
    <3> QED BY <3>1, <3>3, <3>4
  <2> QED BY <2>2, <2>3 DEF Settles
<1> QED
  BY <1>1, <1>2 DEF ProofCoversEveryChain, Finished

LEMMA SearchAlways == SearchSpec => []SearchInv
<1>1. SearchInit => SearchInv
  BY UnbegunInv DEF SearchInit, Fresh, Unbegun, ActiveOK, WorldType
<1>2. SearchInv /\ [SearchStep]_evars => SearchInv'
  BY SearchKept, SearchStays
<1> QED
  BY <1>1, <1>2, PTL DEF SearchSpec

\* Whatever the graph and the checks, the search keeps its types: no pass goes beyond
\* MAX_PATH_LEN, the budget is never overdrawn, and the two stacks run in step.
THEOREM SearchTypeCorrect == SearchSpec => []SearchTypeOK
BY SearchAlways, SearchResult, PTL

\* The path that search returns is the best of all valid paths.
THEOREM SearchFindsBest == SearchSpec => []FoundIsBest
BY SearchAlways, SearchResult, PTL

\* A search that returns no path has missed none of MAX_PATH_LEN + 1 certificates or
\* fewer, and none at all if no branch was cut.
THEOREM SearchMissesNothing == SearchSpec => []NothingMissed
BY SearchAlways, SearchResult, PTL

\* The rejection proof of a search that was not cut accounts for every chain.
THEOREM SearchProvesRejection == SearchSpec => []ProofCoversEveryChain
BY SearchAlways, SearchResult, PTL
=============================================================================
