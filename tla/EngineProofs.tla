---------------------------- MODULE EngineProofs ----------------------------
(***************************************************************************)
(* Theorems about an adjudication, its rounds over shrinking sets of       *)
(* objects, and the replay of its pack, for every certificate graph.       *)
(***************************************************************************)
EXTENDS Verifier, SearchProofs

-----------------------------------------------------------------------------
(***************************************************************************)
(* Smaller and larger sets of certificates.                                *)
(***************************************************************************)

\* A walk over fewer certificates is one over more.
LEMMA WalksGrow ==
    ASSUME NEW S \in SUBSET Certs, NEW T \in SUBSET S
    PROVE  /\ Walks(T) \subseteq Walks(S) /\ SoundWalks(T) \subseteq SoundWalks(S)
           /\ Open(T) \subseteq Open(S) /\ ValidPaths(T) \subseteq ValidPaths(S)
<1>1. Walks(T) \subseteq Walks(S)
  <2>1. ASSUME NEW p \in Walks(T) PROVE p \in Walks(S)
    <3>1. IsWalk(p, T)
      BY WalkIff
    <3>2. IsWalk(p, S)
      BY <3>1 DEF IsWalk
    <3> QED BY <3>2, WalkIff
  <2> QED BY <2>1
<1>2. ReachableIn(T) \subseteq ReachableIn(S)
  BY ReachableMonotone
<1>3. SoundWalks(T) \subseteq SoundWalks(S)
  BY <1>1, <1>2 DEF SoundWalks
<1> QED
  BY <1>1, <1>3 DEF Open, ValidPaths, Chains

\* A walk is one over any set that holds all its certificates.
LEMMA WalkWithin ==
    ASSUME NEW S \in SUBSET Certs, NEW T \in SUBSET Certs, NEW q \in Walks(S),
           \A i \in 1..Len(q) : q[i] \in T
    PROVE  q \in Walks(T)
<1>1. IsWalk(q, S)
  BY WalkIff
<1>2. Len(q) \in Nat
  BY <1>1, LenProperties DEF IsWalk
<1>3. \A i \in 1..Len(q) - 1 : i + 1 \in 1..Len(q)
  BY <1>2
<1>4. IsWalk(q, T)
  BY <1>1, <1>3 DEF IsWalk
<1> QED
  BY <1>4, WalkIff

LEMMA ValidWithin ==
    ASSUME NEW S \in SUBSET Certs, NEW T \in SUBSET Certs, NEW q \in ValidPaths(S),
           \A i \in 1..Len(q) : q[i] \in T
    PROVE  q \in ValidPaths(T)
BY WalkWithin DEF ValidPaths, Chains

\* A walk goes on to any issuer that is not on it.
LEMMA WalkGoesOn ==
    ASSUME NEW S \in SUBSET Certs, NEW w \in Walks(S), w[Len(w)] \notin world.anchors,
           NEW x \in S, <<w[Len(w)], x>> \in world.issued, \A i \in 1..Len(w) : w[i] # x
    PROVE  LET q == Append(w, x)
           IN  /\ q \in Walks(S) /\ Len(q) >= 2 /\ q[Len(q)] = x
               /\ SubSeq(q, 1, Len(q) - 1) = w
<1> DEFINE q == Append(w, x)
           n == Len(w)
<1>1. IsWalk(w, S) /\ w \in Seq(Certs) /\ n \in Nat \ {0} /\ x \in Certs
  <2>1. IsWalk(w, S)
    BY WalkIff
  <2> QED BY <2>1, EmptySeq DEF IsWalk
<1>2. /\ q \in Seq(Certs) /\ Len(q) = n + 1 /\ q # <<>> /\ q[n + 1] = x
      /\ \A i \in 1..n : q[i] = w[i]
  BY <1>1, AppendProperties
<1> HIDE DEF q
<1>3. IsWalk(q, S)
  <2>1. q[1] = world.leaf
    BY <1>1, <1>2 DEF IsWalk
  <2>2. ASSUME NEW i \in 1..Len(q) - 1
        PROVE  q[i] \notin world.anchors /\ q[i + 1] \in S /\ <<q[i], q[i + 1]>> \in world.issued
    <3>1. CASE i = n
      BY <1>1, <1>2, <3>1
    <3>2. CASE i # n
      <4>1. i \in 1..n - 1 /\ q[i] = w[i] /\ q[i + 1] = w[i + 1]
        BY <1>1, <1>2, <3>2
      <4> QED BY <1>1, <4>1 DEF IsWalk
    <3> QED BY <3>1, <3>2
  <2>3. ASSUME NEW i \in 1..Len(q), NEW j \in 1..Len(q), q[i] = q[j] PROVE i = j
    <3>1. \A k \in 1..Len(q) : k \in 1..n \/ k = n + 1
      BY <1>1, <1>2
    <3>2. \A k, l \in 1..n : w[k] = w[l] => k = l
      BY <1>1 DEF IsWalk
    <3> QED BY <1>2, <2>3, <3>1, <3>2
  <2> QED BY <1>2, <2>1, <2>2, <2>3 DEF IsWalk
<1>4. SubSeq(q, 1, Len(q) - 1) = w
  <2>1. n \in Nat /\ n <= Len(q) /\ n <= Len(w) /\ Len(q) - 1 = n
    BY <1>1, <1>2
  <2>2. SubSeq(q, 1, n) = SubSeq(w, 1, n)
    BY <1>1, <1>2, <2>1, SamePrefix
  <2> QED BY <1>1, <2>1, <2>2, SubSeqFull
<1>5. Len(q) >= 2 /\ q[Len(q)] = x
  BY <1>1, <1>2
<1> QED
  BY <1>3, <1>4, <1>5, WalkIff DEF q

\* What a branch covers, it covers in every longer sequence.
LEMMA CoversMore ==
    ASSUME NEW q \in Seq(Certs), NEW n \in 1..Len(q), NEW b, b[1] \in Seq(Certs),
           Covers(b, SubSeq(q, 1, n))
    PROVE  Covers(b, q)
<1> DEFINE w == SubSeq(q, 1, n)
           k == Len(b[1])
<1>1. /\ w \in Seq(Certs) /\ Len(w) = n /\ \A i \in 1..n : w[i] = q[i]
      /\ n \in Nat /\ Len(q) \in Nat /\ n <= Len(q) /\ k \in Nat
  BY InitialSegment, LenProperties
<1> HIDE DEF w
<1>2. k <= Len(w) /\ b[1] = SubSeq(w, 1, k)
  BY DEF Covers, w
<1>3. k <= Len(q) /\ k <= Len(w) /\ \A i \in 1..k : w[i] = q[i]
  BY <1>1, <1>2
<1>4. SubSeq(w, 1, k) = SubSeq(q, 1, k)
  BY <1>1, <1>3, SamePrefix
<1> QED
  BY <1>2, <1>3, <1>4 DEF Covers

\* Of two different paths one comes first.
LEMMA PrecedesOneWay ==
    ASSUME NEW p \in Seq(Certs), NEW q \in Seq(Certs), Precedes(p, q), Precedes(q, p)
    PROVE  FALSE
<1>1. Len(p) \in Nat /\ Len(q) \in Nat /\ Len(p) = Len(q)
  BY LenProperties DEF Precedes
<1>2. /\ \A i \in 1..Len(p) : p[i] \in Nat /\ q[i] \in Nat
  BY <1>1, ElementOfSeq, ExplorerAssumption
<1>3. PICK i \in 1..Len(p) : p[i] < q[i] /\ \A j \in 1..i - 1 : p[j] = q[j]
  BY <1>1 DEF Precedes
<1>4. PICK k \in 1..Len(p) : q[k] < p[k] /\ \A j \in 1..k - 1 : q[j] = p[j]
  BY <1>1 DEF Precedes
<1>5. i = k \/ i \in 1..k - 1 \/ k \in 1..i - 1
  BY <1>1
<1> QED
  BY <1>2, <1>3, <1>4, <1>5

\* There is only one best path.
LEMMA BestIsUnique ==
    ASSUME ActiveOK, NEW S \in SUBSET Certs, NEW T \in SUBSET S, NEW p, NEW q,
           IsBest(p, S), IsBest(q, T), p \in ValidPaths(T)
    PROVE  p = q
<1>1. p \in ValidPaths(S) /\ q \in ValidPaths(S)
  BY WalksGrow DEF IsBest
<1>2. p \in Seq(Certs) /\ q \in Seq(Certs)
  BY <1>1, WalkIff DEF ValidPaths, Chains, IsWalk
<1>3. p = q \/ (Precedes(p, q) /\ Precedes(q, p))
  BY <1>1 DEF IsBest
<1> QED
  BY <1>2, <1>3, PrecedesOneWay

-----------------------------------------------------------------------------
(***************************************************************************)
(* The rounds.  The first run searches the whole set; a later one searches *)
(* what still holds the best path, or, if no path is short enough, every   *)
(* issuer that the whole set has for a walk the search stands at.          *)
(***************************************************************************)
Keeps(S) ==
    \E b \in ValidPaths(S) : IsBest(b, Certs) /\ Len(b) <= MaxPathLen + 1

Lacks(S) ==
    /\ \A q \in ValidPaths(Certs) : Len(q) > MaxPathLen + 1
    /\ \A w \in Open(S) : Issuers(Certs, w[Len(w)]) \subseteq S

DecisionInv ==
    verdict # "NONE" =>
        Completed /\ touched = active /\ Read = archive /\ verdict = VerdictOf

EngineInv ==
    /\ SearchInv /\ DecisionInv /\ archive \in SUBSET Evidence
    /\ active = Certs \/ Keeps(active) \/ Lacks(active)

LEMMA EngineTypes ==
    ASSUME EngineInv
    PROVE  /\ ActiveOK /\ active \in SUBSET Certs /\ touched \in SUBSET active
           /\ Certs \in SUBSET Certs /\ found \in Seq(Certs)
           /\ pc # "start" => world.leaf \in touched
           /\ found # <<>> => /\ IsBest(found, active) /\ Len(found) <= MaxPathLen + 1
                              /\ \A i \in 1..Len(found) : found[i] \in touched
           /\ Finished => \A q \in ValidPaths(active) : cutoff /\ Len(q) > MaxPathLen + 1
BY DEF EngineInv, SearchInv, ControlInv, ResultInv, ActiveOK, SearchTypeOK

\* The path of a run is the best of the whole set, whatever the run was given.
LEMMA FoundOfSet ==
    ASSUME EngineInv, found # <<>>
    PROVE  IsBest(found, Certs) /\ found \in ValidPaths(active)
<1>1. IsBest(found, active) /\ found \in ValidPaths(active) /\ Len(found) <= MaxPathLen + 1
  BY EngineTypes DEF IsBest
<1>2. CASE active = Certs
  BY <1>1, <1>2
<1>3. CASE Keeps(active)
  <2>1. PICK b \in ValidPaths(active) : IsBest(b, Certs) /\ Len(b) <= MaxPathLen + 1
    BY <1>3 DEF Keeps
  <2>2. b = found
    BY <1>1, <2>1, EngineTypes, BestIsUnique
  <2> QED BY <1>1, <2>1, <2>2
<1>4. CASE Lacks(active)
  <2>1. Len(found) > MaxPathLen + 1
    BY <1>1, <1>4, EngineTypes, WalksGrow DEF Lacks
  <2>2. Len(found) \in Nat
    BY EngineTypes, LenProperties
  <2> QED BY <1>1, <2>1, <2>2, ExplorerAssumption
<1> QED
  BY <1>2, <1>3, <1>4 DEF EngineInv

\* A run that finds nothing has every issuer that matters.
LEMMA FinishedLacks ==
    ASSUME EngineInv, Finished
    PROVE  Lacks(active)
<1>1. CASE active = Certs
  <2>1. \A w \in Open(active) : Issuers(Certs, w[Len(w)]) \subseteq Certs
    BY DEF Issuers
  <2> QED BY <1>1, <2>1, EngineTypes DEF Lacks
<1>2. CASE Keeps(active)
  <2>1. PICK b \in ValidPaths(active) : Len(b) <= MaxPathLen + 1
    BY <1>2 DEF Keeps
  <2>2. Len(b) > MaxPathLen + 1 /\ Len(b) \in Nat
    BY EngineTypes, ValidSize
  <2> QED BY <2>1, <2>2, ExplorerAssumption
<1> QED
  BY <1>1, <1>2 DEF EngineInv

\* The objects a run touched are enough for the next.
LEMMA TouchedIsEnough ==
    ASSUME EngineInv, Completed
    PROVE  Keeps(touched) \/ Lacks(touched)
<1>1. CASE found # <<>>
  <2>1. IsBest(found, Certs) /\ found \in ValidPaths(active) /\ Len(found) <= MaxPathLen + 1
        /\ \A i \in 1..Len(found) : found[i] \in touched
    BY <1>1, FoundOfSet, EngineTypes
  <2>2. found \in ValidPaths(touched)
    BY <2>1, EngineTypes, ValidWithin
  <2> QED BY <2>1, <2>2 DEF Keeps
<1>2. CASE found = <<>>
  <2>1. Finished /\ Lacks(active)
    BY <1>2, FinishedLacks DEF Finished
  <2>2. ASSUME NEW w \in Open(touched), NEW x \in Issuers(Certs, w[Len(w)])
        PROVE  x \in touched
    <3>1. w \in Open(active) /\ w \in Walks(active) /\ w[Len(w)] \notin world.anchors
      BY EngineTypes, WalksGrow DEF Open, SoundWalks
    <3>2. x \in active /\ <<w[Len(w)], x>> \in world.issued
      BY <2>1, <3>1 DEF Lacks, Issuers
    <3>3. CASE \E i \in 1..Len(w) : w[i] = x
      <4>1. PICK i \in 1..Len(w) : w[i] = x
        BY <3>3
      <4>2. CASE i = 1
        <5>1. w[1] = world.leaf
          BY <3>1, WalkIff, EngineTypes DEF IsWalk
        <5> QED BY <4>1, <4>2, <5>1, EngineTypes, <2>1 DEF Finished, Completed
      <4>3. CASE i # 1
        <5>1. i \in 2..Len(w)
          <6>1. Len(w) \in Nat
            BY <3>1, WalkIff, EngineTypes, LenProperties DEF IsWalk
          <6> QED BY <4>3, <6>1
        <5>2. w[i] \in ReachableIn(touched)
          BY <5>1 DEF Open, SoundWalks
        <5> QED BY <4>1, <5>2, ReachableClosed
      <4> QED BY <4>2, <4>3
    <3>4. CASE \A i \in 1..Len(w) : w[i] # x
      <4> DEFINE q == Append(w, x)
      <4>1. /\ q \in Walks(active) /\ Len(q) >= 2 /\ q[Len(q)] = x
            /\ SubSeq(q, 1, Len(q) - 1) = w
        BY <3>1, <3>2, <3>4, EngineTypes, WalkGoesOn
      <4> HIDE DEF q
      <4>2. Tapped(q)
        BY <2>1, <4>1 DEF EngineInv, SearchInv, RecordInv
      <4> QED BY <3>1, <4>1, <4>2 DEF Tapped
    <3> QED BY <3>3, <3>4
  <2>3. Lacks(touched)
    BY <2>1, <2>2 DEF Lacks
  <2> QED BY <2>3
<1> QED
  BY <1>1, <1>2

\* What is said of a set of certificates changes only with the graph.
LEMMA FrozenSets ==
    ASSUME UNCHANGED world, NEW S, active' = S
    PROVE  /\ Keeps(active)' <=> Keeps(S)
           /\ Lacks(active)' <=> Lacks(S)
<1>1. /\ Walks(active)' = Walks(S) /\ Walks(Certs)' = Walks(Certs)
      /\ ReachableIn(active)' = ReachableIn(S) /\ LeafFailure' = LeafFailure
      /\ \A c : Issuers(Certs, c)' = Issuers(Certs, c)
  BY DEF Walks, ReachableIn, Issuers, LeafFailure
<1>2. \A p, c : EdgeFailure(p, c)' = EdgeFailure(p, c)
  BY DEF EdgeFailure, Below
<1>3. \A p : TerminalFailure(p)' = TerminalFailure(p)
  BY DEF TerminalFailure
<1>4. Open(active)' = Open(S)
  <2>1. \A p : Passes(p)' = Passes(p)
    BY <1>2 DEF Passes
  <2> QED BY <1>1, <2>1 DEF Open, SoundWalks
<1>5. ValidPaths(active)' = ValidPaths(S) /\ ValidPaths(Certs)' = ValidPaths(Certs)
  BY <1>1, <1>2, <1>3 DEF ValidPaths, Chains
<1>6. \A b : IsBest(b, Certs)' <=> IsBest(b, Certs)
  BY <1>5 DEF IsBest
<1> QED
  BY <1>1, <1>4, <1>5, <1>6 DEF Keeps, Lacks

\* A restart is a search that has not begun, on a set that holds the leaf.
LEMMA RestartKept ==
    ASSUME ActiveOK, Restart, UNCHANGED world,
           active' \subseteq active, world.leaf \in active'
    PROVE  SearchInv'
<1>1. ActiveOK'
  BY DEF ActiveOK
<1>2. Unbegun'
  BY DEF Restart, Unbegun
<1>3. 1 \in 1..MaxPathLen /\ 0 \in 0..MaxBranches
  BY ExplorerAssumption
<1>4. /\ path' \in Seq(Certs) /\ todo' \in Seq(SUBSET Certs)
      /\ Len(path') = 0 /\ Len(todo') = 0
  BY <1>2 DEF Unbegun
<1>5. SearchTypeOK'
  <2>1. cutoff' \in BOOLEAN /\ exhausted' \in BOOLEAN
    BY <1>2, Zenon DEF Unbegun
  <2>2. /\ depth' \in 1..MaxPathLen /\ budget' \in 0..MaxBranches /\ touched' \subseteq Certs
        /\ found' \in Seq(Certs)
        /\ pc' \in {"start", "deepen", "record", "done"}
    BY <1>2, <1>3 DEF Unbegun
  <2>3. Len(todo') <= Len(path') /\ Len(path') <= Len(todo') + 1
    BY <1>4
  <2> QED BY <1>1, <1>4, <2>1, <2>2, <2>3 DEF ActiveOK, SearchTypeOK
<1>6. ControlInv'
  BY <1>1, <1>2, <1>5 DEF Unbegun, ControlInv, Running
<1>7. StackInv'
  BY <1>2, <1>4 DEF Unbegun, StackInv
<1>8. ResultInv' /\ RecordInv'
  BY <1>2 DEF Unbegun, ResultInv, RecordInv, Finished, Completed
<1> QED
  BY <1>6, <1>7, <1>8 DEF SearchInv

LEMMA EngineBegins ==
    ASSUME EngineInit
    PROVE  EngineInv
<1>1. ActiveOK /\ Unbegun /\ active = Certs /\ verdict = "NONE"
      /\ archive \in SUBSET Evidence
  BY DEF EngineInit, EngineFresh, Fresh, Unbegun, ActiveOK, WorldType
<1> QED
  BY <1>1, UnbegunInv DEF EngineInv, DecisionInv

\* What is left as it was.
LEMMA EngineStays ==
    ASSUME EngineInv, UNCHANGED <<evars, archive, artifact>>, verdict' = verdict
    PROVE  EngineInv'
<1>1. SearchInv'
  BY SearchStays DEF EngineInv
<1>2. /\ UNCHANGED <<world, active, search>> /\ touched' = touched /\ branches' = branches
      /\ found' = found /\ pc' = pc /\ exhausted' = exhausted
  BY DEF evars, search
<1>3. VerdictOf' = VerdictOf /\ Read' = Read
  BY <1>2 DEF VerdictOf, UnsupportedInvolved, Read
<1>4. DecisionInv'
  BY <1>2, <1>3 DEF EngineInv, DecisionInv, Completed
<1>5. active' = Certs \/ Keeps(active)' \/ Lacks(active)'
  BY <1>2, FrozenSets DEF EngineInv
<1> QED
  BY <1>1, <1>4, <1>5 DEF EngineInv

LEMMA EngineKept ==
    ASSUME EngineInv, EngineNext
    PROVE  EngineInv'
<1>1. CASE Explore
  <2>1. SearchInv' /\ UNCHANGED <<world, active>>
    BY <1>1, SearchKept, StackKept DEF Explore, EngineInv, SearchInv
  <2>2. verdict = "NONE" /\ verdict' = "NONE"
    BY <1>1 DEF Explore, EngineInv, DecisionInv, Completed, SearchStep, Start, Running
  <2>3. active' = Certs \/ Keeps(active)' \/ Lacks(active)'
    BY <2>1, FrozenSets DEF EngineInv
  <2>4. archive' \in SUBSET Evidence
    BY <1>1 DEF Explore, EngineInv
  <2> QED BY <2>1, <2>2, <2>3, <2>4 DEF EngineInv, DecisionInv
<1>2. CASE Rerun
  <2>1. /\ Completed /\ active' = touched /\ UNCHANGED world /\ Restart
        /\ verdict' = "NONE"
    BY <1>2 DEF Rerun
  <2>2. touched \subseteq active /\ world.leaf \in touched /\ ActiveOK
    BY <2>1, EngineTypes DEF Completed
  <2>3. SearchInv'
    BY <2>1, <2>2, RestartKept
  <2>4. Keeps(active)' \/ Lacks(active)'
    BY <2>1, TouchedIsEnough, FrozenSets
  <2>5. archive' \in SUBSET Evidence
    BY <1>2 DEF Rerun, Read, EngineInv
  <2> QED BY <2>1, <2>3, <2>4, <2>5 DEF EngineInv, DecisionInv
<1>3. CASE Decide
  <2>1. /\ UNCHANGED <<evars, archive, artifact>> /\ Completed /\ touched = active
        /\ Read = archive /\ verdict' = VerdictOf
    BY <1>3 DEF Decide
  <2>2. SearchInv'
    BY <2>1, SearchStays DEF EngineInv
  <2>3. /\ UNCHANGED <<world, active, search>> /\ touched' = touched /\ branches' = branches
        /\ found' = found /\ pc' = pc /\ exhausted' = exhausted
    BY <2>1 DEF evars, search
  <2>4. VerdictOf' = VerdictOf /\ Read' = Read
    BY <2>1, <2>3 DEF VerdictOf, UnsupportedInvolved, Read
  <2>5. DecisionInv'
    BY <2>1, <2>3, <2>4 DEF DecisionInv, Completed
  <2>6. active' = Certs \/ Keeps(active)' \/ Lacks(active)'
    BY <2>3, FrozenSets DEF EngineInv
  <2> QED BY <2>1, <2>2, <2>5, <2>6 DEF EngineInv
<1> QED
  BY <1>1, <1>2, <1>3 DEF EngineNext

-----------------------------------------------------------------------------
(***************************************************************************)
(* What the invariant says of a decision.                                  *)
(***************************************************************************)
LEMMA DecisionIsBest ==
    ASSUME EngineInv
    PROVE  DecisionIsBestOfSet
BY FoundOfSet DEF DecisionIsBestOfSet

LEMMA DecisionIsValid ==
    ASSUME EngineInv
    PROVE  ValidIffPath
<1>1. SUFFICES ASSUME verdict # "NONE"
               PROVE  verdict = "VALID" <=>
                         /\ artifact = "valid"
                         /\ \E p \in ValidPaths(Certs) : Len(p) <= MaxPathLen + 1
  BY DEF ValidIffPath
<1>2. Completed /\ verdict = VerdictOf
  BY <1>1 DEF EngineInv, DecisionInv
<1>3. verdict = "VALID" <=> artifact = "valid" /\ found # <<>>
  BY <1>2 DEF VerdictOf
<1>4. CASE found # <<>>
  <2>1. found \in ValidPaths(Certs) /\ Len(found) <= MaxPathLen + 1
    BY <1>4, FoundOfSet, EngineTypes DEF IsBest
  <2> QED BY <1>3, <1>4, <2>1
<1>5. CASE found = <<>>
  <2>1. \A p \in ValidPaths(Certs) : Len(p) > MaxPathLen + 1
    BY <1>2, <1>5, FinishedLacks DEF Finished, Lacks
  <2>2. \A p \in ValidPaths(Certs) : Len(p) \in Nat
    <3>1. \A p \in ValidPaths(Certs) : IsWalk(p, Certs)
      BY WalkIff DEF ValidPaths, Chains
    <3> QED BY <3>1, LenProperties DEF IsWalk
  <2>3. ~\E p \in ValidPaths(Certs) : Len(p) <= MaxPathLen + 1
    BY <2>1, <2>2, ExplorerAssumption
  <2> QED BY <1>3, <1>5, <2>3
<1> QED
  BY <1>4, <1>5

\* A chain of the whole set stays within the objects of the last round up to a walk where
\* the proof stops too, for the last round has every issuer the search would go on to.
LEMMA DecisionProvesRejection ==
    ASSUME EngineInv
    PROVE  ProofCoversSet
<1>1. SUFFICES ASSUME verdict # "NONE", found = <<>>, ~cutoff, NEW q \in Chains(Certs)
               PROVE  \E b \in branches : Covers(b, q) /\ b[2] # "NO_ISSUER"
  BY DEF ProofCoversSet
<1>2. Finished /\ Lacks(active) /\ world.leaf \in active
  <2>1. Finished
    BY <1>1 DEF EngineInv, DecisionInv, Finished
  <2> QED BY <2>1, FinishedLacks, EngineTypes DEF ActiveOK
<1>3. /\ q \in Walks(Certs) /\ IsWalk(q, Certs) /\ q \in Seq(Certs)
      /\ Len(q) \in Nat \ {0} /\ q[Len(q)] \in world.anchors /\ q[1] \in active
  <2>1. IsWalk(q, Certs) /\ q \in Walks(Certs) /\ q[Len(q)] \in world.anchors
    BY <1>1, WalkIff DEF Chains
  <2> QED BY <1>2, <2>1, EmptySeq DEF IsWalk
<1> DEFINE within == {n \in 1..Len(q) : \A i \in 1..n : q[i] \in active}
<1>4. PICK n \in within : \A m \in within : m <= n
  <2>1. 1 \in within
    BY <1>3
  <2>2. within \in SUBSET Nat /\ within # {} /\ \A m \in within : m <= Len(q)
    BY <1>3, <2>1
  <2> HIDE DEF within
  <2> QED BY <1>3, <2>2, GreatestNumber
<1> DEFINE w == SubSeq(q, 1, n)
<1>5. /\ n \in 1..Len(q) /\ w \in Seq(Certs) /\ w # <<>> /\ Len(w) = n
      /\ \A i \in 1..n : w[i] = q[i] /\ w[i] \in active
  BY <1>3, <1>4, InitialSegment
<1> HIDE DEF w
<1>6. w \in Walks(active)
  <2>1. n \in Nat /\ Len(q) \in Nat
    BY <1>3, <1>5
  <2>2. \A i \in 1..n - 1 : /\ i \in 1..Len(q) - 1 /\ i + 1 \in 1..n
                           /\ w[i] = q[i] /\ w[i + 1] = q[i + 1]
    BY <1>5, <2>1
  <2>3. \A i \in 1..n : i \in 1..Len(q) /\ w[i] = q[i]
    BY <1>5, <2>1
  <2>4. 1 \in 1..n
    BY <1>5, <2>1
  <2>5. IsWalk(w, active)
    BY <1>3, <1>5, <2>2, <2>3, <2>4 DEF IsWalk
  <2> QED BY <2>5, WalkIff, EngineTypes
<1>7. w \notin Open(active)
  <2>1. CASE n = Len(q)
    BY <1>3, <1>5, <2>1 DEF Open
  <2>2. CASE n # Len(q)
    <3>1. n + 1 \in 1..Len(q) /\ n \in 1..Len(q) - 1 /\ n + 1 \notin within
      BY <1>3, <1>4, <1>5, <2>2
    <3>2. q[n + 1] \notin active
      <4>1. \A i \in 1..n + 1 : i \in 1..n \/ i = n + 1
        BY <1>5
      <4> QED BY <1>4, <3>1, <4>1
    <3>3. q[n + 1] \in Issuers(Certs, w[Len(w)])
      <4>1. w[Len(w)] = q[n]
        BY <1>3, <1>5
      <4> QED BY <1>3, <3>1, <4>1 DEF IsWalk, Issuers
    <3> QED BY <1>2, <3>2, <3>3 DEF Lacks
  <2> QED BY <2>1, <2>2
<1>8. PICK b \in branches : Settles(b, w)
  BY <1>1, <1>2, <1>6, <1>7 DEF EngineInv, SearchInv, RecordInv, Recorded
<1>9. Covers(b, q)
  BY <1>3, <1>5, <1>8, CoversMore DEF Settles, w
<1> QED
  BY <1>8, <1>9 DEF Settles

-----------------------------------------------------------------------------
(***************************************************************************)
(* The replay.  A search is a run of a machine that has one next state, so *)
(* over the same graph and the same objects it ends in the same state.     *)
(***************************************************************************)

\* The states of U that a run from a may be in, if F gives the next state and the run ends
\* at a state of E.
Runs(U, F, E, a) ==
    {s \in U : \A R \in SUBSET U :
        (a \in R /\ \A r \in R \ E : F[r] \in U => F[r] \in R) => s \in R}

LEMMA RunsClosed ==
    ASSUME NEW U, NEW F, NEW E, NEW a \in U
    PROVE  /\ a \in Runs(U, F, E, a)
           /\ \A r \in Runs(U, F, E, a) \ E : F[r] \in U => F[r] \in Runs(U, F, E, a)
BY DEF Runs

\* A run that is at its end goes nowhere; another goes on from its next state.
LEMMA RunsOn ==
    ASSUME NEW U, NEW F, NEW E, NEW a \in U, NEW s \in Runs(U, F, E, a), s # a
    PROVE  a \notin E /\ F[a] \in U /\ s \in Runs(U, F, E, F[a])
<1>1. s \in U
  BY DEF Runs
<1>2. ASSUME a \in E \/ F[a] \notin U PROVE FALSE
  <2>1. {a} \in SUBSET U /\ \A r \in {a} \ E : F[r] \in U => F[r] \in {a}
    BY <1>2
  <2>2. s \in {a}
    BY <2>1 DEF Runs
  <2> QED BY <2>2
<1>3. ASSUME NEW R \in SUBSET U, F[a] \in R,
             \A r \in R \ E : F[r] \in U => F[r] \in R
      PROVE  s \in R
  <2>1. R \cup {a} \in SUBSET U
    OBVIOUS
  <2>2. \A r \in (R \cup {a}) \ E : F[r] \in U => F[r] \in R \cup {a}
    BY <1>3
  <2>3. s \in R \cup {a}
    BY <2>1, <2>2 DEF Runs
  <2> QED BY <2>3
<1> QED
  BY <1>1, <1>2, <1>3 DEF Runs

\* A run has at most one end.
LEMMA OneEnd ==
    ASSUME NEW U, NEW F, NEW E, NEW a \in U,
           NEW s \in Runs(U, F, E, a), s \in E, NEW t \in Runs(U, F, E, a), t \in E
    PROVE  s = t
<1> DEFINE G == {x \in Runs(U, F, E, a) : t \in Runs(U, F, E, x)}
<1>1. a \in G
  BY RunsClosed
<1>2. G \in SUBSET U
  BY DEF Runs
<1>3. ASSUME NEW r \in G \ E, F[r] \in U PROVE F[r] \in G
  <2>1. F[r] \in Runs(U, F, E, a)
    BY <1>3, RunsClosed
  <2>2. r \in U /\ t # r /\ t \in Runs(U, F, E, r)
    BY <1>2
  <2>3. t \in Runs(U, F, E, F[r])
    BY <2>2, RunsOn
  <2> QED BY <2>1, <2>3
<1>4. s \in G
  <2> HIDE DEF G
  <2> QED BY <1>1, <1>2, <1>3 DEF Runs
<1>5. t \in Runs(U, F, E, s) /\ s \in U
  BY <1>2, <1>4
<1> QED
  BY <1>5, RunsOn

SearchStates ==
    {"start", "deepen", "record", "done"} \X (1..MaxPathLen) \X Seq(Certs)
        \X Seq(SUBSET Certs) \X BOOLEAN \X (SUBSET Certs) \X (SUBSET (Seq(Certs) \X Codes))
        \X (0..MaxBranches) \X Seq(Certs) \X BOOLEAN

Beginning == <<"start", 1, <<>>, <<>>, FALSE, {}, {}, 0, <<>>, FALSE>>

\* The state after s, if s is the state of the search: what each action makes of it.
Turn(s, q, code) == IF s[1] = "record" THEN s[7] \cup {<<q, code>>} ELSE s[7]

AfterStart(s) ==
    IF LeafFailure # "NONE"
    THEN <<"done", s[2], s[3], s[4], s[5], s[6] \cup {world.leaf},
           {<<<<world.leaf>>, LeafFailure>>}, s[8], s[9], s[10]>>
    ELSE <<"deepen", s[2], <<world.leaf>>, s[4], s[5], s[6] \cup {world.leaf},
           s[7], s[8], s[9], s[10]>>

AfterPass(s) ==
    IF s[1] = "record"
    THEN <<"done", s[2], s[3], s[4], s[5], s[6], s[7], s[8], s[9], s[10]>>
    ELSE IF s[5] /\ s[2] < MaxPathLen
    THEN <<"deepen", s[2] + 1, <<world.leaf>>, s[4], FALSE, s[6], s[7], s[8], s[9], s[10]>>
    ELSE <<"record", MaxPathLen, <<world.leaf>>, s[4], s[5], s[6], {}, s[8], s[9], s[10]>>

AfterReturn(s) ==
    <<s[1], s[2], SubSeq(s[3], 1, Len(s[3]) - 1), SubSeq(s[4], 1, Len(s[4]) - 1),
      s[5], s[6], s[7], s[8], s[9], s[10]>>

AfterExhaust(s) == <<"done", s[2], s[3], s[4], s[5], s[6], s[7], s[8], s[9], TRUE>>

AfterAnchor(s) ==
    LET p == s[3]
    IN  IF TerminalFailure(p) = "NONE"
        THEN <<"done", s[2], p, s[4], s[5], s[6], s[7], s[8] + 1,
               IF s[1] = "record" THEN s[9] ELSE p, s[10]>>
        ELSE <<s[1], s[2], SubSeq(p, 1, Len(p) - 1), s[4], s[5], s[6],
               Turn(s, p, TerminalFailure(p)), s[8] + 1, s[9], s[10]>>

AfterEnter(s) ==
    LET p == s[3]
        issuers == Issuers(active, p[Len(p)]) \ {p[i] : i \in DOMAIN p}
    IN  IF issuers = {}
        THEN <<s[1], s[2], SubSeq(p, 1, Len(p) - 1), s[4], s[5], s[6],
               Turn(s, p, "NO_ISSUER"), s[8] + 1, s[9], s[10]>>
        ELSE <<s[1], s[2], p, Append(s[4], issuers), s[5], s[6], s[7], s[8] + 1, s[9], s[10]>>

AfterTry(s) ==
    LET p == s[3]
        parent == Least(s[4][Len(s[4])])
        longer == Append(p, parent)
        left == [s[4] EXCEPT ![Len(s[4])] = @ \ {parent}]
        seen == s[6] \cup {parent}
        failure == EdgeFailure(p, parent)
        Refused(code) == <<s[1], s[2], p, left, s[5], seen, Turn(s, longer, code),
                           s[8] + 1, s[9], s[10]>>
        followed == <<s[1], s[2], longer, left, s[5], seen, s[7], s[8] + 1, s[9], s[10]>>
    IN  IF failure # "NONE" THEN Refused(failure)
        ELSE IF parent \in world.anchors THEN followed
        ELSE IF parent \notin ReachableIn(active) THEN Refused("NO_TRUSTED_ANCHOR")
        ELSE IF s[2] - Len(p) + 1 <= 1
        THEN <<s[1], s[2], p, left, TRUE, seen, s[7], s[8] + 1, s[9], s[10]>>
        ELSE followed

After(s) ==
    LET p == s[3]   t == s[4]
    IN  IF s[1] = "start" THEN AfterStart(s)
        ELSE IF p = <<>> THEN AfterPass(s)
        ELSE IF Len(t) = Len(p) /\ t[Len(t)] = {} THEN AfterReturn(s)
        ELSE IF ~(s[8] < MaxBranches) THEN AfterExhaust(s)
        ELSE IF Len(t) = Len(p) THEN AfterTry(s)
        ELSE IF p[Len(p)] \in world.anchors THEN AfterAnchor(s)
        ELSE AfterEnter(s)

\* Each step of the search is the only one it can take.
LEMMA StepIsAfter ==
    ASSUME SearchInv, SearchStep
    PROVE  search' = After(search) /\ pc # "done"
<1>1. /\ search[1] = pc /\ search[2] = depth /\ search[3] = path /\ search[4] = todo
      /\ search[5] = cutoff /\ search[6] = touched /\ search[7] = branches
      /\ search[8] = budget /\ search[9] = found /\ search[10] = exhausted
  BY DEF search
<1>2. search' = <<pc', depth', path', todo', cutoff', touched', branches', budget',
                  found', exhausted'>>
  BY DEF search
<1>3. Len(todo) \in Nat /\ Len(path) \in Nat
  BY StackFacts DEF SearchInv, ControlInv
<1>4. CASE Start
  BY <1>1, <1>2, <1>4 DEF Start, After, AfterStart
<1>5. CASE Running /\ Exhaust
  BY <1>1, <1>2, <1>3, <1>5 DEF Exhaust, Running, MustSpend, CanSpend, After, AfterExhaust
<1>6. CASE Running /\ EnterAnchor
  <2>1. /\ pc # "start" /\ path # <<>> /\ Len(todo) # Len(path) /\ budget < MaxBranches
        /\ path[Len(path)] \in world.anchors
    BY <1>3, <1>6 DEF EnterAnchor, Running, CanSpend, Current
  <2>2. After(search) = AfterAnchor(search)
    BY <1>1, <2>1 DEF After
  <2>3. search' = AfterAnchor(search)
    BY <1>1, <1>2, <1>6 DEF EnterAnchor, Spend, Reject, AfterAnchor, Turn
  <2> QED BY <1>6, <2>2, <2>3 DEF Running
<1>7. CASE Running /\ Enter
  <2>1. /\ pc # "start" /\ path # <<>> /\ Len(todo) # Len(path) /\ budget < MaxBranches
        /\ path[Len(path)] \notin world.anchors
    BY <1>3, <1>7 DEF Enter, Running, CanSpend, Current
  <2>2. After(search) = AfterEnter(search)
    BY <1>1, <2>1 DEF After
  <2>3. search' = AfterEnter(search)
    <3>1. Candidates = Issuers(active, path[Len(path)]) \ {path[i] : i \in DOMAIN path}
      BY DEF Candidates, Current
    <3>2. CASE Candidates = {}
      BY <1>1, <1>2, <1>7, <3>1, <3>2 DEF Enter, Spend, Reject, AfterEnter, Turn
    <3>3. CASE Candidates # {}
      BY <1>1, <1>2, <1>7, <3>1, <3>3 DEF Enter, Spend, AfterEnter
    <3> QED BY <3>2, <3>3
  <2> QED BY <1>7, <2>2, <2>3 DEF Running
<1>8. CASE Running /\ TryIssuer
  <2>1. /\ pc # "start" /\ path # <<>> /\ Len(todo) = Len(path) /\ todo[Len(todo)] # {}
        /\ budget < MaxBranches
    BY <1>8 DEF TryIssuer, Running, CanSpend
  <2>2. After(search) = AfterTry(search)
    BY <1>1, <2>1 DEF After
  <2>3. search' = AfterTry(search)
    BY <1>1, <1>2, <1>8 DEF TryIssuer, Spend, Reject, AfterTry, Turn
  <2> QED BY <1>8, <2>2, <2>3 DEF Running
<1>9. CASE Running /\ Return
  BY <1>1, <1>2, <1>3, <1>9 DEF Return, Running, After, AfterReturn
<1>10. CASE Running /\ NextPass
  BY <1>1, <1>2, <1>3, <1>10 DEF NextPass, Running, After, AfterPass
<1> QED
  BY <1>4, <1>5, <1>6, <1>7, <1>8, <1>9, <1>10 DEF SearchStep

\* The branches are those of sequences of certificates and of rules.
BranchTypes == branches \in SUBSET (Seq(Certs) \X Codes)

LEMMA BranchesKept ==
    ASSUME SearchInv, BranchTypes, SearchStep
    PROVE  BranchTypes'
<1>1. ActiveOK /\ path \in Seq(Certs) /\ ControlInv /\ StackInv
  BY DEF SearchInv, ControlInv, StackInv
<1>2. \A p, c : {LeafFailure, EdgeFailure(p, c), TerminalFailure(p)} \subseteq Codes \cup {"NONE"}
  BY CheckCodes
<1>3. "NO_ISSUER" \in Codes /\ "NO_TRUSTED_ANCHOR" \in Codes
  BY DEF Codes
<1>4. ASSUME NEW p \in Seq(Certs), NEW code \in Codes, Reject(p, code) PROVE BranchTypes'
  BY <1>4 DEF Reject, BranchTypes
<1>5. ASSUME UNCHANGED branches PROVE BranchTypes'
  BY <1>5 DEF BranchTypes
<1>6. CASE Start
  <2>1. CASE LeafFailure # "NONE"
    <3>1. <<world.leaf>> \in Seq(Certs) /\ LeafFailure \in Codes
      BY <1>1, <1>2, <2>1 DEF ActiveOK
    <3>2. branches' = {<<<<world.leaf>>, LeafFailure>>}
      BY <1>6, <2>1 DEF Start
    <3> QED BY <3>1, <3>2 DEF BranchTypes
  <2>2. CASE LeafFailure = "NONE"
    BY <1>5, <1>6, <2>2 DEF Start
  <2> QED BY <2>1, <2>2
<1>7. CASE EnterAnchor
  <2>1. CASE TerminalFailure(path) # "NONE"
    BY <1>1, <1>2, <1>4, <1>7, <2>1 DEF EnterAnchor
  <2>2. CASE TerminalFailure(path) = "NONE"
    BY <1>5, <1>7, <2>2 DEF EnterAnchor
  <2> QED BY <2>1, <2>2
<1>8. CASE Enter
  BY <1>1, <1>3, <1>4, <1>5, <1>8 DEF Enter
<1>9. CASE TryIssuer
  <2> DEFINE parent == Least(todo[Len(todo)])
             longer == Append(path, parent)
             failure == EdgeFailure(path, parent)
  <2>1. Tries(parent)
    BY <1>9 DEF TryIssuer, Tries
  <2>2. \/ failure # "NONE" /\ Reject(longer, failure)
        \/ Reject(longer, "NO_TRUSTED_ANCHOR")
        \/ UNCHANGED branches
    BY <1>9 DEF TryIssuer
  <2>3. failure \in Codes \cup {"NONE"}
    BY <1>2
  <2> HIDE DEF parent, failure
  <2>4. parent \in Certs
    BY <1>1, <2>1, TryFacts
  <2>5. longer \in Seq(Certs)
    BY <1>1, <2>4
  <2> HIDE DEF longer
  <2> QED BY <1>3, <1>4, <1>5, <2>2, <2>3, <2>5
<1>10. CASE Exhaust \/ Return
  BY <1>5, <1>10 DEF Exhaust, Return
<1>11. CASE NextPass
  <2>1. UNCHANGED branches \/ branches' = {}
    BY <1>11 DEF NextPass
  <2> QED BY <1>5, <2>1 DEF BranchTypes
<1> QED
  BY <1>6, <1>7, <1>8, <1>9, <1>10, <1>11 DEF SearchStep

Ends == {s \in SearchStates : s[1] = "done"}

\* The states a search of the active objects may be in.
Searching == Runs(SearchStates, [s \in SearchStates |-> After(s)], Ends, Beginning)

LEMMA SearchingFrozen ==
    ASSUME UNCHANGED <<world, active>>
    PROVE  Searching' = Searching
<1>1. ReachableIn(active)' = ReachableIn(active) /\ LeafFailure' = LeafFailure
  BY Frozen
<1>2. \A p, c : EdgeFailure(p, c)' = EdgeFailure(p, c)
  BY DEF EdgeFailure, Below
<1>3. \A p : TerminalFailure(p)' = TerminalFailure(p)
  BY DEF TerminalFailure
<1>4. \A c : Issuers(active, c)' = Issuers(active, c)
  BY DEF Issuers
<1>5. \A s : /\ AfterStart(s)' = AfterStart(s) /\ AfterPass(s)' = AfterPass(s)
            /\ AfterAnchor(s)' = AfterAnchor(s) /\ AfterEnter(s)' = AfterEnter(s)
            /\ AfterTry(s)' = AfterTry(s)
  <2>1. \A s : AfterStart(s)' = AfterStart(s)
    BY <1>1 DEF AfterStart
  <2>2. \A s : AfterPass(s)' = AfterPass(s)
    BY DEF AfterPass
  <2>3. \A s : AfterAnchor(s)' = AfterAnchor(s)
    BY <1>3 DEF AfterAnchor
  <2>4. \A s : AfterEnter(s)' = AfterEnter(s)
    BY <1>4 DEF AfterEnter
  <2>5. ASSUME NEW s PROVE AfterTry(s)' = AfterTry(s)
    <3> DEFINE parent == Least(s[4][Len(s[4])])
    <3>1. EdgeFailure(s[3], parent)' = EdgeFailure(s[3], parent)
      BY <1>2
    <3>2. world' = world /\ ReachableIn(active)' = ReachableIn(active)
      BY <1>1
    <3> QED BY <3>1, <3>2, Zenon DEF AfterTry
  <2> QED BY <2>1, <2>2, <2>3, <2>4, <2>5
<1>6. \A s : After(s)' = After(s)
  BY <1>5 DEF After
<1> QED
  BY <1>6 DEF Searching

LEMMA BeginningIn == Beginning \in SearchStates /\ Beginning \in Searching
<1>1. 1 \in 1..MaxPathLen /\ 0 \in 0..MaxBranches
  BY ExplorerAssumption
<1>2. Beginning \in SearchStates
  <2>1. FALSE \in BOOLEAN
    OBVIOUS
  <2>2. <<>> \in Seq(Certs) /\ <<>> \in Seq(SUBSET Certs)
    OBVIOUS
  <2>3. {} \in SUBSET Certs /\ {} \in SUBSET (Seq(Certs) \X Codes)
    OBVIOUS
  <2>4. "start" \in {"start", "deepen", "record", "done"}
    OBVIOUS
  <2> QED BY <1>1, <2>1, <2>2, <2>3, <2>4, Zenon DEF Beginning, SearchStates
<1> QED
  BY <1>2, RunsClosed DEF Searching

\* The state of the search is one a run from the beginning may be in.
LEMMA SearchingKept ==
    ASSUME SearchInv, BranchTypes, search \in Searching, SearchStep
    PROVE  search' \in Searching'
<1>1. SearchInv' /\ BranchTypes' /\ Searching' = Searching
  BY SearchKept, BranchesKept, StackKept, SearchingFrozen DEF SearchInv
<1>2. search' = After(search) /\ pc # "done"
  BY StepIsAfter
<1>3. search' \in SearchStates
  BY <1>1 DEF SearchStates, search, SearchInv, ControlInv, SearchTypeOK, BranchTypes, StackInv
<1>4. search \in SearchStates /\ search \notin Ends
  <2>1. search[1] = pc
    BY DEF search
  <2> QED BY <1>2, <2>1 DEF Ends, Searching, Runs
<1> DEFINE F == [s \in SearchStates |-> After(s)]
<1>5. F[search] = search'
  BY <1>2, <1>4
<1> HIDE DEF F
<1>6. F[search] \in Runs(SearchStates, F, Ends, Beginning)
  BY <1>3, <1>4, <1>5, BeginningIn, RunsClosed DEF Searching, F
<1> QED
  BY <1>1, <1>5, <1>6 DEF Searching, F

\* The result of an adjudication whose last search ended at t.
VerdictAt(t) ==
    IF artifact = "valid" /\ t[9] # <<>> THEN "VALID"
    ELSE IF \/ artifact = "unsupported" \/ world.leaf \in world.unsupported
            \/ \E b \in t[7] : b[2] = "UNSUPPORTED"
    THEN "UNSUPPORTED" ELSE "INVALID"

ResultAt(t) == [verdict |-> VerdictAt(t), path |-> t[9],
                rejection_proof |-> IF t[9] = <<>> THEN t[7] ELSE {},
                exploration_complete |-> t[9] = <<>> /\ ~t[5]]

\* The pack comes from a search of its own objects that touched them all.
PackInv ==
    /\ verified # "FAILED"
    /\ pack # <<>> =>
          /\ pack.objects = <<active, archive>> /\ Read = archive
          /\ \E t \in Searching \cap Ends :
                t[6] = active /\ t[10] = FALSE /\ pack.result = ResultAt(t)

VerifierInv == EngineInv /\ BranchTypes /\ search \in Searching /\ PackInv

LEMMA SearchAt ==
    /\ search[1] = pc /\ search[5] = cutoff /\ search[6] = touched /\ search[7] = branches
    /\ search[9] = found /\ search[10] = exhausted
BY DEF search

LEMMA DoneIsEnd ==
    ASSUME VerifierInv, pc = "done"
    PROVE  search \in Searching \cap Ends
BY SearchAt DEF VerifierInv, Searching, Runs, Ends

\* A replay that has ended has ended as the pack says.
LEMMA ReplayEnds ==
    ASSUME VerifierInv, pack # <<>>, pc = "done"
    PROVE  /\ pack.objects = <<active, archive>> /\ touched = active /\ Read = archive
           /\ ~exhausted
           /\ pack.result = ResultAt(search)
<1>1. PICK t \in Searching \cap Ends :
         t[6] = active /\ t[10] = FALSE /\ pack.result = ResultAt(t)
  BY DEF VerifierInv, PackInv
<1>2. search \in Searching \cap Ends
  BY DoneIsEnd
<1>3. t = search
  <2> DEFINE F == [s \in SearchStates |-> After(s)]
  <2>1. /\ t \in Runs(SearchStates, F, Ends, Beginning) /\ t \in Ends
        /\ search \in Runs(SearchStates, F, Ends, Beginning) /\ search \in Ends
    BY <1>1, <1>2 DEF Searching
  <2> HIDE DEF F
  <2> QED BY <2>1, BeginningIn, OneEnd
<1> QED
  BY <1>1, <1>3, SearchAt DEF VerifierInv, PackInv

\* What a decision says is the result of the state of the search.
LEMMA ResultIsAt ==
    ASSUME EngineInv, verdict # "NONE"
    PROVE  Result = ResultAt(search)
<1>1. verdict = VerdictOf
  BY DEF EngineInv, DecisionInv
<1>2. VerdictOf = VerdictAt(search)
  BY SearchAt DEF VerdictOf, VerdictAt, UnsupportedInvolved
<1> QED
  BY <1>1, <1>2, SearchAt DEF Result, ResultAt

LEMMA PackFrozen ==
    ASSUME PackInv, UNCHANGED <<world, active, archive, artifact, pack, verified>>
    PROVE  PackInv'
<1>1. Searching' = Searching
  BY SearchingFrozen
<1>2. Ends' = Ends
  BY DEF Ends, SearchStates
<1>3. (\A t : ResultAt(t)' = ResultAt(t)) /\ Read' = Read
  BY DEF ResultAt, VerdictAt, Read
<1> QED
  BY <1>1, <1>2, <1>3 DEF PackInv

\* A search that starts is at the beginning of a run.
LEMMA RestartBegins ==
    ASSUME Restart
    PROVE  BranchTypes' /\ search' \in Searching'
<1>1. search' = Beginning /\ branches' = {}
  BY DEF Restart, search, Beginning
<1>2. Beginning \in SearchStates
  BY BeginningIn
<1>3. Beginning \in Searching'
  BY <1>2 DEF Searching, Runs
<1> QED
  BY <1>1, <1>3 DEF BranchTypes

LEMMA VerifierKept ==
    ASSUME VerifierInv, VerifierNext
    PROVE  VerifierInv'
<1>1. EngineInv /\ SearchInv /\ BranchTypes /\ search \in Searching /\ PackInv
  BY DEF VerifierInv, EngineInv
<1>2. ASSUME UNCHANGED evars
      PROVE  BranchTypes' /\ search' \in Searching'
  <2>1. UNCHANGED <<world, active, search>> /\ branches' = branches
    BY <1>2 DEF evars, search
  <2> QED BY <1>1, <2>1, SearchingFrozen DEF BranchTypes
<1>3. CASE Adjudicate
  <2>1. EngineInv' /\ UNCHANGED <<pack, verified>>
    BY <1>1, <1>3, EngineKept DEF Adjudicate
  <2>2. CASE Explore
    <3>1. /\ BranchTypes' /\ search' \in Searching'
          /\ UNCHANGED <<world, active, archive, artifact>>
      BY <1>1, <2>2, BranchesKept, SearchingKept, StackKept DEF Explore, SearchInv
    <3> QED BY <1>1, <2>1, <3>1, PackFrozen DEF VerifierInv
  <2>3. CASE Rerun
    <3>1. pack = <<>>
      BY <2>3, ReplayEnds DEF Rerun, Completed
    <3> QED BY <1>1, <2>1, <2>3, <3>1, RestartBegins DEF Rerun, VerifierInv, PackInv
  <2>4. CASE Decide
    <3>1. UNCHANGED evars /\ UNCHANGED <<world, active, archive, artifact>>
      BY <2>4 DEF Decide, evars
    <3> QED BY <1>1, <1>2, <2>1, <3>1, PackFrozen DEF VerifierInv
  <2> QED BY <1>3, <2>2, <2>3, <2>4 DEF Adjudicate, EngineNext
<1>4. CASE BuildPack
  <2>1. /\ verdict # "NONE" /\ pack' = [objects |-> <<active, archive>>, result |-> Result]
        /\ Restart /\ UNCHANGED <<world, active, archive, artifact, firstProof, verified>>
        /\ verdict' = "NONE"
    BY <1>4 DEF BuildPack
  <2>2. Completed /\ touched = active /\ Read = archive
    BY <1>1, <2>1 DEF EngineInv, DecisionInv
  <2>3. EngineInv'
    <3>1. ActiveOK /\ active' \subseteq active /\ world.leaf \in active'
      BY <1>1, <2>1, EngineTypes DEF ActiveOK
    <3>2. SearchInv'
      BY <2>1, <3>1, RestartKept
    <3>3. active' = Certs \/ Keeps(active)' \/ Lacks(active)'
      BY <1>1, <2>1, FrozenSets DEF EngineInv
    <3> QED BY <1>1, <2>1, <3>2, <3>3 DEF EngineInv, DecisionInv
  <2>4. BranchTypes' /\ search' \in Searching'
    BY <2>1, RestartBegins
  <2>5. PackInv'
    <3>1. Searching' = Searching /\ Ends' = Ends
      BY <2>1, SearchingFrozen DEF Ends, SearchStates
    <3>2. (\A t : ResultAt(t)' = ResultAt(t)) /\ Read' = Read
      BY <2>1 DEF ResultAt, VerdictAt, Read
    <3>3. PICK t \in Searching \cap Ends : t = search
      BY <2>2, DoneIsEnd DEF Completed
    <3>4. t[6] = active /\ t[10] = FALSE /\ Result = ResultAt(t)
      BY <1>1, <2>1, <2>2, <3>3, SearchAt, ResultIsAt DEF Completed
    <3> QED BY <1>1, <2>1, <2>2, <3>1, <3>2, <3>4 DEF PackInv
  <2> QED BY <2>3, <2>4, <2>5 DEF VerifierInv
<1>5. CASE Compare
  <2>1. /\ UNCHANGED <<avars, pack>> /\ pack # <<>> /\ (verdict # "NONE" \/ exhausted)
        /\ verified' = IF ~exhausted /\ <<active, archive>> = pack.objects /\ Result = pack.result
                       THEN "OK" ELSE "FAILED"
    BY <1>5 DEF Compare
  <2>2. UNCHANGED <<evars, artifact, world, active, archive>> /\ verdict' = verdict
    BY <2>1 DEF avars, evars
  <2>3. pc = "done"
    <3>1. exhausted => pc = "done"
      BY <1>1 DEF SearchInv, ControlInv, SearchTypeOK, Running
    <3> QED BY <1>1, <2>1, <3>1 DEF EngineInv, DecisionInv, Completed
  <2>4. pack.objects = <<active, archive>> /\ ~exhausted /\ pack.result = ResultAt(search)
    BY <2>1, <2>3, ReplayEnds
  <2>5. Result = pack.result
    BY <1>1, <2>1, <2>4, ResultIsAt
  <2>6. verified' = "OK"
    BY <2>1, <2>4, <2>5
  <2>7. PackInv'
    <3>1. Searching' = Searching /\ Ends' = Ends
      BY <2>2, SearchingFrozen DEF Ends, SearchStates
    <3>2. (\A t : ResultAt(t)' = ResultAt(t)) /\ Read' = Read
      BY <2>2 DEF ResultAt, VerdictAt, Read
    <3> QED BY <1>1, <2>1, <2>2, <2>6, <3>1, <3>2 DEF PackInv
  <2>8. EngineInv'
    BY <1>1, <2>2, EngineStays
  <2> QED BY <1>2, <2>2, <2>7, <2>8 DEF VerifierInv
<1> QED
  BY <1>3, <1>4, <1>5 DEF VerifierNext

LEMMA VerifierStays ==
    ASSUME VerifierInv, UNCHANGED vvars
    PROVE  VerifierInv'
<1>1. /\ UNCHANGED <<evars, archive, artifact, world, active, search, pack, verified>>
      /\ verdict' = verdict /\ branches' = branches
  BY DEF vvars, avars, evars, search
<1> QED
  BY <1>1, EngineStays, SearchingFrozen, PackFrozen DEF VerifierInv, BranchTypes

LEMMA VerifierBegins ==
    ASSUME VerifierInit
    PROVE  VerifierInv
<1>1. EngineInv
  BY EngineBegins DEF VerifierInit, VerifierFresh, EngineInit
<1>2. search = Beginning /\ branches = {} /\ pack = <<>> /\ verified = "PENDING"
  BY DEF VerifierInit, VerifierFresh, EngineFresh, Fresh, search, Beginning
<1> QED
  BY <1>1, <1>2, BeginningIn DEF VerifierInv, BranchTypes, PackInv

-----------------------------------------------------------------------------
(***************************************************************************)
(* How far an adjudication is from its end.                                *)
(***************************************************************************)
SearchBound == 2 * MaxBranches + MaxPathLen + 3

LEMMA SearchLeftType ==
    (SearchTypeOK => SearchLeft \in Nat) /\ (SearchTypeOK => SearchLeft \in Nat)'
<1>1. ASSUME SearchTypeOK PROVE SearchLeft \in Nat
  <2>1. /\ MaxPathLen \in Nat /\ MaxBranches \in Nat /\ Len(todo) \in Nat
        /\ depth \in 1..MaxPathLen /\ budget \in 0..MaxBranches
    BY <1>1, ExplorerAssumption DEF SearchTypeOK
  <2> QED BY <2>1 DEF SearchLeft
<1> QED
  BY <1>1, PTL

\* Every step of a search takes from its budget, its stack or its passes.
LEMMA SearchShortens ==
    ASSUME SearchTypeOK, StackInv, SearchStep
    PROVE  SearchLeft' < SearchLeft
<1>1. /\ MaxPathLen \in Nat /\ MaxBranches \in Nat /\ Len(todo) \in Nat
      /\ depth \in 1..MaxPathLen /\ budget \in 0..MaxBranches
      /\ todo \in Seq(SUBSET Certs) /\ path \in Seq(Certs)
      /\ pc \in {"start", "deepen", "record", "done"}
  BY ExplorerAssumption DEF SearchTypeOK
<1>2. CASE Start
  <2>1. /\ pc = "start" /\ pc' \in {"deepen", "done"}
        /\ depth' = depth /\ todo' = todo /\ budget' = budget
    BY <1>2 DEF Start
  <2> QED BY <1>1, <2>1 DEF SearchLeft
<1>3. CASE Running /\ Exhaust
  <2>1. /\ pc \in {"deepen", "record"} /\ pc' = "done"
        /\ depth' = depth /\ todo' = todo /\ budget' = budget
    BY <1>3 DEF Running, Exhaust
  <2> QED BY <1>1, <2>1 DEF SearchLeft
<1>4. CASE Running /\ EnterAnchor
  <2>1. /\ pc \in {"deepen", "record"} /\ pc' \in {pc, "done"}
        /\ depth' = depth /\ todo' = todo /\ budget' = budget + 1
    BY <1>4 DEF Running, EnterAnchor, Spend
  <2> QED BY <1>1, <2>1 DEF SearchLeft
<1>5. CASE Running /\ Enter
  <2>1. /\ pc \in {"deepen", "record"} /\ pc' = pc
        /\ depth' = depth /\ budget' = budget + 1
        /\ todo' = todo \/ todo' = Append(todo, Candidates)
    BY <1>5 DEF Running, Enter, Spend
  <2>2. Len(todo') \in {Len(todo), Len(todo) + 1}
    BY <1>1, <2>1
  <2> QED BY <1>1, <2>1, <2>2 DEF SearchLeft
<1>6. CASE Running /\ TryIssuer
  <2>1. /\ pc \in {"deepen", "record"} /\ pc' = pc
        /\ depth' = depth /\ budget' = budget + 1
        /\ \E S : todo' = [todo EXCEPT ![Len(todo)] = S]
    BY <1>6 DEF Running, TryIssuer, Spend
  <2>2. Len(todo') = Len(todo)
    BY <1>1, <2>1
  <2> QED BY <1>1, <2>1, <2>2 DEF SearchLeft
<1>7. CASE Running /\ Return
  <2>1. /\ pc \in {"deepen", "record"} /\ pc' = pc
        /\ depth' = depth /\ budget' = budget
        /\ todo' = SubSeq(todo, 1, Len(todo) - 1) /\ path # <<>> /\ Len(todo) = Len(path)
    BY <1>7 DEF Running, Return
  <2>2. Len(todo) > 0
    BY <1>1, <2>1
  <2>3. Len(todo') = Len(todo) - 1
    BY <1>1, <2>1, <2>2
  <2> DEFINE passes == IF pc = "start" THEN MaxPathLen + 3
                       ELSE IF pc = "deepen" THEN MaxPathLen - depth + 2
                       ELSE IF pc = "record" THEN 1 ELSE 0
  <2>4. passes' = passes /\ passes \in Int
    BY <1>1, <2>1
  <2>5. /\ SearchLeft = 2 * (MaxBranches - budget) + Len(todo) + passes
        /\ SearchLeft' = 2 * (MaxBranches - budget') + Len(todo') + passes'
    BY DEF SearchLeft
  <2> HIDE DEF passes
  <2> QED BY <1>1, <2>1, <2>3, <2>4, <2>5
<1>8. CASE Running /\ NextPass
  <2>1. todo' = todo /\ budget' = budget
    BY <1>8 DEF NextPass
  <2>2. CASE pc = "deepen" /\ pc' = "deepen" /\ depth' = depth + 1
    BY <1>1, <2>1, <2>2 DEF SearchLeft
  <2>3. CASE pc = "deepen" /\ pc' = "record"
    BY <1>1, <2>1, <2>3 DEF SearchLeft
  <2>4. CASE pc = "record" /\ pc' = "done"
    BY <1>1, <2>1, <2>4 DEF SearchLeft
  <2> QED BY <1>8, <2>2, <2>3, <2>4 DEF NextPass
<1> QED
  BY <1>2, <1>3, <1>4, <1>5, <1>6, <1>7, <1>8 DEF SearchStep

\* Every step of an adjudication shortens the search, starts another over fewer objects,
\* or decides.
LEMMA EngineShortens ==
    ASSUME EngineInv, EngineNext
    PROVE  StepsLeft' \in Nat /\ StepsLeft' < StepsLeft
<1> DEFINE K == SearchBound + 1
<1>1. SearchTypeOK /\ SearchTypeOK' /\ StackInv /\ touched \in SUBSET active
  BY EngineKept DEF EngineInv, SearchInv, ControlInv
<1>2. SearchLeft \in Nat /\ SearchLeft' \in Nat
  BY <1>1, SearchLeftType
<1>3. K \in Nat /\ K = 2 * MaxBranches + MaxPathLen + 4
  BY ExplorerAssumption DEF SearchBound
<1>0. archive \in SUBSET Evidence /\ archive' \in SUBSET Evidence
  BY EngineKept DEF EngineInv
<1>4. /\ IsFiniteSet(active) /\ IsFiniteSet(archive)
      /\ Cardinality(active) \in Nat /\ Cardinality(active') \in Nat
      /\ Cardinality(archive) \in Nat /\ Cardinality(archive') \in Nat
  <2>1. IsFiniteSet(Certs) /\ active \in SUBSET Certs /\ active' \in SUBSET Certs
    BY <1>1, ExplorerAssumption DEF SearchTypeOK
  <2> QED BY <1>0, <2>1, EngineAssumption, FS_Subset, FS_CardinalityType
<1> DEFINE m == Cardinality(active') + Cardinality(archive')
           n == Cardinality(active) + Cardinality(archive)
<1> DEFINE one == IF verdict = "NONE" THEN 1 ELSE 0
<1>5. one \in {0, 1} /\ one' \in {0, 1}
  OBVIOUS
<1>6. /\ StepsLeft = n * K + SearchLeft + one
      /\ StepsLeft' = m * K + SearchLeft' + one'
  BY <1>3 DEF StepsLeft
<1>7. CASE Explore
  <2>1. SearchLeft' < SearchLeft /\ one' = one
    BY <1>1, <1>7, SearchShortens DEF Explore
  <2>2. active' = active /\ archive' = archive
    BY <1>7, StackKept DEF Explore, EngineInv, SearchInv
  <2>3. m = n /\ n \in Nat
    BY <1>4, <2>2
  <2> HIDE DEF K, one, m, n
  <2> QED BY <1>2, <1>3, <1>5, <1>6, <2>1, <2>3
<1>8. CASE Rerun
  <2>1. /\ active' = touched /\ archive' = Read /\ one = 1 /\ one' = 1
        /\ touched # active \/ Read # archive
    BY <1>8 DEF Rerun
  <2>2. m < n
    <3>1. /\ Cardinality(active') <= Cardinality(active)
          /\ active' # active => Cardinality(active') < Cardinality(active)
      BY <1>1, <1>4, <2>1, FS_Subset
    <3>2. /\ Cardinality(archive') <= Cardinality(archive)
          /\ archive' # archive => Cardinality(archive') < Cardinality(archive)
      <4>1. archive' \in SUBSET archive
        BY <2>1 DEF Read
      <4> QED BY <1>4, <4>1, FS_Subset
    <3> QED BY <1>4, <2>1, <3>1, <3>2
  <2>3. SearchLeft' = SearchBound
    <3>1. pc' = "start" /\ budget' = 0 /\ Len(todo') = 0
      BY <1>8 DEF Rerun, Restart
    <3> QED BY <3>1, ExplorerAssumption DEF SearchLeft, SearchBound
  <2>4. m * K + K <= n * K
    <3>1. m + 1 <= n /\ m \in Nat /\ n \in Nat
      BY <1>4, <2>2
    <3> HIDE DEF m, n, K
    <3>2. (m + 1) * K <= n * K /\ (m + 1) * K = m * K + K
      BY <1>3, <3>1
    <3> QED BY <3>2
  <2>5. m * K \in Nat /\ n * K \in Nat /\ K = SearchBound + 1 /\ SearchBound \in Int
    BY <1>3, <1>4, ExplorerAssumption DEF SearchBound
  <2> HIDE DEF m, n, K, one
  <2> QED BY <1>2, <1>5, <1>6, <2>1, <2>3, <2>4, <2>5
<1>9. CASE Decide
  <2>1. UNCHANGED <<evars, archive>> /\ verdict = "NONE" /\ verdict' # "NONE"
    BY <1>9 DEF Decide, VerdictOf
  <2>2. /\ active' = active /\ archive' = archive /\ SearchLeft' = SearchLeft
        /\ one = 1 /\ one' = 0
    BY <2>1 DEF evars, search, SearchLeft
  <2>3. m = n /\ n \in Nat
    BY <1>4, <2>2
  <2> HIDE DEF K, one, m, n
  <2> QED BY <1>2, <1>3, <1>6, <2>2, <2>3
<1> QED
  BY <1>7, <1>8, <1>9 DEF EngineNext

-----------------------------------------------------------------------------
(***************************************************************************)
(* The theorems.                                                           *)
(***************************************************************************)
LEMMA EngineAlways == EngineSpec => []EngineInv
<1>1. EngineInit => EngineInv
  BY EngineBegins
<1>2. EngineInv /\ [EngineNext]_avars => EngineInv'
  <2>1. ASSUME EngineInv, UNCHANGED avars PROVE EngineInv'
    <3>1. UNCHANGED <<evars, archive, artifact>> /\ verdict' = verdict
      BY <2>1 DEF avars
    <3> QED BY <2>1, <3>1, EngineStays
  <2> QED BY <2>1, EngineKept
<1> QED
  BY <1>1, <1>2, PTL DEF EngineSpec

LEMMA VerifierAlways == VerifierSpec => []VerifierInv
<1>1. VerifierInv /\ [VerifierNext]_vvars => VerifierInv'
  BY VerifierKept, VerifierStays
<1> QED
  BY <1>1, VerifierBegins, PTL DEF VerifierSpec

\* The path an adjudication decides on is the best of the whole set, for any number of
\* rounds.
THEOREM DecisionFindsBest == EngineSpec => []DecisionIsBestOfSet
BY EngineAlways, DecisionIsBest, PTL

\* An adjudication says VALID exactly when the artifact signature verifies and the whole
\* set holds a valid path of MAX_PATH_LEN + 1 certificates or fewer.
THEOREM VerdictIsSound == EngineSpec => []ValidIffPath
BY EngineAlways, DecisionIsValid, PTL

\* A path found in any round exceeds MAX_PATH_LEN by one certificate at most, the anchor.
THEOREM PathOneOver == EngineSpec => [](Len(found) <= MaxPathLen + 1)
<1>1. EngineInv => Len(found) <= MaxPathLen + 1
  <2>1. ASSUME EngineInv, found = <<>> PROVE Len(found) <= MaxPathLen + 1
    BY <2>1, ExplorerAssumption
  <2> QED BY <2>1, EngineTypes
<1> QED
  BY <1>1, EngineAlways, PTL

\* The proof an adjudication stores accounts for every chain of the whole set.
THEOREM StoredProofCovers == EngineSpec => []ProofCoversSet
BY EngineAlways, DecisionProvesRejection, PTL

\* The offline verifier accepts every pack: the replay stays within its budget, touches all
\* it is given and comes to the result of the adjudication.  Nothing is assumed of the
\* budget but that the adjudication itself was within it.
THEOREM EveryPackVerifies == VerifierSpec => []PackVerifies
<1>1. VerifierInv => PackVerifies
  BY DEF VerifierInv, PackInv, PackVerifies
<1> QED
  BY <1>1, VerifierAlways, PTL

\* An adjudication takes fewer steps than are counted when it starts, whatever the graph:
\* each search is cut by its budget, and the rounds end as each but the last loses an object.
THEOREM AdjudicationIsBounded == EngineSpec => StepsRunOut
<1>1. EngineInv /\ [EngineNext]_avars =>
          [verdict = "NONE" => StepsLeft' \in Nat /\ StepsLeft' < StepsLeft]_avars
  BY EngineShortens
<1> QED
  BY <1>1, EngineAlways, PTL DEF EngineSpec, StepsRunOut

\* So does the replay of a pack, whose count starts anew.
THEOREM ReplayIsBounded == VerifierSpec => StepsRunOut
<1>1. VerifierInv /\ [VerifierNext]_vvars =>
          [verdict = "NONE" => StepsLeft' \in Nat /\ StepsLeft' < StepsLeft]_avars
  <2> SUFFICES ASSUME VerifierInv, VerifierNext, verdict = "NONE", avars' # avars
               PROVE  StepsLeft' \in Nat /\ StepsLeft' < StepsLeft
    BY DEF vvars
  <2>1. EngineNext
    BY DEF VerifierNext, Adjudicate, BuildPack, Compare
  <2> QED BY <2>1, EngineShortens DEF VerifierInv
<1> QED
  BY <1>1, VerifierAlways, PTL DEF VerifierSpec, StepsRunOut

\* The decision of the replay is as good as that of the adjudication, of the whole set.
THEOREM ReplayDecides ==
    VerifierSpec => [](DecisionIsBestOfSet /\ ValidIffPath /\ ProofCoversSet)
<1>1. VerifierInv => DecisionIsBestOfSet /\ ValidIffPath /\ ProofCoversSet
  BY DecisionIsBest, DecisionIsValid, DecisionProvesRejection DEF VerifierInv
<1> QED
  BY <1>1, VerifierAlways, PTL
=============================================================================
