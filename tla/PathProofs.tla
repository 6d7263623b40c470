----------------------------- MODULE PathProofs ------------------------------
(***************************************************************************)
(* The policy walk keeps exactly the policies that the certificates it has *)
(* passed support, and its verdict is the one they call for, for paths of  *)
(* any length with any policies, mappings and skip counts, and for every   *)
(* input.  The two loops of check_name_constraints pass a path exactly if  *)
(* every certificate of it is outside all subtrees excluded above it and   *)
(* inside those permitted above it, for any names.                         *)
(***************************************************************************)
EXTENDS PathRules, SequenceTheorems, WellFoundedInduction, TLAPS

\* Where the engine stands: a path is walked only once the input is read back.
Staged ==
    /\ outcome = "PENDING" => times = Missing
    /\ path # NoPath => times # Missing
    /\ path = NoPath => PoliciesFresh /\ nameResult = "PENDING"
    /\ path # NoPath => Len(path) \in Nat \ {0} /\ narrowed \in 0..Len(path) - 1

\* What the walk has found, and what it ends with.
PolicyDecided ==
    /\ \A i \in Above(narrowed) : ~MapsAny(i)
    /\ policyResult = "POLICY_MAPPING_ANY" => \E i \in Below : i = narrowed /\ MapsAny(i)
    /\ policyResult \notin {"PENDING", "POLICY_MAPPING_ANY"} =>
          /\ narrowed = 0
          /\ \E S : /\ S = valid /\ policyResult = Acceptance(S)
                    /\ policyResult = "NONE" => accepted = valid_policies(S)

PolicyInv == Staged /\ ValidPoliciesExact /\ PolicyDecided

-----------------------------------------------------------------------------
(***************************************************************************)
(* Facts about the operators.                                              *)
(***************************************************************************)
LEMMA LeastOfFour ==
    ASSUME NEW F \in SUBSET (1..4), F # {}
    PROVE  \E i \in F : \A j \in F : i <= j
<1>1. CASE 1 \in F
  BY <1>1
<1>2. CASE 1 \notin F /\ 2 \in F
  BY <1>2
<1>3. CASE 1 \notin F /\ 2 \notin F /\ 3 \in F
  BY <1>3
<1>4. CASE 1 \notin F /\ 2 \notin F /\ 3 \notin F
  <2>1. \A j \in F : j = 4
    BY <1>4
  <2>2. PICK i \in F : i = 4
    BY <2>1
  <2>3. i <= i
    BY <2>2
  <2> QED BY <2>1, <2>2, <2>3
<1> QED
  BY <1>1, <1>2, <1>3, <1>4

\* A chain of four rules passes exactly if each rule passes, and fails with a code of
\* one of them.
LEMMA FourRules ==
    ASSUME NEW a, NEW b, NEW c, NEW d,
           \A r \in {a, b, c, d} : r.code # "NONE" /\ r.passes \in BOOLEAN
    PROVE  LET code == FirstFailing(<<a, b, c, d>>)
           IN  /\ code = "NONE" <=> a.passes /\ b.passes /\ c.passes /\ d.passes
               /\ code = "NONE" \/ \E r \in {a, b, c, d} : code = r.code
<1> DEFINE rules == <<a, b, c, d>>
           failing == {i \in DOMAIN rules : ~rules[i].passes}
<1>1. DOMAIN rules = 1..4 /\ \A i \in 1..4 : rules[i] \in {a, b, c, d}
  OBVIOUS
<1>2. ASSUME failing # {} PROVE \E i \in 1..4 : FirstFailing(rules) = rules[i].code
  <2>1. \E i \in failing : \A j \in failing : i <= j
    BY <1>1, <1>2, LeastOfFour
  <2>2. PICK i \in failing : FirstFailing(rules) = rules[i].code
    BY <1>2, <2>1 DEF FirstFailing
  <2> QED BY <1>1, <2>2
<1>3. failing = {} => FirstFailing(rules) = "NONE"
  BY DEF FirstFailing
<1>4. failing = {} <=> a.passes /\ b.passes /\ c.passes /\ d.passes
  BY <1>1
<1> QED
  BY <1>1, <1>2, <1>3, <1>4

\* What acceptance asks of the set of valid policies.  It never answers with a mapping of
\* anyPolicy, or not at all.
LEMMA AcceptanceMeaning ==
    ASSUME NEW S
    PROVE  /\ Acceptance(S) = "NONE" <=>
                 /\ S \in {{}, {AnyPolicy}} => ~ExplicitRequired
                 /\ S = {} => ~Specific
                 /\ Specific => AnyPolicy \in S \/ S \cap initial # {}
           /\ Acceptance(S) \notin {"PENDING", "POLICY_MAPPING_ANY"}
<1> DEFINE a == Rule("POLICY_TREE_EMPTY", S = {} => ~ExplicitRequired)
           b == Rule("POLICY_INITIAL_SET_MISMATCH", S = {} => ~Specific)
           c == Rule("POLICY_EXPLICIT_REQUIRED", S = {AnyPolicy} => ~ExplicitRequired)
           d == Rule("POLICY_INITIAL_SET_MISMATCH",
                     Specific => AnyPolicy \in S \/ S \cap initial # {})
<1>1. Acceptance(S) = FirstFailing(<<a, b, c, d>>)
  BY DEF Acceptance
<1>2. \A r \in {a, b, c, d} :
         r.code \notin {"NONE", "PENDING", "POLICY_MAPPING_ANY"} /\ r.passes \in BOOLEAN
  <2>1. \A code, p : Rule(code, p).code = code /\ Rule(code, p).passes = p
    BY DEF Rule
  <2>2. /\ a.passes \in BOOLEAN /\ b.passes \in BOOLEAN
        /\ c.passes \in BOOLEAN /\ d.passes \in BOOLEAN
    BY DEF Rule
  <2>3. \A r \in {a, b, c, d} : r.code \in {"POLICY_TREE_EMPTY",
                "POLICY_INITIAL_SET_MISMATCH", "POLICY_EXPLICIT_REQUIRED"}
    BY <2>1
  <2> QED BY <2>2, <2>3
<1>3. /\ a.passes <=> (S = {} => ~ExplicitRequired)
      /\ b.passes <=> (S = {} => ~Specific)
      /\ c.passes <=> (S = {AnyPolicy} => ~ExplicitRequired)
      /\ d.passes <=> (Specific => AnyPolicy \in S \/ S \cap initial # {})
  BY DEF Rule
<1> HIDE DEF a, b, c, d
<1>4. /\ Acceptance(S) = "NONE" <=> a.passes /\ b.passes /\ c.passes /\ d.passes
      /\ Acceptance(S) = "NONE" \/ \E r \in {a, b, c, d} : Acceptance(S) = r.code
  BY <1>1, <1>2, FourRules
<1> QED
  BY <1>2, <1>3, <1>4

\* The rules of a certificate depend on the path alone.
LEMMA SamePath ==
    ASSUME UNCHANGED path
    PROVE  /\ UNCHANGED <<Below, ExplicitRequired>>
           /\ \A i : /\ UNCHANGED <<Above(i), Vouched(i)>>
                     /\ OpenAt(i)' <=> OpenAt(i)
                     /\ MapsAny(i)' <=> MapsAny(i)
           /\ \A i, p : Supports(i, p)' <=> Supports(i, p)
<1>1. Below' = Below /\ \A i : Above(i)' = Above(i)
  BY DEF Below, Above, Anchor
<1>2. \A field, i : PendingAt(field, i)' = PendingAt(field, i)
  BY <1>1 DEF PendingAt
<1>3. \A field, i : Allowed(field, i)' = Allowed(field, i)
  BY <1>2 DEF Allowed
<1>4. \A i : Mappings(i)' = Mappings(i) /\ Asserted(i)' = Asserted(i)
  BY <1>1, <1>3 DEF Mappings, Asserted
<1>5. \A i : Vouched(i)' = Vouched(i) /\ (MapsAny(i)' <=> MapsAny(i))
  BY <1>4 DEF Vouched, MapsAny
<1>6. \A i : OpenAt(i)' <=> OpenAt(i)
  BY <1>3 DEF OpenAt
<1>7. \A i, p : Supports(i, p)' <=> Supports(i, p)
  BY <1>5, <1>6 DEF Supports
<1>8. ExplicitRequired' = ExplicitRequired
  BY <1>3 DEF ExplicitRequired
<1> QED
  BY <1>1, <1>5, <1>6, <1>7, <1>8

\* What acceptance makes of a set depends on the path and the initial policy set.
LEMMA SameAcceptance ==
    ASSUME UNCHANGED <<path, initial>>
    PROVE  \A S : UNCHANGED <<Acceptance(S), valid_policies(S)>>
BY SamePath DEF Acceptance, valid_policies, Specific

\* No policy that a certificate vouches for is anyPolicy, unless a mapping names it.
LEMMA VouchedSpecific ==
    ASSUME NEW i, ~MapsAny(i) PROVE AnyPolicy \notin Vouched(i)
BY DEF Vouched, Asserted, MapsAny

\* The certificates passed, one step further.
LEMMA OneMore ==
    ASSUME Len(path) \in Nat, NEW n \in Below
    PROVE  /\ n - 1 \in 0..Len(path) - 1
           /\ Above(n - 1) = Above(n) \cup {n}
BY DEF Below, Above, Anchor

-----------------------------------------------------------------------------
(***************************************************************************)
(* One iteration of the walk.                                              *)
(***************************************************************************)
LEMMA NarrowExact ==
    ASSUME PolicyInv, path # NoPath, Narrow, UNCHANGED path
    PROVE  ValidPoliciesExact' /\ PolicyDecided'
<1> DEFINE n == narrowed
           walked == Above(n)
           named == UNION {Vouched(i) : i \in walked}
           Exact(V, m) ==
             \/ /\ AnyPolicy \in V
                /\ \A i \in Above(m) : OpenAt(i)
                /\ V \ {AnyPolicy} = UNION {Vouched(i) : i \in Above(m) \cap {m + 1}}
             \/ /\ AnyPolicy \notin V
                /\ \E i \in Above(m) : ~OpenAt(i)
                /\ V = {p \in UNION {Vouched(i) : i \in Above(m)} :
                          \A i \in Above(m) : Supports(i, p)}
<1>1. Len(path) \in Nat /\ n \in Below /\ n \in Nat
  BY DEF PolicyInv, Staged, Narrow, Below, Anchor
<1>2. Exact(valid, n)
  BY DEF PolicyInv, ValidPoliciesExact
<1>3. \A i \in walked : ~MapsAny(i)
  BY DEF PolicyInv, PolicyDecided
<1>4. ASSUME NEW V, NEW m, valid' = V, narrowed' = m, Exact(V, m)
      PROVE  ValidPoliciesExact'
  BY <1>4, SamePath DEF ValidPoliciesExact, Above, Anchor
<1>5. CASE MapsAny(n)
  <2>1. /\ policyResult' = "POLICY_MAPPING_ANY" /\ UNCHANGED <<valid, narrowed>>
    BY <1>5 DEF Narrow
  <2>2. PolicyDecided'
    BY <1>1, <1>3, <1>5, <2>1, SamePath DEF PolicyDecided, Above, Anchor
  <2> QED BY <1>2, <1>4, <2>1, <2>2
<1>6. CASE ~MapsAny(n)
  <2>1. /\ valid' = Narrowed(valid, n) /\ narrowed' = n - 1
        /\ UNCHANGED policyResult /\ policyResult = "PENDING"
    BY <1>6 DEF Narrow
  <2>2. Above(n - 1) = walked \cup {n} /\ n \in Above(n - 1) /\ (n - 1) + 1 = n
    BY <1>1, OneMore
  <2>3. AnyPolicy \notin Vouched(n)
    BY <1>6, VouchedSpecific
  <2>4. Exact(Narrowed(valid, n), n - 1)
    <3>1. CASE AnyPolicy \in valid /\ OpenAt(n)
      <4>1. Narrowed(valid, n) = {AnyPolicy} \cup Vouched(n)
        BY <3>1 DEF Narrowed
      <4>2. \A i \in Above(n - 1) : OpenAt(i)
        BY <1>2, <2>2, <3>1
      <4>3. UNION {Vouched(i) : i \in Above(n - 1) \cap {(n - 1) + 1}} = Vouched(n)
        BY <2>2
      <4> QED BY <2>3, <4>1, <4>2, <4>3
    <3>2. CASE AnyPolicy \in valid /\ ~OpenAt(n)
      <4>1. Narrowed(valid, n) = Vouched(n)
        BY <3>2 DEF Narrowed
      <4>2. \A i \in walked : OpenAt(i)
        BY <1>2, <3>2
      <4>3. Vouched(n) = {p \in UNION {Vouched(i) : i \in Above(n - 1)} :
                            \A i \in Above(n - 1) : Supports(i, p)}
        BY <2>2, <3>2, <4>2 DEF Supports
      <4> QED BY <2>2, <2>3, <3>2, <4>1, <4>3
    <3>3. CASE AnyPolicy \notin valid
      <4>1. /\ \E i \in walked : ~OpenAt(i)
            /\ valid = {p \in named : \A i \in walked : Supports(i, p)}
        BY <1>2, <3>3
      <4>2. Narrowed(valid, n) = (IF OpenAt(n) THEN valid ELSE {}) \cup (Vouched(n) \cap valid)
        BY <3>3 DEF Narrowed
      <4>3. \A p : p \in Narrowed(valid, n) <=> p \in valid /\ Supports(n, p)
        BY <4>2 DEF Supports
      <4>4. \A p : (\A i \in walked : Supports(i, p)) => p \in named
        BY <4>1 DEF Supports
      <4>5. Narrowed(valid, n) = {p \in UNION {Vouched(i) : i \in Above(n - 1)} :
                                     \A i \in Above(n - 1) : Supports(i, p)}
        BY <2>2, <4>1, <4>3, <4>4
      <4> QED BY <2>2, <3>3, <4>1, <4>3, <4>5
    <3> QED BY <3>1, <3>2, <3>3
  <2>5. ValidPoliciesExact'
    BY <1>4, <2>1, <2>4
  <2>6. PolicyDecided'
    <3>1. \A i \in Above(n - 1) : ~MapsAny(i)
      BY <1>3, <1>6, <2>2
    <3> QED BY <2>1, <3>1, SamePath DEF PolicyDecided, Above, Anchor
  <2> QED BY <2>5, <2>6
<1> QED
  BY <1>5, <1>6

\* Steps that leave path and set alone keep what is known of the set.
LEMMA SetKept ==
    ASSUME ValidPoliciesExact, UNCHANGED <<path, valid, narrowed>>
    PROVE  ValidPoliciesExact'
BY SamePath DEF ValidPoliciesExact, Above, Anchor

\* The end of the walk: the verdict is on the set as it stands.
LEMMA AcceptExact ==
    ASSUME PolicyInv, Accept, UNCHANGED path
    PROVE  ValidPoliciesExact' /\ PolicyDecided'
<1>1. /\ policyResult' = Acceptance(valid) /\ narrowed = 0
      /\ UNCHANGED <<initial, narrowed, valid, path>>
      /\ Acceptance(valid) = "NONE" => accepted' = valid_policies(valid)
  BY DEF Accept
<1>2. policyResult' \notin {"PENDING", "POLICY_MAPPING_ANY"}
  BY <1>1, AcceptanceMeaning
<1>3. ValidPoliciesExact'
  BY <1>1, SetKept DEF PolicyInv
<1>4. \A i \in Above(0) : ~MapsAny(i)
  BY <1>1 DEF PolicyInv, PolicyDecided
<1>5. PICK S : S = valid
  OBVIOUS
<1>6. /\ S = valid' /\ policyResult' = Acceptance(S)'
      /\ policyResult' = "NONE" => accepted' = valid_policies(S)'
  BY <1>1, <1>5, SameAcceptance
<1> QED
  BY <1>1, <1>2, <1>3, <1>4, <1>6, SamePath DEF PolicyDecided, Above, Anchor

\* A walk that has not begun has narrowed nothing.
LEMMA BeforeTheWalk ==
    ASSUME valid = {AnyPolicy}, policyResult = "PENDING", Above(narrowed) = {}
    PROVE  ValidPoliciesExact /\ PolicyDecided
BY DEF ValidPoliciesExact, PolicyDecided

\* Steps that do not touch the walk keep what is known of it.
LEMMA WalkUntouched ==
    ASSUME PolicyInv, UNCHANGED <<path, pvars>>
    PROVE  ValidPoliciesExact' /\ PolicyDecided'
<1>1. UNCHANGED <<path, initial, valid, narrowed, policyResult, accepted>>
  BY DEF pvars
<1>2. ValidPoliciesExact'
  BY <1>1, SetKept DEF PolicyInv
<1>3. PolicyDecided'
  BY <1>1, SamePath, SameAcceptance DEF PolicyInv, PolicyDecided, Above, Anchor
<1> QED
  BY <1>2, <1>3

\* Every step keeps the invariant.
LEMMA NextPolicies ==
    ASSUME PolicyInv, [PathNext]_pathvars, raw \in RawInputs
    PROVE  PolicyInv'
<1>1. CASE Validate
  <2>1. path = NoPath /\ PoliciesFresh /\ outcome = "PENDING"
        /\ nameResult = "PENDING"
        /\ UNCHANGED <<path, narrowed, valid, policyResult, accepted, times, nameResult>>
    BY <1>1 DEF Validate, Normalize, PolicyInv, Staged, nvars
  <2>2. Staged'
    BY <2>1 DEF PolicyInv, Staged, PoliciesFresh
  <2>3. (Above(narrowed) = {})' /\ (valid = {AnyPolicy})' /\ (policyResult = "PENDING")'
    BY <2>1 DEF PoliciesFresh, NoPath, Above, Anchor
  <2>4. ValidPoliciesExact' /\ PolicyDecided'
    BY <2>3 DEF ValidPoliciesExact, PolicyDecided
  <2> QED BY <2>2, <2>4 DEF PolicyInv
<1>2. CASE StartEngine
  <2>1. /\ outcome = "NONE" /\ times = Missing /\ outcome' \in {"NONE", "INTERNAL"}
        /\ UNCHANGED <<path, pvars, nameResult>>
    BY <1>2 DEF StartEngine, ReadBack, nvars
  <2>2. Staged'
    BY <2>1 DEF PolicyInv, Staged, PoliciesFresh, pvars
  <2> QED BY <2>1, <2>2, WalkUntouched DEF PolicyInv
<1>3. CASE Propose
  <2>1. /\ path = NoPath /\ PoliciesFresh /\ times # Missing
        /\ Len(path') \in Nat \ {0} /\ narrowed' = Len(path') - 1
        /\ UNCHANGED <<outcome, times, valid, policyResult, accepted>>
    BY <1>3, PathsAssumption DEF Propose, StartPolicies, ivars, PolicyInv, Staged
  <2>2. Staged'
    BY <2>1 DEF PolicyInv, Staged, NoPath
  <2>3. (Above(narrowed) = {})' /\ (valid = {AnyPolicy})' /\ (policyResult = "PENDING")'
    BY <2>1 DEF PoliciesFresh, Above, Anchor
  <2>4. ValidPoliciesExact' /\ PolicyDecided'
    BY <2>3 DEF ValidPoliciesExact, PolicyDecided
  <2> QED BY <2>2, <2>4 DEF PolicyInv
<1>4. CASE EvaluatePolicies
  <2>1. PoliciesStep /\ UNCHANGED <<path, ivars>>
    BY <1>4 DEF EvaluatePolicies
  <2>3. CASE Narrow
    <3>1. path # NoPath
      BY <2>3 DEF PolicyInv, Staged, PoliciesFresh, Narrow
    <3>2. narrowed' \in 0..Len(path) - 1
      BY <2>3, <3>1 DEF PolicyInv, Staged, Narrow
    <3>3. Staged'
      BY <2>1, <3>1, <3>2 DEF PolicyInv, Staged, ivars
    <3> QED BY <2>1, <2>3, <3>1, <3>3, NarrowExact DEF PolicyInv
  <2>4. CASE Accept /\ path # NoPath
    <3>1. Staged'
      BY <2>1, <2>4 DEF PolicyInv, Staged, ivars, Accept
    <3> QED BY <2>1, <2>4, <3>1, AcceptExact DEF PolicyInv
  <2>5. path # NoPath
    BY <1>4 DEF EvaluatePolicies, PolicyInv, Staged
  <2> QED BY <2>1, <2>3, <2>4, <2>5 DEF PoliciesStep
<1>5. CASE EvaluateNames \/ VerifyInput \/ UNCHANGED pathvars
  <2>1. UNCHANGED <<path, pvars, outcome, times>> /\ (path = NoPath => UNCHANGED nameResult)
    BY <1>5 DEF EvaluateNames, VerifyInput, Renormalize, pathvars, ivars, nvars
  <2>2. Staged'
    BY <2>1 DEF PolicyInv, Staged, PoliciesFresh, pvars
  <2> QED BY <2>1, <2>2, WalkUntouched DEF PolicyInv
<1> QED
  BY <1>1, <1>2, <1>3, <1>4, <1>5 DEF PathNext

\* Nothing is walked at first.
LEMMA InitPolicies == PathInit => PolicyInv
<1> SUFFICES ASSUME PathInit PROVE PolicyInv
  OBVIOUS
<1>1. /\ path = NoPath /\ PoliciesFresh /\ nameResult = "PENDING" /\ times = Missing
  BY DEF PathInit, PathFresh, InputsFresh, NamesFresh
<1>2. Staged
  BY <1>1 DEF Staged
<1>3. valid = {AnyPolicy} /\ policyResult = "PENDING" /\ Above(narrowed) = {}
  BY <1>1 DEF PoliciesFresh, NoPath, Above, Anchor
<1> QED
  BY <1>2, <1>3, BeforeTheWalk DEF PolicyInv

\* Every reachable state satisfies the invariant.
THEOREM PolicyInvariant == PathSpec => []PolicyInv
<1>1. PathInit => raw \in RawInputs
  BY DEF PathInit
<1>2. raw \in RawInputs /\ [PathNext]_pathvars => (raw \in RawInputs)'
  BY DEF PathNext, pathvars, ivars, Validate, StartEngine, Propose, EvaluateNames,
     EvaluatePolicies, VerifyInput, Normalize, ReadBack, Renormalize
<1>3. PolicyInv /\ raw \in RawInputs /\ [PathNext]_pathvars => PolicyInv'
  BY NextPolicies
<1> QED
  BY <1>1, <1>2, <1>3, InitPolicies, PTL DEF PathSpec

-----------------------------------------------------------------------------
\* The set of valid policies is open exactly while no certificate has closed it, and a
\* closed one holds exactly the policies that every certificate walked supports.
THEOREM PoliciesOfThePath == PathSpec => []ValidPoliciesExact
<1>1. PolicyInv => ValidPoliciesExact
  BY DEF PolicyInv
<1> QED
  BY <1>1, PolicyInvariant, PTL

\* The verdict of a walk that is over.
LEMMA VerdictExact ==
    ASSUME PolicyInv
    PROVE  AcceptanceExact
<1> SUFFICES ASSUME policyResult # "PENDING" PROVE AcceptanceExact
  BY DEF AcceptanceExact
<1> DEFINE open == \A i \in Below : OpenAt(i)
<1>1. CASE policyResult = "POLICY_MAPPING_ANY"
  <2>1. \E i \in Below : MapsAny(i)
    BY <1>1 DEF PolicyInv, PolicyDecided
  <2> QED BY <1>1, <2>1 DEF AcceptanceExact
<1>2. CASE policyResult # "POLICY_MAPPING_ANY"
  <2>1. /\ narrowed = 0 /\ policyResult = Acceptance(valid)
        /\ policyResult = "NONE" => accepted = valid_policies(valid)
    BY <1>2 DEF PolicyInv, PolicyDecided
  <2>2. Above(0) = Below /\ (Below # {} => Below \cap {1} = {1})
    <3>1. path # NoPath
      BY DEF PolicyInv, Staged, PoliciesFresh
    <3>2. Len(path) \in Nat
      BY <3>1 DEF PolicyInv, Staged
    <3> QED BY <3>2 DEF Above, Below, Anchor
  <2>3. \A i \in Below : ~MapsAny(i)
    BY <2>1, <2>2 DEF PolicyInv, PolicyDecided
  <2>4. \/ AnyPolicy \in valid /\ open /\ Supported = valid \ {AnyPolicy}
        \/ AnyPolicy \notin valid /\ ~open /\ Supported = valid
    BY <2>1, <2>2 DEF PolicyInv, ValidPoliciesExact, Supported
  <2>5. Acceptance(valid) = "NONE" <=>
           /\ valid \in {{}, {AnyPolicy}} => ~ExplicitRequired
           /\ valid = {} => ~Specific
           /\ Specific => AnyPolicy \in valid \/ valid \cap initial # {}
    BY AcceptanceMeaning
  <2>6. policyResult = "NONE" <=>
           /\ ExplicitRequired => Supported # {}
           /\ Specific => open \/ Supported \cap initial # {}
    BY <2>1, <2>4, <2>5
  <2>7. (policyResult = "NONE" /\ Specific) =>
            accepted = IF open THEN initial ELSE Supported \cap initial
    BY <2>1, <2>4 DEF valid_policies
  <2> QED BY <2>3, <2>6, <2>7 DEF AcceptanceExact
<1> QED
  BY <1>1, <1>2

\* A path passes the policy rule exactly if what its certificates support satisfies what
\* the path and the request ask for.
THEOREM PolicyVerdict == PathSpec => []AcceptanceExact
<1>1. PolicyInv => AcceptanceExact
  BY VerdictExact
<1> QED
  BY <1>1, PolicyInvariant, PTL

-----------------------------------------------------------------------------
(***************************************************************************)
(* Skip counts.  The running counter is a recursive function, which has to *)
(* be shown to exist before it can be used; both that and what it holds    *)
(* are shown by the least number for which they would fail.                *)
(***************************************************************************)
LEMMA LeastOfSome ==
    ASSUME NEW S \in SUBSET Nat, S # {}
    PROVE  \E n \in S : \A m \in S : n <= m
<1> DEFINE R == OpToRel(<, Nat)
<1>1. \A x, y \in S : <<y, x>> \in R <=> y < x
  BY DEF OpToRel
<1> HIDE DEF R
<1>2. PICK n \in S : \A m \in S : <<m, n>> \notin R
  BY NatLessThanWellFounded, WFMin DEF R
<1>3. \A m \in S : ~(m < n)
  BY <1>1, <1>2
<1> QED
  BY <1>3

LEMMA LeastFailure ==
    ASSUME NEW S \in SUBSET Nat, S # {}
    PROVE  \E n \in S : n = 0 \/ (n - 1 \in Nat /\ n - 1 \notin S)
<1>1. PICK n \in S : \A m \in S : n <= m
  BY LeastOfSome
<1>2. n - 1 \notin S
  <2>1. n - 1 < n
    OBVIOUS
  <2> QED BY <1>1, <2>1
<1> QED
  BY <1>2

\* The counter from the one before it.
Counted(field, n, before) ==
    IF n <= 1 THEN Anchor
    ELSE LET issuer == path[Anchor - n + 1][field]
             left == IF before = 0 THEN 0 ELSE before - 1
         IN  IF issuer # None /\ issuer < left THEN issuer ELSE left

Counts(field, g, m) == g = [n \in 0..m |-> Counted(field, n, g[n - 1])]

LEMMA CountsAgree ==
    ASSUME NEW field, NEW m \in Nat, NEW k \in Nat, NEW g, NEW h,
           Counts(field, g, m), Counts(field, h, k), NEW n \in Nat, n <= m, n <= k
    PROVE  g[n] = h[n]
<1> DEFINE bad == {j \in Nat : j <= m /\ j <= k /\ g[j] # h[j]}
<1>1. \A j \in 0..m : g[j] = Counted(field, j, g[j - 1])
  BY DEF Counts
<1>2. \A j \in 0..k : h[j] = Counted(field, j, h[j - 1])
  BY DEF Counts
<1>3. \A a, b : Counted(field, 0, a) = Counted(field, 0, b)
  BY DEF Counted
<1>4. ASSUME bad # {} PROVE FALSE
  <2>1. bad \in SUBSET Nat
    OBVIOUS
  <2>2. PICK j \in bad : j = 0 \/ (j - 1 \in Nat /\ j - 1 \notin bad)
    <3> HIDE DEF bad
    <3> QED BY <1>4, <2>1, LeastFailure
  <2>3. j \in 0..m /\ j \in 0..k /\ g[j] # h[j]
    BY <2>2
  <2>4. CASE j = 0
    BY <1>1, <1>2, <1>3, <2>3, <2>4
  <2>5. CASE j # 0
    <3>1. g[j - 1] = h[j - 1]
      BY <2>2, <2>3, <2>5
    <3> QED BY <1>1, <1>2, <2>3, <3>1
  <2> QED BY <2>4, <2>5
<1> QED
  BY <1>4

LEMMA CountsExist ==
    ASSUME NEW field, NEW m \in Nat
    PROVE  \E g : Counts(field, g, m)
<1> DEFINE bad == {j \in Nat : ~\E g : Counts(field, g, j)}
<1>1. \A a, b : Counted(field, 0, a) = Counted(field, 0, b)
  BY DEF Counted
<1>2. ASSUME bad # {} PROVE FALSE
  <2>1. bad \in SUBSET Nat
    OBVIOUS
  <2>2. PICK j \in bad : j = 0 \/ (j - 1 \in Nat /\ j - 1 \notin bad)
    <3> HIDE DEF bad
    <3> QED BY <1>2, <2>1, LeastFailure
  <2>3. CASE j = 0
    <3> DEFINE g == [n \in 0..0 |-> Counted(field, n, 0)]
    <3>1. g = [n \in 0..0 |-> Counted(field, n, g[n - 1])]
      <4> DEFINE h == [n \in 0..0 |-> Counted(field, n, g[n - 1])]
      <4>1. \A n \in 0..0 : n = 0
        OBVIOUS
      <4>2. \A n \in 0..0 : g[n] = h[n]
        BY <1>1, <4>1
      <4> QED BY <4>2
    <3> QED BY <2>2, <2>3, <3>1 DEF Counts
  <2>4. CASE j # 0
    <3>1. PICK g : Counts(field, g, j - 1)
      BY <2>2, <2>4
    <3> DEFINE h == [n \in 0..j |-> IF n = j THEN Counted(field, j, g[j - 1]) ELSE g[n]]
    <3>2. j \in Nat \ {0}
      BY <2>2, <2>4
    <3>3. \A n \in 0..j - 1 : g[n] = Counted(field, n, g[n - 1]) /\ h[n] = g[n]
      BY <3>1, <3>2 DEF Counts
    <3>4. ASSUME NEW n \in 0..j PROVE h[n] = Counted(field, n, h[n - 1])
      <4>1. CASE n = 0
        <5>1. 0 \in 0..j - 1 /\ h[0] = g[0]
          BY <3>2, <3>3
        <5>2. h[0] = Counted(field, 0, g[0 - 1])
          BY <3>3, <5>1
        <5> HIDE DEF h
        <5>3. h[0] = Counted(field, 0, h[0 - 1])
          BY <1>1, <5>2
        <5> QED BY <4>1, <5>3
      <4>2. CASE n # 0
        <5>1. n - 1 \in 0..j - 1
          BY <3>2, <4>2
        <5>2. h[n - 1] = g[n - 1]
          BY <3>3, <5>1
        <5>3. CASE n = j
          BY <5>2, <5>3
        <5>4. CASE n # j
          <6>1. n \in 0..j - 1
            BY <3>2, <5>4
          <6> QED BY <3>3, <5>2, <6>1
        <5> QED BY <5>3, <5>4
      <4> QED BY <4>1, <4>2
    <3>5. h = [n \in 0..j |-> Counted(field, n, h[n - 1])]
      <4>1. h = [n \in 0..j |-> h[n]]
        OBVIOUS
      <4> HIDE DEF h
      <4> QED BY <3>4, <4>1
    <3> HIDE DEF h
    <3> QED BY <2>2, <3>5 DEF Counts
  <2> QED BY <2>3, <2>4
<1> QED
  BY <1>2

LEMMA CounterIs ==
    ASSUME NEW field
    PROVE  /\ Counter(field)[1] = Anchor
           /\ \A n \in Nat \ {0, 1} :
                 Counter(field)[n] = Counted(field, n, Counter(field)[n - 1])
<1> DEFINE Upto(n) == CHOOSE g : Counts(field, g, n)
           F == [n \in Nat |-> Upto(n)[n]]
<1>1. \A n \in Nat : Counts(field, Upto(n), n)
  BY CountsExist
<1>2. ASSUME NEW n \in Nat PROVE F[n] = Counted(field, n, F[n - 1])
  <2>1. Upto(n)[n] = Counted(field, n, Upto(n)[n - 1])
    <3>1. Counts(field, Upto(n), n) /\ n \in 0..n
      BY <1>1
    <3> HIDE DEF Upto
    <3> QED BY <3>1 DEF Counts
  <2>2. CASE n = 0
    BY <2>1, <2>2 DEF Counted
  <2>3. CASE n # 0
    <3>1. n - 1 \in Nat /\ n - 1 <= n
      BY <2>3
    <3>2. Upto(n)[n - 1] = Upto(n - 1)[n - 1]
      <4> HIDE DEF Upto
      <4> QED BY <1>1, <3>1, CountsAgree
    <3> HIDE DEF Upto
    <3> QED BY <2>1, <3>1, <3>2
  <2> QED BY <2>2, <2>3
<1>3. F = [n \in Nat |-> Counted(field, n, F[n - 1])]
  <2>1. F = [n \in Nat |-> F[n]]
    OBVIOUS
  <2> HIDE DEF F
  <2> QED BY <1>2, <2>1
<1> HIDE DEF F
<1>4. Counter(field) = [n \in Nat |-> Counted(field, n, Counter(field)[n - 1])]
  <2> DEFINE C == CHOOSE c : c = [n \in Nat |-> Counted(field, n, c[n - 1])]
  <2>1. C = [n \in Nat |-> Counted(field, n, C[n - 1])]
    BY <1>3
  <2>2. Counter(field) = C
    BY DEF Counter, Counted
  <2> HIDE DEF C
  <2> QED BY <2>1, <2>2
<1>5. \A n \in Nat : Counter(field)[n] = Counted(field, n, Counter(field)[n - 1])
  BY <1>4
<1> QED
  BY <1>5 DEF Counted

\* The counter is greater than k exactly if the path is long enough and no skip count
\* above, less its distance, is below k.
LEMMA CounterHolds ==
    ASSUME NEW field, Len(path) \in Nat, None \notin Nat,
           \A i \in 1..Len(path) : path[i][field] \in Nat \cup {None}
    PROVE  \A n \in 1..Anchor - 1 :
              /\ Counter(field)[n] \in Nat
              /\ \A k \in Nat : Counter(field)[n] > k <=>
                    Anchor - n + 1 > k /\ \A v \in PendingAt(field, Anchor - n) : v >= k
<1> DEFINE C == Counter(field)
           pending(n) == PendingAt(field, Anchor - n)
           Holds(n) == /\ C[n] \in Nat
                       /\ \A k \in Nat : C[n] > k <=>
                             Anchor - n + 1 > k /\ \A v \in pending(n) : v >= k
           bad == {n \in Nat : n + 1 \in 1..Anchor - 1 /\ ~Holds(n + 1)}
<1>1. Anchor \in Nat
  BY DEF Anchor
<1>2. C[1] = Anchor /\ \A n \in Nat \ {0, 1} : C[n] = Counted(field, n, C[n - 1])
  BY CounterIs
<1>3. pending(1) = {}
  BY <1>1 DEF PendingAt, Above
<1>4. ASSUME NEW n \in 1..Anchor - 2
      PROVE  LET new == path[Anchor - n][field]
             IN  pending(n + 1) = {v - 1 : v \in pending(n)}
                                     \cup (IF new = None THEN {} ELSE {new - 1})
  <2>1. Above(Anchor - (n + 1)) = {Anchor - n} \cup Above(Anchor - n)
    BY <1>1 DEF Above
  <2>2. \A p \in Above(Anchor - n) :
           /\ p \in Int /\ (path[p][field] # None => path[p][field] \in Nat)
           /\ p - (Anchor - (n + 1)) = (p - (Anchor - n)) + 1
    BY <1>1 DEF Above, Anchor
  <2>4. (Anchor - n) - (Anchor - (n + 1)) = 1
    BY <1>1
  <2>5. {path[p][field] - (p - (Anchor - (n + 1))) :
            p \in {q \in Above(Anchor - n) : path[q][field] # None}}
           = {v - 1 : v \in pending(n)}
    <3> DEFINE passed == {q \in Above(Anchor - n) : path[q][field] # None}
               E(p) == path[p][field] - (p - (Anchor - (n + 1)))
               F(p) == path[p][field] - (p - (Anchor - n))
    <3>1. \A p \in passed : E(p) = F(p) - 1
      BY <1>1, <2>2
    <3>2. pending(n) = {F(p) : p \in passed}
      BY DEF PendingAt
    <3>3. {E(p) : p \in passed} = {v - 1 : v \in pending(n)}
      <4> HIDE DEF passed, pending, E, F
      <4> QED BY <3>1, <3>2
    <3> QED BY <3>3
  <2> QED BY <2>1, <2>4, <2>5 DEF PendingAt
<1>5. ASSUME NEW n \in 1..Anchor - 1 PROVE pending(n) \subseteq Int
  <2>1. \A p \in Above(Anchor - n) :
           p \in Int /\ (path[p][field] # None => path[p][field] \in Nat)
    BY <1>1 DEF Above, Anchor
  <2> QED BY <1>1, <2>1 DEF PendingAt
<1> HIDE DEF C, pending
<1>6. ASSUME bad # {} PROVE FALSE
  <2>1. bad \in SUBSET Nat
    OBVIOUS
  <2>2. PICK m \in bad : m = 0 \/ (m - 1 \in Nat /\ m - 1 \notin bad)
    <3> HIDE DEF bad
    <3> QED BY <1>6, <2>1, LeastFailure
  <2>3. m \in Nat /\ m + 1 \in 1..Anchor - 1 /\ ~Holds(m + 1)
    BY <2>2
  <2>4. CASE m = 0
    BY <1>1, <1>2, <1>3, <2>3, <2>4
  <2>5. CASE m # 0
    <3> DEFINE new == path[Anchor - m][field]
               left == IF C[m] = 0 THEN 0 ELSE C[m] - 1
    <3>1. m \in 1..Anchor - 2 /\ m \in 1..Anchor - 1 /\ m + 1 \in Nat \ {0, 1}
      BY <1>1, <2>3, <2>5
    <3>2. Holds(m)
      <4>1. m - 1 \in Nat /\ m - 1 \notin bad /\ (m - 1) + 1 = m
        BY <2>2, <2>5
      <4> QED BY <3>1, <4>1
    <3>3. new \in Nat \cup {None}
      BY <1>1, <3>1 DEF Anchor
    <3>4. C[m + 1] = IF new # None /\ new < left THEN new ELSE left
      <4>1. (m + 1) - 1 = m /\ Anchor - (m + 1) + 1 = Anchor - m /\ ~(m + 1 <= 1)
        BY <1>1, <3>1
      <4>2. C[m + 1] = Counted(field, m + 1, C[m])
        BY <1>2, <3>1, <4>1
      <4> QED BY <4>1, <4>2 DEF Counted
    <3>5. /\ left \in Nat
          /\ \A k \in Nat : left > k <=>
                Anchor - m + 1 > k + 1 /\ \A v \in pending(m) : v >= k + 1
      <4>1. left \in Nat /\ \A k \in Nat : left > k <=> C[m] > k + 1
        BY <3>2
      <4>2. \A k \in Nat : C[m] > k + 1 <=>
               Anchor - m + 1 > k + 1 /\ \A v \in pending(m) : v >= k + 1
        <5>1. \A k \in Nat : k + 1 \in Nat
          OBVIOUS
        <5> QED BY <3>2, <5>1
      <4> QED BY <4>1, <4>2
    <3>6. pending(m + 1) = {v - 1 : v \in pending(m)}
                              \cup (IF new = None THEN {} ELSE {new - 1})
      BY <1>4, <3>1
    <3> HIDE DEF new, left
    <3>7. C[m + 1] \in Nat
      BY <3>3, <3>4, <3>5
    <3>8. ASSUME NEW k \in Nat
          PROVE  C[m + 1] > k <=>
                    Anchor - (m + 1) + 1 > k /\ \A v \in pending(m + 1) : v >= k
      <4>1. C[m + 1] > k <=> left > k /\ (new # None => new > k)
        BY <3>3, <3>4, <3>5
      <4>2. Anchor - m + 1 > k + 1 <=> Anchor - (m + 1) + 1 > k
        BY <1>1, <3>1
      <4>3. (\A v \in pending(m + 1) : v >= k) <=>
               /\ \A v \in pending(m) : v - 1 >= k
               /\ new # None => new - 1 >= k
        BY <3>6
      <4>4. /\ (\A v \in pending(m) : v - 1 >= k) <=> \A v \in pending(m) : v >= k + 1
            /\ (new # None => new - 1 >= k) <=> (new # None => new > k)
        BY <1>5, <3>1, <3>3
      <4> QED BY <3>5, <4>1, <4>2, <4>3, <4>4
    <3> QED BY <2>3, <3>7, <3>8
  <2> QED BY <2>4, <2>5
<1>7. ASSUME NEW n \in 1..Anchor - 1 PROVE Holds(n)
  <2>1. n - 1 \notin bad
    <3> HIDE DEF bad
    <3> QED BY <1>6
  <2>2. n - 1 \in Nat /\ (n - 1) + 1 = n
    BY <1>1
  <2> QED BY <2>1, <2>2
<1> QED
  BY <1>7 DEF C, pending

\* The path the rules look at is none yet, or one that the search may arrive with.
LEMMA PathIsCandidate ==
    PathSpec => [](raw \in RawInputs /\ (path = NoPath \/ path \in PathsOf(raw)))
<1> DEFINE Candidate == raw \in RawInputs /\ (path = NoPath \/ path \in PathsOf(raw))
<1>1. PathInit => Candidate
  BY DEF PathInit, PathFresh
<1>2. Candidate /\ [PathNext]_pathvars => Candidate'
  <2>1. [PathNext]_pathvars => UNCHANGED raw
    BY DEF PathNext, pathvars, ivars, Validate, StartEngine, Propose, EvaluateNames,
       EvaluatePolicies, VerifyInput, Normalize, ReadBack, Renormalize
  <2>2. [PathNext]_pathvars => UNCHANGED path \/ path' \in PathsOf(raw)
    BY DEF PathNext, pathvars, Validate, StartEngine, Propose, EvaluateNames,
       EvaluatePolicies, VerifyInput
  <2> QED BY <2>1, <2>2
<1> QED
  BY <1>1, <1>2, PTL DEF PathSpec

\* The skip counts of evaluate_policies, taken from each position anew (pending_at), exempt
\* the certificates that one counter carried down the path exempts, each count those right
\* below it and the smallest deciding, on paths of every length with any counts.
THEOREM SkipCountsOfThePath == PathSpec => []SkipCountsExact
<1>1. raw \in RawInputs /\ (path = NoPath \/ path \in PathsOf(raw)) => SkipCountsExact
  <2> SUFFICES ASSUME raw \in RawInputs, path = NoPath \/ path \in PathsOf(raw),
                      NEW field \in SkipFields, NEW i \in Below
               PROVE  Allowed(field, i) <=> Counter(field)[Anchor - i] > 0
    BY DEF SkipCountsExact
  <2>1. path \in PathsOf(raw)
    BY DEF NoPath, Below, Anchor
  <2>2. /\ Len(path) \in Nat /\ None \notin Nat
        /\ \A j \in 1..Len(path) : path[j][field] \in Nat \cup {None}
    BY <2>1, PathsAssumption
  <2>3. Anchor \in Nat /\ Anchor - i \in 1..Anchor - 1 /\ Anchor - (Anchor - i) = i
    BY <2>2 DEF Below, Anchor
  <2>4. Counter(field)[Anchor - i] > 0 <=>
           i + 1 > 0 /\ \A v \in PendingAt(field, i) : v >= 0
    <3> DEFINE n == Anchor - i
    <3>1. \A k \in Nat : Counter(field)[n] > k <=>
             Anchor - n + 1 > k /\ \A v \in PendingAt(field, Anchor - n) : v >= k
      BY <2>2, <2>3, CounterHolds
    <3>2. Anchor - n = i /\ Anchor - n + 1 = i + 1
      BY <2>3
    <3> HIDE DEF n
    <3>3. Counter(field)[n] > 0 <=> i + 1 > 0 /\ \A v \in PendingAt(field, i) : v >= 0
      BY <3>1, <3>2
    <3> QED BY <3>3 DEF n
  <2>5. i + 1 > 0
    BY <2>3 DEF Below
  <2> QED BY <2>4, <2>5 DEF Allowed
<1> QED
  BY <1>1, PathIsCandidate, PTL

-----------------------------------------------------------------------------
(***************************************************************************)
(* Name constraints: the collecting loop and the checking loop.            *)
(***************************************************************************)
\* What the certificates above a position impose on it.
PermittedBy(i) == [k \in Kinds |-> UNION {path[p].permitted[k] : p \in Above(i)}]
ExcludedBy(i) == [k \in Kinds |-> UNION {path[p].excluded[k] : p \in Above(i)}]
Limits(i) == [permitted |-> PermittedBy(i), excluded |-> ExcludedBy(i)]

Fits(i) == Permitted(i) /\ \A p \in Above(i) : Avoids(i, p)

\* The first loop has collected what stands above its position, and has left behind what
\* applies to the positions it has passed.
Collected(n) ==
    /\ permitted = PermittedBy(n) /\ excluded = ExcludedBy(n)
    /\ applies \in Seq({Limits(i) : i \in Nat})
    /\ Len(applies) = Len(path) - 1 - n
    /\ \A j \in 1..Len(applies) : applies[j] = Limits(n + j)

\* The second loop starts when the first has ended, and stops at the first certificate
\* that does not fit.
Checked(c) ==
    /\ collected # 0 => nameResult = "PENDING" /\ c = Len(path) - 1
    /\ \A i \in Above(c) : Fits(i)
    /\ nameResult = "NONE" => c = 0
    /\ nameResult \notin {"NONE", "PENDING"} => c > 0 /\ ~Fits(c)

NameInv ==
    /\ path = NoPath => NamesFresh
    /\ path # NoPath =>
          /\ Len(path) \in Nat \ {0}
          /\ \E n \in 0..Len(path) - 1 : n = collected /\ Collected(n)
          /\ \E c \in 0..Len(path) - 1 : c = checked /\ Checked(c)

-----------------------------------------------------------------------------
\* The first of a chain of rules that fails decides.
LEMMA LeastOfSix ==
    ASSUME NEW F \in SUBSET (1..6), F # {}
    PROVE  \E i \in F : \A j \in F : i <= j
<1>1. CASE 1 \in F
  BY <1>1
<1>2. CASE 1 \notin F /\ 2 \in F
  BY <1>2
<1>3. CASE 1 \notin F /\ 2 \notin F /\ 3 \in F
  BY <1>3
<1>4. CASE 1 \notin F /\ 2 \notin F /\ 3 \notin F /\ 4 \in F
  BY <1>4
<1>5. CASE 1 \notin F /\ 2 \notin F /\ 3 \notin F /\ 4 \notin F /\ 5 \in F
  BY <1>5
<1>6. CASE 1 \notin F /\ 2 \notin F /\ 3 \notin F /\ 4 \notin F /\ 5 \notin F
  <2>1. \A j \in F : j = 6
    BY <1>6
  <2>2. PICK i \in F : i = 6
    BY <2>1
  <2>3. i <= i
    BY <2>2
  <2> QED BY <2>1, <2>2, <2>3
<1> QED
  BY <1>1, <1>2, <1>3, <1>4, <1>5, <1>6

LEMMA SixRules ==
    ASSUME NEW a, NEW b, NEW c, NEW d, NEW e, NEW f,
           \A r \in {a, b, c, d, e, f} :
               r.code \notin {"NONE", "PENDING"} /\ r.passes \in BOOLEAN
    PROVE  LET code == FirstFailing(<<a, b, c, d, e, f>>)
           IN  /\ code = "NONE" <=> /\ a.passes /\ b.passes /\ c.passes
                                    /\ d.passes /\ e.passes /\ f.passes
               /\ code # "PENDING"
<1> DEFINE rules == <<a, b, c, d, e, f>>
           failing == {i \in DOMAIN rules : ~rules[i].passes}
<1>1. DOMAIN rules = 1..6 /\ \A i \in 1..6 : rules[i] \in {a, b, c, d, e, f}
  OBVIOUS
<1>2. ASSUME failing # {} PROVE \E i \in 1..6 : FirstFailing(rules) = rules[i].code
  <2>1. \E i \in failing : \A j \in failing : i <= j
    BY <1>1, <1>2, LeastOfSix
  <2>2. PICK i \in failing : FirstFailing(rules) = rules[i].code
    BY <1>2, <2>1 DEF FirstFailing
  <2> QED BY <1>1, <2>2
<1>3. failing = {} => FirstFailing(rules) = "NONE"
  BY DEF FirstFailing
<1>4. failing = {} <=> /\ a.passes /\ b.passes /\ c.passes
                       /\ d.passes /\ e.passes /\ f.passes
  BY <1>1
<1> QED
  BY <1>1, <1>2, <1>3, <1>4

\* Checked against what applies to it, a certificate passes exactly if it fits.
LEMMA NameFailureExact ==
    ASSUME NEW i
    PROVE  /\ NameFailure(NamesOf(path[i]), Limits(i)) = "NONE" <=> Fits(i)
           /\ NameFailure(NamesOf(path[i]), Limits(i)) # "PENDING"
<1> DEFINE names == NamesOf(path[i])
           Clear(k) == ~\E n \in names[k], c \in Limits(i).excluded[k] : Matches(k, n, c)
           Within(k) == \/ Limits(i).permitted[k] = {}
                        \/ \A n \in names[k] :
                              \E c \in Limits(i).permitted[k] : Matches(k, n, c)
           a == Rule("NAME_CONSTRAINT_EXCLUDED", Clear("dns"))
           b == Rule("NAME_CONSTRAINT_NOT_PERMITTED", Within("dns"))
           c == Rule("NAME_CONSTRAINT_EXCLUDED", Clear("uri"))
           d == Rule("NAME_CONSTRAINT_NOT_PERMITTED", Within("uri"))
           e == Rule("NAME_CONSTRAINT_EXCLUDED", Clear("dir"))
           f == Rule("NAME_CONSTRAINT_NOT_PERMITTED", Within("dir"))
<1>1. NameFailure(names, Limits(i)) = FirstFailing(<<a, b, c, d, e, f>>)
  BY DEF NameFailure
<1>2. \A r \in {a, b, c, d, e, f} :
          r.code \notin {"NONE", "PENDING"} /\ r.passes \in BOOLEAN
  <2>1. \A code, p : Rule(code, p).code = code /\ Rule(code, p).passes = p
    BY DEF Rule
  <2>2. \A k : Clear(k) \in BOOLEAN /\ Within(k) \in BOOLEAN
    OBVIOUS
  <2> HIDE DEF Clear, Within
  <2>3. /\ a.passes \in BOOLEAN /\ b.passes \in BOOLEAN /\ c.passes \in BOOLEAN
        /\ d.passes \in BOOLEAN /\ e.passes \in BOOLEAN /\ f.passes \in BOOLEAN
    BY <2>2 DEF Rule
  <2>4. \A r \in {a, b, c, d, e, f} :
           r.code \in {"NAME_CONSTRAINT_EXCLUDED", "NAME_CONSTRAINT_NOT_PERMITTED"}
    BY <2>1
  <2> QED BY <2>3, <2>4
<1>3. (/\ a.passes /\ b.passes /\ c.passes /\ d.passes /\ e.passes /\ f.passes)
         <=> \A k \in Kinds : Clear(k) /\ Within(k)
  <2> HIDE DEF Clear, Within
  <2>1. /\ a.passes <=> Clear("dns") 
        /\ b.passes <=> Within("dns")
        /\ c.passes <=> Clear("uri")
        /\ d.passes <=> Within("uri")
        /\ e.passes <=> Clear("dir")
        /\ f.passes <=> Within("dir")
    BY DEF Rule
  <2> QED BY <2>1 DEF Kinds
<1>4. (\A k \in Kinds : Clear(k)) <=> \A p \in Above(i) : Avoids(i, p)
  BY DEF Limits, ExcludedBy, Avoids
<1>5. (\A k \in Kinds : Within(k)) <=> Permitted(i)
  BY DEF Limits, PermittedBy, Permitted, PermittedAbove
<1> HIDE DEF a, b, c, d, e, f, Clear, Within
<1>6. /\ NameFailure(names, Limits(i)) = "NONE" <=>
            a.passes /\ b.passes /\ c.passes /\ d.passes /\ e.passes /\ f.passes
      /\ NameFailure(names, Limits(i)) # "PENDING"
  BY <1>1, <1>2, SixRules
<1> QED
  BY <1>3, <1>4, <1>5, <1>6 DEF Fits

\* What a certificate is held against depends on the path alone.
LEMMA SameLimits ==
    ASSUME UNCHANGED path
    PROVE  \A i : /\ UNCHANGED <<PermittedBy(i), ExcludedBy(i), Limits(i)>>
                  /\ Fits(i)' <=> Fits(i)
<1>1. \A i : Above(i)' = Above(i)
  BY DEF Above, Anchor
<1>2. \A i : PermittedBy(i)' = PermittedBy(i) /\ ExcludedBy(i)' = ExcludedBy(i)
  BY <1>1 DEF PermittedBy, ExcludedBy
<1>3. \A i : Limits(i)' = Limits(i)
  BY <1>2 DEF Limits
<1>4. \A i, p : Avoids(i, p)' <=> Avoids(i, p)
  BY DEF Avoids
<1>5. \A i, k : PermittedAbove(i, k)' = PermittedAbove(i, k)
  BY <1>1 DEF PermittedAbove
<1>6. \A i : Permitted(i)' <=> Permitted(i)
  BY <1>5 DEF Permitted
<1> QED
  BY <1>1, <1>2, <1>3, <1>4, <1>6 DEF Fits

-----------------------------------------------------------------------------
(***************************************************************************)
(* The steps of the two loops.                                             *)
(***************************************************************************)
\* The first loop passes one more certificate.
LEMMA CollectKeeps ==
    ASSUME NameInv, path # NoPath, Collect, UNCHANGED path
    PROVE  NameInv'
<1>1. Len(path) \in Nat \ {0}
  BY DEF NameInv
<1>2. PICK n \in 0..Len(path) - 1 : n = collected /\ Collected(n)
  BY DEF NameInv
<1>3. PICK c \in 0..Len(path) - 1 : c = checked /\ Checked(c)
  BY DEF NameInv
<1>4. /\ n > 0 /\ nameResult = "PENDING" /\ collected' = n - 1
      /\ applies' = <<Limits(n)>> \o applies
      /\ permitted' = [k \in Kinds |-> permitted[k] \cup path[n].permitted[k]]
      /\ excluded' = [k \in Kinds |-> excluded[k] \cup path[n].excluded[k]]
      /\ UNCHANGED <<checked, nameResult>>
  BY <1>2 DEF Collect, Collected, Limits
<1>5. Above(n - 1) = Above(n) \cup {n}
  BY <1>1, <1>4 DEF Above, Anchor
<1>6. permitted' = PermittedBy(n - 1) /\ excluded' = ExcludedBy(n - 1)
  <2>1. permitted = PermittedBy(n) /\ excluded = ExcludedBy(n)
    BY <1>2 DEF Collected
  <2>2. \A k \in Kinds : permitted[k] \cup path[n].permitted[k]
                          = UNION {path[p].permitted[k] : p \in Above(n - 1)}
    BY <1>5, <2>1 DEF PermittedBy
  <2>3. \A k \in Kinds : excluded[k] \cup path[n].excluded[k]
                          = UNION {path[p].excluded[k] : p \in Above(n - 1)}
    BY <1>5, <2>1 DEF ExcludedBy
  <2>4. permitted' = PermittedBy(n - 1)
    BY <1>4, <2>2 DEF PermittedBy
  <2>5. excluded' = ExcludedBy(n - 1)
    BY <1>4, <2>3 DEF ExcludedBy
  <2> QED BY <2>4, <2>5
<1> DEFINE S == {Limits(i) : i \in Nat}
<1>7. /\ applies \in Seq(S) /\ Len(applies) = Len(path) - 1 - n
      /\ \A j \in 1..Len(applies) : applies[j] = Limits(n + j)
  BY <1>2 DEF Collected
<1>8. Limits(n) \in S
  OBVIOUS
<1> DEFINE one == <<Limits(n)>>
<1>9. one \in Seq(S) /\ Len(one) = 1 /\ one[1] = Limits(n)
  BY <1>8
<1> HIDE DEF S, one
<1>10. /\ applies' \in Seq(S) /\ Len(applies') = 1 + Len(applies)
       /\ \A j \in 1..1 + Len(applies) :
             applies'[j] = IF j <= 1 THEN one[j] ELSE applies[j - 1]
  BY <1>4, <1>7, <1>9, ConcatProperties DEF one
<1>11. Len(applies') = Len(path) - 1 - (n - 1)
  BY <1>1, <1>7, <1>10
<1>12. ASSUME NEW j \in 1..Len(applies') PROVE applies'[j] = Limits((n - 1) + j)
  <2>1. Len(applies) \in Nat /\ j \in Nat
    BY <1>7
  <2>2. j \in 1..1 + Len(applies)
    BY <1>10
  <2>3. CASE j = 1
    <3>1. applies'[j] = one[1]
      BY <1>10, <2>2, <2>3
    <3>2. (n - 1) + j = n
      BY <2>3
    <3> QED BY <1>9, <3>1, <3>2
  <2>4. CASE j # 1
    <3>1. j - 1 \in 1..Len(applies) /\ n + (j - 1) = (n - 1) + j
      BY <2>1, <2>2, <2>4
    <3>2. ~(j <= 1)
      BY <2>1, <2>2, <2>4
    <3>3. applies'[j] = applies[j - 1]
      BY <1>10, <2>2, <3>2
    <3> QED BY <1>7, <3>1, <3>3
  <2> QED BY <2>3, <2>4
<1>13. ASSUME NEW m, m = n - 1 PROVE Collected(m)'
  BY <1>6, <1>10, <1>11, <1>12, <1>13, SameLimits DEF Collected, S
<1>14. Checked(c)'
  BY <1>2, <1>3, <1>4, SameLimits DEF Checked, Above, Anchor
<1> QED
  BY <1>1, <1>2, <1>3, <1>4, <1>13, <1>14 DEF NameInv

\* The second loop passes, or ends at, one more certificate.
LEMMA CheckKeeps ==
    ASSUME NameInv, path # NoPath, CheckNames, UNCHANGED path
    PROVE  NameInv'
<1>1. Len(path) \in Nat \ {0}
  BY DEF NameInv
<1>2. PICK n \in 0..Len(path) - 1 : n = collected /\ Collected(n)
  BY DEF NameInv
<1>3. PICK c \in 0..Len(path) - 1 : c = checked /\ Checked(c)
  BY DEF NameInv
<1>4. /\ n = 0 /\ nameResult = "PENDING"
      /\ UNCHANGED <<collected, permitted, excluded, applies>>
  BY <1>2 DEF CheckNames
<1>5. Collected(n)'
  BY <1>2, <1>4, SameLimits DEF Collected
<1>6. ASSUME NEW d \in 0..Len(path) - 1, checked' = d, Checked(d)' PROVE NameInv'
  BY <1>1, <1>2, <1>4, <1>5, <1>6 DEF NameInv
<1>7. CASE c = 0
  <2>1. nameResult' = "NONE" /\ checked' = c
    BY <1>3, <1>7 DEF CheckNames
  <2>2. Checked(c)'
    BY <1>2, <1>3, <1>4, <1>7, <2>1, SameLimits DEF Checked, Above, Anchor
  <2> QED BY <1>6, <2>1, <2>2
<1>8. CASE c # 0
  <2> DEFINE failure == NameFailure(NamesOf(path[c]), Limits(c))
  <2>1. applies[c] = Limits(c)
    <3>1. c \in 1..Len(applies) /\ 0 + c = c
      BY <1>1, <1>2, <1>4, <1>8 DEF Collected
    <3> QED BY <1>2, <1>4, <3>1 DEF Collected
  <2>2. failure = "NONE" <=> Fits(c)
    BY NameFailureExact
  <2>3. failure # "PENDING"
    BY NameFailureExact
  <2>4. CASE failure = "NONE"
    <3>1. checked' = c - 1 /\ nameResult' = nameResult
      BY <1>3, <1>8, <2>1, <2>4 DEF CheckNames
    <3>2. c - 1 \in 0..Len(path) - 1 /\ Above(c - 1) = Above(c) \cup {c}
      BY <1>1, <1>8 DEF Above, Anchor
    <3>3. \A i \in Above(c - 1) : Fits(i)
      BY <1>3, <2>2, <2>4, <3>2 DEF Checked
    <3>4. ASSUME NEW d, d = c - 1 PROVE Checked(d)'
      BY <1>2, <1>4, <3>1, <3>3, <3>4, SameLimits DEF Checked, Above, Anchor
    <3> QED BY <1>6, <3>1, <3>2, <3>4
  <2>5. CASE failure # "NONE"
    <3>1. checked' = c /\ nameResult' = failure
      BY <1>3, <1>8, <2>1, <2>5 DEF CheckNames
    <3>2. nameResult' \notin {"NONE", "PENDING"} /\ c > 0 /\ ~Fits(c)'
      BY <1>1, <1>8, <2>2, <2>3, <2>5, <3>1, SameLimits
    <3>3. collected' = 0 /\ \A i \in Above(c) : Fits(i)'
      BY <1>2, <1>3, <1>4, SameLimits DEF Checked
    <3>4. Checked(c)'
      BY <3>2, <3>3 DEF Checked, Above, Anchor
    <3> QED BY <1>6, <3>1, <3>4
  <2> QED BY <2>4, <2>5
<1> QED
  BY <1>7, <1>8

\* Every step keeps the invariant.
LEMMA NextNames ==
    ASSUME NameInv, [PathNext]_pathvars, raw \in RawInputs
    PROVE  NameInv'
<1>1. CASE EvaluateNames
  BY <1>1, CollectKeeps, CheckKeeps DEF EvaluateNames, NamesStep
<1>2. CASE Propose
  <2>1. /\ path = NoPath /\ NamesFresh /\ Len(path') \in Nat \ {0}
        /\ collected' = Len(path') - 1 /\ checked' = Len(path') - 1
        /\ UNCHANGED <<permitted, excluded, applies, nameResult>>
    BY <1>2, PathsAssumption DEF Propose, StartNames, NameInv
  <2>2. PICK n : n = Len(path') - 1
    OBVIOUS
  <2>3. Above(n)' = {} /\ n \in 0..Len(path') - 1
    BY <2>1, <2>2 DEF Above, Anchor
  <2>4. PermittedBy(n)' = Nothing /\ ExcludedBy(n)' = Nothing
    BY <2>3 DEF PermittedBy, ExcludedBy, Nothing
  <2>5. <<>> \in Seq({Limits(i)' : i \in Nat}) /\ Len(<<>>) = 0
    OBVIOUS
  <2>6. Len(path') - 1 - n = 0
    BY <2>1, <2>2
  <2>7. Collected(n)'
    BY <2>1, <2>4, <2>5, <2>6 DEF Collected, NamesFresh
  <2>8. Checked(n)'
    BY <2>1, <2>2, <2>3 DEF Checked, NamesFresh
  <2>9. path' # NoPath
    BY <2>1 DEF NoPath
  <2> QED BY <2>1, <2>2, <2>3, <2>7, <2>8, <2>9 DEF NameInv
<1>3. CASE UNCHANGED <<path, nvars>>
  <2>1. UNCHANGED <<path, collected, permitted, excluded, applies, checked, nameResult>>
    BY <1>3 DEF nvars
  <2>2. \A n : Collected(n)' <=> Collected(n)
    BY <2>1, SameLimits DEF Collected
  <2>3. \A c : Checked(c)' <=> Checked(c)
    BY <2>1, SameLimits DEF Checked, Above, Anchor
  <2> QED BY <2>1, <2>2, <2>3 DEF NameInv, NamesFresh
<1>4. Validate \/ StartEngine \/ EvaluatePolicies \/ VerifyInput \/ UNCHANGED pathvars
         => UNCHANGED <<path, nvars>>
  BY DEF Validate, StartEngine, EvaluatePolicies, VerifyInput, pathvars, nvars
<1> QED
  BY <1>1, <1>2, <1>3, <1>4 DEF PathNext

\* Every reachable state satisfies the invariant.
THEOREM NameInvariant == PathSpec => []NameInv
<1>1. PathInit => NameInv /\ raw \in RawInputs
  BY DEF PathInit, PathFresh, NameInv
<1>2. raw \in RawInputs /\ [PathNext]_pathvars => (raw \in RawInputs)'
  BY DEF PathNext, pathvars, ivars, Validate, StartEngine, Propose, EvaluateNames,
     EvaluatePolicies, VerifyInput, Normalize, ReadBack, Renormalize
<1>3. NameInv /\ raw \in RawInputs /\ [PathNext]_pathvars => NameInv'
  BY NextNames
<1> QED
  BY <1>1, <1>2, <1>3, PTL DEF PathSpec

-----------------------------------------------------------------------------
\* A path passes the name rule exactly if all its certificates fit, and one that fails
\* does so at the topmost certificate at fault.
THEOREM NameVerdict == PathSpec => []NamesExact
<1>1. NameInv => NamesExact
  <2> SUFFICES ASSUME NameInv PROVE NamesExact
    OBVIOUS
  <2>1. CASE path = NoPath
    BY <2>1 DEF NameInv, NamesFresh, NamesExact
  <2>2. CASE path # NoPath
    <3>1. PICK c \in 0..Len(path) - 1 : c = checked /\ Checked(c)
      BY <2>2 DEF NameInv
    <3>2. Above(0) = Below
      BY <2>2 DEF NameInv, Above, Below, Anchor
    <3>3. nameResult = "NONE" => \A i \in Below : Fits(i)
      BY <3>1, <3>2 DEF Checked
    <3>4. nameResult \notin {"NONE", "PENDING"} => ~Fits(c) /\ \A i \in Above(c) : Fits(i)
      BY <3>1 DEF Checked
    <3> QED BY <3>1, <3>3, <3>4 DEF NamesExact, Fits
  <2> QED BY <2>1, <2>2
<1> QED
  BY <1>1, NameInvariant, PTL
=============================================================================
