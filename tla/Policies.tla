------------------------------ MODULE Policies -------------------------------
(***************************************************************************)
(* evaluate_policies (app/pki.py): the set of valid policies starts open   *)
(* at the anchor and is narrowed certificate by certificate.  The set {}   *)
(* is the NULL tree; the code treats a certificate without                 *)
(* certificatePolicies as one that asserts none.                           *)
(***************************************************************************)
EXTENDS CandidatePath

CONSTANT AnyPolicyOid     \* anyPolicy as an OID that a request may name it by

VARIABLES
    initial,       \* the initial policy set of the request
    narrowed,      \* position the walk stands at
    valid,         \* valid_policy_set
    policyResult,  \* "PENDING", "NONE" or the code of the failure
    accepted       \* valid_policies of the rule result

pvars == <<initial, narrowed, valid, policyResult, accepted>>

SkipFields == {"require_explicit", "inhibit_mapping", "inhibit_any_policy"}

\* pending_at: each skip count above position i, less the distance to i.
PendingAt(field, i) ==
    {path[p][field] - (p - i) : p \in {q \in Above(i) : path[q][field] # None}}

\* Mutant: a count takes effect one certificate too early.
Allowed_early(field, i) == \A v \in PendingAt(field, i) : v > 0

\* The smallest count decides; one that stands at 0 still allows.
Allowed(field, i) == \A v \in PendingAt(field, i) : v >= 0

\* parent_mappings, unless inhibited; an anchor's are not looked at.
Mappings(i) ==
    IF i + 1 \in Below /\ Allowed("inhibit_mapping", i)
    THEN path[i + 1].policy_mappings ELSE {}

MapsAny(i) == \E m \in Mappings(i) : AnyPolicy \in {m[1], m[2]}

Asserted(i) == path[i].policies \ {AnyPolicy}

\* A certificate keeps an open set open and a closed one as it is.
OpenAt(i) == AnyPolicy \in path[i].policies /\ Allowed("inhibit_any_policy", i)

\* The policies a certificate asserts, with those its issuer maps to them.
Vouched(i) ==
    Asserted(i) \cup {m[1] : m \in {x \in Mappings(i) : x[2] \in Asserted(i)}}

\* Mutant: a closed set opens again at a certificate with anyPolicy.
Narrowed_open(S, i) ==
    IF AnyPolicy \in S \/ OpenAt(i)
    THEN (IF OpenAt(i) THEN {AnyPolicy} ELSE {}) \cup Vouched(i)
    ELSE Vouched(i) \cap S

Narrowed(S, i) ==
    IF AnyPolicy \in S
    THEN (IF OpenAt(i) THEN {AnyPolicy} ELSE {}) \cup Vouched(i)
    ELSE (IF OpenAt(i) THEN S ELSE {}) \cup (Vouched(i) \cap S)

PoliciesFresh ==
    /\ narrowed = 0 /\ valid = {AnyPolicy}
    /\ policyResult = "PENDING" /\ accepted = {}

\* evaluate_policies is called with p and the initial policy set.
StartPolicies(p) ==
    /\ narrowed' = Len(p) - 1
    /\ UNCHANGED <<initial, valid, policyResult, accepted>>

\* One iteration of the walk.  The mappings are looked at also when the tree is NULL.
Narrow ==
    /\ policyResult = "PENDING" /\ narrowed > 0
    /\ IF MapsAny(narrowed)
       THEN policyResult' = "POLICY_MAPPING_ANY" /\ UNCHANGED <<valid, narrowed>>
       ELSE /\ valid' = Narrowed(valid, narrowed)
            /\ narrowed' = narrowed - 1
            /\ UNCHANGED policyResult
    /\ UNCHANGED <<initial, accepted>>

ExplicitRequired == ~Allowed("require_explicit", 1)
Specific == initial # {} /\ initial \cap {AnyPolicy, AnyPolicyOid} = {}

\* Mutant: explicit policy is satisfied by an open set.
Acceptance_open(S) ==
    FirstFailing(<<Rule("POLICY_TREE_EMPTY", S = {} => ~ExplicitRequired),
                   Rule("POLICY_INITIAL_SET_MISMATCH", S = {} => ~Specific),
                   Rule("POLICY_INITIAL_SET_MISMATCH",
                        Specific => AnyPolicy \in S \/ S \cap initial # {})>>)

Acceptance(S) ==
    FirstFailing(<<Rule("POLICY_TREE_EMPTY", S = {} => ~ExplicitRequired),
                   Rule("POLICY_INITIAL_SET_MISMATCH", S = {} => ~Specific),
                   Rule("POLICY_EXPLICIT_REQUIRED", S = {AnyPolicy} => ~ExplicitRequired),
                   Rule("POLICY_INITIAL_SET_MISMATCH",
                        Specific => AnyPolicy \in S \/ S \cap initial # {})>>)

valid_policies(S) ==
    IF ~Specific THEN S ELSE IF AnyPolicy \in S THEN initial ELSE S \cap initial

Accept ==
    /\ policyResult = "PENDING" /\ narrowed = 0
    /\ policyResult' = Acceptance(valid)
    /\ accepted' = IF Acceptance(valid) = "NONE" THEN valid_policies(valid) ELSE {}
    /\ UNCHANGED <<initial, narrowed, valid>>

PoliciesStep == Narrow \/ Accept

-----------------------------------------------------------------------------
(***************************************************************************)
(* References.                                                             *)
(***************************************************************************)

\* One running counter per constraint, as it stands when the n-th certificate below the
\* anchor is processed: it starts beyond the path, loses one per certificate, and a
\* certificate may lower it for those below.  RFC 5280 6.1.4 and 6.1.5 differ: there
\* self-issued certificates take nothing, and the leaf takes one more of explicit policy.
Counter(field) ==
    LET counter[n \in Nat] ==
          IF n <= 1 THEN Anchor
          ELSE LET issuer == path[Anchor - n + 1][field]
                   left == IF counter[n - 1] = 0 THEN 0 ELSE counter[n - 1] - 1
               IN  IF issuer # None /\ issuer < left THEN issuer ELSE left
    IN  counter

\* "Skip-count semantics" of evaluate_policies and the README: a count k exempts the k
\* certificates right below and binds the next, and the smallest decides.  Taken anew from
\* each position, the counts exempt exactly the certificates that one counter, carried
\* down the path and lowered on the way, exempts.  The code reads a mapping count, too, at
\* the certificate that is narrowed and not at its issuer, which holds the mappings.
SkipCountsExact ==
    \A field \in SkipFields :
        \A i \in Below : Allowed(field, i) <=> Counter(field)[Anchor - i] > 0

\* A certificate supports a policy if it asserts anyPolicy uninhibited, the policy, or
\* one that its issuer maps the policy to.
Supports(i, p) == OpenAt(i) \/ p \in Vouched(i)

\* The set is open exactly while no certificate has closed it.  A closed set holds the
\* policies that every certificate supports, an open one names those of the last.
ValidPoliciesExact ==
    LET walked == Above(narrowed)
        named == UNION {Vouched(i) : i \in walked}
    IN  \/ /\ AnyPolicy \in valid
           /\ \A i \in walked : OpenAt(i)
           /\ valid \ {AnyPolicy} = UNION {Vouched(i) : i \in walked \cap {narrowed + 1}}
        \/ /\ AnyPolicy \notin valid
           /\ \E i \in walked : ~OpenAt(i)
           /\ valid = {p \in named : \A i \in walked : Supports(i, p)}

\* The policies the whole path supports by name.
Supported ==
    IF \A i \in Below : OpenAt(i)
    THEN IF Below = {} THEN {} ELSE Vouched(1)
    ELSE {p \in UNION {Vouched(i) : i \in Below} : \A i \in Below : Supports(i, p)}

\* A path is accepted exactly if it maps no anyPolicy, names a policy where one must be
\* explicit, and admits one of the initial policies; what it reports is what the
\* request asked for and the path supports.
AcceptanceExact ==
    policyResult # "PENDING" =>
        LET open == \A i \in Below : OpenAt(i)
        IN  /\ policyResult = "NONE" <=>
                  /\ \A i \in Below : ~MapsAny(i)
                  /\ ExplicitRequired => Supported # {}
                  /\ Specific => open \/ Supported \cap initial # {}
            /\ (policyResult = "NONE" /\ Specific) =>
                  accepted = IF open THEN initial ELSE Supported \cap initial
=============================================================================
