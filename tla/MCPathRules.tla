----------------------------- MODULE MCPathRules -----------------------------
(***************************************************************************)
(* Inputs, and paths rich in names, in policies or in skip counts.         *)
(***************************************************************************)
EXTENDS PathRules

MCLowerCase == [l \in {"x", "X", "y", ""} |-> IF l = "X" THEN "x" ELSE l]

Plain ==
    [subject |-> <<"y">>, san |-> Nothing, permitted |-> Nothing, excluded |-> Nothing,
     policies |-> {AnyPolicy}, policy_mappings |-> {},
     require_explicit |-> None, inhibit_mapping |-> None, inhibit_any_policy |-> None]

-----------------------------------------------------------------------------
\* Timestamps on both sides of every boundary of the small calendar.
Fractions == UNION {[1..n -> 0..Base - 1] : n \in 0..FractionWidth + 1}

Timestamps ==
    [digits : {4}, year : FirstYear..LastYear, hour : 0..HoursPerYear - 1,
     fraction : Fractions, offset : {Zulu} \cup -MaxOffset..MaxOffset]
    \cup [digits : {3, 4}, year : {FirstYear - 1, LastYear}, hour : {0, HoursPerYear},
          fraction : {<<>>}, offset : {Zulu, MaxOffset + 1}]

OneTime == [digits |-> 4, year |-> LastYear, hour |-> 0, fraction |-> <<>>, offset |-> Zulu]

\* One that does not parse, one that parses and leaves the calendar.
WrongTimes == {[OneTime EXCEPT !.digits = 3], [OneTime EXCEPT !.hour = 1, !.offset = -1]}

\* Times as a knowledge cutoff, some of them beside a wrong signed_at.
Cutoffs ==
    {t \in Timestamps : t.hour = 0 /\ t.fraction \in {<<>>, <<1>>, <<1, 0>>, <<0, 1, 1>>}}

Signatures ==
    [bytes : {Missing, <<>>}, spare : {0}] \cup [bytes : {<<1>>, <<2>>}, spare : {0, 1}]

InputOf(t, anchors, policies) ==
    [signature |-> b64e(<<1>>), signed_at |-> t, knowledge_cutoff |-> OneTime,
     trust_anchors |-> anchors, initial_policy_set |-> policies]

Lists ==
    {Missing, <<>>, <<AnyPolicy>>, <<1>>, <<AnyPolicy, AnyPolicy>>, <<AnyPolicy, 1>>,
     <<1, AnyPolicy>>, <<2, 1>>, <<1, 2, 1>>, <<AnyPolicyOid>>, <<1, AnyPolicyOid>>,
     <<AnyPolicyOid, AnyPolicy>>, <<3>>}

MCRawInputs ==
    {InputOf(t, <<1>>, Missing) : t \in Timestamps}
    \cup {[InputOf(t, <<1>>, Missing) EXCEPT !.knowledge_cutoff = k] :
             t \in {OneTime} \cup WrongTimes, k \in Cutoffs \cup WrongTimes}
    \cup {[InputOf(t, <<1>>, Missing) EXCEPT !.signature = s] :
             t \in {OneTime} \cup WrongTimes, s \in Signatures}
    \cup {InputOf(OneTime, a, p) :
             a \in {<<>>, <<1>>, <<1, 2>>, <<2, 1>>, <<2, 1, 2>>}, p \in Lists}

-----------------------------------------------------------------------------
\* Names of a kind for the leaf, and constraints of that kind.
NameSets(kind) ==
    CASE kind = "dns" -> {{}, {<<"x">>}, {<<"x", "y">>}, {<<"", "X", "y">>},
                          {<<"y">>, <<"x", "y">>}}
      [] kind = "uri" -> {{}, {None}, {<<"x">>}, {<<"X", "y">>}, {<<"y">>, <<"x", "y">>}}
      [] kind = "dir" -> {{}, {<<"x">>}, {<<"x", "y">>}, {<<>>}}

Subtrees(kind) ==
    CASE kind = "dns" -> {<<"x">>, <<"X", "y">>, <<"x", "">>, <<"">>}
      [] kind = "uri" -> {<<"x">>, <<"x", "">>, <<"x", "y">>}
      [] kind = "dir" -> {<<"x">>, <<"y">>, <<"x", "y">>}

AtMostOne(S) == {{}} \cup {{e} : e \in S}

Limited(kind) ==
    {[Plain EXCEPT !.permitted[kind] = p, !.excluded[kind] = e] :
        p \in AtMostOne(Subtrees(kind)) \cup {Subtrees(kind)},
        e \in AtMostOne(Subtrees(kind))}

\* With a name of its own.
Named(kind) == {[c EXCEPT !.san[kind] = {<<"x", "y">>}] : c \in Limited(kind)}

Leaves(kind) ==
    {[Plain EXCEPT !.san[kind] = n, !.subject = s] :
        n \in NameSets(kind), s \in IF kind = "dir" THEN {<<"y">>, <<"x", "y">>} ELSE {<<"y">>}}

\* The anchor excludes everything, to no effect.
Hostile == [Plain EXCEPT !.excluded = [k \in Kinds |-> {<<"x">>, <<"y">>}]]

NamePathsOf(kind) ==
    {<<leaf, a, b, Hostile>> :
        leaf \in Leaves(kind), a \in Limited(kind) \cup Named(kind), b \in Limited(kind)}

NamePaths == NamePathsOf("dns") \cup NamePathsOf("uri") \cup NamePathsOf("dir")

-----------------------------------------------------------------------------
PolicySets == {{}, {AnyPolicy}, {1}, {2}, {AnyPolicy, 1}}

Asserting ==
    {[Plain EXCEPT !.policies = p, !.policy_mappings = m] :
        p \in PolicySets, m \in {{}, {<<1, 2>>}, {<<AnyPolicy, 1>>}}}

AssertingPaths ==
    {<<[Plain EXCEPT !.policies = p], a, b, Plain>> :
        p \in PolicySets, a \in Asserting, b \in Asserting}

\* One skip count at most, on an intermediate certificate.
PolicyPaths ==
    AssertingPaths \cup
    {[p EXCEPT ![i][f] = k] : p \in AssertingPaths, i \in 2..3, f \in SkipFields, k \in 0..1}

\* Several skip counts on one path, the anchor's included.
SkipPaths ==
    {[i \in 1..5 |->
         IF i = 1 THEN [Plain EXCEPT !.policies = p]
         ELSE [Plain EXCEPT ![f] = k[i - 1], !.policies = {AnyPolicy, 1},
                            !.policy_mappings = {<<2, 1>>}]] :
        f \in SkipFields, k \in [1..4 -> {None} \cup 0..2], p \in {{AnyPolicy, 1}, {1}}}

\* Rich paths for some inputs, the shortest ones for all.  The leaf may be an anchor.
MCPathsOf(r) ==
    {<<Plain>>, <<Plain, Plain>>}
    \cup (IF r = InputOf(OneTime, <<1>>, Missing) THEN NamePaths \cup SkipPaths ELSE {})
    \cup (IF r \in {InputOf(OneTime, <<1>>, list) : list \in {<<>>, <<1>>}}
          THEN PolicyPaths ELSE {})
    \cup (IF r = InputOf(OneTime, <<1>>, <<AnyPolicyOid>>) THEN AssertingPaths ELSE {})
=============================================================================
