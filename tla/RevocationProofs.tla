-------------------------- MODULE RevocationProofs --------------------------
(***************************************************************************)
(* Proofs about the revocation evaluator, for every archive of parsed      *)
(* evidence, every set of calls and every order of them.                   *)
(***************************************************************************)
EXTENDS Revocation, FiniteSetTheorems, NaturalsInduction, TLAPS

-----------------------------------------------------------------------------
(***************************************************************************)
(* Chains of checks.                                                       *)
(***************************************************************************)
LEMMA LeastNumber ==
    ASSUME NEW S \in SUBSET Nat, S # {}
    PROVE  \E x \in S : \A y \in S : x <= y
<1>1. IsWellFoundedOn(OpToRel(<, Nat), Nat)
  BY NatLessThanWellFounded
<1> DEFINE R == OpToRel(<, Nat)
<1>2. \A x, y \in S : <<y, x>> \in R <=> y < x
  BY DEF OpToRel
<1> HIDE DEF R
<1>3. PICK x \in S : \A y \in S : <<y, x>> \notin R
  <2>1. IsWellFoundedOn(R, Nat)
    BY <1>1 DEF R
  <2> QED BY <2>1, WFMin
<1>4. \A y \in S : ~(y < x)
  BY <1>2, <1>3
<1> QED
  BY <1>4

\* A chain passes when each of its checks does, and fails with its first code when its
\* first check does not pass.
LEMMA FirstFailingFacts ==
    ASSUME NEW rules, DOMAIN rules \subseteq Nat \ {0}, 1 \in DOMAIN rules,
           \A i \in DOMAIN rules : rules[i].code # "NONE"
    PROVE  /\ FirstFailing(rules) = "NONE" <=> \A i \in DOMAIN rules : rules[i].passes
           /\ ~rules[1].passes => FirstFailing(rules) = rules[1].code
<1> DEFINE failing == {i \in DOMAIN rules : ~rules[i].passes}
           first == CHOOSE i \in failing : \A j \in failing : i <= j
<1>1. failing \in SUBSET Nat
  OBVIOUS
<1>2. ASSUME failing # {}
      PROVE  /\ first \in failing /\ \A j \in failing : first <= j
             /\ FirstFailing(rules) = rules[first].code
  <2>1. \E i \in failing : \A j \in failing : i <= j
    <3> HIDE DEF failing
    <3> QED BY <1>1, <1>2, LeastNumber
  <2> QED BY <1>2, <2>1 DEF FirstFailing
<1>3. failing = {} => FirstFailing(rules) = "NONE"
  BY DEF FirstFailing
<1>4. ASSUME ~rules[1].passes
      PROVE  first = 1
  <2>1. 1 \in failing
    BY <1>4
  <2>2. first \in Nat \ {0} /\ first <= 1
    <3>1. failing \subseteq Nat \ {0}
      OBVIOUS
    <3> HIDE DEF failing, first
    <3> QED BY <1>2, <2>1, <3>1
  <2> HIDE DEF first
  <2> QED BY <2>2
<1> QED
  BY <1>2, <1>3, <1>4

LEMMA CrlFaultFacts ==
    ASSUME NEW crl, NEW issuer
    PROVE  /\ CrlFault(crl, issuer) = "NONE" =>
                 Timely(crl) /\ ~crl.unsupported /\ crl.signer = issuer.key
           /\ ~Timely(crl) => CrlFault(crl, issuer) = "RECEIVED_AFTER_CUTOFF"
<1> DEFINE rules == <<Rule("RECEIVED_AFTER_CUTOFF", Timely(crl)),
                      Rule("UNSUPPORTED", ~crl.unsupported),
                      Rule("KEY_MISMATCH", crl.aki = None \/ issuer.ski = None
                                           \/ crl.aki = issuer.ski),
                      Rule("SIGNATURE_INVALID", crl.signer = issuer.key)>>
<1>1. DOMAIN rules = 1..4 /\ \A i \in 1..4 : rules[i].code # "NONE"
  BY DEF Rule
<1>2. /\ rules[1].code = "RECEIVED_AFTER_CUTOFF" /\ (rules[1].passes <=> Timely(crl))
      /\ rules[2].passes <=> ~crl.unsupported
      /\ rules[4].passes <=> crl.signer = issuer.key
  BY DEF Rule, Timely
<1>3. CrlFault(crl, issuer) = FirstFailing(rules)
  BY DEF CrlFault
<1> HIDE DEF rules
<1>4. /\ FirstFailing(rules) = "NONE" <=> \A i \in 1..4 : rules[i].passes
      /\ ~rules[1].passes => FirstFailing(rules) = rules[1].code
  BY <1>1, FirstFailingFacts
<1> QED
  BY <1>2, <1>3, <1>4

LEMMA OcspFaultFacts ==
    ASSUME NEW ocsp, NEW call
    PROVE  /\ OcspFault(ocsp, call) = "NONE" => Timely(ocsp) /\ Authorized(ocsp, call.issuer)
           /\ ~Timely(ocsp) => OcspFault(ocsp, call) = "RECEIVED_AFTER_CUTOFF"
<1> DEFINE single == Single(ocsp, call)
           rules == <<Rule("RECEIVED_AFTER_CUTOFF", Timely(ocsp)),
                      Rule("UNSUPPORTED", ~ocsp.unsupported),
                      Rule("RESPONDER_UNAUTHORIZED", Authorized(ocsp, call.issuer)),
                      Rule("INVALID_REVOKED_ENTRY", single.status = "revoked"
                                                    => single.revocation_time # None)>>
<1>1. DOMAIN rules = 1..4 /\ \A i \in 1..4 : rules[i].code # "NONE"
  BY DEF Rule
<1>2. /\ rules[1].code = "RECEIVED_AFTER_CUTOFF" /\ (rules[1].passes <=> Timely(ocsp))
      /\ rules[3].passes <=> Authorized(ocsp, call.issuer)
  BY DEF Rule, Timely, Authorized
<1>3. OcspFault(ocsp, call) = FirstFailing(rules)
  BY DEF OcspFault
<1> HIDE DEF rules
<1>4. /\ FirstFailing(rules) = "NONE" <=> \A i \in 1..4 : rules[i].passes
      /\ ~rules[1].passes => FirstFailing(rules) = rules[1].code
  BY <1>1, FirstFailingFacts
<1> QED
  BY <1>2, <1>3, <1>4

-----------------------------------------------------------------------------
(***************************************************************************)
(* Views.                                                                  *)
(***************************************************************************)
Pairs == {0, 1} \X Fps
Triples == {0} \X Fps \X Fps
Ids == Pairs \cup Triples

\* The third place of an id, below every fingerprint if there is none.
Third(a) == IF Len(a) = 2 THEN -1 ELSE a[3]

Lower(a, b) ==
    \/ a[1] < b[1]
    \/ a[1] = b[1] /\ a[2] < b[2]
    \/ a[1] = b[1] /\ a[2] = b[2] /\ Third(a) < Third(b)

LEMMA PairType ==
    ASSUME NEW a \in Pairs
    PROVE  /\ a \in Seq(Nat) /\ Len(a) = 2 /\ DOMAIN a = 1..2 /\ Third(a) = -1
           /\ a[1] \in Nat /\ a[2] \in Nat /\ a = <<a[1], a[2]>>
<1>1. PICK s \in {0, 1}, f \in Fps : a = <<s, f>>
  BY DEF Pairs
<1>2. s \in Nat /\ f \in Nat
  BY RevocationAssumption
<1>3. <<s, f>> \in Seq(Nat)
  BY <1>2
<1>4. Len(a) = 2 /\ a[1] = s /\ a[2] = f
  BY <1>1
<1> QED
  BY <1>1, <1>2, <1>3, <1>4 DEF Third

LEMMA TripleType ==
    ASSUME NEW a \in Triples
    PROVE  /\ a \in Seq(Nat) /\ Len(a) = 3 /\ DOMAIN a = 1..3 /\ Third(a) = a[3]
           /\ a[1] \in Nat /\ a[2] \in Nat /\ a[3] \in Nat /\ a = <<a[1], a[2], a[3]>>
<1>1. PICK f \in Fps, g \in Fps : a = <<0, f, g>>
  BY DEF Triples
<1>2. f \in Nat /\ g \in Nat
  BY RevocationAssumption
<1>3. <<0, f, g>> \in Seq(Nat)
  BY <1>2
<1>4. Len(a) = 3 /\ a[1] = 0 /\ a[2] = f /\ a[3] = g
  BY <1>1
<1> QED
  BY <1>1, <1>2, <1>3, <1>4 DEF Third

\* IdBefore compares place by place.
LEMMA IdBeforeIsLower ==
    ASSUME NEW a \in Ids, NEW b \in Ids
    PROVE  IdBefore(a, b) <=> Lower(a, b)
<1>1. CASE a \in Pairs /\ b \in Pairs
  <2>1. /\ DOMAIN a = 1..2 /\ DOMAIN b = 1..2 /\ Len(a) = 2 /\ Len(b) = 2
        /\ Third(a) = -1 /\ Third(b) = -1
        /\ a[1] \in Nat /\ a[2] \in Nat /\ b[1] \in Nat /\ b[2] \in Nat
    BY <1>1, PairType
  <2>2. IdBefore(a, b) <=> a[1] < b[1] \/ (a[2] < b[2] /\ a[1] = b[1])
    BY <2>1 DEF IdBefore
  <2> QED BY <2>1, <2>2 DEF Lower
<1>2. CASE a \in Triples /\ b \in Triples
  <2>1. /\ DOMAIN a = 1..3 /\ DOMAIN b = 1..3 /\ Len(a) = 3 /\ Len(b) = 3
        /\ Third(a) = a[3] /\ Third(b) = b[3]
        /\ a[1] \in Nat /\ a[2] \in Nat /\ a[3] \in Nat
        /\ b[1] \in Nat /\ b[2] \in Nat /\ b[3] \in Nat
    BY <1>2, TripleType
  <2>2. IdBefore(a, b) <=> \/ a[1] < b[1]
                           \/ a[2] < b[2] /\ a[1] = b[1]
                           \/ a[3] < b[3] /\ a[1] = b[1] /\ a[2] = b[2]
    BY <2>1 DEF IdBefore
  <2> QED BY <2>1, <2>2 DEF Lower
<1>3. CASE a \in Pairs /\ b \in Triples
  <2>1. /\ DOMAIN a = 1..2 /\ DOMAIN b = 1..3 /\ Len(a) = 2 /\ Len(b) = 3
        /\ Third(a) = -1 /\ Third(b) = b[3]
        /\ a[1] \in Nat /\ a[2] \in Nat
        /\ b[1] \in Nat /\ b[2] \in Nat /\ b[3] \in Nat
    BY <1>3, PairType, TripleType
  <2>2. IdBefore(a, b) <=> \/ a[1] < b[1]
                           \/ a[2] < b[2] /\ a[1] = b[1]
                           \/ a[1] = b[1] /\ a[2] = b[2]
    BY <2>1 DEF IdBefore
  <2> QED BY <2>1, <2>2 DEF Lower
<1>4. CASE a \in Triples /\ b \in Pairs
  <2>1. /\ DOMAIN a = 1..3 /\ DOMAIN b = 1..2 /\ Len(a) = 3 /\ Len(b) = 2
        /\ Third(a) = a[3] /\ Third(b) = -1
        /\ a[1] \in Nat /\ a[2] \in Nat /\ a[3] \in Nat
        /\ b[1] \in Nat /\ b[2] \in Nat
    BY <1>4, PairType, TripleType
  <2>2. IdBefore(a, b) <=> a[1] < b[1] \/ (a[2] < b[2] /\ a[1] = b[1])
    BY <2>1 DEF IdBefore
  <2> QED BY <2>1, <2>2 DEF Lower
<1> QED
  BY <1>1, <1>2, <1>3, <1>4 DEF Ids

LEMMA IdsDiffer ==
    ASSUME NEW a \in Ids, NEW b \in Ids, a # b
    PROVE  Lower(a, b) \/ Lower(b, a)
<1>1. /\ a[1] \in Nat /\ a[2] \in Nat /\ Third(a) \in Int
      /\ b[1] \in Nat /\ b[2] \in Nat /\ Third(b) \in Int
  BY PairType, TripleType DEF Ids
<1>2. SUFFICES ASSUME a[1] = b[1], a[2] = b[2], Third(a) = Third(b) PROVE FALSE
  BY <1>1 DEF Lower
<1>3. CASE a \in Pairs /\ b \in Pairs
  BY <1>2, <1>3, PairType
<1>4. CASE a \in Triples /\ b \in Triples
  BY <1>2, <1>4, TripleType
<1>5. CASE a \in Pairs /\ b \in Triples
  BY <1>2, <1>5, PairType, TripleType
<1>6. CASE a \in Triples /\ b \in Pairs
  BY <1>2, <1>6, PairType, TripleType
<1> QED
  BY <1>3, <1>4, <1>5, <1>6 DEF Ids

LEMMA FiniteIds == IsFiniteSet(Ids)
<1>1. IsFiniteSet({0, 1})
  <2>1. IsFiniteSet({0}) /\ IsFiniteSet({1})
    BY FS_Singleton
  <2>2. {0, 1} = {0} \cup {1}
    OBVIOUS
  <2> QED BY <2>1, <2>2, FS_Union, Zenon
<1>2. IsFiniteSet(Fps)
  BY RevocationAssumption
<1>3. IsFiniteSet(Pairs)
  BY <1>1, <1>2, FS_Product DEF Pairs
<1>4. IsFiniteSet(Triples)
  <2> DEFINE both == Fps \X Fps
             F == [p \in both |-> <<0, p[1], p[2]>>]
  <2>1. IsFiniteSet(both)
    BY <1>2, FS_Product
  <2>2. F \in Surjection(both, Triples)
    <3>1. \A p \in both : F[p] \in Triples
      BY DEF Triples
    <3>2. ASSUME NEW t \in Triples PROVE \E p \in both : F[p] = t
      <4>1. PICK f \in Fps, g \in Fps : t = <<0, f, g>>
        BY DEF Triples
      <4>2. <<f, g>> \in both /\ F[<<f, g>>] = t
        BY <4>1
      <4> QED BY <4>2
    <3> QED BY <3>1, <3>2 DEF Surjection
  <2> HIDE DEF both, F
  <2> QED BY <2>1, <2>2, FS_Surjection
<1> QED
  BY <1>3, <1>4, FS_Union DEF Ids

\* The three kinds of view.
CrlView(ev, call, f) ==
    View(<<0, f>>, ev[f], FALSE, ev[f].entries[call.cert.serial], {f})

MergedView(ev, call, b, d) ==
    View(<<0, b, d>>, ev[d], FALSE,
         Merge(ev[b].entries, ev[d].entries)[call.cert.serial], {b, d})

OcspView(ev, call, f) ==
    LET single == Single(ev[f], call)
    IN  View(<<1, f>>, single, single.status = "unknown",
             IF single.status = "revoked" THEN single.revocation_time ELSE None, {f})

Complete(ev, call) == {f \in ValidCrls(ev, call) : ~IsDelta(ev[f])}
Deltas(ev, call) == {f \in ValidCrls(ev, call) : IsDelta(ev[f])}
ValidOcsps(ev, call) == {f \in Ocsps(ev, call) : OcspFault(ev[f], call) = "NONE"}

LEMMA ViewsAre ==
    ASSUME NEW ev, NEW call, NEW v
    PROVE  v \in Views(ev, call) <=>
              \/ \E f \in Complete(ev, call) : v = CrlView(ev, call, f)
              \/ \E d \in Deltas(ev, call) : \E b \in Bases(ev, call, d) :
                    v = MergedView(ev, call, b, d)
              \/ \E f \in ValidOcsps(ev, call) : v = OcspView(ev, call, f)
<1>1. v \in CrlViews(ev, call) <=> \E f \in Complete(ev, call) : v = CrlView(ev, call, f)
  BY DEF CrlViews, Complete, CrlView
<1>2. v \in MergedViews(ev, call) <=>
         \E d \in Deltas(ev, call) : \E b \in Bases(ev, call, d) : v = MergedView(ev, call, b, d)
  <2>1. MergedViews(ev, call) =
           UNION {{MergedView(ev, call, b, d) : b \in Bases(ev, call, d)} : d \in Deltas(ev, call)}
    BY DEF MergedViews, Deltas, MergedView
  <2>2. v \in MergedViews(ev, call) <=>
           \E d \in Deltas(ev, call) :
              v \in {MergedView(ev, call, b, d) : b \in Bases(ev, call, d)}
    BY <2>1
  <2>3. \A d : v \in {MergedView(ev, call, b, d) : b \in Bases(ev, call, d)} <=>
                 \E b \in Bases(ev, call, d) : v = MergedView(ev, call, b, d)
    OBVIOUS
  <2> QED BY <2>2, <2>3
<1>3. v \in OcspViews(ev, call) <=> \E f \in ValidOcsps(ev, call) : v = OcspView(ev, call, f)
  BY DEF OcspViews, ValidOcsps, OcspView
<1> QED
  BY <1>1, <1>2, <1>3 DEF Views

LEMMA LookedIn ==
    ASSUME NEW ev, NEW call
    PROVE  /\ Looked(ev, call) \subseteq DOMAIN ev
           /\ Complete(ev, call) \cup Deltas(ev, call) \cup ValidOcsps(ev, call)
                 \subseteq Looked(ev, call)
           /\ \A d : Bases(ev, call, d) \subseteq Complete(ev, call)
BY DEF Looked, Complete, Deltas, ValidOcsps, Bases, ValidCrls, Crls, Ocsps

\* What parsing promises of what is looked at.
LEMMA LookedParsed ==
    ASSUME NEW ev, Parsed(ev), NEW call
    PROVE  /\ Looked(ev, call) \subseteq Fps
           /\ \A f \in Crls(ev, call) : ParsedCrl(ev[f])
           /\ \A f \in Ocsps(ev, call) : ParsedOcsp(ev[f])
BY DEF Looked, Crls, Ocsps, Parsed

LEMMA SingleFacts ==
    ASSUME NEW ev, Parsed(ev), NEW call, NEW f \in Ocsps(ev, call)
    PROVE  \E i \in DOMAIN ev[f].responses : Single(ev[f], call) = ev[f].responses[i]
<1> DEFINE matching == {i \in DOMAIN ev[f].responses : Matches(ev[f].responses[i], call)}
           first == CHOOSE i \in matching : \A j \in matching : i <= j
<1>1. matching \in SUBSET Nat /\ matching # {}
  BY LookedParsed DEF Ocsps, ParsedOcsp
<1>2. \E i \in matching : \A j \in matching : i <= j
  <2> HIDE DEF matching
  <2> QED BY <1>1, LeastNumber
<1>3. first \in matching
  BY <1>2
<1>4. Single(ev[f], call) = ev[f].responses[first]
  BY DEF Single
<1> QED
  BY <1>3, <1>4

LEMMA MergeType ==
    ASSUME NEW entries \in [Serials -> Optional(Times)], NEW delta \in Entries
    PROVE  Merge(entries, delta) \in [Serials -> Optional(Times)]
BY RevocationAssumption DEF Merge, Entries, Optional

LEMMA CompleteFacts ==
    ASSUME NEW ev, Parsed(ev), NEW call \in Calls, NEW f \in Complete(ev, call)
    PROVE  /\ f \in Looked(ev, call) /\ f \in Fps
           /\ ev[f].this_update \in Times /\ ev[f].entries \in [Serials -> Optional(Times)]
           /\ ev[f].signer = call.issuer.key
<1>1. f \in Crls(ev, call) /\ CrlFault(ev[f], call.issuer) = "NONE" /\ ~IsDelta(ev[f])
  BY DEF Complete, ValidCrls
<1>2. ~ev[f].unsupported /\ ev[f].signer = call.issuer.key
  BY <1>1, CrlFaultFacts
<1>3. ParsedCrl(ev[f]) /\ f \in Looked(ev, call) /\ f \in Fps
  BY <1>1, LookedParsed DEF Looked
<1> QED
  BY <1>1, <1>2, <1>3 DEF ParsedCrl

LEMMA DeltaFacts ==
    ASSUME NEW ev, Parsed(ev), NEW call \in Calls, NEW d \in Deltas(ev, call)
    PROVE  /\ d \in Looked(ev, call) /\ d \in Fps
           /\ ev[d].this_update \in Times /\ ev[d].entries \in Entries
           /\ ev[d].signer = call.issuer.key
<1>1. d \in Crls(ev, call) /\ CrlFault(ev[d], call.issuer) = "NONE"
  BY DEF Deltas, ValidCrls
<1>2. ev[d].signer = call.issuer.key
  BY <1>1, CrlFaultFacts
<1>3. ParsedCrl(ev[d]) /\ d \in Looked(ev, call) /\ d \in Fps
  BY <1>1, LookedParsed DEF Looked
<1> QED
  BY <1>2, <1>3 DEF ParsedCrl

\* Types of a view.
ViewOK(ev, call, v) ==
    /\ v.as_of \in Times /\ v.id \in Ids /\ v.revoked \in Optional(Times)
    /\ v.evidence # {} /\ v.evidence \subseteq Looked(ev, call)

LEMMA ViewFacts ==
    ASSUME NEW ev, Parsed(ev), NEW call \in Calls, NEW v \in Views(ev, call)
    PROVE  ViewOK(ev, call, v)
<1>0. call.cert.serial \in Serials
  BY RevocationAssumption
<1>1. ASSUME NEW f \in Complete(ev, call), v = CrlView(ev, call, f)
      PROVE  ViewOK(ev, call, v)
  <2>1. <<0, f>> \in Ids
    BY CompleteFacts DEF Ids, Pairs
  <2>2. ev[f].entries[call.cert.serial] \in Optional(Times)
    BY <1>0, CompleteFacts
  <2> QED BY <1>1, <2>1, <2>2, CompleteFacts DEF ViewOK, CrlView, View
<1>2. ASSUME NEW d \in Deltas(ev, call), NEW b \in Bases(ev, call, d),
             v = MergedView(ev, call, b, d)
      PROVE  ViewOK(ev, call, v)
  <2>0. b \in Complete(ev, call)
    BY LookedIn
  <2>1. <<0, b, d>> \in Ids
    BY <2>0, CompleteFacts, DeltaFacts DEF Ids, Triples
  <2>2. Merge(ev[b].entries, ev[d].entries)[call.cert.serial] \in Optional(Times)
    BY <1>0, <2>0, CompleteFacts, DeltaFacts, MergeType
  <2>3. {b, d} \subseteq Looked(ev, call) /\ ev[d].this_update \in Times
    BY <2>0, CompleteFacts, DeltaFacts
  <2> QED BY <1>2, <2>1, <2>2, <2>3 DEF ViewOK, MergedView, View
<1>3. ASSUME NEW f \in ValidOcsps(ev, call), v = OcspView(ev, call, f)
      PROVE  ViewOK(ev, call, v)
  <2> DEFINE single == Single(ev[f], call)
  <2>1. f \in Ocsps(ev, call) /\ f \in Looked(ev, call)
    BY DEF ValidOcsps, Looked
  <2>2. f \in Fps /\ ParsedOcsp(ev[f])
    BY <2>1, LookedParsed
  <2>3. single.this_update \in Times /\ single.revocation_time \in Optional(Times)
    BY <2>1, <2>2, SingleFacts DEF ParsedOcsp
  <2>4. <<1, f>> \in Ids
    BY <2>2 DEF Ids, Pairs
  <2> HIDE DEF single
  <2>5. v = View(<<1, f>>, single, single.status = "unknown",
                 IF single.status = "revoked" THEN single.revocation_time ELSE None, {f})
    BY <1>3 DEF OcspView, single
  <2>6. (IF single.status = "revoked" THEN single.revocation_time ELSE None)
           \in Optional(Times)
    BY <2>3 DEF Optional
  <2> QED BY <2>1, <2>3, <2>4, <2>5, <2>6 DEF ViewOK, View
<1> QED
  BY <1>1, <1>2, <1>3, ViewsAre

\* A view is known by its id.
LEMMA ViewById ==
    ASSUME NEW ev, NEW call, NEW v \in Views(ev, call), NEW u \in Views(ev, call), v.id = u.id
    PROVE  v = u
<1> DEFINE crl(w) == \E f \in Complete(ev, call) : w = CrlView(ev, call, f)
           merged(w) == \E d \in Deltas(ev, call) : \E b \in Bases(ev, call, d) :
                           w = MergedView(ev, call, b, d)
           ocsp(w) == \E f \in ValidOcsps(ev, call) : w = OcspView(ev, call, f)
<1>1. \A f : CrlView(ev, call, f).id = <<0, f>> /\ OcspView(ev, call, f).id = <<1, f>>
  BY DEF CrlView, OcspView, View
<1>2. \A b, d : MergedView(ev, call, b, d).id = <<0, b, d>>
  BY DEF MergedView, View
<1>3. /\ \A f, g : <<0, f>> # <<1, g>> /\ (<<0, f>> = <<0, g>> => f = g)
                   /\ (<<1, f>> = <<1, g>> => f = g)
      /\ \A b, d, f, g : (<<0, b, d>> = <<0, f, g>> => b = f /\ d = g)
  OBVIOUS
<1>4. \A b, d, f, s : <<0, b, d>> # <<s, f>>
  <2> TAKE b, d, f, s
  <2>1. Len(<<0, b, d>>) = 3 /\ Len(<<s, f>>) = 2
    OBVIOUS
  <2> QED BY <2>1
<1>5. (crl(v) \/ merged(v) \/ ocsp(v)) /\ (crl(u) \/ merged(u) \/ ocsp(u))
  BY ViewsAre
<1>6. CASE crl(v)
  BY <1>1, <1>2, <1>3, <1>4, <1>5, <1>6
<1>7. CASE merged(v)
  BY <1>1, <1>2, <1>3, <1>4, <1>5, <1>7
<1>8. CASE ocsp(v)
  BY <1>1, <1>2, <1>3, <1>4, <1>5, <1>8
<1> QED
  BY <1>5, <1>6, <1>7, <1>8

-----------------------------------------------------------------------------
(***************************************************************************)
(* Selection.                                                              *)
(***************************************************************************)
Beats(v, u) == v.as_of > u.as_of \/ (v.as_of = u.as_of /\ IdBefore(v.id, u.id))

\* The order of views is strict and total.
LEMMA BeatsOrder ==
    ASSUME NEW ev, Parsed(ev), NEW call \in Calls
    PROVE  \A v, u \in Views(ev, call) :
              /\ u = v \/ Beats(v, u) \/ Beats(u, v)
              /\ ~(Beats(v, u) /\ Beats(u, v)) /\ ~Beats(v, v)
              /\ \A w \in Views(ev, call) : Beats(v, u) /\ Beats(u, w) => Beats(v, w)
<1>1. \A v \in Views(ev, call) :
         /\ v.as_of \in Int /\ v.id \in Ids
         /\ v.id[1] \in Int /\ v.id[2] \in Int /\ Third(v.id) \in Int
  <2> TAKE v \in Views(ev, call)
  <2>1. v.as_of \in Int /\ v.id \in Ids
    BY ViewFacts, RevocationAssumption DEF ViewOK
  <2> QED BY <2>1, PairType, TripleType DEF Ids
<1>2. \A v, u \in Views(ev, call) :
         Beats(v, u) <=> v.as_of > u.as_of \/ (v.as_of = u.as_of /\ Lower(v.id, u.id))
  BY <1>1, IdBeforeIsLower DEF Beats
<1>3. \A v, u \in Views(ev, call) : u = v \/ Lower(v.id, u.id) \/ Lower(u.id, v.id)
  BY <1>1, IdsDiffer, ViewById
<1> QED
  BY <1>1, <1>2, <1>3 DEF Lower

\* Of views that are not empty one is selected, and it beats the others.
LEMMA SelectedBest ==
    ASSUME NEW ev, Parsed(ev), NEW call \in Calls, NEW T \in SUBSET Views(ev, call), T # {}
    PROVE  Selected(T) \in T /\ \A u \in T : u = Selected(T) \/ Beats(Selected(T), u)
<1> DEFINE Better(v) == {u.id : u \in {w \in T : Beats(w, v)}}
           R == StrictSubsetOrdering(Ids)
           all == {Better(v) : v \in T}
<1>1. IsWellFoundedOn(R, SUBSET Ids)
  BY FiniteIds, FS_StrictSubsetOrderingWellFounded, FS_FiniteSubsetsOfFinite
<1>2. \A v \in T : Better(v) \subseteq Ids
  BY ViewFacts DEF ViewOK
<1>3. all \subseteq SUBSET Ids /\ all # {}
  BY <1>2
<1>4. PICK x \in all : \A y \in all : <<y, x>> \notin R
  <2> HIDE DEF all, R
  <2> QED BY <1>1, <1>3, WFMin
<1>5. PICK v \in T : x = Better(v)
  OBVIOUS
<1>6. ASSUME NEW u \in T, Beats(u, v) PROVE FALSE
  <2>1. Better(u) \subseteq Better(v)
    BY <1>6, BeatsOrder
  <2>2. u.id \in Better(v)
    BY <1>6
  <2>3. u.id \notin Better(u)
    <3>1. SUFFICES ASSUME NEW w \in T, Beats(w, u), w.id = u.id PROVE FALSE
      OBVIOUS
    <3>2. w = u
      BY <3>1, ViewById
    <3> QED BY <3>1, <3>2, BeatsOrder
  <2>4. Better(u) \in all /\ Better(u) \subseteq Ids /\ Better(v) \subseteq Ids
    BY <1>2
  <2> HIDE DEF Better, all
  <2> QED BY <1>4, <1>5, <2>1, <2>2, <2>3, <2>4 DEF StrictSubsetOrdering
<1>7. \A u \in T : u = v \/ Beats(v, u)
  BY <1>6, BeatsOrder
<1> QED
  BY <1>7 DEF Selected, Beats

\* The best of all views is the best of any of them that hold it.
LEMMA SelectedWithin ==
    ASSUME NEW ev, Parsed(ev), NEW call \in Calls,
           NEW T \in SUBSET Views(ev, call), Selected(Views(ev, call)) \in T
    PROVE  Selected(T) = Selected(Views(ev, call))
<1> DEFINE V == Views(ev, call)
           a == Selected(V)
           b == Selected(T)
<1>1. V # {} /\ T # {}
  OBVIOUS
<1>2. b \in T /\ \A u \in T : u = b \/ Beats(b, u)
  BY <1>1, SelectedBest
<1>3. a \in V /\ \A u \in V : u = a \/ Beats(a, u)
  BY <1>1, SelectedBest
<1>4. a = b \/ (Beats(a, b) /\ Beats(b, a))
  <2> HIDE DEF a, b
  <2>1. a \in T
    BY DEF a
  <2> QED BY <1>2, <1>3, <2>1
<1>5. a \in V /\ b \in V
  BY <1>2, <1>3
<1> QED
  BY <1>4, <1>5, BeatsOrder

-----------------------------------------------------------------------------
(***************************************************************************)
(* Less evidence.                                                          *)
(***************************************************************************)
LEMMA RestrictedParsed ==
    ASSUME NEW ev, Parsed(ev), NEW S \in SUBSET DOMAIN ev
    PROVE  Parsed(Restrict(ev, S))
BY DEF Parsed, Restrict

LEMMA RestrictedSets ==
    ASSUME NEW ev, NEW S \in SUBSET DOMAIN ev, NEW call, NEW r, r = Restrict(ev, S)
    PROVE  /\ DOMAIN r = S /\ \A f \in S : r[f] = ev[f]
           /\ Crls(r, call) = Crls(ev, call) \cap S /\ Ocsps(r, call) = Ocsps(ev, call) \cap S
           /\ Looked(r, call) = Looked(ev, call) \cap S
           /\ ValidCrls(r, call) = ValidCrls(ev, call) \cap S
           /\ Complete(r, call) = Complete(ev, call) \cap S
           /\ Deltas(r, call) = Deltas(ev, call) \cap S
           /\ ValidOcsps(r, call) = ValidOcsps(ev, call) \cap S
           /\ \A d \in S : Bases(r, call, d) = Bases(ev, call, d) \cap S
<1>1. DOMAIN r = S /\ \A f \in S : r[f] = ev[f]
  BY DEF Restrict
<1>2. Crls(r, call) = Crls(ev, call) \cap S
  BY <1>1 DEF Crls
<1>3. Ocsps(r, call) = Ocsps(ev, call) \cap S
  BY <1>1 DEF Ocsps
<1>4. ValidCrls(r, call) = ValidCrls(ev, call) \cap S
  BY <1>1, <1>2 DEF ValidCrls
<1>5. Complete(r, call) = Complete(ev, call) \cap S /\ Deltas(r, call) = Deltas(ev, call) \cap S
  BY <1>1, <1>4 DEF Complete, Deltas
<1>6. ValidOcsps(r, call) = ValidOcsps(ev, call) \cap S
  BY <1>1, <1>3 DEF ValidOcsps
<1>7. ASSUME NEW d \in S PROVE Bases(r, call, d) = Bases(ev, call, d) \cap S
  BY <1>1, <1>4 DEF Bases
<1> QED
  BY <1>1, <1>2, <1>3, <1>4, <1>5, <1>6, <1>7 DEF Looked

\* From some of the evidence come the views that rest on nothing else.
LEMMA ViewsWithin ==
    ASSUME NEW ev, NEW S \in SUBSET DOMAIN ev, NEW call
    PROVE  Views(Restrict(ev, S), call) = {v \in Views(ev, call) : v.evidence \subseteq S}
<1> DEFINE r == Restrict(ev, S)
<1>1. /\ \A f \in S : CrlView(r, call, f) = CrlView(ev, call, f)
      /\ \A f \in S : OcspView(r, call, f) = OcspView(ev, call, f)
      /\ \A b, d \in S : MergedView(r, call, b, d) = MergedView(ev, call, b, d)
  <2>1. \A f \in S : r[f] = ev[f]
    BY RestrictedSets
  <2> HIDE DEF r
  <2> QED BY <2>1 DEF CrlView, OcspView, MergedView
<1>2. /\ \A f : CrlView(ev, call, f).evidence = {f} /\ OcspView(ev, call, f).evidence = {f}
      /\ \A b, d : MergedView(ev, call, b, d).evidence = {b, d}
  BY DEF CrlView, OcspView, MergedView, View
<1>3. /\ Complete(r, call) = Complete(ev, call) \cap S
      /\ Deltas(r, call) = Deltas(ev, call) \cap S
      /\ ValidOcsps(r, call) = ValidOcsps(ev, call) \cap S
      /\ \A d \in S : Bases(r, call, d) = Bases(ev, call, d) \cap S
  BY RestrictedSets
<1> HIDE DEF r
<1>4. ASSUME NEW v \in Views(r, call)
      PROVE  v \in Views(ev, call) /\ v.evidence \subseteq S
  <2>1. CASE \E f \in Complete(r, call) : v = CrlView(r, call, f)
    BY <1>1, <1>2, <1>3, <2>1, ViewsAre
  <2>2. CASE \E d \in Deltas(r, call) : \E b \in Bases(r, call, d) : v = MergedView(r, call, b, d)
    <3>0. PICK d \in Deltas(r, call) : \E b \in Bases(r, call, d) : v = MergedView(r, call, b, d)
      BY <2>2
    <3>1. PICK b \in Bases(r, call, d) : v = MergedView(r, call, b, d)
      BY <3>0
    <3>2. d \in Deltas(ev, call) /\ d \in S /\ b \in Bases(ev, call, d) /\ b \in S
      BY <1>3
    <3>3. v = MergedView(ev, call, b, d) /\ v.evidence = {b, d}
      BY <1>1, <1>2, <3>1, <3>2
    <3> QED BY <3>2, <3>3, ViewsAre
  <2>3. CASE \E f \in ValidOcsps(r, call) : v = OcspView(r, call, f)
    BY <1>1, <1>2, <1>3, <2>3, ViewsAre
  <2> QED BY <2>1, <2>2, <2>3, ViewsAre
<1>5. ASSUME NEW v \in Views(ev, call), v.evidence \subseteq S
      PROVE  v \in Views(r, call)
  <2>1. CASE \E f \in Complete(ev, call) : v = CrlView(ev, call, f)
    BY <1>1, <1>2, <1>3, <1>5, <2>1, ViewsAre
  <2>2. CASE \E d \in Deltas(ev, call) : \E b \in Bases(ev, call, d) :
                v = MergedView(ev, call, b, d)
    <3>0. PICK d \in Deltas(ev, call) : \E b \in Bases(ev, call, d) :
             v = MergedView(ev, call, b, d)
      BY <2>2
    <3>1. PICK b \in Bases(ev, call, d) : v = MergedView(ev, call, b, d)
      BY <3>0
    <3>2. b \in S /\ d \in S
      BY <1>2, <1>5, <3>1
    <3>3. d \in Deltas(r, call) /\ b \in Bases(r, call, d) /\ v = MergedView(r, call, b, d)
      BY <1>1, <1>3, <3>1, <3>2
    <3> QED BY <3>3, ViewsAre
  <2>3. CASE \E f \in ValidOcsps(ev, call) : v = OcspView(ev, call, f)
    BY <1>1, <1>2, <1>3, <1>5, <2>3, ViewsAre
  <2> QED BY <2>1, <2>2, <2>3, ViewsAre
<1> QED
  BY <1>4, <1>5 DEF r

-----------------------------------------------------------------------------
(***************************************************************************)
(* Outcomes.                                                               *)
(***************************************************************************)
Defective(ev, call) == \E f \in Looked(ev, call) : Exclusion(ev, call)[f] \in Defects

OutcomeOf(views, defective) ==
    IF views = {}
    THEN [status |-> IF defective THEN "MALFORMED_EVIDENCE" ELSE "UNKNOWN",
          view |-> None, as_of |-> None, selected |-> {}]
    ELSE [status |-> Conclusion(Selected(views)), view |-> Selected(views).id,
          as_of |-> Selected(views).as_of, selected |-> Selected(views).evidence]

\* An outcome is drawn from the views and from whether there were defects.
LEMMA OutcomeIs ==
    ASSUME NEW ev, NEW call
    PROVE  /\ Outcome(ev, call) = OutcomeOf(Views(ev, call), Defective(ev, call))
           /\ DOMAIN Exclusion(ev, call) = Looked(ev, call)
<1>1. DOMAIN Exclusion(ev, call) = Looked(ev, call)
  BY DEF Exclusion, Looked
<1> QED
  BY <1>1 DEF Outcome, OutcomeOf, Defective

LEMMA ConclusionType ==
    ASSUME NEW view
    PROVE  Conclusion(view) \in Statuses
BY DEF Conclusion, Statuses

LEMMA OutcomeFacts ==
    ASSUME NEW ev, Parsed(ev), NEW call \in Calls
    PROVE  LET o == Outcome(ev, call)
               v == Selected(Views(ev, call))
           IN  /\ o.status \in Statuses /\ o.selected \subseteq Looked(ev, call)
               /\ o.view = None <=> o.selected = {}
               /\ o.view # None <=> Views(ev, call) # {}
               /\ o.view # None =>
                    /\ v \in Views(ev, call) /\ o.selected = v.evidence
                    /\ o.view = v.id /\ o.as_of = v.as_of
<1> DEFINE V == Views(ev, call)
           v == Selected(V)
           o == OutcomeOf(V, Defective(ev, call))
<1>1. Outcome(ev, call) = o
  BY OutcomeIs
<1>2. CASE V = {}
  <2>1. o.view = None /\ o.selected = {} /\ o.status \in {"MALFORMED_EVIDENCE", "UNKNOWN"}
    BY <1>2 DEF OutcomeOf
  <2> HIDE DEF o
  <2> QED BY <1>1, <1>2, <2>1 DEF Statuses
<1>3. CASE V # {}
  <2>1. v \in V
    BY <1>3, SelectedBest
  <2>2. /\ o.view = v.id /\ o.selected = v.evidence /\ o.status = Conclusion(v)
        /\ o.as_of = v.as_of
    BY <1>3 DEF OutcomeOf
  <2>3. v.id \in Ids /\ v.evidence # {} /\ v.evidence \subseteq Looked(ev, call)
    BY <2>1, ViewFacts DEF ViewOK
  <2>4. v.id # None
    <3>1. v.id \in Seq(Nat)
      BY <2>3, PairType, TripleType DEF Ids
    <3> QED BY <3>1, RevocationAssumption
  <2>5. Conclusion(v) \in Statuses
    BY ConclusionType
  <2> HIDE DEF o, v
  <2> QED BY <1>1, <1>3, <2>1, <2>2, <2>3, <2>4, <2>5 DEF v
<1> QED
  BY <1>2, <1>3

\* Evidence that was not looked at, or arrived too late, makes no difference.
LEMMA UntimelyIrrelevant ==
    ASSUME NEW ev, Parsed(ev), NEW call \in Calls, NEW S \in SUBSET DOMAIN ev,
           \A f \in Looked(ev, call) \ S : ~Timely(ev[f])
    PROVE  Outcome(Restrict(ev, S), call) = Outcome(ev, call)
<1> DEFINE r == Restrict(ev, S)
<1>1. /\ DOMAIN r = S /\ \A f \in S : r[f] = ev[f]
      /\ Crls(r, call) = Crls(ev, call) \cap S /\ Ocsps(r, call) = Ocsps(ev, call) \cap S
      /\ Looked(r, call) = Looked(ev, call) \cap S
      /\ ValidCrls(r, call) = ValidCrls(ev, call) \cap S
      /\ \A d \in S : Bases(r, call, d) = Bases(ev, call, d) \cap S
  BY RestrictedSets
<1>2. Views(r, call) = {v \in Views(ev, call) : v.evidence \subseteq S}
  BY ViewsWithin
<1> HIDE DEF r
<1>3. Complete(ev, call) \cup Deltas(ev, call) \cup ValidOcsps(ev, call) \subseteq S
  <2>1. \A f \in Complete(ev, call) \cup Deltas(ev, call) : Timely(ev[f])
    BY CrlFaultFacts DEF Complete, Deltas, ValidCrls
  <2>2. \A f \in ValidOcsps(ev, call) : Timely(ev[f])
    BY OcspFaultFacts DEF ValidOcsps
  <2> QED BY <2>1, <2>2, LookedIn
<1>4. \A d : Bases(ev, call, d) \subseteq S
  BY <1>3, LookedIn
<1>5. ASSUME NEW v \in Views(ev, call) PROVE v.evidence \subseteq S
  <2>1. /\ \A f : CrlView(ev, call, f).evidence = {f} /\ OcspView(ev, call, f).evidence = {f}
        /\ \A b, d : MergedView(ev, call, b, d).evidence = {b, d}
    BY DEF CrlView, OcspView, MergedView, View
  <2>2. CASE \E f \in Complete(ev, call) : v = CrlView(ev, call, f)
    BY <1>3, <2>1, <2>2
  <2>3. CASE \E d \in Deltas(ev, call) : \E b \in Bases(ev, call, d) :
                v = MergedView(ev, call, b, d)
    BY <1>3, <1>4, <2>1, <2>3
  <2>4. CASE \E f \in ValidOcsps(ev, call) : v = OcspView(ev, call, f)
    BY <1>3, <2>1, <2>4
  <2> QED BY <2>2, <2>3, <2>4, ViewsAre
<1>6. Views(r, call) = Views(ev, call)
  BY <1>2, <1>5
<1>7. ASSUME NEW f \in Looked(ev, call) \cap S
      PROVE  Exclusion(r, call)[f] = Exclusion(ev, call)[f]
  <2>1. /\ r[f] = ev[f] /\ Bases(r, call, f) = Bases(ev, call, f)
        /\ f \in ValidCrls(r, call) <=> f \in ValidCrls(ev, call)
        /\ f \in Looked(r, call)
    BY <1>1, <1>4
  <2> QED BY <2>1 DEF Exclusion, Looked
<1>8. ASSUME NEW f \in Looked(ev, call) \ S
      PROVE  Exclusion(ev, call)[f] \notin Defects
  <2>1. ~Timely(ev[f])
    OBVIOUS
  <2>2. f \notin ValidCrls(ev, call)
    BY <2>1, CrlFaultFacts DEF ValidCrls
  <2>3. Exclusion(ev, call)[f] = "RECEIVED_AFTER_CUTOFF"
    BY <2>1, <2>2, CrlFaultFacts, OcspFaultFacts DEF Exclusion, Looked
  <2> QED BY <2>3 DEF Defects
<1>9. Defective(r, call) <=> Defective(ev, call)
  BY <1>1, <1>7, <1>8 DEF Defective
<1>10. OutcomeOf(Views(r, call), Defective(r, call))
          = OutcomeOf(Views(ev, call), Defective(ev, call))
  BY <1>6, <1>9 DEF OutcomeOf
<1> QED
  BY <1>10, OutcomeIs DEF r

\* The evidence of the selected view gives that view again.
LEMMA SelectedAlone ==
    ASSUME NEW ev, Parsed(ev), NEW call \in Calls, Outcome(ev, call).view # None
    PROVE  Outcome(Restrict(ev, Outcome(ev, call).selected), call) = Outcome(ev, call)
<1> DEFINE V == Views(ev, call)
           v == Selected(V)
           S == Outcome(ev, call).selected
           r == Restrict(ev, S)
           T == Views(r, call)
<1>1. V # {} /\ v \in V /\ S = v.evidence /\ S \subseteq Looked(ev, call)
  BY OutcomeFacts
<1>2. S \in SUBSET DOMAIN ev
  BY <1>1, LookedIn
<1>3. T = {u \in V : u.evidence \subseteq S}
  <2> HIDE DEF S
  <2> QED BY <1>2, ViewsWithin
<1>4. v \in T /\ T \in SUBSET V
  BY <1>1, <1>3
<1>5. Selected(T) = v
  <2> HIDE DEF T
  <2> QED BY <1>4, SelectedWithin
<1>6. Outcome(r, call) = OutcomeOf(T, Defective(r, call))
  BY OutcomeIs
<1>7. Outcome(ev, call) = OutcomeOf(V, Defective(ev, call))
  BY OutcomeIs
<1>8. T # {}
  BY <1>4
<1> HIDE DEF T, V, r, S
<1>9. OutcomeOf(T, Defective(r, call)) = OutcomeOf(V, Defective(ev, call))
  BY <1>1, <1>5, <1>8 DEF OutcomeOf
<1> QED
  BY <1>6, <1>7, <1>9 DEF r, S

\* The whole archive selects a view that is as fresh as that of any part.
NotOlder(o, less) ==
    /\ o.view # None
    /\ \/ o.as_of > less.as_of
       \/ o.as_of = less.as_of /\ (o.view = less.view \/ IdBefore(o.view, less.view))

LEMMA FreshestOutcome ==
    ASSUME NEW ev, Parsed(ev), NEW call \in Calls, NEW S \in SUBSET DOMAIN ev,
           Outcome(Restrict(ev, S), call).view # None
    PROVE  NotOlder(Outcome(ev, call), Outcome(Restrict(ev, S), call))
<1> DEFINE r == Restrict(ev, S)
           V == Views(ev, call)
           T == Views(r, call)
           o == Outcome(ev, call)
           less == Outcome(r, call)
<1>1. Parsed(r)
  BY RestrictedParsed
<1>2. T \subseteq V
  BY ViewsWithin
<1>3. Selected(T) \in T /\ less.view = Selected(T).id /\ less.as_of = Selected(T).as_of
  BY <1>1, OutcomeFacts
<1>4. V # {} /\ Selected(T) \in V
  BY <1>2, <1>3
<1>5. o.view # None
  BY <1>4, OutcomeFacts
<1>6. o.view = Selected(V).id /\ o.as_of = Selected(V).as_of
  BY <1>5, OutcomeFacts
<1>7. Selected(T) = Selected(V) \/ Beats(Selected(V), Selected(T))
  BY <1>4, SelectedBest
<1> HIDE DEF V, T, o, less, r
<1>8. NotOlder(o, less)
  BY <1>3, <1>5, <1>6, <1>7 DEF NotOlder, Beats
<1> QED
  BY <1>8 DEF o, less, r

\* An outcome depends on the certificate and on the name, the key and the key identifier
\* of the issuer certificate.
LEMMA SameOutcome ==
    ASSUME NEW ev, NEW c, NEW d, c.cert = d.cert, c.issuer.name = d.issuer.name,
           c.issuer.key = d.issuer.key, c.issuer.ski = d.issuer.ski
    PROVE  Outcome(ev, c) = Outcome(ev, d)
<1>1. Crls(ev, c) = Crls(ev, d)
  BY DEF Crls
<1>2. \A response : Matches(response, c) <=> Matches(response, d)
  BY DEF Matches
<1>3. Ocsps(ev, c) = Ocsps(ev, d)
  BY <1>2 DEF Ocsps
<1>4. ASSUME NEW ocsp PROVE Single(ocsp, c) = Single(ocsp, d)
  BY <1>2 DEF Single
<1>5. ASSUME NEW crl PROVE CrlFault(crl, c.issuer) = CrlFault(crl, d.issuer)
  BY DEF CrlFault
<1>6. ASSUME NEW ocsp PROVE Authorized(ocsp, c.issuer) = Authorized(ocsp, d.issuer)
  BY DEF Authorized, Delegated, ResponderIdMatches
<1>7. ASSUME NEW ocsp PROVE OcspFault(ocsp, c) = OcspFault(ocsp, d)
  <2>1. Rule("RESPONDER_UNAUTHORIZED", Authorized(ocsp, c.issuer))
           = Rule("RESPONDER_UNAUTHORIZED", Authorized(ocsp, d.issuer))
    BY <1>6 DEF Rule
  <2> QED BY <1>4, <2>1 DEF OcspFault
<1>8. ValidCrls(ev, c) = ValidCrls(ev, d)
  BY <1>1, <1>5 DEF ValidCrls
<1>9. \A f : Bases(ev, c, f) = Bases(ev, d, f)
  BY <1>8 DEF Bases
<1>10. Exclusion(ev, c) = Exclusion(ev, d)
  BY <1>1, <1>3, <1>5, <1>7, <1>8, <1>9 DEF Exclusion
<1>11. Looked(ev, c) = Looked(ev, d)
  BY <1>1, <1>3 DEF Looked
<1>12. /\ Complete(ev, c) = Complete(ev, d) /\ Deltas(ev, c) = Deltas(ev, d)
       /\ ValidOcsps(ev, c) = ValidOcsps(ev, d)
  BY <1>3, <1>7, <1>8 DEF Complete, Deltas, ValidOcsps
<1>13. \A f : CrlView(ev, c, f) = CrlView(ev, d, f) /\ OcspView(ev, c, f) = OcspView(ev, d, f)
  BY <1>4 DEF CrlView, OcspView
<1>14. \A f, b : MergedView(ev, c, b, f) = MergedView(ev, d, b, f)
  BY DEF MergedView
<1>15. Views(ev, c) = Views(ev, d)
  <2>1. \A v : v \in Views(ev, c) <=> v \in Views(ev, d)
    <3> TAKE v
    <3> QED BY <1>9, <1>12, <1>13, <1>14, ViewsAre
  <2> QED BY <2>1
<1>16. Defective(ev, c) = Defective(ev, d)
  BY <1>10, <1>11 DEF Defective
<1> QED
  BY <1>15, <1>16, OutcomeIs

\* A merge with the entries that lead from one complete CRL to another gives the other.
LEMMA MergeOfDifference ==
    ASSUME NEW old \in [Serials -> Optional(Times)], NEW new \in [Serials -> Optional(Times)]
    PROVE  Merge(old, Difference(old, new)) = new
<1> DEFINE delta == Difference(old, new)
<1>1. ASSUME NEW s \in Serials
      PROVE  (IF delta[s] = Removed THEN None
              ELSE IF delta[s] = None THEN old[s] ELSE delta[s]) = new[s]
  <2>1. delta[s] = IF new[s] = old[s] THEN None
                   ELSE IF new[s] = None THEN Removed ELSE new[s]
    BY DEF Difference
  <2>2. new[s] # Removed /\ Removed # None
    BY RevocationAssumption DEF Optional
  <2> HIDE DEF delta
  <2> QED BY <2>1, <2>2
<1> HIDE DEF delta
<1>2. Merge(old, delta) = [s \in Serials |-> IF delta[s] = Removed THEN None
                              ELSE IF delta[s] = None THEN old[s] ELSE delta[s]]
  BY DEF Merge
<1>3. Merge(old, delta) = [s \in Serials |-> new[s]]
  BY <1>1, <1>2
<1> QED
  BY <1>3 DEF delta

\* The object goes back to the issuer's key.
Vouched(ev, call, f) ==
    LET delegates == {c \in ev[f].certs :
                         /\ c.signer = call.issuer.key /\ c.ocsp_signing
                         /\ ev[f].produced_at \in c.not_before..c.not_after}
    IN  \/ ev[f].signer = call.issuer.key
        \/ ev[f].type = "ocsp" /\ ev[f].signer \in {c.key : c \in delegates}

LEMMA SelectedVouched ==
    ASSUME NEW ev, Parsed(ev), NEW call \in Calls, NEW f \in Outcome(ev, call).selected
    PROVE  Vouched(ev, call, f)
<1> DEFINE v == Selected(Views(ev, call))
<1>1. v \in Views(ev, call) /\ f \in v.evidence
  BY OutcomeFacts
<1> HIDE DEF v
<1>2. /\ \A g : CrlView(ev, call, g).evidence = {g} /\ OcspView(ev, call, g).evidence = {g}
      /\ \A b, d : MergedView(ev, call, b, d).evidence = {b, d}
  BY DEF CrlView, OcspView, MergedView, View
<1>3. CASE f \in Complete(ev, call) \cup Deltas(ev, call)
  BY <1>3, CompleteFacts, DeltaFacts DEF Vouched
<1>4. CASE f \in ValidOcsps(ev, call)
  <2>1. f \in Ocsps(ev, call) /\ ev[f].type = "ocsp" /\ Authorized(ev[f], call.issuer)
    BY <1>4, OcspFaultFacts DEF ValidOcsps, Ocsps
  <2>2. ParsedOcsp(ev[f])
    BY <2>1, LookedParsed
  <2>3. CASE ev[f].signer = call.issuer.key
    BY <2>3 DEF Vouched
  <2>4. CASE \E c \in ev[f].certs : Delegated(ev[f], c, call.issuer)
    <3>1. PICK c \in ev[f].certs : Delegated(ev[f], c, call.issuer)
      BY <2>4
    <3>2. /\ c.signer = call.issuer.key /\ c.ocsp_signing /\ ev[f].signer = c.key
          /\ c.not_before <= ev[f].produced_at /\ ev[f].produced_at <= c.not_after
      BY <3>1 DEF Delegated
    <3>3. ev[f].produced_at \in Int /\ c.not_before \in Int /\ c.not_after \in Int
      BY <2>2, RevocationAssumption DEF ParsedOcsp
    <3>4. ev[f].produced_at \in c.not_before..c.not_after
      BY <3>2, <3>3
    <3> QED BY <2>1, <3>2, <3>4 DEF Vouched
  <2> QED BY <2>1, <2>3, <2>4 DEF Authorized
<1>5. f \in Complete(ev, call) \cup Deltas(ev, call) \cup ValidOcsps(ev, call)
  BY <1>1, <1>2, ViewsAre, LookedIn
<1> QED
  BY <1>3, <1>4, <1>5

-----------------------------------------------------------------------------
(***************************************************************************)
(* The inductive invariant.  What is cached for a key is the outcome of    *)
(* some call with that key, all of whose evidence is marked; every answer  *)
(* is cached.                                                              *)
(***************************************************************************)
Cached(k, c) ==
    /\ Key(c) = k /\ cache[k] = Outcome(evidence, c)
    /\ Looked(evidence, c) \subseteq touched

RevocationInv ==
    /\ Parsed(evidence) /\ touched \subseteq DOMAIN evidence
    /\ \A k \in DOMAIN cache : \E c \in Calls : Cached(k, c)
    /\ DOMAIN answers = Calls
    /\ \A call \in Calls : answers[call] # None =>
          Key(call) \in DOMAIN cache /\ answers[call] = cache[Key(call)]
    /\ AccountingExact

LEMMA FreshInv ==
    ASSUME Parsed(evidence), RevocationFresh
    PROVE  RevocationInv
<1>1. DOMAIN cache = {} /\ DOMAIN accounting = {} /\ touched = {} /\ DOMAIN outcomes = {}
  BY DEF RevocationFresh
<1>2. AccountingExact
  BY <1>1 DEF AccountingExact
<1> QED
  BY <1>1, <1>2 DEF RevocationFresh, RevocationInv

\* One evaluation accounts for what it looked at and for what it used.
LEMMA RecordFacts ==
    ASSUME NEW ev, Parsed(ev), NEW call \in Calls, NEW old
    PROVE  LET acc == Record(old, Disposition(ev, call))
               used == Outcome(ev, call).selected
           IN  /\ DOMAIN acc = DOMAIN old \cup Looked(ev, call)
               /\ used \subseteq DOMAIN acc
               /\ \A f \in DOMAIN acc :
                     acc[f] = Used <=> f \in used \/ (f \in DOMAIN old /\ old[f] = Used)
               /\ \A f \in DOMAIN old : acc[f] \in {old[f], Used}
<1> DEFINE new == Disposition(ev, call)
           used == Outcome(ev, call).selected
           acc == Record(old, new)
<1>1. DOMAIN new = Looked(ev, call)
  BY OutcomeIs DEF Disposition
<1>2. \A reason : Excluded(reason) # Used
  BY DEF Excluded, Used
<1>3. \A f \in DOMAIN new : new[f] = Used <=> f \in used
  BY <1>2 DEF Disposition
<1>4. used \subseteq Looked(ev, call)
  BY OutcomeFacts
<1> HIDE DEF new, used
<1>5. /\ DOMAIN acc = DOMAIN old \cup DOMAIN new
      /\ \A f \in DOMAIN acc :
            acc[f] = IF f \notin DOMAIN old THEN new[f]
                     ELSE IF f \in DOMAIN new /\ new[f] = Used THEN Used ELSE old[f]
  BY DEF Record
<1> HIDE DEF acc
<1>6. ASSUME NEW f \in DOMAIN acc
      PROVE  acc[f] = Used <=> f \in used \/ (f \in DOMAIN old /\ old[f] = Used)
  BY <1>1, <1>3, <1>4, <1>5
<1>7. \A f \in DOMAIN old : acc[f] \in {old[f], Used}
  BY <1>5
<1> QED
  BY <1>1, <1>4, <1>5, <1>6, <1>7 DEF acc, new, used

\* What AccountingExact says of one reported outcome.
ReportKept(report, acc, seen) ==
    /\ DOMAIN report.evaluated \subseteq seen
    /\ \A f \in report.outcome.selected :
          f \in DOMAIN report.evaluated /\ report.evaluated[f] = Used
    /\ \A f \in DOMAIN report.evaluated : acc[f] \in {report.evaluated[f], Used}

\* A hit answers with what is cached, a miss with a new outcome.
LEMMA StatusKept ==
    ASSUME RevocationInv, NEW call \in Calls, Status(call)
    PROVE  RevocationInv'
<1>1. /\ Parsed(evidence) /\ touched \subseteq DOMAIN evidence
      /\ \A k \in DOMAIN cache : \E c \in Calls : Cached(k, c)
      /\ DOMAIN answers = Calls
      /\ \A c \in Calls : answers[c] # None =>
            Key(c) \in DOMAIN cache /\ answers[c] = cache[Key(c)]
      /\ AccountingExact
  BY DEF RevocationInv
<1>2. evidence' = evidence
  BY DEF Status
<1>3. CASE /\ Key(call) \in DOMAIN cache
           /\ answers' = [answers EXCEPT ![call] = cache[Key(call)]]
           /\ UNCHANGED <<cache, accounting, touched, outcomes>>
  <2>1. \A k \in DOMAIN cache' : \E c \in Calls : Cached(k, c)'
    BY <1>1, <1>2, <1>3 DEF Cached
  <2>2. \A c \in Calls : answers'[c] # None =>
           Key(c) \in DOMAIN cache' /\ answers'[c] = cache'[Key(c)]
    BY <1>1, <1>3
  <2>3. AccountingExact'
    BY <1>1, <1>3 DEF AccountingExact
  <2>4. DOMAIN answers' = Calls
    BY <1>1, <1>3
  <2> QED BY <1>1, <1>2, <1>3, <2>1, <2>2, <2>3, <2>4 DEF RevocationInv
<1>4. CASE /\ Key(call) \notin DOMAIN cache
           /\ cache' = [k \in DOMAIN cache \cup {Key(call)} |->
                           IF k = Key(call) THEN Outcome(evidence, call) ELSE cache[k]]
           /\ answers' = [answers EXCEPT ![call] = Outcome(evidence, call)]
           /\ accounting' = Record(accounting, Disposition(evidence, call))
           /\ touched' = touched \cup Looked(evidence, call)
           /\ outcomes' = [fp \in DOMAIN outcomes \cup {call.cert.fp} |->
                              IF fp = call.cert.fp THEN Report(call, accounting')
                              ELSE outcomes[fp]]
  <2> DEFINE o == Outcome(evidence, call)
             looked == Looked(evidence, call)
             recorded == Record(accounting, Disposition(evidence, call))
             key == Key(call)
  <2>0. o.selected \subseteq looked /\ looked \subseteq DOMAIN evidence
    BY <1>1, OutcomeFacts, LookedIn
  <2>1. /\ DOMAIN recorded = DOMAIN accounting \cup looked
        /\ \A f \in DOMAIN recorded :
              recorded[f] = Used <=>
                 f \in o.selected \/ (f \in DOMAIN accounting /\ accounting[f] = Used)
        /\ \A f \in DOMAIN accounting : recorded[f] \in {accounting[f], Used}
    BY <1>1, RecordFacts
  <2>2. Cached(key, call)'
    BY <1>2, <1>4 DEF Cached
  <2>3. ASSUME NEW k \in DOMAIN cache PROVE \E c \in Calls : Cached(k, c)'
    <3>1. PICK c \in Calls : Cached(k, c)
      BY <1>1
    <3>2. k # Key(call) /\ cache'[k] = cache[k]
      BY <1>4
    <3> QED BY <1>2, <1>4, <3>1, <3>2 DEF Cached
  <2> HIDE DEF o, looked, recorded, key
  <2>4. /\ key \notin DOMAIN cache /\ DOMAIN cache' = DOMAIN cache \cup {key}
        /\ cache'[key] = o /\ \A k \in DOMAIN cache : cache'[k] = cache[k]
        /\ answers' = [answers EXCEPT ![call] = o]
        /\ accounting' = recorded /\ touched' = touched \cup looked
        /\ outcomes' = [fp \in DOMAIN outcomes \cup {call.cert.fp} |->
                           IF fp = call.cert.fp THEN Report(call, recorded)
                           ELSE outcomes[fp]]
    BY <1>4 DEF o, looked, recorded, key
  <2>5. \A c \in Calls : answers'[c] # None =>
           Key(c) \in DOMAIN cache' /\ answers'[c] = cache'[Key(c)]
    <3> TAKE c \in Calls
    <3>1. CASE c = call
      BY <1>1, <2>4, <3>1 DEF key
    <3>2. CASE c # call
      BY <1>1, <2>4, <3>2
    <3> QED BY <3>1, <3>2
  <2>6. AccountingExact'
    <3>1. /\ DOMAIN accounting = touched
          /\ {f \in touched : accounting[f] = Used}
                = UNION {cache[k].selected : k \in DOMAIN cache}
          /\ \A fp \in DOMAIN outcomes : ReportKept(outcomes[fp], accounting, touched)
      BY <1>1 DEF AccountingExact, ReportKept
    <3>2. DOMAIN accounting' = touched'
      BY <2>1, <2>4, <3>1
    <3>3. UNION {cache'[k].selected : k \in DOMAIN cache'}
             = (UNION {cache[k].selected : k \in DOMAIN cache}) \cup o.selected
      BY <2>4
    <3>4. {f \in touched' : accounting'[f] = Used}
             = {f \in touched : accounting[f] = Used} \cup o.selected
      BY <2>0, <2>1, <2>4, <3>1
    <3>5. ASSUME NEW fp \in DOMAIN outcomes' PROVE ReportKept(outcomes'[fp], accounting', touched')
      <4>1. CASE fp = call.cert.fp
        <5> DEFINE report == Report(call, recorded)
        <5>1. /\ report.outcome = o /\ DOMAIN report.evaluated = looked
              /\ \A f \in looked : report.evaluated[f] = recorded[f]
          BY DEF Report, Restrict, o, looked
        <5>2. outcomes'[fp] = report
          BY <2>4, <4>1
        <5> HIDE DEF report
        <5>3. \A f \in o.selected : f \in looked /\ recorded[f] = Used
          BY <2>0, <2>1
        <5> QED BY <2>4, <5>1, <5>2, <5>3 DEF ReportKept
      <4>2. CASE fp # call.cert.fp
        <5>1. fp \in DOMAIN outcomes /\ outcomes'[fp] = outcomes[fp]
          BY <2>4, <4>2
        <5>2. ReportKept(outcomes[fp], accounting, touched)
          BY <3>1, <5>1
        <5>3. \A f \in touched : accounting'[f] \in {accounting[f], Used}
          BY <2>1, <2>4, <3>1
        <5>4. touched \subseteq touched'
          BY <2>4
        <5> QED BY <5>1, <5>2, <5>3, <5>4 DEF ReportKept
      <4> QED BY <4>1, <4>2
    <3> QED BY <3>1, <3>2, <3>3, <3>4, <3>5 DEF AccountingExact, ReportKept
  <2>7. \A k \in DOMAIN cache' : \E c \in Calls : Cached(k, c)'
    BY <2>2, <2>3, <2>4
  <2>8. touched' \subseteq DOMAIN evidence /\ DOMAIN answers' = Calls
    BY <1>1, <2>0, <2>4
  <2> QED BY <1>1, <1>2, <2>5, <2>6, <2>7, <2>8 DEF RevocationInv
<1> QED
  BY <1>3, <1>4 DEF Status

LEMMA RevocationAlways == RevocationSpec => []RevocationInv
<1>1. Parsed(evidence) /\ RevocationFresh => RevocationInv
  BY FreshInv
<1>2. RevocationInv /\ [RevocationNext]_rvars => RevocationInv'
  <2> SUFFICES ASSUME RevocationInv, [RevocationNext]_rvars
               PROVE  RevocationInv'
    OBVIOUS
  <2>1. CASE RevocationNext
    BY <2>1, StatusKept DEF RevocationNext
  <2>2. CASE UNCHANGED rvars
    BY <2>2 DEF rvars, RevocationInv, Cached, AccountingExact
  <2> QED BY <2>1, <2>2
<1> QED
  BY <1>1, <1>2, PTL DEF RevocationSpec

-----------------------------------------------------------------------------
(***************************************************************************)
(* What follows for every answer.                                          *)
(***************************************************************************)

\* Each answer is the outcome of a call with the same certificate and issuer key, on the
\* whole archive, on its timely part, on what was touched and on what the answer names.
Explained(answer, c) ==
    LET timely == {f \in DOMAIN evidence : evidence[f].received_at <= Cutoff}
    IN  /\ answer = Outcome(evidence, c)
        /\ answer = Outcome(Restrict(evidence, timely), c)
        /\ answer = Outcome(Restrict(evidence, touched), c)
        /\ answer.view # None => answer = Outcome(Restrict(evidence, answer.selected), c)

AnswersExplained ==
    \A call \in Answered : \E c \in Calls :
        Key(c) = Key(call) /\ Explained(answers[call], c)

LEMMA InvExplains ==
    ASSUME RevocationInv
    PROVE  AnswersExplained
<1> SUFFICES ASSUME NEW call \in Answered
             PROVE  \E c \in Calls : Key(c) = Key(call) /\ Explained(answers[call], c)
  BY DEF AnswersExplained
<1>1. /\ Parsed(evidence) /\ touched \in SUBSET DOMAIN evidence
      /\ Key(call) \in DOMAIN cache /\ answers[call] = cache[Key(call)]
  BY DEF RevocationInv, Answered
<1>2. PICK c \in Calls : Cached(Key(call), c)
  BY <1>1 DEF RevocationInv
<1>3. answers[call] = Outcome(evidence, c) /\ Key(c) = Key(call)
  BY <1>1, <1>2 DEF Cached
<1>4. Outcome(Restrict(evidence, touched), c) = Outcome(evidence, c)
  <2>1. Looked(evidence, c) \subseteq touched
    BY <1>2 DEF Cached
  <2> QED BY <1>1, <2>1, UntimelyIrrelevant
<1>5. ASSUME NEW timely, timely = {f \in DOMAIN evidence : evidence[f].received_at <= Cutoff}
      PROVE  Outcome(Restrict(evidence, timely), c) = Outcome(evidence, c)
  <2>1. timely \in SUBSET DOMAIN evidence
    BY <1>5
  <2>2. \A f \in Looked(evidence, c) \ timely : ~Timely(evidence[f])
    BY <1>5, LookedIn DEF Timely
  <2> QED BY <1>1, <2>1, <2>2, UntimelyIrrelevant
<1>6. Outcome(evidence, c).view # None =>
         Outcome(Restrict(evidence, Outcome(evidence, c).selected), c) = Outcome(evidence, c)
  BY <1>1, SelectedAlone
<1>7. Explained(answers[call], c)
  BY <1>3, <1>4, <1>5, <1>6 DEF Explained
<1> QED
  BY <1>3, <1>7

\* The certificates of one issuer key carry one key identifier.  Without this the
\* answers depend on which of them is asked about first (PathIndependent is violated).
OneKeyIdentifier ==
    \A c, d \in Calls : Key(c) = Key(d) => c.issuer.ski = d.issuer.ski

LEMMA SameKeySameOutcome ==
    ASSUME OneKeyIdentifier, NEW c \in Calls, NEW d \in Calls, Key(c) = Key(d), NEW ev
    PROVE  Outcome(ev, c) = Outcome(ev, d)
<1>1. c.cert.fp = d.cert.fp /\ c.issuer.key = d.issuer.key
  BY DEF Key
<1>2. c.cert = d.cert /\ c.issuer.name = d.issuer.name
  BY <1>1, RevocationAssumption
<1> QED
  BY <1>1, <1>2, SameOutcome DEF OneKeyIdentifier

LEMMA InvExplainsEach ==
    ASSUME OneKeyIdentifier, RevocationInv, NEW call \in Answered
    PROVE  Explained(answers[call], call)
<1>1. PICK c \in Calls : Key(c) = Key(call) /\ Explained(answers[call], c)
  BY InvExplains DEF AnswersExplained
<1>2. \A ev : Outcome(ev, c) = Outcome(ev, call)
  BY <1>1, SameKeySameOutcome DEF Answered
<1> QED
  BY <1>1, <1>2 DEF Explained

-----------------------------------------------------------------------------
(***************************************************************************)
(* Theorems.                                                               *)
(***************************************************************************)

\* Type correctness, of every view that any certificate could be judged by.
THEOREM RevocationTypeCorrect == RevocationSpec => []RevocationTypeOK
<1>1. RevocationInv => RevocationTypeOK
  <2> SUFFICES ASSUME RevocationInv PROVE RevocationTypeOK
    OBVIOUS
  <2>1. /\ Parsed(evidence) /\ touched \subseteq DOMAIN evidence
        /\ DOMAIN accounting = touched
    BY DEF RevocationInv, AccountingExact
  <2>2. ASSUME NEW k \in DOMAIN cache PROVE OutcomeOK(cache[k])
    <3>1. PICK c \in Calls : Cached(k, c)
      BY DEF RevocationInv
    <3>2. cache[k] = Outcome(evidence, c)
      BY <3>1 DEF Cached
    <3> QED BY <2>1, <3>2, OutcomeFacts, LookedIn DEF OutcomeOK
  <2>3. ASSUME NEW call \in Calls, answers[call] # None PROVE OutcomeOK(answers[call])
    BY <2>2, <2>3 DEF RevocationInv
  <2>4. ASSUME NEW call \in Calls, NEW v \in Views(evidence, call)
        PROVE  v.revoked \in Optional(Times)
    BY <2>1, ViewFacts DEF ViewOK
  <2>5. DOMAIN evidence \subseteq Fps
    BY <2>1 DEF Parsed
  <2> QED BY <2>1, <2>2, <2>3, <2>4, <2>5 DEF RevocationTypeOK
<1> QED
  BY <1>1, RevocationAlways, PTL

\* The accounting record (class RevocationEvaluator, _record) names exactly what was
\* touched, and as used exactly what some answer rests on, in any order of calls.
THEOREM AccountsForTouched == RevocationSpec => []AccountingExact
<1>1. RevocationInv => AccountingExact
  BY DEF RevocationInv
<1> QED
  BY <1>1, RevocationAlways, PTL

\* Every status goes back to the key of the issuer it was asked about, also when it is
\* the cached one of another certificate of that key.
THEOREM StatusesVouched == RevocationSpec => []EvidenceVouched
<1>1. RevocationInv => EvidenceVouched
  <2> SUFFICES ASSUME RevocationInv, NEW call \in Answered, NEW f \in answers[call].selected
               PROVE  Vouched(evidence, call, f)
    BY DEF EvidenceVouched, Vouched
  <2>1. PICK c \in Calls : Key(c) = Key(call) /\ Explained(answers[call], c)
    BY InvExplains DEF AnswersExplained
  <2>2. Vouched(evidence, c, f)
    BY <2>1, SelectedVouched DEF Explained, RevocationInv
  <2>3. c.issuer.key = call.issuer.key
    BY <2>1 DEF Key
  <2> QED BY <2>2, <2>3 DEF Vouched
<1> QED
  BY <1>1, RevocationAlways, PTL

\* A base merged with the delta issued for it says what the complete CRL of the same
\* issue says, for all entries.
THEOREM MergesLikeReissue == RevocationSpec => []MergeEqualsReissue
<1>1. RevocationInv => MergeEqualsReissue
  <2> SUFFICES ASSUME RevocationInv, NEW b \in DOMAIN evidence, NEW n \in DOMAIN evidence,
                      NEW d \in DOMAIN evidence,
                      evidence[b].type = "crl", evidence[n].type = "crl",
                      ~IsDelta(evidence[b]), ~IsDelta(evidence[n]),
                      ~evidence[b].unsupported, ~evidence[n].unsupported,
                      evidence[d].entries
                         = Difference(evidence[b].entries, evidence[n].entries)
               PROVE  Merge(evidence[b].entries, evidence[d].entries) = evidence[n].entries
    BY DEF MergeEqualsReissue
  <2>1. ParsedCrl(evidence[b]) /\ ParsedCrl(evidence[n])
    BY DEF RevocationInv, Parsed
  <2>2. /\ evidence[b].entries \in [Serials -> Optional(Times)]
        /\ evidence[n].entries \in [Serials -> Optional(Times)]
    BY <2>1 DEF ParsedCrl
  <2> QED BY <2>2, MergeOfDifference
<1> QED
  BY <1>1, RevocationAlways, PTL

\* Whatever key identifiers there are, every answer is the outcome of a call with its
\* certificate and issuer key: on the archive, on its timely part, on what was touched.
THEOREM AnswersAreOutcomes == RevocationSpec => []AnswersExplained
<1>1. RevocationInv => AnswersExplained
  BY InvExplains
<1> QED
  BY <1>1, RevocationAlways, PTL

\* With one key identifier for each issuer key, evidence that arrived after the cutoff
\* changes no answer.
THEOREM LateEvidenceChangesNothing ==
    ASSUME OneKeyIdentifier
    PROVE  RevocationSpec => []LateEvidenceIrrelevant
<1>1. RevocationInv => LateEvidenceIrrelevant
  BY InvExplainsEach DEF LateEvidenceIrrelevant, Explained
<1> QED
  BY <1>1, RevocationAlways, PTL

\* With one key identifier for each issuer key, what was touched gives every answer
\* again (the rounds of the engine and the offline verifier).
THEOREM TouchedReplays ==
    ASSUME OneKeyIdentifier
    PROVE  RevocationSpec => []TouchedSuffices
<1>1. RevocationInv => TouchedSuffices
  BY InvExplainsEach DEF TouchedSuffices, Explained
<1> QED
  BY <1>1, RevocationAlways, PTL

\* With one key identifier for each issuer key, the evidence an answer names gives that
\* answer again.
THEOREM SelectedReplays ==
    ASSUME OneKeyIdentifier
    PROVE  RevocationSpec => []SelectedSuffices
<1>1. RevocationInv => SelectedSuffices
  BY InvExplainsEach DEF SelectedSuffices, Explained
<1> QED
  BY <1>1, RevocationAlways, PTL

\* With one key identifier for each issuer key, no part of the archive selects a newer
\* view than the whole archive does, nor at the same time one with a smaller id (the sort
\* of the views and the cache).
THEOREM FreshestWins ==
    ASSUME OneKeyIdentifier
    PROVE  RevocationSpec => []FreshestSelected
<1>1. RevocationInv => FreshestSelected
  <2> SUFFICES ASSUME RevocationInv, NEW call \in Answered, NEW S \in SUBSET DOMAIN evidence,
                      Outcome(Restrict(evidence, S), call).view # None
               PROVE  NotOlder(answers[call], Outcome(Restrict(evidence, S), call))
    BY DEF FreshestSelected, NotOlder
  <2>1. answers[call] = Outcome(evidence, call)
    BY InvExplainsEach DEF Explained
  <2>2. Parsed(evidence) /\ call \in Calls
    BY DEF RevocationInv, Answered
  <2> QED BY <2>1, <2>2, FreshestOutcome
<1> QED
  BY <1>1, RevocationAlways, PTL
=============================================================================
