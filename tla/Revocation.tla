----------------------------- MODULE Revocation -----------------------------
(***************************************************************************)
(* The revocation evaluator of one adjudication (app/revocation.py, class  *)
(* RevocationEvaluator).  The explorer asks it for the status of a         *)
(* certificate under an issuer, in the order of its search; the evaluator  *)
(* caches, accounts for the evidence it looks at and notes what it         *)
(* touched.                                                                *)
(*                                                                         *)
(* Fingerprints are numbers, ordered as the code orders them; times are    *)
(* numbers.  A signature is the key that made it.  A responder id is a key *)
(* or a name, which are told apart.  The issuer's own key is supported:    *)
(* the explorer asks only after it has verified a signature with it.       *)
(***************************************************************************)
EXTENDS Rules, FiniteSets, Functions

CONSTANTS
    Fps,         \* fingerprints of the evidence, numbers
    Calls,       \* [cert |-> [fp, serial, issuer], issuer |-> [fp, name, key, ski]]
    Serials, Times,
    SignedAt, Cutoff,
    None,        \* an optional field that is absent
    Removed      \* a CRL entry with reason removeFromCRL

Optional(S) == S \cup {None}

ASSUME RevocationAssumption ==
    /\ Fps \subseteq Nat /\ IsFiniteSet(Fps)
    /\ Times \subseteq Int /\ {SignedAt, Cutoff} \subseteq Times
    /\ None \notin Times /\ None \notin Seq(Nat) /\ Removed \notin Optional(Times)
    /\ \A call \in Calls : call.cert.serial \in Serials /\ call.cert.issuer = call.issuer.name
    /\ \A c, d \in Calls : c.cert.fp = d.cert.fp => c.cert = d.cert

VARIABLES
    evidence,    \* the CRLs and OCSP responses of the set, by fingerprint
    cache,       \* outcome per certificate and issuer key
    accounting,  \* disposition and reason, by fingerprint
    touched,
    outcomes,    \* what the result reports, by certificate fingerprint
    answers      \* what each call returned

rvars == <<evidence, cache, accounting, touched, outcomes, answers>>

-----------------------------------------------------------------------------
(***************************************************************************)
(* Admissible evidence.  ev is the evidence the evaluator was given.       *)
(***************************************************************************)
Crls(ev, call) ==
    {f \in DOMAIN ev : ev[f].type = "crl" /\ ev[f].issuer = call.cert.issuer}

Matches(response, call) ==
    /\ response.serial = call.cert.serial
    /\ response.name = call.issuer.name /\ response.key = call.issuer.key

Ocsps(ev, call) ==
    {f \in DOMAIN ev : /\ ev[f].type = "ocsp"
                       /\ \E i \in DOMAIN ev[f].responses : Matches(ev[f].responses[i], call)}

\* The first single response for the certificate.
Single(ocsp, call) ==
    LET matching == {i \in DOMAIN ocsp.responses : Matches(ocsp.responses[i], call)}
    IN  ocsp.responses[CHOOSE i \in matching : \A j \in matching : i <= j]

\* Mutant: late evidence is admitted.
Timely_always(object) == TRUE

Timely(object) == object.received_at <= Cutoff

CrlFault(crl, issuer) ==
    FirstFailing(<<Rule("RECEIVED_AFTER_CUTOFF", Timely(crl)),
                   Rule("UNSUPPORTED", ~crl.unsupported),
                   Rule("KEY_MISMATCH", crl.aki = None \/ issuer.ski = None
                                        \/ crl.aki = issuer.ski),
                   Rule("SIGNATURE_INVALID", crl.signer = issuer.key)>>)

ResponderIdMatches(ocsp, cert) == ocsp.responder \in {cert.key, cert.name}

\* A certificate in the response that the issuer made a responder for its time.
Delegated(ocsp, cert, issuer) ==
    /\ cert.issuer = issuer.name /\ ~cert.unsupported
    /\ cert.ocsp_signing
    /\ cert.not_before <= ocsp.produced_at /\ ocsp.produced_at <= cert.not_after
    /\ ResponderIdMatches(ocsp, cert)
    /\ cert.signer = issuer.key /\ ocsp.signer = cert.key

\* _verify_ocsp_authorization
Authorized(ocsp, issuer) ==
    \/ ResponderIdMatches(ocsp, issuer) /\ ocsp.signer = issuer.key
    \/ \E c \in ocsp.certs : Delegated(ocsp, c, issuer)

OcspFault(ocsp, call) ==
    LET single == Single(ocsp, call)
    IN  FirstFailing(<<Rule("RECEIVED_AFTER_CUTOFF", Timely(ocsp)),
                       Rule("UNSUPPORTED", ~ocsp.unsupported),
                       Rule("RESPONDER_UNAUTHORIZED", Authorized(ocsp, call.issuer)),
                       Rule("INVALID_REVOKED_ENTRY", single.status = "revoked"
                                                     => single.revocation_time # None)>>)

IsDelta(crl) == crl.base # None

ValidCrls(ev, call) == {f \in Crls(ev, call) : CrlFault(ev[f], call.issuer) = "NONE"}

Compatible(base, delta) ==
    /\ base.aki = delta.aki /\ base.idp = delta.idp
    /\ base.number # None /\ delta.base = base.number
    /\ delta.number > base.number

\* Mutant: the base of a delta need not be valid itself.
Bases_any(ev, call, d) ==
    {b \in Crls(ev, call) : ~IsDelta(ev[b]) /\ Compatible(ev[b], ev[d])}

Bases(ev, call, d) ==
    {b \in ValidCrls(ev, call) : ~IsDelta(ev[b]) /\ Compatible(ev[b], ev[d])}

\* The reason evidence is left out of every view.
Exclusion(ev, call) ==
    [f \in Crls(ev, call) \cup Ocsps(ev, call) |->
        IF ev[f].type = "ocsp" THEN OcspFault(ev[f], call)
        ELSE IF f \in ValidCrls(ev, call) /\ IsDelta(ev[f]) /\ Bases(ev, call, f) = {}
             THEN "NO_COMPATIBLE_BASE"
        ELSE CrlFault(ev[f], call.issuer)]

Defects == {"UNSUPPORTED", "SIGNATURE_INVALID", "NO_COMPATIBLE_BASE",
            "RESPONDER_UNAUTHORIZED", "INVALID_REVOKED_ENTRY"}

-----------------------------------------------------------------------------
(***************************************************************************)
(* Views.  entries maps every serial to a revocation time, Removed or      *)
(* None.  The id orders views as the strings "crl:<fp>",                   *)
(* "crl:<base>+<delta>" and "ocsp:<fp>" do.                                *)
(***************************************************************************)

\* Mutant: an entry with reason removeFromCRL is taken over like any other.
Merge_leaking(entries, delta) ==
    [s \in DOMAIN entries |-> IF delta[s] = None THEN entries[s] ELSE delta[s]]

\* Mutant: an entry with reason removeFromCRL leaves the base alone.
Merge_keeping(entries, delta) ==
    [s \in DOMAIN entries |->
        IF delta[s] \in {None, Removed} THEN entries[s] ELSE delta[s]]

Merge(entries, delta) ==
    [s \in DOMAIN entries |->
        IF delta[s] = Removed THEN None
        ELSE IF delta[s] = None THEN entries[s] ELSE delta[s]]

View(id, source, unknown, revoked, used) ==
    [id |-> id, as_of |-> source.this_update, next_update |-> source.next_update,
     unknown |-> unknown, revoked |-> revoked, evidence |-> used]

CrlViews(ev, call) ==
    {View(<<0, f>>, ev[f], FALSE, ev[f].entries[call.cert.serial], {f}) :
        f \in {x \in ValidCrls(ev, call) : ~IsDelta(ev[x])}}

\* Mutant: the base is not listed as evidence of a merged view.
MergedViews_baseless(ev, call) ==
    UNION {{View(<<0, b, d>>, ev[d], FALSE,
                 Merge(ev[b].entries, ev[d].entries)[call.cert.serial], {d}) :
               b \in Bases(ev, call, d)} :
           d \in {x \in ValidCrls(ev, call) : IsDelta(ev[x])}}

MergedViews(ev, call) ==
    UNION {{View(<<0, b, d>>, ev[d], FALSE,
                 Merge(ev[b].entries, ev[d].entries)[call.cert.serial], {b, d}) :
               b \in Bases(ev, call, d)} :
           d \in {x \in ValidCrls(ev, call) : IsDelta(ev[x])}}

OcspViews(ev, call) ==
    {LET single == Single(ev[f], call)
     IN  View(<<1, f>>, single, single.status = "unknown",
              IF single.status = "revoked" THEN single.revocation_time ELSE None, {f}) :
        f \in {x \in Ocsps(ev, call) : OcspFault(ev[x], call) = "NONE"}}

Views(ev, call) == CrlViews(ev, call) \cup MergedViews(ev, call) \cup OcspViews(ev, call)

\* Lexicographic order; a proper prefix comes first.
IdBefore(a, b) ==
    \/ Len(a) < Len(b) /\ \A i \in DOMAIN a : a[i] = b[i]
    \/ \E i \in DOMAIN a \cap DOMAIN b : a[i] < b[i] /\ \A j \in 1..i - 1 : a[j] = b[j]

\* Mutant: the views are not sorted by descending as_of.
Selected_oldest(views) ==
    CHOOSE v \in views : \A u \in views :
        u = v \/ v.as_of < u.as_of \/ (v.as_of = u.as_of /\ IdBefore(v.id, u.id))

\* Greatest as_of first, then the smallest id.
Selected(views) ==
    CHOOSE v \in views : \A u \in views :
        u = v \/ v.as_of > u.as_of \/ (v.as_of = u.as_of /\ IdBefore(v.id, u.id))

Conclusion(view) ==
    CASE view.unknown -> "UNKNOWN"
      [] ~view.unknown /\ view.revoked # None /\ view.revoked <= SignedAt -> "REVOKED"
      [] OTHER -> IF \/ view.as_of >= SignedAt
                     \/ view.next_update # None /\ view.next_update >= SignedAt
                  THEN "GOOD" ELSE "STALE"

\* _compute, without its bookkeeping and without the time and the reason of a revocation.
Outcome(ev, call) ==
    LET views == Views(ev, call)
        excluded == Exclusion(ev, call)
        defective == \E f \in DOMAIN excluded : excluded[f] \in Defects
    IN  IF views = {}
        THEN [status |-> IF defective THEN "MALFORMED_EVIDENCE" ELSE "UNKNOWN",
              view |-> None, as_of |-> None, selected |-> {}]
        ELSE [status |-> Conclusion(Selected(views)), view |-> Selected(views).id,
              as_of |-> Selected(views).as_of, selected |-> Selected(views).evidence]

-----------------------------------------------------------------------------
(***************************************************************************)
(* Bookkeeping and the one operation.                                      *)
(***************************************************************************)
Used == [disposition |-> "used", reason |-> "selected view"]
Excluded(reason) == [disposition |-> "excluded", reason |-> reason]

\* What one evaluation has to say of each object it looked at.
Disposition(ev, call) ==
    LET excluded == Exclusion(ev, call)
    IN  [f \in DOMAIN excluded |->
            IF f \in Outcome(ev, call).selected THEN Used
            ELSE IF excluded[f] # "NONE" THEN Excluded(excluded[f])
            ELSE Excluded("NOT_SELECTED")]

\* Mutant: the first record of an object stays.
Record_first(old, new) ==
    [f \in DOMAIN old \cup DOMAIN new |-> IF f \in DOMAIN old THEN old[f] ELSE new[f]]

\* _record: an earlier record stays unless the object is now used for the first time.
Record(old, new) ==
    [f \in DOMAIN old \cup DOMAIN new |->
        IF f \notin DOMAIN old THEN new[f]
        ELSE IF f \in DOMAIN new /\ new[f] = Used THEN Used ELSE old[f]]

Key(call) == <<call.cert.fp, call.issuer.key>>

\* Mutant: only evidence that made it into a view is touched.
Looked_valid(ev, call) == UNION {v.evidence : v \in Views(ev, call)}

Looked(ev, call) == Crls(ev, call) \cup Ocsps(ev, call)

\* The outcome as the result reports it: with the issuer certificate it was computed
\* under and the record of each object it looked at, which may be one of an evaluation
\* before it.
Report(call, records) ==
    [issuer |-> call.issuer.fp, outcome |-> Outcome(evidence, call),
     evaluated |-> Restrict(records, Looked(evidence, call))]

Entries == [Serials -> Optional(Times) \cup {Removed}]

\* parse_crl: a removal outside a delta makes the CRL unsupported.
ParsedCrl(crl) ==
    /\ crl.this_update \in Times /\ crl.entries \in Entries
    /\ ~IsDelta(crl) /\ ~crl.unsupported => crl.entries \in [Serials -> Optional(Times)]

\* parse_ocsp
ParsedOcsp(ocsp) ==
    /\ ocsp.produced_at \in Times /\ DOMAIN ocsp.responses \subseteq Nat
    /\ \A i \in DOMAIN ocsp.responses :
          /\ ocsp.responses[i].this_update \in Times
          /\ ocsp.responses[i].revocation_time \in Optional(Times)
    /\ \A c \in ocsp.certs : {c.not_before, c.not_after} \subseteq Times

\* The evidence an evaluator may be given.
Parsed(ev) ==
    /\ DOMAIN ev \subseteq Fps
    /\ \A f \in DOMAIN ev : \/ ev[f].type = "crl" /\ ParsedCrl(ev[f])
                            \/ ev[f].type = "ocsp" /\ ParsedOcsp(ev[f])

RevocationFresh ==
    /\ cache = <<>> /\ accounting = <<>> /\ touched = {} /\ outcomes = <<>>
    /\ answers = [call \in Calls |-> None]

Status(call) ==
    /\ answers[call] = None
    /\ \/ /\ Key(call) \in DOMAIN cache
          /\ answers' = [answers EXCEPT ![call] = cache[Key(call)]]
          /\ UNCHANGED <<cache, accounting, touched, outcomes>>
       \/ /\ Key(call) \notin DOMAIN cache
          /\ cache' = [k \in DOMAIN cache \cup {Key(call)} |->
                          IF k = Key(call) THEN Outcome(evidence, call) ELSE cache[k]]
          /\ answers' = [answers EXCEPT ![call] = Outcome(evidence, call)]
          /\ accounting' = Record(accounting, Disposition(evidence, call))
          /\ touched' = touched \cup Looked(evidence, call)
          /\ outcomes' = [fp \in DOMAIN outcomes \cup {call.cert.fp} |->
                             IF fp = call.cert.fp THEN Report(call, accounting')
                             ELSE outcomes[fp]]
    /\ UNCHANGED evidence

RevocationNext == \E call \in Calls : Status(call)

RevocationSpec == Parsed(evidence) /\ RevocationFresh /\ [][RevocationNext]_rvars

-----------------------------------------------------------------------------
(***************************************************************************)
(* Properties.                                                             *)
(***************************************************************************)
Statuses == {"GOOD", "REVOKED", "STALE", "UNKNOWN", "MALFORMED_EVIDENCE"}

OutcomeOK(o) ==
    /\ o.status \in Statuses
    /\ o.selected \subseteq DOMAIN evidence
    /\ o.view = None <=> o.selected = {}

\* Types.  A view of a supported complete CRL never holds a removal, so a revocation
\* that is compared with signed_at is a time.
RevocationTypeOK ==
    /\ Parsed(evidence)
    /\ touched \subseteq DOMAIN evidence /\ DOMAIN accounting \subseteq Fps
    /\ \A k \in DOMAIN cache : OutcomeOK(cache[k])
    /\ \A call \in Calls :
          /\ answers[call] # None => OutcomeOK(answers[call])
          /\ \A v \in Views(evidence, call) : v.revoked \in Optional(Times)

Answered == {call \in Calls : answers[call] # None}

\* README "Consequences": evidence archived after the knowledge cutoff changes no
\* status and no selection, whatever it is: a base, a delta or a newer response.
LateEvidenceIrrelevant ==
    LET timely == Restrict(evidence, {f \in DOMAIN evidence :
                                          evidence[f].received_at <= Cutoff})
    IN  \A call \in Answered : answers[call] = Outcome(timely, call)

\* An evaluator that is given only what this one touched gives the same answers: the
\* rounds of the engine and the offline verifier, which run on touched objects, rely
\* on it.
TouchedSuffices ==
    \A call \in Answered : answers[call] = Outcome(Restrict(evidence, touched), call)

\* The evidence a status names is enough for it: evaluated alone, it selects the same
\* view with the same status (a merged view is nothing without its base).
SelectedSuffices ==
    \A call \in Answered :
        answers[call].view # None =>
            answers[call] = Outcome(Restrict(evidence, answers[call].selected), call)

\* README "Revocation evidence selection": the greatest as_of wins, ties break on the
\* smallest view id.  So nothing in the archive can make an answer rest on an older view,
\* or at the same time on a later id, than any part of the archive would give alone: an
\* older base, response or delta beside the newest view never hides it.
FreshestSelected ==
    \A call \in Answered : \A S \in SUBSET DOMAIN evidence :
        LET answer == answers[call]
            less == Outcome(Restrict(evidence, S), call)
        IN  less.view # None =>
               /\ answer.view # None
               /\ \/ answer.as_of > less.as_of
                  \/ /\ answer.as_of = less.as_of
                     /\ answer.view = less.view \/ IdBefore(answer.view, less.view)

\* A status rests on nothing that does not go back to the issuer's key: a CRL is signed
\* with it, the base of a merged view too, and an OCSP response with it or with the key
\* of a responder that it certified and that was valid when the response was produced.
EvidenceVouched ==
    \A call \in Answered : \A f \in answers[call].selected :
        LET delegates == {c \in evidence[f].certs :
                             /\ c.signer = call.issuer.key /\ c.ocsp_signing
                             /\ evidence[f].produced_at \in c.not_before..c.not_after}
        IN  \/ evidence[f].signer = call.issuer.key
            \/ /\ evidence[f].type = "ocsp"
               /\ evidence[f].signer \in {c.key : c \in delegates}

\* README "Every evaluated evidence object is recorded": what was touched is accounted
\* for, and as used exactly if some answer was drawn from it, in any order of calls.  The
\* reported outcome of a certificate lists the evidence it rests on as used, and differs
\* from the accounting only in objects that an answer was drawn from later.
AccountingExact ==
    /\ DOMAIN accounting = touched
    /\ {f \in touched : accounting[f] = Used}
         = UNION {cache[k].selected : k \in DOMAIN cache}
    /\ \A fp \in DOMAIN outcomes :
          LET evaluated == outcomes[fp].evaluated
          IN  /\ DOMAIN evaluated \subseteq touched
              /\ \A f \in outcomes[fp].outcome.selected :
                    f \in DOMAIN evaluated /\ evaluated[f] = Used
              /\ \A f \in DOMAIN evaluated : accounting[f] \in {evaluated[f], Used}

\* The entries of the delta that leads from one complete CRL to another.
Difference(old, new) ==
    [s \in DOMAIN old |->
        IF new[s] = old[s] THEN None ELSE IF new[s] = None THEN Removed ELSE new[s]]

\* RFC 5280 5.2.4: a base merged with the delta issued for it says what the complete
\* CRL of the same issue says.
MergeEqualsReissue ==
    \A b, n, d \in DOMAIN evidence :
        LET crls == \A f \in {b, n, d} : evidence[f].type = "crl"
        IN  (crls /\ ~IsDelta(evidence[b]) /\ ~IsDelta(evidence[n]) /\ IsDelta(evidence[d])
             /\ ~evidence[b].unsupported /\ ~evidence[n].unsupported
             /\ evidence[d].entries = Difference(evidence[b].entries, evidence[n].entries))
            => Merge(evidence[b].entries, evidence[d].entries) = evidence[n].entries

\* README "Path building": revocation is evaluated with the actual issuing key and is
\* independent of the path, that is, of which issuer certificate is asked about first.
PathIndependent == \A call \in Answered : answers[call] = Outcome(evidence, call)
=============================================================================
