---------------------------- MODULE LedgerProofs -----------------------------
(***************************************************************************)
(* The service stays within the limits of its sets, records every effect   *)
(* exactly once, and implements the ledger, for every set of instances,    *)
(* threads, request ids, sets, batches and inputs, and for every engine.   *)
(***************************************************************************)
EXTENDS AnswerProofs, FiniteSetTheorems, FunctionTheorems

\* The entries of a set of objects.
Slots(S) == UNION {{f} \X (1..Entries[f]) : f \in S}

-----------------------------------------------------------------------------
(***************************************************************************)
(* Counting.                                                               *)
(***************************************************************************)
LEMMA SlotsFinite ==
    ASSUME NEW S \in SUBSET Fingerprints
    PROVE  IsFiniteSet(S) /\ IsFiniteSet(Slots(S))
<1> DEFINE columns == {{f} \X (1..Entries[f]) : f \in S}
           column == [f \in S |-> {f} \X (1..Entries[f])]
<1>1. IsFiniteSet(S)
  BY EvidenceAssumption, FS_Subset
<1>2. column \in Surjection(S, columns)
  BY DEF Surjection
<1>3. IsFiniteSet(columns)
  BY <1>1, <1>2, FS_Surjection
<1>4. ASSUME NEW f \in S PROVE IsFiniteSet({f} \X (1..Entries[f]))
  <2>1. Entries[f] \in Nat
    BY EvidenceAssumption
  <2>2. IsFiniteSet({f})
    BY FS_Singleton
  <2>3. ASSUME NEW n \in Int PROVE IsFiniteSet(1..n)
    <3>1. 1 \in Int
      OBVIOUS
    <3> QED BY <2>3, <3>1, FS_Interval
  <2>4. IsFiniteSet(1..Entries[f])
    BY <2>1, <2>3
  <2> QED BY <2>2, <2>4, FS_Product
<1>5. \A T \in columns : IsFiniteSet(T)
  BY <1>4
<1> QED
  BY <1>1, <1>3, <1>5, FS_UNION DEF Slots

\* Disjoint sets of objects count for the sum of their counts.
LEMMA CountsAdd ==
    ASSUME NEW S \in SUBSET Fingerprints, NEW T \in SUBSET Fingerprints, S \cap T = {}
    PROVE  LET s == CountsOf(S)
               t == CountsOf(T)
               u == CountsOf(S \cup T)
           IN  /\ u.certificates = s.certificates + t.certificates
               /\ u.revocation_evidence = s.revocation_evidence + t.revocation_evidence
               /\ u.revocation_entries = s.revocation_entries + t.revocation_entries
<1>1. ASSUME NEW A, NEW B, IsFiniteSet(A), IsFiniteSet(B), A \cap B = {}
      PROVE  Cardinality(A \cup B) = Cardinality(A) + Cardinality(B)
  <2>1. Cardinality(A) \in Nat /\ Cardinality(B) \in Nat
    BY <1>1, FS_CardinalityType
  <2>2. Cardinality(A \cup B) = Cardinality(A) + Cardinality(B) - Cardinality({})
    BY <1>1, FS_Union
  <2> QED BY <2>1, <2>2, FS_EmptySet
<1>2. ASSUME NEW types
      PROVE  Cardinality(OfType(S \cup T, types))
               = Cardinality(OfType(S, types)) + Cardinality(OfType(T, types))
  <2>1. /\ OfType(S \cup T, types) = OfType(S, types) \cup OfType(T, types)
        /\ OfType(S, types) \cap OfType(T, types) = {}
        /\ OfType(S, types) \in SUBSET Fingerprints
        /\ OfType(T, types) \in SUBSET Fingerprints
    BY DEF OfType
  <2>2. IsFiniteSet(OfType(S, types)) /\ IsFiniteSet(OfType(T, types))
    BY <2>1, SlotsFinite
  <2> QED BY <1>1, <2>1, <2>2
<1>3. EntryTotal(S \cup T) = EntryTotal(S) + EntryTotal(T)
  <2>1. Slots(S \cup T) = Slots(S) \cup Slots(T)
    BY DEF Slots
  <2>2. Slots(S) \cap Slots(T) = {}
    BY DEF Slots
  <2>3. Cardinality(Slots(S \cup T)) = Cardinality(Slots(S)) + Cardinality(Slots(T))
    BY <1>1, <2>1, <2>2, SlotsFinite
  <2> QED BY <2>3 DEF EntryTotal, Slots
<1> QED
  BY <1>2, <1>3 DEF CountsOf

-----------------------------------------------------------------------------
(***************************************************************************)
(* The tables change in four ways.                                         *)
(***************************************************************************)
Records(q, body) ==
    \E status \in {200, 201} : ~Known(q) /\ put_request(q, status, body)

CreateEffect(q, s) ==
    /\ evidence_sets[s].status = "ABSENT"
    /\ evidence_sets' = [evidence_sets EXCEPT ![s].status = "OPEN",
                                              ![s].created = q.request_id]
    /\ Records(q, s)
    /\ UNCHANGED <<objects, adjudications>>

UploadEffect(q) ==
    /\ evidence_sets[q.set_id].status = "OPEN"
    /\ LimitsAdmit(q.arg, objects[q.set_id])
    /\ objects' = [objects EXCEPT ![q.set_id] = insert_objects(q.arg, @)]
    /\ Records(q, AddBody(q.arg, objects[q.set_id]))
    /\ UNCHANGED <<evidence_sets, adjudications>>

SealEffect(q) ==
    /\ evidence_sets[q.set_id].status # "ABSENT"
    /\ evidence_sets'[q.set_id].status = "SEALED"
    /\ evidence_sets'[q.set_id].created = evidence_sets[q.set_id].created
    /\ \A s \in SetIds \ {q.set_id} : evidence_sets'[s] = evidence_sets[s]
    /\ \E counts : Records(q, SealBody(objects[q.set_id], counts))
    /\ UNCHANGED <<objects, adjudications>>

VerdictEffect(q) ==
    /\ Sealed(q.set_id)
    /\ \E a : /\ a.id = <<objects[q.set_id], q.arg>>
              /\ adjudications' = adjudications \cup {a}
              /\ Records(q, a.result)
    /\ UNCHANGED <<evidence_sets, objects>>

LEMMA UploadSteps ==
    ASSUME IInv, NEW w \in Workers, NEW q \in Adds, AddObjects(w, q)
    PROVE  UNCHANGED db \/ UploadEffect(q)
<1>1. CASE UNCHANGED db
  BY <1>1
<1>2. CASE ~(UNCHANGED db)
  <2>1. /\ AddRefusal(q) = "NONE" /\ ~Known(q)
        /\ objects' = [objects EXCEPT ![q.set_id] = insert_objects(q.arg, @)]
        /\ put_request(q, 200, AddBody(q.arg, objects[q.set_id]))
        /\ UNCHANGED <<evidence_sets, adjudications>>
    BY <1>2 DEF AddObjects, Fail
  <2>2. q.set_id \in SetIds
    BY KindFields
  <2>3. evidence_sets[q.set_id].status \in {"ABSENT", "OPEN", "SEALED"}
    BY <2>2 DEF IInv, DbInv, TablesOK, SetRows
  <2>4. /\ evidence_sets[q.set_id].status = "OPEN"
        /\ AddError(q.arg, objects[q.set_id]) = "NONE"
    BY <2>1, <2>3 DEF AddRefusal
  <2>5. LimitsAdmit(q.arg, objects[q.set_id])
    BY <2>4 DEF AddError
  <2> QED BY <2>1, <2>4, <2>5 DEF UploadEffect, Records
<1> QED
  BY <1>1, <1>2

LEMMA SealSteps ==
    ASSUME IInv, NEW w \in Workers, NEW q \in Seals, Seal(w, q)
    PROVE  UNCHANGED db \/ SealEffect(q)
<1> DEFINE s == q.set_id
           row == evidence_sets[s]
<1>1. s \in SetIds /\ evidence_sets \in [SetIds -> SetRows]
  BY KindFields DEF IInv, DbInv, TablesOK
<1>2. CASE row.status = "ABSENT"
  BY <1>2 DEF Seal, Fail
<1>3. CASE row.status = "SEALED"
  <2>1. /\ ~Known(q) /\ put_request(q, 200, SealBody(row.manifest, row.counts))
        /\ UNCHANGED <<evidence_sets, objects, adjudications>>
    BY <1>3 DEF Seal
  <2>2. row.manifest = objects[s]
    BY <1>1, <1>3 DEF IInv, DbInv, SealedContentsPinned, Sealed
  <2>3. Records(q, SealBody(objects[s], row.counts))
    BY <2>1, <2>2 DEF Records
  <2> QED BY <1>3, <2>1, <2>3 DEF SealEffect
<1>4. CASE row.status = "OPEN"
  <2> DEFINE counts == object_counts(objects[s])
  <2> HIDE DEF counts
  <2>1. /\ ~Known(q) /\ put_request(q, 200, SealBody(objects[s], counts))
        /\ evidence_sets' = [evidence_sets EXCEPT
                 ![s] = [@ EXCEPT !.status = "SEALED",
                                  !.manifest = objects[s], !.counts = counts]]
        /\ UNCHANGED <<objects, adjudications>>
    BY <1>4 DEF Seal, counts
  <2>2. /\ evidence_sets'[s].status = "SEALED"
        /\ evidence_sets'[s].created = row.created
        /\ \A t \in SetIds \ {s} : evidence_sets'[t] = evidence_sets[t]
    BY <1>1, <2>1 DEF SetRows
  <2>3. Records(q, SealBody(objects[s], counts))
    BY <2>1 DEF Records
  <2> QED BY <1>4, <2>1, <2>2, <2>3 DEF SealEffect
<1> QED
  BY <1>1, <1>2, <1>3, <1>4 DEF SetRows

LEMMA VerdictSteps ==
    ASSUME IInv, NEW w \in Workers
    PROVE  /\ \A q \in Adjudicates : PinSet(w, q) => UNCHANGED db \/ VerdictEffect(q)
           /\ Compute(w) => UNCHANGED db
           /\ Persist(w) => UNCHANGED db \/ \E q \in Adjudicates : VerdictEffect(q)
<1>1. \A s \in SetIds : Sealed(s) => evidence_sets[s].manifest = objects[s]
  BY DEF IInv, DbInv, SealedContentsPinned
<1>2. ASSUME NEW q \in Adjudicates, PinSet(w, q) PROVE UNCHANGED db \/ VerdictEffect(q)
  <2>1. CASE UNCHANGED db
    BY <2>1
  <2>2. CASE ~(UNCHANGED db)
    <3>1. PICK a \in get_adjudication_row(
                       compute_adjudication_id(evidence_sets[q.set_id].manifest, q.arg)) :
          /\ put_request(q, 200, a.result) /\ Refused(q) = "NONE" /\ ~Known(q)
          /\ UNCHANGED <<evidence_sets, objects, adjudications>>
      BY <1>2, <2>2 DEF PinSet, Fail
    <3>2. q.set_id \in SetIds
      BY KindFields
    <3>3. Sealed(q.set_id)
      BY <3>1, <3>2 DEF Refused, Sealed, IInv, DbInv, TablesOK, SetRows
    <3>4. a \in adjudications /\ a.id = <<objects[q.set_id], q.arg>>
      BY <1>1, <3>2, <3>3 DEF get_adjudication_row, compute_adjudication_id
    <3>5. adjudications' = adjudications \cup {a} /\ Records(q, a.result)
      BY <3>1, <3>4 DEF Records
    <3> QED BY <3>1, <3>3, <3>4, <3>5 DEF VerdictEffect
  <2> QED BY <2>1, <2>2
<1>3. Compute(w) => UNCHANGED db
  BY DEF Compute, Fail
<1>4. ASSUME Persist(w) PROVE UNCHANGED db \/ \E q \in Adjudicates : VerdictEffect(q)
  <2>1. PICK j : j = job[w]
    OBVIOUS
  <2> DEFINE q == j.req
             id == compute_adjudication_id(j.digest, q.arg)
             row == [id |-> id, request_id |-> q.request_id, set_id |-> q.set_id,
                     result |-> j.result, pack |-> j.pack]
  <2>2. q \in Adjudicates /\ Sealed(q.set_id) /\ j.digest = evidence_sets[q.set_id].manifest
    BY <1>4, <2>1 DEF IInv, JobsPinned, JobPinned, Persist
  <2>3. id = <<objects[q.set_id], q.arg>>
    BY <1>1, <2>2, KindFields DEF compute_adjudication_id
  <2>4. CASE Known(q) /\ AnswerKnown(q)
    BY <2>4 DEF AnswerKnown, Fail
  <2>5. CASE \E a \in get_adjudication_row(id) :
               /\ put_request(q, 201, a.result) /\ ~Known(q)
               /\ UNCHANGED <<evidence_sets, objects, adjudications>>
    <3>1. PICK a \in get_adjudication_row(id) :
               /\ put_request(q, 201, a.result) /\ ~Known(q)
               /\ UNCHANGED <<evidence_sets, objects, adjudications>>
      BY <2>5
    <3>2. /\ a.id = <<objects[q.set_id], q.arg>> /\ adjudications' = adjudications \cup {a}
          /\ Records(q, a.result)
      BY <2>3, <3>1 DEF get_adjudication_row, Records
    <3> QED BY <2>2, <3>1, <3>2 DEF VerdictEffect
  <2>6. CASE /\ adjudications' = adjudications \cup {row} /\ ~Known(q)
             /\ put_request(q, 201, row.result)
             /\ UNCHANGED <<evidence_sets, objects>>
    <3>1. row.id = <<objects[q.set_id], q.arg>> /\ Records(q, row.result)
      BY <2>3, <2>6 DEF Records
    <3> HIDE DEF row
    <3> QED BY <2>2, <2>6, <3>1 DEF VerdictEffect
  <2> HIDE DEF row, id
  <2>7. CASE ~Known(q) /\ RecordAdjudication(w)
    BY <2>1, <2>5, <2>6, <2>7 DEF RecordAdjudication, row, id
  <2> QED BY <1>4, <2>1, <2>4, <2>7 DEF Persist
<1> QED
  BY <1>2, <1>3, <1>4

\* Every step changes the tables in one of the four ways, or not at all.
LEMMA TableSteps ==
    ASSUME IInv, [Next]_vars
    PROVE  \/ UNCHANGED db
           \/ \E q \in Creates, s \in SetIds : CreateEffect(q, s)
           \/ \E q \in Adds : UploadEffect(q)
           \/ \E q \in Seals : SealEffect(q)
           \/ \E q \in Adjudicates : VerdictEffect(q)
<1>1. ASSUME NEW w \in Workers, NEW q \in Posts, ReplayRequest(w, q) PROVE UNCHANGED db
  BY <1>1 DEF ReplayRequest, AnswerKnown, Fail
<1>2. ASSUME NEW w \in Workers, NEW q \in Creates, CreateEvidenceSet(w, q)
      PROVE  \E s \in SetIds : CreateEffect(q, s)
  BY <1>2 DEF CreateEvidenceSet, CreateEffect, Records
<1>3. ASSUME NEW w \in Workers, NEW s \in SetIds, GetEvidenceSet(w, s) \/ GetManifest(w, s)
      PROVE  UNCHANGED db
  BY <1>3 DEF GetEvidenceSet, GetManifest, Fail
<1>4. ASSUME NEW w \in Workers, NEW kind, GetAdjudication(w, kind) PROVE UNCHANGED db
  BY <1>4 DEF GetAdjudication, Fail
<1>5. ASSUME NEW w \in Workers, CountObjects(w) \/ DatabaseError(w) PROVE UNCHANGED db
  BY <1>5 DEF CountObjects, DatabaseError, Fail
<1>6. ASSUME NEW i \in Instances, Crash(i) PROVE UNCHANGED db
  BY <1>6 DEF Crash
<1>7. UNCHANGED vars => UNCHANGED db
  BY DEF vars, db
<1> QED
  BY <1>1, <1>2, <1>3, <1>4, <1>5, <1>6, <1>7, UploadSteps, SealSteps, VerdictSteps DEF Next

-----------------------------------------------------------------------------
(***************************************************************************)
(* The limits of a set.                                                    *)
(***************************************************************************)
\* An upload adds exactly its new objects.
LEMMA InsertPresent ==
    ASSUME NEW rows \in Rows, NEW batch \in Batches
    PROVE  LET new == insert_objects(batch, rows)
           IN  /\ Present(new) = Present(rows) \cup new_objects(batch, rows)
               /\ Present(rows) \cap new_objects(batch, rows) = {}
               /\ new_objects(batch, rows) \in SUBSET Fingerprints
               /\ \A f \in Present(rows) : new[f] = rows[f]
<1> DEFINE first(f) == CHOOSE i \in unique(batch) : batch[i].fp = f
<1>1. batch \in Seq(Items)
  BY ServiceAssumption
<1>2. ASSUME NEW f \in new_objects(batch, rows)
      PROVE  f \in Fingerprints /\ rows[f] = Absent /\ batch[first(f)].received_at # Absent
  <2>1. PICK i \in unique(batch) : batch[i].fp = f /\ rows[f] = Absent
    BY <1>2 DEF new_objects
  <2>2. i \in DOMAIN batch /\ first(f) \in DOMAIN batch
    BY <2>1 DEF unique
  <2>3. batch[i] \in Items /\ batch[first(f)] \in Items
    BY <1>1, <2>2
  <2>4. batch[first(f)].received_at \in Times \cup {NoTime}
    BY <2>3 DEF Items
  <2> QED BY <2>1, <2>3, <2>4, EvidenceAssumption DEF Items
<1>3. \A f \in Fingerprints :
          insert_objects(batch, rows)[f] =
             IF f \in new_objects(batch, rows) THEN batch[first(f)].received_at ELSE rows[f]
  BY DEF insert_objects
<1> QED
  BY <1>2, <1>3 DEF Present

\* An admitted upload leaves the set within its limits.
LEMMA UploadWithinLimits ==
    ASSUME NEW rows \in Rows, NEW batch \in Batches, LimitsAdmit(batch, rows)
    PROVE  WithinLimits(insert_objects(batch, rows))
<1> DEFINE new == new_objects(batch, rows)
<1>1. /\ Present(rows) \in SUBSET Fingerprints /\ new \in SUBSET Fingerprints
      /\ Present(rows) \cap new = {}
      /\ Present(insert_objects(batch, rows)) = Present(rows) \cup new
  BY InsertPresent DEF Present
<1> HIDE DEF new
<1>2. LET s == CountsOf(Present(rows))
          t == CountsOf(new)
          u == CountsOf(Present(rows) \cup new)
      IN  /\ u.certificates = s.certificates + t.certificates
          /\ u.revocation_evidence = s.revocation_evidence + t.revocation_evidence
          /\ u.revocation_entries = s.revocation_entries + t.revocation_entries
  BY <1>1, CountsAdd
<1> QED
  BY <1>1, <1>2 DEF LimitsAdmit, WithinLimits, object_counts, new

LEMMA EmptyWithinLimits == WithinLimits(EmptyRows)
<1>1. Present(EmptyRows) = {}
  BY DEF Present, EmptyRows
<1>2. \A types : OfType({}, types) = {}
  BY DEF OfType
<1>3. UNION {{f} \X (1..Entries[f]) : f \in {}} = {}
  OBVIOUS
<1>4. /\ CountsOf({}).certificates = 0 /\ CountsOf({}).revocation_evidence = 0
      /\ CountsOf({}).revocation_entries = 0
  BY <1>2, <1>3, FS_EmptySet DEF CountsOf, EntryTotal
<1>5. {MaxCertificates, MaxRevocationEvidence, MaxRevocationEntries} \subseteq Nat
  BY EvidenceAssumption
<1> QED
  BY <1>1, <1>4, <1>5 DEF WithinLimits, object_counts

\* No interleaving of uploads puts a set over the limits its manifest will state.
THEOREM LimitsKept == Spec => []LimitsRespected
<1>1. Init => LimitsRespected
  BY EmptyWithinLimits DEF Init, LimitsRespected
<1>2. IInv /\ LimitsRespected /\ [Next]_vars => LimitsRespected'
  <2> SUFFICES ASSUME IInv, LimitsRespected, [Next]_vars PROVE LimitsRespected'
    OBVIOUS
  <2>1. CASE objects' = objects
    BY <2>1 DEF LimitsRespected
  <2>2. ASSUME NEW q \in Adds, UploadEffect(q) PROVE LimitsRespected'
    <3>1. q.set_id \in SetIds /\ q.arg \in Batches /\ objects \in [SetIds -> Rows]
      BY KindFields DEF IInv, DbInv, TablesOK
    <3>2. /\ objects'[q.set_id] = insert_objects(q.arg, objects[q.set_id])
          /\ \A s \in SetIds \ {q.set_id} : objects'[s] = objects[s]
      BY <2>2, <3>1 DEF UploadEffect
    <3>3. WithinLimits(insert_objects(q.arg, objects[q.set_id]))
      BY <2>2, <3>1, UploadWithinLimits DEF UploadEffect
    <3>4. \A s \in SetIds : WithinLimits(objects'[s])
      BY <3>2, <3>3 DEF LimitsRespected
    <3> QED BY <3>4 DEF LimitsRespected
  <2> QED
    BY <2>1, <2>2, TableSteps DEF db, CreateEffect, SealEffect, VerdictEffect
<1> QED
  BY <1>1, <1>2, Invariant, PTL DEF Spec

-----------------------------------------------------------------------------
(***************************************************************************)
(* Effects and records.                                                    *)
(***************************************************************************)
\* One more request is recorded, and no other changes.
LEMMA NewRecord ==
    ASSUME IInv, NEW q \in Posts, NEW body, Records(q, body)
    PROVE  /\ q.request_id \in RequestIds /\ ~Recorded(q.request_id)
           /\ requests'[q.request_id].status # 0
           /\ requests'[q.request_id].hash = request_fingerprint(q)
           /\ requests'[q.request_id].body = body
           /\ \A r \in RequestIds : r # q.request_id => requests'[r] = requests[r]
           /\ \A k : RecordedAs(q.request_id, k)' <=> q.kind = k
           /\ \A r \in RequestIds : r # q.request_id => \A k :
                 (RecordedAs(r, k)' <=> RecordedAs(r, k))
<1>1. PICK status \in {200, 201} : ~Known(q) /\ put_request(q, status, body)
  BY DEF Records
<1>2. /\ requests'[q.request_id] =
            [hash |-> request_fingerprint(q), status |-> status, body |-> body]
      /\ \A r \in RequestIds : r # q.request_id => requests'[r] = requests[r]
      /\ q.request_id \in RequestIds /\ request_fingerprint(q).kind = q.kind
  BY <1>1, PutRequest, PostFields DEF IInv
<1>3. ~Recorded(q.request_id)
  BY <1>1 DEF Known
<1>4. /\ requests'[q.request_id].status # 0
      /\ requests'[q.request_id].hash = request_fingerprint(q)
      /\ requests'[q.request_id].body = body
  BY <1>2
<1> QED
  BY <1>2, <1>3, <1>4 DEF RecordedAs, Recorded

Creators(s) ==
    {r \in RequestIds : RecordedAs(r, "create_evidence_set") /\ requests[r].body = s}

Adders(s, f) ==
    {r \in RequestIds : /\ RecordedAs(r, "add_objects")
                        /\ requests[r].hash.set_id = s
                        /\ f \in requests[r].body.added}

\* The effects, with the request of an object row named.
EffectsInv ==
    /\ \A s \in SetIds :
          Creators(s) = IF evidence_sets[s].status = "ABSENT" THEN {}
                        ELSE {evidence_sets[s].created}
    /\ \A s \in SetIds, f \in Fingerprints :
          /\ objects[s][f] = Absent => Adders(s, f) = {}
          /\ objects[s][f] # Absent => \E r \in RequestIds : Adders(s, f) = {r}

\* Records of other requests are no effect on sets and rows.
LEMMA CreatorsKept ==
    ASSUME IInv, NEW q \in Posts, NEW body, Records(q, body), q.kind # "create_evidence_set"
    PROVE  \A s : Creators(s)' = Creators(s)
BY NewRecord DEF Creators, RecordedAs

LEMMA AddersKept ==
    ASSUME IInv, NEW q \in Posts, NEW body, Records(q, body), q.kind # "add_objects"
    PROVE  \A s, f : Adders(s, f)' = Adders(s, f)
BY NewRecord DEF Adders, RecordedAs

LEMMA InitEffects == Init => EffectsInv
<1> SUFFICES ASSUME Init PROVE EffectsInv
  OBVIOUS
<1>1. \A r \in RequestIds : \A k : ~RecordedAs(r, k)
  BY DEF Init, NoRow, RecordedAs, Recorded
<1>2. (\A s : Creators(s) = {}) /\ \A s, f : Adders(s, f) = {}
  BY <1>1 DEF Creators, Adders
<1> QED
  BY <1>2 DEF Init, EmptyRows, EffectsInv

LEMMA CreateEffects ==
    ASSUME IInv, EffectsInv, NEW q \in Creates, NEW s \in SetIds, CreateEffect(q, s)
    PROVE  EffectsInv'
<1>1. /\ q \in Posts /\ q.kind = "create_evidence_set" /\ q.request_id \in RequestIds
      /\ Records(q, s) /\ objects' = objects
  BY KindFields, PostFields DEF CreateEffect
<1>2. /\ evidence_sets[s].status = "ABSENT" /\ evidence_sets'[s].status = "OPEN"
      /\ evidence_sets'[s].created = q.request_id
      /\ \A t \in SetIds : t # s => evidence_sets'[t] = evidence_sets[t]
  BY DEF CreateEffect, IInv, DbInv, TablesOK, SetRows
<1>3. \A t \in SetIds : Creators(t)' = IF t = s THEN {q.request_id} ELSE Creators(t)
  <2>1. Creators(s) = {}
    BY <1>2 DEF EffectsInv
  <2>2. \A t \in SetIds, r \in RequestIds :
            r \in Creators(t)' <=> r \in Creators(t) \/ (r = q.request_id /\ t = s)
    BY <1>1, NewRecord DEF Creators, RecordedAs
  <2>3. \A t : Creators(t) \subseteq RequestIds /\ Creators(t)' \subseteq RequestIds
    BY DEF Creators
  <2> QED BY <1>1, <2>1, <2>2, <2>3
<1>4. \A t \in SetIds :
          Creators(t)' = IF evidence_sets'[t].status = "ABSENT" THEN {}
                         ELSE {evidence_sets'[t].created}
  BY <1>2, <1>3 DEF EffectsInv
<1>5. \A t, f : Adders(t, f)' = Adders(t, f)
  BY <1>1, AddersKept
<1>6. \A t \in SetIds, f \in Fingerprints :
          /\ objects[t][f] = Absent => Adders(t, f)' = {}
          /\ objects[t][f] # Absent => \E r \in RequestIds : Adders(t, f)' = {r}
  BY <1>5 DEF EffectsInv
<1> QED
  BY <1>1, <1>4, <1>6 DEF EffectsInv

LEMMA UploadEffects ==
    ASSUME IInv, EffectsInv, NEW q \in Adds, UploadEffect(q)
    PROVE  EffectsInv'
<1> DEFINE s == q.set_id
           rows == objects[s]
           new == new_objects(q.arg, rows)
<1>1. /\ q \in Posts /\ q.kind = "add_objects" /\ s \in SetIds /\ q.arg \in Batches
      /\ q.request_id \in RequestIds /\ request_fingerprint(q).set_id = s
      /\ Records(q, AddBody(q.arg, rows)) /\ evidence_sets' = evidence_sets
  BY KindFields, PostFields DEF UploadEffect
<1>2. /\ objects \in [SetIds -> Rows] /\ rows \in Rows
      /\ objects'[s] = insert_objects(q.arg, rows)
      /\ \A t \in SetIds : t # s => objects'[t] = objects[t]
  BY <1>1 DEF UploadEffect, IInv, DbInv, TablesOK
<1>3. \A f \in Fingerprints :
          /\ f \in new => rows[f] = Absent /\ objects'[s][f] # Absent
          /\ f \notin new => (objects'[s][f] = Absent <=> rows[f] = Absent)
  <2>1. /\ Present(objects'[s]) = Present(rows) \cup new
        /\ Present(rows) \cap new = {}
    BY <1>1, <1>2, InsertPresent
  <2> QED BY <2>1 DEF Present
<1>4. AddBody(q.arg, rows).added = new
  BY DEF AddBody
<1> HIDE DEF new
<1>5. \A t \in SetIds, f \in Fingerprints, r \in RequestIds :
          r \in Adders(t, f)' <=>
              r \in Adders(t, f) \/ (r = q.request_id /\ t = s /\ f \in new)
  BY <1>1, <1>4, NewRecord DEF Adders, RecordedAs
<1>6. \A t, f : Adders(t, f) \subseteq RequestIds /\ Adders(t, f)' \subseteq RequestIds
  BY DEF Adders
<1>7. ASSUME NEW t \in SetIds, NEW f \in Fingerprints
      PROVE  /\ objects'[t][f] = Absent => Adders(t, f)' = {}
             /\ objects'[t][f] # Absent => \E r \in RequestIds : Adders(t, f)' = {r}
  <2>1. CASE t = s /\ f \in new
    <3>1. Adders(t, f) = {}
      BY <1>3, <2>1 DEF EffectsInv
    <3>2. Adders(t, f)' = {q.request_id}
      BY <1>1, <1>5, <1>6, <2>1, <3>1
    <3> QED BY <1>1, <1>3, <2>1, <3>2
  <2>2. CASE ~(t = s /\ f \in new)
    <3>1. Adders(t, f)' = Adders(t, f)
      BY <1>5, <1>6, <2>2
    <3>2. objects'[t][f] = Absent <=> objects[t][f] = Absent
      BY <1>2, <1>3, <2>2
    <3> QED BY <3>1, <3>2 DEF EffectsInv
  <2> QED BY <2>1, <2>2
<1>8. \A t : Creators(t)' = Creators(t)
  BY <1>1, CreatorsKept
<1>9. \A t \in SetIds :
          Creators(t)' = IF evidence_sets'[t].status = "ABSENT" THEN {}
                         ELSE {evidence_sets'[t].created}
  BY <1>1, <1>8 DEF EffectsInv
<1> QED
  BY <1>7, <1>9 DEF EffectsInv

\* The effects stay exact while what they are made of stays.
LEMMA EffectsKept ==
    ASSUME EffectsInv, objects' = objects,
           \A s : Creators(s)' = Creators(s),
           \A s, f : Adders(s, f)' = Adders(s, f),
           \A s \in SetIds : /\ evidence_sets'[s].created = evidence_sets[s].created
                             /\ evidence_sets'[s].status = "ABSENT"
                                   <=> evidence_sets[s].status = "ABSENT"
    PROVE  EffectsInv'
<1>1. \A s \in SetIds :
          Creators(s)' = IF evidence_sets'[s].status = "ABSENT" THEN {}
                         ELSE {evidence_sets'[s].created}
  BY DEF EffectsInv
<1>2. \A s \in SetIds, f \in Fingerprints :
          /\ objects[s][f] = Absent => Adders(s, f)' = {}
          /\ objects[s][f] # Absent => \E r \in RequestIds : Adders(s, f)' = {r}
  BY DEF EffectsInv
<1> QED
  BY <1>1, <1>2 DEF EffectsInv

LEMMA NextEffects ==
    ASSUME IInv, EffectsInv, [Next]_vars
    PROVE  EffectsInv'
<1>1. CASE UNCHANGED db
  <2>1. UNCHANGED <<evidence_sets, objects, requests>>
    BY <1>1 DEF db
  <2>2. (\A s : Creators(s)' = Creators(s)) /\ \A s, f : Adders(s, f)' = Adders(s, f)
    BY <2>1 DEF Creators, Adders, RecordedAs, Recorded
  <2> QED BY <2>1, <2>2, EffectsKept
<1>2. ASSUME NEW q \in Seals, SealEffect(q) PROVE EffectsInv'
  <2>1. q \in Posts /\ q.kind = "seal" /\ objects' = objects
    BY <1>2, KindFields DEF SealEffect
  <2>2. PICK body : Records(q, body)
    BY <1>2 DEF SealEffect
  <2>3. \A s \in SetIds : /\ evidence_sets'[s].created = evidence_sets[s].created
                          /\ evidence_sets'[s].status = "ABSENT"
                                <=> evidence_sets[s].status = "ABSENT"
    BY <1>2 DEF SealEffect
  <2> QED BY <2>1, <2>2, <2>3, CreatorsKept, AddersKept, EffectsKept
<1>3. ASSUME NEW q \in Adjudicates, VerdictEffect(q) PROVE EffectsInv'
  <2>1. q \in Posts /\ q.kind = "adjudicate" /\ objects' = objects
        /\ evidence_sets' = evidence_sets
    BY <1>3, KindFields DEF VerdictEffect
  <2>2. PICK body : Records(q, body)
    BY <1>3 DEF VerdictEffect
  <2> QED BY <2>1, <2>2, CreatorsKept, AddersKept, EffectsKept
<1> QED
  BY <1>1, <1>2, <1>3, CreateEffects, UploadEffects, TableSteps

\* Every set was created by one recorded request and every object row added by one
\* recorded upload, and every recorded request had its effect.
THEOREM EffectsOnce == Spec => []EffectsMatchRecords
<1>1. IInv /\ EffectsInv => EffectsMatchRecords
  <2> SUFFICES ASSUME IInv, EffectsInv PROVE EffectsMatchRecords
    OBVIOUS
  <2>1. ASSUME NEW s \in SetIds, NEW f \in Fingerprints
        PROVE  Cardinality(Adders(s, f)) = IF objects[s][f] = Absent THEN 0 ELSE 1
    <3>1. CASE objects[s][f] = Absent
      BY <3>1, FS_EmptySet DEF EffectsInv
    <3>2. CASE objects[s][f] # Absent
      <4>1. PICK r \in RequestIds : Adders(s, f) = {r}
        BY <3>2 DEF EffectsInv
      <4> QED BY <3>2, <4>1, FS_Singleton
    <3> QED BY <3>1, <3>2
  <2>2. \A s \in SetIds :
            Creators(s) = IF evidence_sets[s].status = "ABSENT" THEN {}
                          ELSE {evidence_sets[s].created}
    BY DEF EffectsInv
  <2> QED BY <2>1, <2>2 DEF EffectsMatchRecords, Adders, Creators
<1> QED
  BY <1>1, InitEffects, NextEffects, Invariant, PTL DEF Spec

-----------------------------------------------------------------------------
(***************************************************************************)
(* The refinement.                                                         *)
(***************************************************************************)
Statuses == [s \in SetIds |-> evidence_sets[s].status]
Verdicts == {<<a.id[1], a.id[2], a.result>> : a \in adjudications}

LEMMA InitPromise == Init => Promise!Init
<1> SUFFICES ASSUME Init PROVE Promise!Init
  OBVIOUS
<1>1. /\ [s \in SetIds |-> evidence_sets[s].status] = [s \in SetIds |-> "ABSENT"]
      /\ {<<a.id[1], a.id[2], a.result>> : a \in adjudications} = {}
  BY DEF Init
<1> QED
  BY <1>1 DEF Init, Promise!Init, NoRow

\* A new record settles its request id in the ledger.
LEMMA SettlesId ==
    ASSUME IInv, NEW q \in Posts, NEW body, Records(q, body)
    PROVE  LET r == q.request_id
           IN  /\ r \in RequestIds /\ Promise!Settle(r)
               /\ Promise!Unanswered(r) /\ ~Promise!Unanswered(r)'
               /\ requests'[r].body = body
               /\ requests'[r].hash = request_fingerprint(q)
BY NewRecord DEF Promise!Settle, Promise!Unanswered, Recorded

LEMMA CreateRefines ==
    ASSUME IInv, NEW q \in Creates, NEW s \in SetIds, CreateEffect(q, s)
    PROVE  Promise!Next
<1>1. /\ q \in Posts /\ q.kind = "create_evidence_set" /\ Records(q, s)
      /\ request_fingerprint(q).kind = q.kind /\ UNCHANGED <<objects, adjudications>>
  BY KindFields, PostFields DEF CreateEffect
<1>2. LET r == q.request_id
      IN  /\ r \in RequestIds /\ Promise!Settle(r)
          /\ Promise!Unanswered(r) /\ ~Promise!Unanswered(r)'
          /\ requests'[r].body = s /\ requests'[r].hash = request_fingerprint(q)
  BY <1>1, SettlesId
<1>3. /\ Statuses[s] = "ABSENT"
      /\ Statuses' = [Statuses EXCEPT ![s] = "OPEN"]
  BY DEF CreateEffect, Statuses, IInv, DbInv, TablesOK, SetRows
<1>4. Promise!Create(q.request_id, s)
  BY <1>1, <1>2, <1>3 DEF Promise!Create, Statuses
<1>5. Promise!Step(q.request_id)
  BY <1>1, <1>2, <1>4 DEF Promise!Step
<1> QED
  BY <1>2, <1>5 DEF Promise!Next

LEMMA UploadRefines ==
    ASSUME IInv, NEW q \in Adds, UploadEffect(q)
    PROVE  Promise!Next
<1> DEFINE s == q.set_id
           rows == objects[s]
           body == AddBody(q.arg, rows)
<1>1. /\ q \in Posts /\ q.kind = "add_objects" /\ s \in SetIds /\ q.arg \in Batches
      /\ request_fingerprint(q).kind = q.kind /\ request_fingerprint(q).set_id = s
      /\ Records(q, body) /\ UNCHANGED <<evidence_sets, adjudications>>
  BY KindFields, PostFields DEF UploadEffect
<1>2. LET r == q.request_id
      IN  /\ r \in RequestIds /\ Promise!Settle(r)
          /\ Promise!Unanswered(r) /\ ~Promise!Unanswered(r)'
          /\ requests'[r].body = body /\ requests'[r].hash = request_fingerprint(q)
  BY <1>1, SettlesId
<1>3. /\ rows \in Rows /\ objects'[s] = insert_objects(q.arg, rows)
      /\ \A x \in SetIds \ {s} : objects'[x] = objects[x]
  BY <1>1 DEF UploadEffect, IInv, DbInv, TablesOK
<1>4. /\ Present(objects'[s]) = Present(rows) \cup new_objects(q.arg, rows)
      /\ Present(rows) \cap new_objects(q.arg, rows) = {}
      /\ \A f \in Present(rows) : objects'[s][f] = rows[f]
  BY <1>1, <1>3, InsertPresent
<1>5. body.added = Present(objects'[s]) \ Present(rows)
  BY <1>4 DEF AddBody
<1>6. WithinLimits(objects'[s])
  <2>1. LimitsAdmit(q.arg, rows)
    BY DEF UploadEffect
  <2> QED BY <1>1, <1>3, <2>1, UploadWithinLimits
<1>7. Statuses[s] = "OPEN" /\ Statuses' = Statuses /\ Verdicts' = Verdicts
  BY <1>1 DEF UploadEffect, Statuses, Verdicts
<1> HIDE DEF body
<1>8. Promise!Upload(q.request_id, s)
  BY <1>1, <1>2, <1>3, <1>4, <1>5, <1>6, <1>7
     DEF Promise!Upload, Statuses, Verdicts
<1>9. Promise!Step(q.request_id)
  BY <1>1, <1>2, <1>8 DEF Promise!Step
<1> QED
  BY <1>2, <1>9 DEF Promise!Next

LEMMA SealRefines ==
    ASSUME IInv, NEW q \in Seals, SealEffect(q)
    PROVE  Promise!Next
<1> DEFINE s == q.set_id
<1>1. /\ q \in Posts /\ q.kind = "seal" /\ s \in SetIds
      /\ request_fingerprint(q).kind = q.kind /\ request_fingerprint(q).set_id = s
      /\ UNCHANGED <<objects, adjudications>>
  BY KindFields, PostFields DEF SealEffect
<1>2. PICK counts : Records(q, SealBody(objects[s], counts))
  BY DEF SealEffect
<1>3. LET r == q.request_id
      IN  /\ r \in RequestIds /\ Promise!Settle(r)
          /\ Promise!Unanswered(r) /\ ~Promise!Unanswered(r)'
          /\ requests'[r].body = SealBody(objects[s], counts)
          /\ requests'[r].hash = request_fingerprint(q)
  BY <1>1, <1>2, SettlesId
<1>4. SealBody(objects[s], counts).content_digest = objects[s]
  BY DEF SealBody
<1>5. /\ Statuses[s] # "ABSENT"
      /\ Statuses' = [Statuses EXCEPT ![s] = "SEALED"]
  BY <1>1 DEF SealEffect, Statuses
<1>6. Promise!SealSet(q.request_id, s)
  BY <1>1, <1>3, <1>4, <1>5 DEF Promise!SealSet, Statuses
<1>7. Promise!Step(q.request_id)
  <2>1. /\ requests'[q.request_id].hash.kind = "seal"
        /\ requests'[q.request_id].hash.set_id = s
    BY <1>1, <1>3
  <2> HIDE DEF s
  <2> QED
    BY <2>1, <1>6 DEF Promise!Step, Promise!SealSet
<1> QED
  BY <1>3, <1>7 DEF Promise!Next

\* A recorded verdict is the engine's on the contents the set has at that moment.
LEMMA VerdictRefines ==
    ASSUME IInv, IInv', NEW q \in Adjudicates, VerdictEffect(q)
    PROVE  Promise!Next
<1> DEFINE s == q.set_id
           outcome == Engine(objects[s], q.arg)
<1>1. /\ q \in Posts /\ q.kind = "adjudicate" /\ s \in SetIds /\ Sealed(s)
      /\ request_fingerprint(q).kind = q.kind /\ request_fingerprint(q).set_id = s
      /\ request_fingerprint(q).arg = q.arg /\ UNCHANGED <<evidence_sets, objects>>
  BY KindFields, PostFields DEF VerdictEffect
<1>2. PICK a : /\ a.id = <<objects[s], q.arg>>
               /\ adjudications' = adjudications \cup {a}
               /\ Records(q, a.result)
  BY DEF VerdictEffect
<1>3. Genuine(a)'
  BY <1>2 DEF IInv, DbInv, AdjudicationsGenuine
<1>4. outcome.error = "NONE" /\ a.result = outcome.result
  BY <1>2, <1>3 DEF Genuine
<1>5. LET r == q.request_id
      IN  /\ r \in RequestIds /\ Promise!Settle(r)
          /\ Promise!Unanswered(r) /\ ~Promise!Unanswered(r)'
          /\ requests'[r].body = a.result
          /\ requests'[r].hash = request_fingerprint(q)
  BY <1>1, <1>2, SettlesId
<1>6. Verdicts' = Verdicts \cup {<<objects[s], q.arg, outcome.result>>}
  BY <1>2, <1>4 DEF Verdicts
<1>7. Statuses[s] = "SEALED" /\ Statuses' = Statuses
  BY <1>1 DEF Statuses, Sealed
<1>8. Promise!Adjudicate(q.request_id, s, q.arg)
  BY <1>1, <1>4, <1>5, <1>6, <1>7 DEF Promise!Adjudicate, Statuses, Verdicts
<1>9. Promise!Step(q.request_id)
  <2>1. /\ requests'[q.request_id].hash.kind = "adjudicate"
        /\ requests'[q.request_id].hash.set_id = s
        /\ requests'[q.request_id].hash.arg = q.arg
    BY <1>1, <1>5
  <2> HIDE DEF s, outcome
  <2> QED
    BY <2>1, <1>8 DEF Promise!Step, Promise!Adjudicate
<1> QED
  BY <1>5, <1>9 DEF Promise!Next

LEMMA NextRefines ==
    ASSUME IInv, [Next]_vars
    PROVE  [Promise!Next]_Promise!lvars
<1>1. CASE UNCHANGED db
  BY <1>1 DEF db, Promise!lvars
<1> QED
  BY <1>1, NextInv, TableSteps, CreateRefines, UploadRefines, SealRefines, VerdictRefines

\* The service, with its instances, threads, phases, repeats and faults, implements the
\* ledger: every request id is answered once, a set grows until it is sealed, and an
\* adjudication is one evaluation of the engine on the sealed contents.
THEOREM ServiceImplementsLedger == Spec => ImplementsLedger
<1>1. IInv /\ [Next]_vars => [Promise!Next]_Promise!lvars
  BY NextRefines
<1> QED
  BY <1>1, InitPromise, Invariant, PTL DEF Spec, ImplementsLedger, Promise!Spec
=============================================================================
