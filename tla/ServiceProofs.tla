---------------------------- MODULE ServiceProofs ----------------------------
(***************************************************************************)
(* The service is type correct, its tables stay consistent and its records *)
(* are written once, for every set of instances, threads, request ids,     *)
(* sets, batches and inputs, and for every engine.                         *)
(***************************************************************************)
EXTENDS Service, TLAPS

\* Consistency of the four tables.
DbInv ==
    /\ TablesOK
    /\ SealedContentsPinned
    /\ AdjudicationsGenuine
    /\ AdjudicationsRecorded
    /\ SingleVerdict

\* The inductive invariant: the tables, and what the threads carry about them.
IInv ==
    /\ DbInv
    /\ job \in [Workers -> Jobs]
    /\ JobsPinned
    /\ faults \in 0..MaxFaults

-----------------------------------------------------------------------------
(***************************************************************************)
(* Facts about the operators.                                              *)
(***************************************************************************)

\* insert_objects returns rows, leaves stored rows alone, and stores revocation
\* evidence only with a received_at.
LEMMA InsertObjects ==
    ASSUME NEW rows \in Rows, NEW batch \in Batches,
           \A f \in Fingerprints : rows[f] = NoTime => Kind[f] = "certificate"
    PROVE  LET new == insert_objects(batch, rows)
           IN  /\ new \in Rows
               /\ \A f \in Fingerprints : rows[f] # Absent => new[f] = rows[f]
               /\ \A f \in Fingerprints : new[f] = NoTime => Kind[f] = "certificate"
<1> DEFINE first(f) == CHOOSE i \in unique(batch) : batch[i].fp = f
<1>1. batch \in Seq(Items)
  BY ServiceAssumption
<1>2. ASSUME NEW f \in new_objects(batch, rows)
      PROVE  /\ first(f) \in unique(batch) /\ batch[first(f)].fp = f
             /\ rows[f] = Absent
  <2>1. PICK i \in unique(batch) : batch[i].fp = f /\ rows[f] = Absent
    BY <1>2 DEF new_objects
  <2> QED BY <2>1
<1>3. ASSUME NEW f \in new_objects(batch, rows)
      PROVE  /\ batch[first(f)] \in Items
             /\ Accepted(batch[first(f)])
             /\ batch[first(f)].fp = f
  <2>1. first(f) \in DOMAIN batch /\ first(f) \in parsed(batch)
    BY <1>2 DEF unique, IsFirst
  <2>2. Accepted(batch[first(f)])
    BY <2>1 DEF parsed, rejected
  <2> QED BY <1>1, <1>2, <2>1, <2>2
<1>4. ASSUME NEW f \in Fingerprints
      PROVE  /\ insert_objects(batch, rows)[f] \in Times \cup {NoTime, Absent}
             /\ rows[f] # Absent => insert_objects(batch, rows)[f] = rows[f]
             /\ insert_objects(batch, rows)[f] = NoTime => Kind[f] = "certificate"
  <2>1. CASE f \in new_objects(batch, rows)
    <3>1. insert_objects(batch, rows)[f] = batch[first(f)].received_at
      BY <2>1 DEF insert_objects
    <3>2. batch[first(f)].received_at \in Times \cup {NoTime}
      BY <1>3, <2>1 DEF Items
    <3>3. batch[first(f)].received_at # NoTime \/ Kind[f] = "certificate"
      BY <1>3, <2>1 DEF Accepted, TimeDecodes
    <3> QED BY <1>2, <2>1, <3>1, <3>2, <3>3
  <2>2. CASE f \notin new_objects(batch, rows)
    BY <2>2 DEF insert_objects, Rows
  <2> QED BY <2>1, <2>2
<1> QED
  BY <1>4 DEF insert_objects, Rows

\* The fields of a request, and what its fingerprint keeps of them.
LEMMA PostFields ==
    ASSUME NEW q \in Posts
    PROVE  /\ q.request_id \in RequestIds
           /\ request_fingerprint(q).kind = q.kind
           /\ request_fingerprint(q).set_id = q.set_id
           /\ q.kind # "add_objects" => request_fingerprint(q).arg = q.arg
<1>1. q = [kind |-> q.kind, request_id |-> q.request_id, set_id |-> q.set_id, arg |-> q.arg]
      /\ q.request_id \in RequestIds
  BY DEF Posts, Creates, Adds, Seals, Adjudicates, Post
<1> QED
  BY <1>1 DEF request_fingerprint

\* The fields of the requests of each kind.
LEMMA KindFields ==
    /\ \A q \in Creates : q \in Posts /\ q.kind = "create_evidence_set"
    /\ \A q \in Adds : /\ q \in Posts /\ q.kind = "add_objects"
                       /\ q.set_id \in SetIds /\ q.arg \in Batches
    /\ \A q \in Seals : q \in Posts /\ q.kind = "seal" /\ q.set_id \in SetIds
    /\ \A q \in Adjudicates : /\ q \in Posts /\ q.kind = "adjudicate"
                              /\ q.set_id \in SetIds /\ q.arg \in Inputs
BY DEF Posts, Creates, Adds, Seals, Adjudicates, Post

\* The codes that Service answers with.
ErrorCodes == {"LIMIT_EXCEEDED", "EVIDENCE_SET_NOT_FOUND", "ADJUDICATION_NOT_FOUND",
    "EVIDENCE_SET_SEALED", "EVIDENCE_SET_NOT_SEALED", "IDEMPOTENCY_CONFLICT",
    "SERVICE_BUSY"} \cup EngineErrors

\* An error answer is no success.
LEMMA ErrorStatus ==
    ASSUME NEW code \in ErrorCodes
    PROVE  HttpStatus(code) \notin {200, 201}
BY DEF HttpStatus, ErrorCodes, EngineErrors, EngineRefusals

\* What put_request changes, when the request is not known.
LEMMA PutRequest ==
    ASSUME DbInv, NEW q \in Posts, NEW status \in {200, 201}, NEW body,
           ~Known(q), put_request(q, status, body)
    PROVE  /\ requests' = [r \in RequestIds |-> requests'[r]]
           /\ requests'[q.request_id] =
                 [hash |-> request_fingerprint(q), status |-> status, body |-> body]
           /\ \A r \in RequestIds : r # q.request_id => requests'[r] = requests[r]
           /\ \A r \in RequestIds : Recorded(r) => requests'[r] = requests[r]
           /\ \A r \in RequestIds : Recorded(r)' <=> (Recorded(r) \/ r = q.request_id)
<1>1. q.request_id \in RequestIds
  BY PostFields
<1>2. requests = [r \in RequestIds |-> requests[r]]
  BY DEF DbInv, TablesOK
<1>3. /\ requests' = [r \in RequestIds |-> requests'[r]]
      /\ requests'[q.request_id] =
            [hash |-> request_fingerprint(q), status |-> status, body |-> body]
      /\ \A r \in RequestIds : r # q.request_id => requests'[r] = requests[r]
  BY <1>1, <1>2 DEF put_request
<1> QED
  BY <1>1, <1>3 DEF Known, Recorded

-----------------------------------------------------------------------------
(***************************************************************************)
(* The table steps.  Every action changes the tables in one of these ways. *)
(***************************************************************************)

\* No table changes.
LEMMA DbStutter ==
    ASSUME DbInv, UNCHANGED db
    PROVE  DbInv'
BY DEF DbInv, db, TablesOK, SealedContentsPinned, AdjudicationsGenuine,
       AdjudicationsRecorded, SingleVerdict, Sealed, Recorded, RecordedAs,
       Genuine, AnswersVerdict

\* What is said of a stored adjudication stays true while sealed sets are frozen and
\* no adjudication is removed.
LEMMA VerdictsKept ==
    ASSUME \A s \in SetIds : Sealed(s) => evidence_sets'[s] = evidence_sets[s],
           adjudications \subseteq adjudications'
    PROVE  /\ \A a : a.set_id \in SetIds /\ Genuine(a) => Genuine(a)'
           /\ \A h, b : AnswersVerdict(h, b) => AnswersVerdict(h, b)'
<1>1. \A s \in SetIds : Sealed(s) => Sealed(s)' /\ evidence_sets'[s] = evidence_sets[s]
  BY DEF Sealed
<1> QED
  BY <1>1 DEF Genuine, AnswersVerdict

\* A recorded answer that is not an adjudication keeps the invariants on verdicts,
\* as long as sealed sets keep their rows.
LEMMA OtherRecord ==
    ASSUME DbInv, NEW q \in Posts, NEW status \in {200, 201}, NEW body,
           ~Known(q), put_request(q, status, body), q.kind # "adjudicate",
           UNCHANGED adjudications,
           \A s \in SetIds : Sealed(s) => evidence_sets'[s] = evidence_sets[s]
    PROVE  /\ requests' = [r \in RequestIds |-> requests'[r]]
           /\ AdjudicationsRecorded' /\ AdjudicationsGenuine' /\ SingleVerdict'
<1>1. /\ requests' = [r \in RequestIds |-> requests'[r]]
      /\ requests'[q.request_id] =
            [hash |-> request_fingerprint(q), status |-> status, body |-> body]
      /\ \A r \in RequestIds : r # q.request_id => requests'[r] = requests[r]
      /\ \A r \in RequestIds : Recorded(r)' <=> (Recorded(r) \/ r = q.request_id)
  BY PutRequest
<1>2. requests'[q.request_id].hash.kind # "adjudicate"
  BY <1>1, PostFields
<1>3. \A a \in adjudications : a.request_id \in RequestIds /\ a.set_id \in SetIds
  BY DEF DbInv, TablesOK, AdjudicationRows
<1>4. AdjudicationsRecorded'
  BY <1>1, <1>3 DEF DbInv, AdjudicationsRecorded
<1>5. AdjudicationsGenuine'
  BY <1>3, VerdictsKept DEF DbInv, AdjudicationsGenuine
<1>6. \A r \in RequestIds : RecordedAs(r, "adjudicate")' =>
          RecordedAs(r, "adjudicate") /\ requests'[r] = requests[r]
  BY <1>1, <1>2 DEF RecordedAs
<1>7. SingleVerdict'
  BY <1>6, VerdictsKept DEF DbInv, SingleVerdict
<1> QED
  BY <1>1, <1>4, <1>5, <1>7

\* CreateEvidenceSet keeps the tables consistent.
LEMMA CreateDb ==
    ASSUME DbInv, NEW w \in Workers, NEW q \in Creates, CreateEvidenceSet(w, q)
    PROVE  DbInv' /\ \A s \in SetIds : Sealed(s) => evidence_sets'[s] = evidence_sets[s]
<1>1. PICK s \in SetIds :
        /\ evidence_sets[s].status = "ABSENT"
        /\ evidence_sets' = [evidence_sets EXCEPT ![s].status = "OPEN",
                                                  ![s].created = q.request_id]
        /\ put_request(q, 201, s)
        /\ UNCHANGED <<objects, adjudications>> /\ ~Known(q)
  BY DEF CreateEvidenceSet
<1>2. q \in Posts /\ q.kind = "create_evidence_set" /\ q.request_id \in RequestIds
  BY KindFields, PostFields
<1>3. /\ evidence_sets' \in [SetIds -> SetRows]
      /\ \A t \in SetIds : Sealed(t) => evidence_sets'[t] = evidence_sets[t]
      /\ \A t \in SetIds : Sealed(t)' => Sealed(t)
  BY <1>1, <1>2 DEF DbInv, TablesOK, SetRows, Sealed
<1>4. /\ requests' = [r \in RequestIds |-> requests'[r]]
      /\ AdjudicationsRecorded' /\ AdjudicationsGenuine' /\ SingleVerdict'
  BY <1>1, <1>2, <1>3, OtherRecord
<1>5. SealedContentsPinned'
  BY <1>1, <1>3 DEF DbInv, SealedContentsPinned
<1>6. TablesOK'
  BY <1>1, <1>3, <1>4 DEF DbInv, TablesOK
<1> QED
  BY <1>3, <1>4, <1>5, <1>6 DEF DbInv

\* AddObjects keeps the tables consistent: only an open set gets rows.
LEMMA AddDb ==
    ASSUME DbInv, NEW w \in Workers, NEW q \in Adds, AddObjects(w, q)
    PROVE  /\ DbInv'
           /\ \A s \in SetIds : Sealed(s) => /\ evidence_sets'[s] = evidence_sets[s]
                                             /\ objects'[s] = objects[s]
<1>1. CASE UNCHANGED db
  BY <1>1, DbStutter DEF db
<1>2. CASE ~(UNCHANGED db)
  <2> DEFINE s == q.set_id
             rows == objects[s]
  <2>1. /\ AddRefusal(q) = "NONE" /\ ~Known(q)
        /\ objects' = [objects EXCEPT ![s] = insert_objects(q.arg, @)]
        /\ put_request(q, 200, AddBody(q.arg, rows))
        /\ UNCHANGED <<evidence_sets, adjudications>>
    BY <1>2 DEF AddObjects, Fail
  <2>2. q \in Posts /\ q.kind = "add_objects" /\ s \in SetIds /\ q.arg \in Batches
    BY KindFields
  <2>3. evidence_sets[s].status # "SEALED"
    BY <2>1 DEF AddRefusal
  <2>4. /\ rows \in Rows
        /\ \A f \in Fingerprints : rows[f] = NoTime => Kind[f] = "certificate"
    BY <2>2 DEF DbInv, TablesOK
  <2>5. /\ insert_objects(q.arg, rows) \in Rows
        /\ \A f \in Fingerprints :
              insert_objects(q.arg, rows)[f] = NoTime => Kind[f] = "certificate"
    BY <2>2, <2>4, InsertObjects
  <2>6. /\ requests' = [r \in RequestIds |-> requests'[r]]
        /\ AdjudicationsRecorded' /\ AdjudicationsGenuine' /\ SingleVerdict'
    BY <2>1, <2>2, OtherRecord
  <2>7. /\ objects' \in [SetIds -> Rows]
        /\ objects'[s] = insert_objects(q.arg, rows)
        /\ \A t \in SetIds : t # s => objects'[t] = objects[t]
    BY <2>1, <2>2, <2>5 DEF DbInv, TablesOK
  <2>8. TablesOK'
    BY <2>1, <2>5, <2>6, <2>7 DEF DbInv, TablesOK
  <2>9. SealedContentsPinned'
    BY <2>1, <2>3, <2>7 DEF DbInv, SealedContentsPinned, Sealed
  <2> QED
    BY <2>1, <2>3, <2>6, <2>7, <2>8, <2>9 DEF DbInv, Sealed
<1> QED
  BY <1>1, <1>2

\* Seal keeps the tables consistent: it freezes the rows the set has.
LEMMA SealDb ==
    ASSUME DbInv, NEW w \in Workers, NEW q \in Seals, Seal(w, q)
    PROVE  /\ DbInv' /\ objects' = objects
           /\ \A s \in SetIds : Sealed(s) => evidence_sets'[s] = evidence_sets[s]
<1> DEFINE s == q.set_id
           row == evidence_sets[s]
           counts == object_counts(objects[s])
<1>1. q \in Posts /\ q.kind = "seal" /\ s \in SetIds
  BY KindFields
<1>2. CASE UNCHANGED db
  BY <1>2, DbStutter DEF db
<1>3. CASE /\ UNCHANGED <<evidence_sets, objects, adjudications>> /\ ~Known(q)
           /\ put_request(q, 200, SealBody(row.manifest, row.counts))
  <2>1. /\ requests' = [r \in RequestIds |-> requests'[r]]
        /\ AdjudicationsRecorded' /\ AdjudicationsGenuine' /\ SingleVerdict'
    BY <1>1, <1>3, OtherRecord
  <2> QED
    BY <1>3, <2>1 DEF DbInv, TablesOK, SealedContentsPinned, Sealed
<1>4. CASE /\ row.status = "OPEN" /\ ~Known(q)
           /\ evidence_sets' = [evidence_sets EXCEPT
                 ![s] = [@ EXCEPT !.status = "SEALED",
                                  !.manifest = objects[s], !.counts = counts]]
           /\ put_request(q, 200, SealBody(objects[s], counts))
           /\ UNCHANGED <<objects, adjudications>>
  <2>1. /\ \A t \in SetIds : t # s => evidence_sets'[t] = evidence_sets[t]
        /\ evidence_sets'[s].manifest = objects[s]
        /\ evidence_sets'[s].counts = counts
        /\ evidence_sets' \in [SetIds -> SetRows]
    BY <1>1, <1>4 DEF DbInv, TablesOK, SetRows
  <2>2. \A t \in SetIds : Sealed(t) => evidence_sets'[t] = evidence_sets[t]
    BY <1>4, <2>1 DEF Sealed
  <2>3. /\ requests' = [r \in RequestIds |-> requests'[r]]
        /\ AdjudicationsRecorded' /\ AdjudicationsGenuine' /\ SingleVerdict'
    BY <1>1, <1>4, <2>2, OtherRecord
  <2>4. SealedContentsPinned'
    BY <1>4, <2>1 DEF DbInv, SealedContentsPinned, Sealed
  <2>5. TablesOK'
    BY <1>4, <2>1, <2>3 DEF DbInv, TablesOK
  <2> QED
    BY <1>4, <2>2, <2>3, <2>4, <2>5 DEF DbInv
<1> QED
  BY <1>2, <1>3, <1>4 DEF Seal, Fail

\* The answer of a stored adjudication is recorded for one more request.
LEMMA ReuseDb ==
    ASSUME DbInv, NEW q \in Adjudicates, NEW status \in {200, 201},
           Sealed(q.set_id), ~Known(q), NEW a \in adjudications,
           a.id = <<evidence_sets[q.set_id].manifest, q.arg>>,
           put_request(q, status, a.result),
           UNCHANGED <<evidence_sets, objects, adjudications>>
    PROVE  DbInv'
<1>1. /\ q \in Posts /\ q.kind = "adjudicate" /\ q.set_id \in SetIds
      /\ q.request_id \in RequestIds
      /\ request_fingerprint(q).set_id = q.set_id /\ request_fingerprint(q).arg = q.arg
  BY KindFields, PostFields
<1>2. /\ requests' = [r \in RequestIds |-> requests'[r]]
      /\ requests'[q.request_id] =
            [hash |-> request_fingerprint(q), status |-> status, body |-> a.result]
      /\ \A r \in RequestIds : r # q.request_id => requests'[r] = requests[r]
      /\ \A r \in RequestIds : Recorded(r)' <=> (Recorded(r) \/ r = q.request_id)
  BY <1>1, PutRequest
<1>3. \A b \in adjudications : b.request_id \in RequestIds
  BY DEF DbInv, TablesOK, AdjudicationRows
<1>4. AdjudicationsRecorded'
  BY <1>2, <1>3 DEF DbInv, AdjudicationsRecorded
<1>5. SingleVerdict'
  <2>1. AnswersVerdict(request_fingerprint(q), a.result)'
    BY <1>1 DEF AnswersVerdict, Sealed, compute_adjudication_id
  <2>2. ASSUME NEW r \in RequestIds, RecordedAs(r, "adjudicate")', r # q.request_id
        PROVE  AnswersVerdict(requests[r].hash, requests[r].body)'
    <3>1. RecordedAs(r, "adjudicate") /\ requests'[r] = requests[r]
      BY <1>2, <2>2 DEF RecordedAs
    <3> QED BY <3>1, VerdictsKept DEF DbInv, SingleVerdict
  <2>3. requests'[q.request_id].hash = request_fingerprint(q)
        /\ requests'[q.request_id].body = a.result
    BY <1>2
  <2> QED BY <2>1, <2>2, <2>3 DEF DbInv, SingleVerdict
<1>6. TablesOK' /\ SealedContentsPinned' /\ AdjudicationsGenuine'
  BY <1>2 DEF DbInv, TablesOK, SealedContentsPinned, AdjudicationsGenuine, Genuine, Sealed
<1> QED
  BY <1>4, <1>5, <1>6 DEF DbInv

\* PinSet keeps the tables consistent.
LEMMA PinDb ==
    ASSUME DbInv, NEW w \in Workers, NEW q \in Adjudicates, PinSet(w, q)
    PROVE  DbInv' /\ UNCHANGED <<evidence_sets, objects>>
<1>1. CASE UNCHANGED db
  BY <1>1, DbStutter DEF db
<1>2. CASE ~(UNCHANGED db)
  <2>1. PICK a \in get_adjudication_row(
                     compute_adjudication_id(evidence_sets[q.set_id].manifest, q.arg)) :
        /\ put_request(q, 200, a.result) /\ Refused(q) = "NONE" /\ ~Known(q)
        /\ UNCHANGED <<evidence_sets, objects, adjudications>>
    BY <1>2 DEF PinSet, Fail
  <2>2. q.set_id \in SetIds
    BY KindFields
  <2>3. Sealed(q.set_id)
    BY <2>1, <2>2 DEF Refused, Sealed, DbInv, TablesOK, SetRows
  <2>4. a \in adjudications /\ a.id = <<evidence_sets[q.set_id].manifest, q.arg>>
    BY DEF get_adjudication_row, compute_adjudication_id
  <2> QED
    BY <2>1, <2>3, <2>4, ReuseDb
<1> QED
  BY <1>1, <1>2

\* A pack of the rows the engine touched is a pack.
LEMMA PackType ==
    ASSUME NEW rows \in Rows, NEW inp \in Inputs
    PROVE  /\ Engine(rows, inp) \in Outcomes
           /\ [f \in Engine(rows, inp).touched |-> rows[f]] \in Packs
<1>1. /\ Engine(rows, inp) \in Outcomes
      /\ Engine(rows, inp).touched \subseteq Present(rows)
  BY ServiceAssumption
<1>2. \A f \in Engine(rows, inp).touched : f \in Fingerprints /\ rows[f] \in Times \cup {NoTime}
  BY <1>1 DEF Present, Rows
<1>3. Engine(rows, inp).touched \in SUBSET Fingerprints
  BY <1>2
<1> DEFINE T == Engine(rows, inp).touched
<1>4. [f \in T |-> rows[f]] \in [T -> Times \cup {NoTime}]
  BY <1>2
<1> QED
  BY <1>1, <1>3, <1>4 DEF Packs

\* A verdict computed on the contents of a sealed set is stored and recorded.
LEMMA StoreDb ==
    ASSUME DbInv, NEW q \in Adjudicates, NEW d, NEW row,
           Sealed(q.set_id), d = evidence_sets[q.set_id].manifest,
           row.id = compute_adjudication_id(d, q.arg), row.request_id = q.request_id,
           row \in AdjudicationRows, Genuine(row),
           get_adjudication_row(row.id) = {}, ~Known(q),
           adjudications' = adjudications \cup {row},
           put_request(q, 201, row.result),
           UNCHANGED <<evidence_sets, objects>>
    PROVE  DbInv'
<1>1. /\ q \in Posts /\ q.kind = "adjudicate" /\ q.set_id \in SetIds
      /\ q.request_id \in RequestIds
      /\ request_fingerprint(q).set_id = q.set_id /\ request_fingerprint(q).arg = q.arg
  BY KindFields, PostFields
<1>2. /\ requests' = [r \in RequestIds |-> requests'[r]]
      /\ requests'[q.request_id] =
            [hash |-> request_fingerprint(q), status |-> 201, body |-> row.result]
      /\ \A r \in RequestIds : r # q.request_id => requests'[r] = requests[r]
      /\ \A r \in RequestIds : Recorded(r)' <=> (Recorded(r) \/ r = q.request_id)
  BY <1>1, PutRequest
<1>3. \A a \in adjudications' : a.request_id \in RequestIds /\ a.set_id \in SetIds
  BY DEF DbInv, TablesOK, AdjudicationRows
<1>4. TablesOK' /\ SealedContentsPinned'
  BY <1>2 DEF DbInv, TablesOK, SealedContentsPinned, Sealed
<1>5. AdjudicationsGenuine'
  BY <1>3, VerdictsKept DEF DbInv, AdjudicationsGenuine
<1>6. AdjudicationsRecorded'
  BY <1>2, <1>3 DEF DbInv, AdjudicationsRecorded
<1>7. \A a, b \in adjudications' : a.id = b.id => a = b
  BY DEF DbInv, SingleVerdict, get_adjudication_row
<1>8. AnswersVerdict(request_fingerprint(q), row.result)'
  BY <1>1 DEF AnswersVerdict, Sealed
<1>9. SingleVerdict'
  <2>1. ASSUME NEW r \in RequestIds, RecordedAs(r, "adjudicate")', r # q.request_id
        PROVE  AnswersVerdict(requests[r].hash, requests[r].body)'
    <3>1. RecordedAs(r, "adjudicate") /\ requests'[r] = requests[r]
      BY <1>2, <2>1 DEF RecordedAs
    <3> QED BY <3>1, VerdictsKept DEF DbInv, SingleVerdict
  <2>2. requests'[q.request_id].hash = request_fingerprint(q)
        /\ requests'[q.request_id].body = row.result
    BY <1>2
  <2> QED BY <1>7, <1>8, <2>1, <2>2 DEF SingleVerdict
<1> QED
  BY <1>4, <1>5, <1>6, <1>9 DEF DbInv

\* Persist keeps the tables consistent.
LEMMA PersistDb ==
    ASSUME DbInv, JobsPinned, job \in [Workers -> Jobs], NEW w \in Workers, Persist(w)
    PROVE  DbInv' /\ UNCHANGED <<evidence_sets, objects>>
<1>1. PICK j : j = job[w]
  OBVIOUS
<1> DEFINE q == j.req
           d == j.digest
           id == compute_adjudication_id(d, q.arg)
           row == [id |-> id, request_id |-> q.request_id, set_id |-> q.set_id,
                   result |-> j.result, pack |-> j.pack]
<1>2. /\ q \in Adjudicates /\ Sealed(q.set_id) /\ d = evidence_sets[q.set_id].manifest
      /\ Engine(d, q.arg).error = "NONE"
      /\ j.result = Engine(d, q.arg).result
      /\ j.pack = [f \in Engine(d, q.arg).touched |-> d[f]]
  BY <1>1 DEF JobsPinned, JobPinned, Persist
<1>3. q.set_id \in SetIds /\ q.arg \in Inputs /\ q.request_id \in RequestIds
  BY <1>2, KindFields, PostFields
<1>4. d = objects[q.set_id] /\ d \in Rows
  BY <1>2, <1>3 DEF DbInv, SealedContentsPinned, TablesOK
<1>5. CASE UNCHANGED db
  BY <1>5, DbStutter DEF db
<1>6. CASE \E a \in get_adjudication_row(id) :
             /\ put_request(q, 201, a.result) /\ ~Known(q)
             /\ UNCHANGED <<evidence_sets, objects, adjudications>>
  BY <1>2, <1>6, ReuseDb DEF get_adjudication_row, compute_adjudication_id
<1>7. CASE /\ get_adjudication_row(id) = {} /\ ~Known(q)
           /\ adjudications' = adjudications \cup {row}
           /\ put_request(q, 201, row.result)
           /\ UNCHANGED <<evidence_sets, objects>>
  <2>1. row \in AdjudicationRows
    <3>1. Engine(d, q.arg) \in Outcomes /\ j.pack \in Packs
      BY <1>2, <1>3, <1>4, PackType
    <3>2. j.result \in Results
      BY <1>2, <3>1 DEF Outcomes
    <3> QED BY <1>3, <1>4, <3>1, <3>2 DEF AdjudicationRows, compute_adjudication_id
  <2>2. /\ row.id = id /\ row.id[1] = d /\ row.id[2] = q.arg /\ row.set_id = q.set_id
        /\ row.result = j.result /\ row.pack = j.pack /\ row.request_id = q.request_id
    BY DEF compute_adjudication_id
  <2> HIDE DEF row
  <2>3. Genuine(row)
    BY <1>2, <2>2 DEF Genuine
  <2> QED
    BY <1>2, <1>7, <2>1, <2>2, <2>3, StoreDb
<1> HIDE DEF row, id
<1> QED
  <2>1. CASE Known(q) /\ AnswerKnown(q)
    BY <1>5, <2>1 DEF AnswerKnown, Fail, db
  <2>2. CASE ~Known(q) /\ RecordAdjudication(w)
    BY <1>1, <1>6, <1>7, <2>2 DEF RecordAdjudication, row, id
  <2> QED BY <1>1, <2>1, <2>2 DEF Persist

-----------------------------------------------------------------------------
(***************************************************************************)
(* The threads.                                                            *)
(***************************************************************************)
Frozen == \A s \in SetIds : Sealed(s) => /\ evidence_sets'[s] = evidence_sets[s]
                                         /\ objects'[s] = objects[s]

\* What a thread carries stays true while sealed sets are frozen.
LEMMA JobKept ==
    ASSUME Frozen, NEW j, JobPinned(j)
    PROVE  JobPinned(j)'
<1>1. \A q \in Adjudicates : q.set_id \in SetIds
  BY KindFields
<1> QED
  BY <1>1 DEF JobPinned, Frozen, Sealed

\* A thread with nothing to do carries nothing.
LEMMA IdleType == IdleJob \in Jobs /\ JobPinned(IdleJob) /\ JobPinned(IdleJob)'
BY DEF IdleJob, Jobs, JobPinned

\* The thread invariant is kept when every thread keeps its job, drops it, or takes a
\* job that is pinned.
LEMMA JobsKept ==
    ASSUME job \in [Workers -> Jobs], JobsPinned, Frozen, NEW w \in Workers, NEW j \in Jobs,
           JobPinned(j)', job' = [job EXCEPT ![w] = j]
    PROVE  job' \in [Workers -> Jobs] /\ JobsPinned'
<1>1. job' \in [Workers -> Jobs]
  OBVIOUS
<1>2. ASSUME NEW x \in Workers PROVE JobPinned(job[x])'
  <2>1. CASE x = w
    BY <2>1
  <2>2. CASE x # w
    <3>1. PICK k : k = job[x] /\ JobPinned(k)
      BY DEF JobsPinned
    <3>2. JobPinned(k)' /\ job'[x] = k
      BY <2>2, <3>1, JobKept
    <3> QED BY <3>2
  <2> QED BY <2>1, <2>2
<1> QED
  BY <1>1, <1>2 DEF JobsPinned

\* The thread invariant is kept when no thread changes.
LEMMA JobsSame ==
    ASSUME job \in [Workers -> Jobs], JobsPinned, Frozen, UNCHANGED job
    PROVE  job' \in [Workers -> Jobs] /\ JobsPinned'
<1>1. ASSUME NEW x \in Workers PROVE JobPinned(job[x])'
  <2>1. PICK k : k = job[x] /\ JobPinned(k)
    BY DEF JobsPinned
  <2>2. JobPinned(k)' /\ job'[x] = k
    BY <2>1, JobKept
  <2> QED BY <2>2
<1> QED
  BY <1>1 DEF JobsPinned

\* A step that leaves sets and rows alone freezes the sealed sets.
LEMMA FrozenByDb == UNCHANGED <<evidence_sets, objects>> => Frozen
BY DEF Frozen

-----------------------------------------------------------------------------
(***************************************************************************)
(* One lemma per action.                                                   *)
(***************************************************************************)
\* The empty database satisfies the inductive invariant.
LEMMA InitInv == Init => IInv
<1> SUFFICES ASSUME Init PROVE IInv
  OBVIOUS
<1>1. EmptyRows \in Rows /\ \A f \in Fingerprints : EmptyRows[f] # NoTime
  BY EvidenceAssumption DEF EmptyRows, Rows
<1>2. TablesOK
  BY <1>1 DEF Init, TablesOK, SetRows, NoRow
<1>3. /\ \A s \in SetIds : ~Sealed(s)
      /\ \A r \in RequestIds : ~Recorded(r)
  BY DEF Init, Sealed, Recorded, NoRow
<1>4. SealedContentsPinned /\ AdjudicationsGenuine /\ AdjudicationsRecorded /\ SingleVerdict
  BY <1>3 DEF Init, SealedContentsPinned, AdjudicationsGenuine, AdjudicationsRecorded,
              SingleVerdict, RecordedAs
<1>5. job \in [Workers -> Jobs] /\ JobsPinned
  BY IdleType DEF Init, JobsPinned
<1> QED
  BY <1>2, <1>4, <1>5, ServiceAssumption DEF Init, IInv, DbInv

\* Phase 1 keeps the inductive invariant: the job it starts is pinned.
LEMMA PinJob ==
    ASSUME IInv, NEW w \in Workers, NEW q \in Adjudicates, PinSet(w, q)
    PROVE  IInv'
<1>1. DbInv' /\ UNCHANGED <<evidence_sets, objects>> /\ UNCHANGED faults
  BY PinDb DEF IInv, PinSet
<1>2. Frozen
  BY <1>1, FrozenByDb
<1>3. CASE UNCHANGED job
  BY <1>1, <1>2, <1>3, JobsSame DEF IInv
<1>4. CASE job' = [job EXCEPT ![w] = Pinned(q)] /\ Refused(q) = "NONE"
  <2>1. PICK j : j = Pinned(q)
    OBVIOUS
  <2>2. q.set_id \in SetIds
    BY KindFields
  <2>3. Sealed(q.set_id)
    BY <1>4, <2>2 DEF Refused, Sealed, IInv, DbInv, TablesOK, SetRows
  <2>4. evidence_sets[q.set_id].manifest \in Rows \cup {Null}
    BY <2>2 DEF IInv, DbInv, TablesOK, SetRows
  <2>5. j \in Jobs
    BY <2>1, <2>4 DEF Pinned, Jobs
  <2>6. JobPinned(j)
    BY <2>1, <2>3 DEF Pinned, JobPinned
  <2>7. JobPinned(j)'
    BY <1>2, <2>6, JobKept
  <2> QED
    BY <1>1, <1>2, <1>4, <2>1, <2>5, <2>7, JobsKept DEF IInv
<1> QED
  BY <1>3, <1>4 DEF PinSet

\* Phase 2 keeps the inductive invariant: the rows it reads are those pinned.
LEMMA ComputeJob ==
    ASSUME IInv, NEW w \in Workers, Compute(w)
    PROVE  IInv'
<1>1. UNCHANGED db /\ UNCHANGED faults
  BY DEF Compute, Fail
<1>2. DbInv' /\ Frozen
  BY <1>1, DbStutter, FrozenByDb DEF IInv, db
<1>3. PICK i : i = job[w] /\ JobPinned(i) /\ i.pc = "pinned" /\ i \in Jobs
  BY DEF IInv, JobsPinned, Compute
<1> DEFINE q == i.req
           rows == objects[q.set_id]
           outcome == Engine(rows, q.arg)
<1>4. /\ q \in Adjudicates /\ Sealed(q.set_id) /\ q.set_id \in SetIds /\ q.arg \in Inputs
      /\ i.digest = evidence_sets[q.set_id].manifest
  BY <1>3, KindFields DEF JobPinned
<1>5. i.digest = rows /\ rows \in Rows
  BY <1>4 DEF IInv, DbInv, SealedContentsPinned, TablesOK
<1>6. CASE /\ outcome.error = "NONE"
           /\ job' = [job EXCEPT ![w] = [@ EXCEPT !.pc = "computed",
                    !.result = outcome.result,
                    !.pack = [f \in outcome.touched |-> rows[f]]]]
  <2>1. PICK j : j = [i EXCEPT !.pc = "computed", !.result = outcome.result,
                               !.pack = [f \in outcome.touched |-> rows[f]]]
    OBVIOUS
  <2>2. job' = [job EXCEPT ![w] = j]
    BY <1>3, <1>6, <2>1
  <2>3. outcome \in Outcomes /\ [f \in outcome.touched |-> rows[f]] \in Packs
    BY <1>4, <1>5, PackType
  <2>4. outcome.result \in Results
    BY <2>3 DEF Outcomes
  <2>5. j \in Jobs
    BY <1>3, <2>1, <2>3, <2>4 DEF Jobs
  <2>6. /\ j.pc = "computed" /\ j.req = q /\ j.digest = rows
        /\ j.result = outcome.result /\ j.pack = [f \in outcome.touched |-> rows[f]]
    BY <1>3, <1>5, <2>1 DEF Jobs
  <2>7. JobPinned(j)
    BY <1>4, <1>5, <1>6, <2>6 DEF JobPinned
  <2>8. JobPinned(j)'
    BY <1>2, <2>7, JobKept
  <2> QED
    BY <1>1, <1>2, <2>2, <2>5, <2>8, JobsKept DEF IInv
<1>7. CASE job' = [job EXCEPT ![w] = IdleJob]
  BY <1>1, <1>2, <1>7, IdleType, JobsKept DEF IInv
<1> QED
  BY <1>3, <1>6, <1>7 DEF Compute

\* Phase 3 keeps the inductive invariant: the job it stores is genuine.
LEMMA PersistJob ==
    ASSUME IInv, NEW w \in Workers, Persist(w)
    PROVE  IInv'
<1>1. DbInv' /\ UNCHANGED <<evidence_sets, objects>>
  BY PersistDb DEF IInv
<1>2. job' = [job EXCEPT ![w] = IdleJob] /\ UNCHANGED faults
  BY DEF Persist
<1> QED
  BY <1>1, <1>2, FrozenByDb, IdleType, JobsKept DEF IInv

\* A step that changes no table and idles, keeps or starts to count in one thread.
LEMMA ReadJob ==
    ASSUME IInv, NEW w \in Workers, UNCHANGED db, faults' \in 0..MaxFaults,
           \/ UNCHANGED job
           \/ job' = [job EXCEPT ![w] = IdleJob]
           \/ \E s \in SetIds : job' = [job EXCEPT ![w] =
                [IdleJob EXCEPT !.pc = "counting", !.req = Get("get_evidence_set", s, Null)]]
    PROVE  IInv'
<1>1. DbInv' /\ Frozen
  BY DbStutter, FrozenByDb DEF IInv, db
<1>2. CASE UNCHANGED job
  BY <1>1, <1>2, JobsSame DEF IInv
<1>3. CASE job' = [job EXCEPT ![w] = IdleJob]
  BY <1>1, <1>3, IdleType, JobsKept DEF IInv
<1>4. ASSUME NEW s \in SetIds, job' = [job EXCEPT ![w] =
                [IdleJob EXCEPT !.pc = "counting", !.req = Get("get_evidence_set", s, Null)]]
      PROVE  IInv'
  <2>1. PICK j : j = [IdleJob EXCEPT !.pc = "counting", !.req = Get("get_evidence_set", s, Null)]
    OBVIOUS
  <2>2. j \in Jobs /\ JobPinned(j)'
    BY <2>1 DEF Jobs, JobPinned, IdleJob
  <2> QED
    BY <1>1, <1>4, <2>1, <2>2, JobsKept DEF IInv
<1> QED
  BY <1>2, <1>3, <1>4

\* A crash keeps the inductive invariant: it only drops jobs.
LEMMA CrashJob ==
    ASSUME IInv, NEW i \in Instances, Crash(i)
    PROVE  IInv'
<1>1. /\ UNCHANGED db /\ faults' \in 0..MaxFaults
      /\ job' = [w \in Workers |-> IF w[1] = i THEN IdleJob ELSE job[w]]
  BY ServiceAssumption DEF Crash, IInv
<1>2. DbInv' /\ Frozen
  BY <1>1, DbStutter, FrozenByDb DEF IInv, db
<1>3. ASSUME NEW x \in Workers PROVE job'[x] \in Jobs /\ JobPinned(job[x])'
  <2>1. PICK k : k = job[x] /\ JobPinned(k) /\ k \in Jobs
    BY DEF IInv, JobsPinned
  <2>2. JobPinned(k)' /\ (job'[x] = k \/ job'[x] = IdleJob)
    BY <1>1, <1>2, <2>1, JobKept
  <2> QED BY <2>1, <2>2, IdleType
<1> QED
  BY <1>1, <1>2, <1>3 DEF IInv, JobsPinned

\* The invariant is inductive: every action keeps it.
LEMMA NextInv ==
    ASSUME IInv, [Next]_vars
    PROVE  IInv'
<1>1. ASSUME NEW w \in Workers, NEW q \in Posts, ReplayRequest(w, q) PROVE IInv'
  BY <1>1, ReadJob DEF ReplayRequest, AnswerKnown, Fail, IInv
<1>2. ASSUME NEW w \in Workers, NEW q \in Creates, CreateEvidenceSet(w, q) PROVE IInv'
  <2>1. DbInv' /\ Frozen /\ UNCHANGED <<job, faults>>
    BY <1>2, CreateDb DEF IInv, Frozen, CreateEvidenceSet
  <2> QED BY <2>1, JobsSame DEF IInv
<1>3. ASSUME NEW w \in Workers, NEW q \in Adds, AddObjects(w, q) PROVE IInv'
  <2>1. DbInv' /\ Frozen /\ UNCHANGED <<job, faults>>
    BY <1>3, AddDb DEF IInv, Frozen, AddObjects
  <2> QED BY <2>1, JobsSame DEF IInv
<1>4. ASSUME NEW w \in Workers, NEW q \in Seals, Seal(w, q) PROVE IInv'
  <2>1. DbInv' /\ Frozen /\ UNCHANGED <<job, faults>>
    BY <1>4, SealDb DEF IInv, Frozen, Seal
  <2> QED BY <2>1, JobsSame DEF IInv
<1>5. ASSUME NEW w \in Workers, NEW s \in SetIds, GetEvidenceSet(w, s) PROVE IInv'
  BY <1>5, ReadJob DEF GetEvidenceSet, Fail, IInv
<1>6. ASSUME NEW w \in Workers, NEW s \in SetIds, GetManifest(w, s) PROVE IInv'
  BY <1>6, ReadJob DEF GetManifest, Fail, IInv
<1>7. ASSUME NEW w \in Workers, CountObjects(w) PROVE IInv'
  BY <1>7, ReadJob DEF CountObjects, IInv
<1>8. ASSUME NEW w \in Workers, NEW kind, GetAdjudication(w, kind) PROVE IInv'
  BY <1>8, ReadJob DEF GetAdjudication, Fail, IInv
<1>9. ASSUME NEW w \in Workers, DatabaseError(w) PROVE IInv'
  <2>1. /\ faults' \in 0..MaxFaults /\ UNCHANGED db
        /\ job' = [job EXCEPT ![w] = IdleJob]
    BY <1>9, ServiceAssumption DEF DatabaseError, Fail, IInv
  <2> QED BY <2>1, ReadJob
<1>10. CASE UNCHANGED vars
  <2>1. DbInv' /\ Frozen
    BY <1>10, DbStutter, FrozenByDb DEF IInv, db, vars
  <2> QED BY <1>10, <2>1, JobsSame DEF IInv, vars
<1> QED
  BY <1>1, <1>2, <1>3, <1>4, <1>5, <1>6, <1>7, <1>8, <1>9, <1>10,
     PinJob, ComputeJob, PersistJob, CrashJob DEF Next

\* Every reachable state satisfies the inductive invariant.
THEOREM Invariant == Spec => []IInv
BY InitInv, NextInv, PTL DEF Spec

-----------------------------------------------------------------------------
\* Type correctness of the service: tables, threads and fault counter.
THEOREM TypeCorrect == Spec => []TypeOK
<1>1. IInv => TypeOK
  BY DEF IInv, DbInv, TypeOK
<1> QED
  BY <1>1, Invariant, PTL

\* A sealed manifest is the set's contents, a stored adjudication is the engine's
\* verdict on it, and each adjudication id has one verdict, which is what every recorded
\* adjudicate request was answered: under any interleaving of instances and crashes.
THEOREM Consistency ==
    Spec => [](SealedContentsPinned /\ AdjudicationsGenuine /\ SingleVerdict)
<1>1. IInv => SealedContentsPinned /\ AdjudicationsGenuine /\ SingleVerdict
  BY DEF IInv, DbInv
<1> QED
  BY <1>1, Invariant, PTL

\* The frozen manifest and counts are those of the rows the set has, for good.
THEOREM SealedContents == Spec => []SealedContentsPinned
BY Consistency, PTL

\* One adjudication id has one verdict, on whichever instance and for whichever of
\* several sets with the same contents it was asked.
THEOREM OneVerdict == Spec => []SingleVerdict
BY Consistency, PTL

\* What a thread carries between the phases of adjudicate stays true of the tables.
THEOREM ThreadsPinned == Spec => []JobsPinned
<1>1. IInv => JobsPinned
  BY DEF IInv
<1> QED
  BY <1>1, Invariant, PTL

\* The except branch for sqlite3.IntegrityError in adjudicate is dead code.
THEOREM NoIntegrityError == Spec => []IntegrityErrorUnreachable
<1>1. IInv => IntegrityErrorUnreachable
  BY DEF IInv, DbInv, AdjudicationsRecorded, IntegrityErrorUnreachable, Known
<1> QED
  BY <1>1, Invariant, PTL

\* A step that leaves the tables alone keeps the records.
LEMMA KeepDb == UNCHANGED db => KeepsRecords
BY DEF db, KeepsRecords, Recorded, Sealed

\* Every step keeps recorded answers, stored adjudications and sealed sets.
LEMMA NextKeeps ==
    ASSUME IInv, Next
    PROVE  KeepsRecords
<1>1. ASSUME NEW w \in Workers, NEW q \in Posts, ReplayRequest(w, q) PROVE KeepsRecords
  BY <1>1, KeepDb DEF ReplayRequest, AnswerKnown, Fail
<1>2. ASSUME NEW w \in Workers, NEW q \in Creates, CreateEvidenceSet(w, q) PROVE KeepsRecords
  <2>1. PICK s \in SetIds : put_request(q, 201, s) /\ ~Known(q)
                            /\ UNCHANGED <<objects, adjudications>>
    BY <1>2 DEF CreateEvidenceSet
  <2>2. \A r \in RequestIds : Recorded(r) => requests'[r] = requests[r]
    <3>1. requests = [r \in RequestIds |-> requests[r]]
      BY DEF IInv, DbInv, TablesOK
    <3> QED BY <2>1, <3>1 DEF put_request, Known, Recorded
  <2>3. \A t \in SetIds : Sealed(t) => evidence_sets'[t] = evidence_sets[t]
    BY <1>2, CreateDb DEF IInv
  <2> QED BY <2>1, <2>2, <2>3 DEF KeepsRecords
<1>3. ASSUME NEW w \in Workers, NEW q \in Adds, AddObjects(w, q) PROVE KeepsRecords
  <2>1. CASE UNCHANGED db
    BY <2>1, KeepDb
  <2>2. CASE ~(UNCHANGED db)
    <3>1. /\ put_request(q, 200, AddBody(q.arg, objects[q.set_id])) /\ ~Known(q)
          /\ UNCHANGED adjudications
      BY <1>3, <2>2 DEF AddObjects, Fail
    <3>2. \A r \in RequestIds : Recorded(r) => requests'[r] = requests[r]
      <4>1. requests = [r \in RequestIds |-> requests[r]]
        BY DEF IInv, DbInv, TablesOK
      <4> QED BY <3>1, <4>1 DEF put_request, Known, Recorded
    <3>3. \A t \in SetIds : Sealed(t) => /\ evidence_sets'[t] = evidence_sets[t]
                                         /\ objects'[t] = objects[t]
      BY <1>3, AddDb DEF IInv
    <3> QED BY <3>1, <3>2, <3>3 DEF KeepsRecords
  <2> QED BY <2>1, <2>2
<1>4. ASSUME NEW w \in Workers, NEW q \in Seals, Seal(w, q) PROVE KeepsRecords
  <2>1. CASE UNCHANGED db
    BY <2>1, KeepDb
  <2>2. CASE ~(UNCHANGED db)
    <3>1. PICK body : put_request(q, 200, body) /\ ~Known(q) /\ UNCHANGED adjudications
      BY <1>4, <2>2 DEF Seal, Fail
    <3>2. \A r \in RequestIds : Recorded(r) => requests'[r] = requests[r]
      <4>1. requests = [r \in RequestIds |-> requests[r]]
        BY DEF IInv, DbInv, TablesOK
      <4> QED BY <3>1, <4>1 DEF put_request, Known, Recorded
    <3>3. objects' = objects /\ \A t \in SetIds : Sealed(t) => evidence_sets'[t] = evidence_sets[t]
      BY <1>4, SealDb DEF IInv
    <3> QED BY <3>1, <3>2, <3>3 DEF KeepsRecords
  <2> QED BY <2>1, <2>2
<1>5. ASSUME NEW w \in Workers, NEW q \in Adjudicates, PinSet(w, q) PROVE KeepsRecords
  <2>1. CASE UNCHANGED db
    BY <2>1, KeepDb
  <2>2. CASE ~(UNCHANGED db)
    <3>1. PICK body : /\ put_request(q, 200, body) /\ ~Known(q)
                      /\ UNCHANGED <<evidence_sets, objects, adjudications>>
      BY <1>5, <2>2 DEF PinSet, Fail
    <3>2. \A r \in RequestIds : Recorded(r) => requests'[r] = requests[r]
      <4>1. requests = [r \in RequestIds |-> requests[r]]
        BY DEF IInv, DbInv, TablesOK
      <4> QED BY <3>1, <4>1 DEF put_request, Known, Recorded
    <3> QED BY <3>1, <3>2 DEF KeepsRecords
  <2> QED BY <2>1, <2>2
<1>6. ASSUME NEW w \in Workers, Compute(w) PROVE KeepsRecords
  BY <1>6, KeepDb DEF Compute, Fail
<1>7. ASSUME NEW w \in Workers, Persist(w) PROVE KeepsRecords
  <2>1. PICK q \in Adjudicates : q = job[w].req
    BY <1>7 DEF IInv, JobsPinned, JobPinned, Persist
  <2>2. CASE Known(q)
    BY <1>7, <2>1, <2>2, KeepDb DEF Persist, AnswerKnown, Fail
  <2>3. CASE ~Known(q)
    <3>1. PICK body : /\ put_request(q, 201, body)
                      /\ adjudications \subseteq adjudications'
                      /\ UNCHANGED <<evidence_sets, objects>>
      BY <1>7, <2>1, <2>3 DEF Persist, RecordAdjudication
    <3>2. \A r \in RequestIds : Recorded(r) => requests'[r] = requests[r]
      <4>1. requests = [r \in RequestIds |-> requests[r]]
        BY DEF IInv, DbInv, TablesOK
      <4> QED BY <2>3, <3>1, <4>1 DEF put_request, Known, Recorded
    <3> QED BY <3>1, <3>2 DEF KeepsRecords
  <2> QED BY <2>2, <2>3
<1>8. ASSUME NEW w \in Workers, NEW s \in SetIds, GetEvidenceSet(w, s) PROVE KeepsRecords
  BY <1>8, KeepDb DEF GetEvidenceSet, Fail
<1>9. ASSUME NEW w \in Workers, NEW s \in SetIds, GetManifest(w, s) PROVE KeepsRecords
  BY <1>9, KeepDb DEF GetManifest, Fail
<1>10. ASSUME NEW w \in Workers, CountObjects(w) PROVE KeepsRecords
  BY <1>10, KeepDb DEF CountObjects
<1>11. ASSUME NEW w \in Workers, NEW kind, GetAdjudication(w, kind) PROVE KeepsRecords
  BY <1>11, KeepDb DEF GetAdjudication, Fail
<1>12. ASSUME NEW w \in Workers, DatabaseError(w) PROVE KeepsRecords
  BY <1>12, KeepDb DEF DatabaseError, Fail
<1>13. ASSUME NEW i \in Instances, Crash(i) PROVE KeepsRecords
  BY <1>13, KeepDb DEF Crash
<1> QED
  BY <1>1, <1>2, <1>3, <1>4, <1>5, <1>6, <1>7, <1>8, <1>9, <1>10, <1>11, <1>12, <1>13 DEF Next

\* No step of any instance, and no crash, changes or removes a recorded answer, a
\* stored adjudication or the contents of a sealed set.
THEOREM RecordsWrittenOnce == Spec => WriteOnce
<1>1. IInv /\ [Next]_vars => [KeepsRecords]_vars
  BY NextKeeps
<1> QED
  BY <1>1, Invariant, PTL DEF Spec, WriteOnce
=============================================================================
