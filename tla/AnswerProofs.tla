---------------------------- MODULE AnswerProofs -----------------------------
(***************************************************************************)
(* Every success a client is told of is the recorded answer of its request *)
(* id, and what is told of a sealed set stays true, for every set of       *)
(* instances, threads, request ids, sets, batches and inputs.              *)
(***************************************************************************)
EXTENDS ServiceProofs

\* A thread that is about to count serves get_evidence_set.
CountingReads ==
    \A w \in Workers : job[w].pc = "counting" =>
        \E s \in SetIds : job[w].req = Get("get_evidence_set", s, Null)

\* What seal answers for a set, and what the reads of a sealed set answer.
SealAnswer(s, body) ==
    s \in SetIds /\ Sealed(s) /\ body = SealBody(objects[s], object_counts(objects[s]))

ReadAnswer(q, body) ==
    /\ q.kind = "get_manifest" =>
          q.set_id \in SetIds /\ Sealed(q.set_id) /\ body.manifest = objects[q.set_id]
    /\ (q.kind = "get_evidence_set" /\ body.status = "SEALED") =>
          /\ q.set_id \in SetIds /\ Sealed(q.set_id)
          /\ body.counts = object_counts(objects[q.set_id])

-----------------------------------------------------------------------------
(***************************************************************************)
(* Every step answers in one of these ways.                                *)
(***************************************************************************)
Silent == UNCHANGED <<sent, requests>>

Refusal == sent'.status \notin {200, 201} /\ UNCHANGED requests

Repeat(q) ==
    LET row == requests[q.request_id]
    IN  /\ Known(q) /\ row.hash = request_fingerprint(q)
        /\ Answer(q, row.status, row.body) /\ UNCHANGED requests

FirstAnswer(q) ==
    \E status \in {200, 201} : \E body :
        /\ ~Known(q) /\ put_request(q, status, body) /\ Answer(q, status, body)
        /\ q.kind = "seal" => SealAnswer(q.set_id, body)'

Read(q) ==
    \E body :
        /\ ~IsPost(q) /\ q.kind # "seal"
        /\ Answer(q, 200, body) /\ UNCHANGED requests /\ ReadAnswer(q, body)'

\* A refused request changes no table and its answer is no success.
LEMMA FailRefuses ==
    ASSUME NEW q, NEW code \in ErrorCodes, Fail(q, code)
    PROVE  Refusal
<1>1. sent' = [req |-> q, status |-> HttpStatus(code), body |-> [error |-> code]]
      /\ UNCHANGED requests
  BY DEF Fail, Answer, db
<1> QED
  BY <1>1, ErrorStatus DEF Refusal

\* A known id is refused or gets its recorded answer.
LEMMA KnownRepeats ==
    ASSUME NEW q, Known(q), AnswerKnown(q)
    PROVE  Refusal \/ Repeat(q)
<1>1. "IDEMPOTENCY_CONFLICT" \in ErrorCodes
  BY DEF ErrorCodes, EngineErrors, EngineRefusals
<1> QED
  BY <1>1, FailRefuses DEF AnswerKnown, Repeat, db

\* The answer to a batch of objects.
LEMMA AddAnswers ==
    ASSUME IInv, NEW w \in Workers, NEW q \in Adds, AddObjects(w, q)
    PROVE  Refusal \/ FirstAnswer(q)
<1>1. q.kind = "add_objects" /\ q.set_id \in SetIds
  BY KindFields
<1>2. evidence_sets[q.set_id].status \in {"ABSENT", "OPEN", "SEALED"}
  BY <1>1 DEF IInv, DbInv, TablesOK, SetRows
<1>3. AddError(q.arg, objects[q.set_id]) \in {"LIMIT_EXCEEDED", "INTERNAL", "NONE"}
  BY DEF AddError
<1>4. AddRefusal(q) \in ErrorCodes \cup {"NONE"}
  BY <1>2, <1>3 DEF AddRefusal, ErrorCodes, EngineErrors, EngineRefusals
<1>5. CASE AddRefusal(q) # "NONE" /\ Fail(q, AddRefusal(q))
  BY <1>4, <1>5, FailRefuses
<1>6. CASE \E body : put_request(q, 200, body) /\ Answer(q, 200, body) /\ ~Known(q)
  BY <1>1, <1>6 DEF FirstAnswer
<1> QED
  BY <1>5, <1>6 DEF AddObjects

\* The answer to a seal: the rows the set has, and has from now on.
LEMMA SealAnswers ==
    ASSUME IInv, NEW w \in Workers, NEW q \in Seals, Seal(w, q)
    PROVE  Refusal \/ FirstAnswer(q)
<1> DEFINE s == q.set_id
           row == evidence_sets[s]
<1>1. s \in SetIds /\ ~Known(q)
  BY KindFields DEF Seal
<1>2. CASE Fail(q, "EVIDENCE_SET_NOT_FOUND")
  BY <1>2, FailRefuses DEF ErrorCodes, EngineErrors, EngineRefusals
<1>3. CASE /\ row.status = "SEALED"
           /\ put_request(q, 200, SealBody(row.manifest, row.counts))
           /\ Answer(q, 200, SealBody(row.manifest, row.counts))
           /\ UNCHANGED <<evidence_sets, objects>>
  <2>1. row.manifest = objects[s] /\ row.counts = object_counts(objects[s])
    BY <1>1, <1>3 DEF IInv, DbInv, SealedContentsPinned, Sealed
  <2>2. SealAnswer(s, SealBody(row.manifest, row.counts))'
    BY <1>1, <1>3, <2>1 DEF SealAnswer, Sealed
  <2> QED BY <1>1, <1>3, <2>2 DEF FirstAnswer
<1>4. CASE /\ evidence_sets' = [evidence_sets EXCEPT
                ![s] = [@ EXCEPT !.status = "SEALED", !.manifest = objects[s],
                                 !.counts = object_counts(objects[s])]]
           /\ put_request(q, 200, SealBody(objects[s], object_counts(objects[s])))
           /\ Answer(q, 200, SealBody(objects[s], object_counts(objects[s])))
           /\ UNCHANGED objects
  <2>1. evidence_sets'[s].status = "SEALED"
    BY <1>1, <1>4 DEF IInv, DbInv, TablesOK, SetRows
  <2>2. SealAnswer(s, SealBody(objects[s], object_counts(objects[s])))'
    BY <1>1, <1>4, <2>1 DEF SealAnswer, Sealed
  <2> QED BY <1>1, <1>4, <2>2 DEF FirstAnswer
<1> QED
  BY <1>2, <1>3, <1>4 DEF Seal

\* The answers of the three phases of adjudicate.
LEMMA AdjudicateAnswers ==
    ASSUME IInv, NEW w \in Workers,
           \/ \E q \in Adjudicates : PinSet(w, q)
           \/ Compute(w) \/ Persist(w)
    PROVE  Silent \/ Refusal \/ \E q \in Posts : Repeat(q) \/ FirstAnswer(q)
<1>1. ASSUME NEW q \in Adjudicates, PinSet(w, q)
      PROVE  Silent \/ Refusal \/ FirstAnswer(q)
  <2>1. q.kind = "adjudicate" /\ q.set_id \in SetIds /\ ~Known(q)
    BY <1>1, KindFields DEF PinSet
  <2>2. Refused(q) \in ErrorCodes \cup {"NONE"}
    BY <2>1 DEF Refused, ErrorCodes, EngineErrors, EngineRefusals, IInv, DbInv, TablesOK, SetRows
  <2>3. CASE Refused(q) # "NONE" /\ Fail(q, Refused(q))
    BY <2>2, <2>3, FailRefuses
  <2>4. CASE UNCHANGED <<db, sent>>
    BY <2>4 DEF Silent, db
  <2>5. CASE \E body : put_request(q, 200, body) /\ Answer(q, 200, body)
    BY <2>1, <2>5 DEF FirstAnswer
  <2> QED BY <1>1, <2>3, <2>4, <2>5 DEF PinSet
<1>2. ASSUME Compute(w) PROVE Silent \/ Refusal
  <2>1. PICK i : i = job[w] /\ i.req \in Adjudicates
    BY <1>2 DEF IInv, JobsPinned, JobPinned, Compute
  <2> DEFINE outcome == Engine(objects[i.req.set_id], i.req.arg)
  <2>2. outcome \in Outcomes
    <3>1. i.req.set_id \in SetIds /\ i.req.arg \in Inputs
      BY <2>1, KindFields
    <3> QED BY <3>1, ServiceAssumption DEF IInv, DbInv, TablesOK
  <2>3. outcome.error # "NONE" => outcome.error \in ErrorCodes
    BY <2>2 DEF Outcomes, ErrorCodes, EngineErrors, EngineRefusals
  <2>4. CASE outcome.error # "NONE" /\ Fail(i.req, outcome.error)
    BY <2>3, <2>4, FailRefuses
  <2>5. CASE UNCHANGED <<db, sent>>
    BY <2>5 DEF Silent, db
  <2> QED BY <1>2, <2>1, <2>4, <2>5 DEF Compute
<1>3. ASSUME Persist(w) PROVE Refusal \/ \E q \in Posts : Repeat(q) \/ FirstAnswer(q)
  <2>1. PICK q \in Adjudicates : q = job[w].req
    BY <1>3 DEF IInv, JobsPinned, JobPinned, Persist
  <2>2. q \in Posts /\ q.kind = "adjudicate"
    BY KindFields
  <2>3. CASE Known(q)
    BY <1>3, <2>1, <2>2, <2>3, KnownRepeats DEF Persist
  <2>4. CASE ~Known(q)
    <3>1. PICK body : put_request(q, 201, body) /\ Answer(q, 201, body)
      BY <1>3, <2>1, <2>4 DEF Persist, RecordAdjudication
    <3> QED BY <2>2, <2>4, <3>1 DEF FirstAnswer
  <2> QED BY <2>3, <2>4
<1> QED
  BY <1>1, <1>2, <1>3, KindFields

\* The answers of the reads.
LEMMA ReadAnswers ==
    ASSUME IInv, CountingReads, NEW w \in Workers,
           \/ \E s \in SetIds : GetEvidenceSet(w, s) \/ GetManifest(w, s)
           \/ CountObjects(w)
           \/ \E kind \in {"get_adjudication", "get_evidence_pack"} : GetAdjudication(w, kind)
    PROVE  Silent \/ Refusal \/ \E q : Read(q)
<1>1. ASSUME NEW s \in SetIds, GetEvidenceSet(w, s) PROVE Silent \/ Refusal \/ \E q : Read(q)
  <2> DEFINE q == Get("get_evidence_set", s, Null)
             body == [status |-> "SEALED", counts |-> evidence_sets[s].counts]
  <2>1. q.kind = "get_evidence_set" /\ q.set_id = s
    BY DEF Get, Post
  <2>2. CASE Fail(q, "EVIDENCE_SET_NOT_FOUND")
    BY <2>2, FailRefuses DEF ErrorCodes, EngineErrors, EngineRefusals
  <2>3. CASE Sealed(s) /\ Answer(q, 200, body) /\ UNCHANGED db
    <3>1. body.counts = object_counts(objects[s])
      BY <2>3 DEF IInv, DbInv, SealedContentsPinned
    <3>2. ReadAnswer(q, body)'
      BY <2>1, <2>3, <3>1 DEF ReadAnswer, Sealed, db
    <3> QED BY <2>1, <2>3, <3>2 DEF Read, IsPost, db
  <2>4. CASE UNCHANGED <<db, sent>>
    BY <2>4 DEF Silent, db
  <2> QED BY <1>1, <2>2, <2>3, <2>4 DEF GetEvidenceSet, Sealed
<1>2. ASSUME NEW s \in SetIds, GetManifest(w, s) PROVE Silent \/ Refusal \/ \E q : Read(q)
  <2> DEFINE q == Get("get_manifest", s, Null)
             body == [manifest |-> evidence_sets[s].manifest]
  <2>1. q.kind = "get_manifest" /\ q.set_id = s
    BY DEF Get, Post
  <2>2. Refused(q) \in ErrorCodes \cup {"NONE"} /\ (Refused(q) = "NONE" => Sealed(s))
    BY <2>1 DEF Refused, ErrorCodes, EngineErrors, EngineRefusals, Sealed, IInv, DbInv, TablesOK, SetRows
  <2>3. CASE Refused(q) # "NONE" /\ Fail(q, Refused(q))
    BY <2>2, <2>3, FailRefuses
  <2>4. CASE Refused(q) = "NONE" /\ Answer(q, 200, body) /\ UNCHANGED db
    <3>1. body.manifest = objects[s]
      BY <2>2, <2>4 DEF IInv, DbInv, SealedContentsPinned
    <3>2. ReadAnswer(q, body)'
      BY <2>1, <2>2, <2>4, <3>1 DEF ReadAnswer, Sealed, db
    <3> QED BY <2>1, <2>4, <3>2 DEF Read, IsPost, db
  <2> QED BY <1>2, <2>3, <2>4 DEF GetManifest
<1>3. ASSUME CountObjects(w) PROVE \E q : Read(q)
  <2>1. PICK s \in SetIds : job[w].req = Get("get_evidence_set", s, Null)
    BY <1>3 DEF CountingReads, CountObjects
  <2> DEFINE q == Get("get_evidence_set", s, Null)
             body == [status |-> "OPEN", counts |-> object_counts(objects[s])]
  <2>2. q.kind = "get_evidence_set" /\ q.set_id = s /\ body.status # "SEALED"
    BY DEF Get, Post
  <2>3. Answer(q, 200, body) /\ UNCHANGED db
    BY <1>3, <2>1, <2>2 DEF CountObjects
  <2>4. ReadAnswer(q, body)'
    BY <2>2 DEF ReadAnswer
  <2> QED BY <2>2, <2>3, <2>4 DEF Read, IsPost, db
<1>4. ASSUME NEW kind \in {"get_adjudication", "get_evidence_pack"}, GetAdjudication(w, kind)
      PROVE  Refusal \/ \E q : Read(q)
  <2>1. ASSUME NEW q, NEW body, q.kind = kind, Answer(q, 200, body), UNCHANGED db
        PROVE  Read(q)
    BY <2>1 DEF Read, ReadAnswer, IsPost, db
  <2>2. \A a : Get(kind, Null, a).kind = kind
    BY DEF Get, Post
  <2>3. CASE Fail(Get(kind, Null, Null), "ADJUDICATION_NOT_FOUND")
    BY <2>3, FailRefuses DEF ErrorCodes, EngineErrors, EngineRefusals
  <2>4. CASE \E a, body : Answer(Get(kind, Null, a), 200, body) /\ UNCHANGED db
    BY <2>1, <2>2, <2>4
  <2> QED BY <1>4, <2>3, <2>4 DEF GetAdjudication
<1> QED
  BY <1>1, <1>2, <1>3, <1>4

\* Every step of the service is one of the five.
LEMMA StepAnswers ==
    ASSUME IInv, CountingReads, Next
    PROVE  \/ Silent \/ Refusal
           \/ \E q \in Posts : Repeat(q) \/ FirstAnswer(q)
           \/ \E q : Read(q)
<1>1. ASSUME NEW w \in Workers, NEW q \in Posts, ReplayRequest(w, q)
      PROVE  Refusal \/ Repeat(q)
  BY <1>1, KnownRepeats DEF ReplayRequest
<1>2. ASSUME NEW w \in Workers, NEW q \in Creates, CreateEvidenceSet(w, q)
      PROVE  q \in Posts /\ FirstAnswer(q)
  <2>1. q.kind # "seal" /\ q \in Posts
    BY KindFields
  <2>2. PICK s : put_request(q, 201, s) /\ Answer(q, 201, s) /\ ~Known(q)
    BY <1>2 DEF CreateEvidenceSet
  <2> QED BY <2>1, <2>2 DEF FirstAnswer
<1>3. ASSUME NEW w \in Workers, DatabaseError(w) PROVE Refusal
  <2>1. PICK q : Fail(q, "SERVICE_BUSY")
    BY <1>3 DEF DatabaseError
  <2> QED BY <2>1, FailRefuses DEF ErrorCodes, EngineErrors, EngineRefusals
<1>4. ASSUME NEW i \in Instances, Crash(i) PROVE Silent
  BY <1>4 DEF Crash, Silent, db
<1>5. \A q : (q \in Creates \/ q \in Adds \/ q \in Seals) => q \in Posts
  BY KindFields
<1> QED
  BY <1>1, <1>2, <1>3, <1>4, <1>5, AddAnswers, SealAnswers, AdjudicateAnswers, ReadAnswers
     DEF Next

-----------------------------------------------------------------------------
(***************************************************************************)
(* What was recorded and what was last told.                               *)
(***************************************************************************)
\* A recorded answer to a seal is what the set it names has come to.
RecordedSealsFinal ==
    \A r \in RequestIds : RecordedAs(r, "seal") =>
        SealAnswer(requests[r].hash.set_id, requests[r].body)

ToldRecorded ==
    (sent.status \in {200, 201} /\ IsPost(sent.req)) =>
        /\ sent.req \in Posts
        /\ requests[sent.req.request_id] =
              [hash |-> request_fingerprint(sent.req), status |-> sent.status,
               body |-> sent.body]

ToldFinal ==
    sent.status \in {200, 201} =>
        /\ sent.req.kind = "seal" => SealAnswer(sent.req.set_id, sent.body)
        /\ ReadAnswer(sent.req, sent.body)

\* Every recorded request has the shape of a row.
RowsShaped ==
    \A r \in RequestIds : requests[r] =
        [hash |-> requests[r].hash, status |-> requests[r].status, body |-> requests[r].body]

AnswerInv ==
    IInv /\ CountingReads /\ RowsShaped /\ RecordedSealsFinal /\ ToldRecorded /\ ToldFinal

\* What was said of a sealed set stays true while records are kept.
LEMMA AnswersKept ==
    ASSUME KeepsRecords
    PROVE  /\ \A s, body : SealAnswer(s, body) => SealAnswer(s, body)'
           /\ \A q, body : ReadAnswer(q, body) => ReadAnswer(q, body)'
BY DEF KeepsRecords, SealAnswer, ReadAnswer, Sealed

\* Threads that count go on to serve get_evidence_set.
LEMMA CountingKept ==
    ASSUME IInv, CountingReads, [Next]_vars
    PROVE  CountingReads'
<1>1. ASSUME NEW w \in Workers, NEW j, job' = [job EXCEPT ![w] = j],
             j.pc = "counting" => \E s \in SetIds : j.req = Get("get_evidence_set", s, Null)
      PROVE  CountingReads'
  BY <1>1 DEF CountingReads, IInv
<1>2. ASSUME UNCHANGED job PROVE CountingReads'
  BY <1>2 DEF CountingReads
<1>3. IdleJob.pc # "counting"
  BY DEF IdleJob
<1>4. ASSUME NEW w \in Workers, job' = [job EXCEPT ![w] = IdleJob] PROVE CountingReads'
  BY <1>1, <1>3, <1>4
<1>5. ASSUME NEW w \in Workers, NEW s \in SetIds, GetEvidenceSet(w, s) PROVE CountingReads'
  <2>1. CASE UNCHANGED job
    BY <1>2, <2>1
  <2>2. CASE job' = [job EXCEPT ![w] =
                 [IdleJob EXCEPT !.pc = "counting", !.req = Get("get_evidence_set", s, Null)]]
    <3>1. [IdleJob EXCEPT !.pc = "counting", !.req = Get("get_evidence_set", s, Null)].req
             = Get("get_evidence_set", s, Null)
      BY DEF IdleJob
    <3> QED BY <1>1, <2>2, <3>1
  <2> QED BY <1>5, <2>1, <2>2 DEF GetEvidenceSet
<1>6. ASSUME NEW w \in Workers, NEW q \in Adjudicates, PinSet(w, q) PROVE CountingReads'
  <2>1. Pinned(q).pc # "counting"
    BY DEF Pinned
  <2>2. UNCHANGED job \/ job' = [job EXCEPT ![w] = Pinned(q)]
    BY <1>6 DEF PinSet
  <2> QED BY <1>1, <1>2, <2>1, <2>2
<1>7. ASSUME NEW w \in Workers, Compute(w) PROVE CountingReads'
  <2>1. CASE job' = [job EXCEPT ![w] = IdleJob]
    BY <1>4, <2>1
  <2>2. CASE \E result, pack : job' = [job EXCEPT ![w] =
                 [@ EXCEPT !.pc = "computed", !.result = result, !.pack = pack]]
    <3>1. PICK result, pack : job' = [job EXCEPT ![w] =
              [job[w] EXCEPT !.pc = "computed", !.result = result, !.pack = pack]]
      BY <2>2
    <3>2. [job[w] EXCEPT !.pc = "computed", !.result = result, !.pack = pack].pc # "counting"
      BY DEF IInv, Jobs
    <3> QED BY <1>1, <3>1, <3>2
  <2> QED BY <1>7, <2>1, <2>2 DEF Compute
<1>8. ASSUME NEW i \in Instances, Crash(i) PROVE CountingReads'
  <2>1. job' = [w \in Workers |-> IF w[1] = i THEN IdleJob ELSE job[w]]
    BY <1>8 DEF Crash
  <2> QED BY <1>3, <2>1 DEF CountingReads
<1>9. ASSUME NEW w \in Workers, Persist(w) \/ CountObjects(w) \/ DatabaseError(w)
      PROVE  CountingReads'
  <2>1. job' = [job EXCEPT ![w] = IdleJob]
    BY <1>9 DEF Persist, CountObjects, DatabaseError
  <2> QED BY <1>4, <2>1
<1>10. CASE UNCHANGED vars
  BY <1>2, <1>10 DEF vars
<1>11. ASSUME NEW w \in Workers, NEW q,
              ReplayRequest(w, q) \/ CreateEvidenceSet(w, q) \/ AddObjects(w, q) \/ Seal(w, q)
       PROVE  CountingReads'
  BY <1>2, <1>11 DEF ReplayRequest, CreateEvidenceSet, AddObjects, Seal
<1>12. ASSUME NEW w \in Workers, NEW x, GetManifest(w, x) \/ GetAdjudication(w, x)
       PROVE  CountingReads'
  BY <1>2, <1>12 DEF GetManifest, GetAdjudication
<1> QED
  BY <1>5, <1>6, <1>7, <1>8, <1>9, <1>10, <1>11, <1>12 DEF Next

\* A first answer is recorded as it is given.
LEMMA FirstKept ==
    ASSUME AnswerInv, KeepsRecords, NEW q \in Posts, FirstAnswer(q)
    PROVE  RowsShaped' /\ RecordedSealsFinal' /\ ToldRecorded' /\ ToldFinal'
<1>0. PICK status \in {200, 201} :
        \E body : /\ ~Known(q) /\ put_request(q, status, body) /\ Answer(q, status, body)
                  /\ q.kind = "seal" => SealAnswer(q.set_id, body)'
  BY DEF FirstAnswer
<1>1. PICK body :
        /\ ~Known(q) /\ put_request(q, status, body) /\ Answer(q, status, body)
        /\ q.kind = "seal" => SealAnswer(q.set_id, body)'
  BY <1>0
<1>2. /\ requests'[q.request_id] =
            [hash |-> request_fingerprint(q), status |-> status, body |-> body]
      /\ \A r \in RequestIds : r # q.request_id => requests'[r] = requests[r]
  BY <1>1, PutRequest DEF AnswerInv, IInv
<1>3. /\ request_fingerprint(q).kind = q.kind /\ request_fingerprint(q).set_id = q.set_id
      /\ q.kind \notin {"get_manifest", "get_evidence_set"}
  BY PostFields, KindFields DEF Posts
<1>4. sent' = [req |-> q, status |-> status, body |-> body]
  BY <1>1 DEF Answer
<1>5. RowsShaped'
  BY <1>2 DEF AnswerInv, RowsShaped
<1>6. ASSUME NEW r \in RequestIds, RecordedAs(r, "seal")'
      PROVE  SealAnswer(requests[r].hash.set_id, requests[r].body)'
  <2>1. CASE r = q.request_id
    BY <1>1, <1>2, <1>3, <1>6, <2>1 DEF RecordedAs, SealAnswer
  <2>2. CASE r # q.request_id
    <3>1. requests'[r] = requests[r] /\ RecordedAs(r, "seal")
      BY <1>2, <1>6, <2>2 DEF RecordedAs, Recorded
    <3>2. SealAnswer(requests[r].hash.set_id, requests[r].body)
      BY <3>1 DEF AnswerInv, RecordedSealsFinal
    <3> QED BY <3>1, <3>2 DEF KeepsRecords, SealAnswer, Sealed
  <2> QED BY <2>1, <2>2
<1>7. ToldRecorded'
  BY <1>2, <1>4 DEF ToldRecorded
<1>8. ToldFinal'
  BY <1>1, <1>3, <1>4 DEF ToldFinal, SealAnswer, ReadAnswer
<1> QED
  BY <1>5, <1>6, <1>7, <1>8 DEF RecordedSealsFinal

\* A repeated answer is the recorded one.
LEMMA RepeatKept ==
    ASSUME AnswerInv, NEW q \in Posts, Repeat(q), RecordedSealsFinal'
    PROVE  ToldRecorded' /\ ToldFinal'
<1> DEFINE row == requests[q.request_id]
<1>1. /\ Known(q) /\ row.hash = request_fingerprint(q) /\ requests' = requests
      /\ sent' = [req |-> q, status |-> row.status, body |-> row.body]
  BY DEF Repeat, Answer
<1>2. /\ request_fingerprint(q).kind = q.kind /\ request_fingerprint(q).set_id = q.set_id
      /\ q.kind \notin {"get_manifest", "get_evidence_set"} /\ q.request_id \in RequestIds
  BY PostFields, KindFields DEF Posts
<1>3. ToldRecorded'
  BY <1>1, <1>2 DEF ToldRecorded, AnswerInv, RowsShaped
<1>4. q.kind = "seal" => SealAnswer(q.set_id, row.body)'
  BY <1>1, <1>2 DEF RecordedSealsFinal, RecordedAs, Recorded, Known, SealAnswer
<1>5. ToldFinal'
  BY <1>1, <1>2, <1>4 DEF ToldFinal, SealAnswer, ReadAnswer
<1> QED
  BY <1>3, <1>5

\* Every step keeps the invariant on answers.
LEMMA NextAnswers ==
    ASSUME AnswerInv, [Next]_vars
    PROVE  AnswerInv'
<1>1. IInv' /\ CountingReads'
  BY NextInv, CountingKept DEF AnswerInv
<1>2. KeepsRecords
  <2>1. CASE UNCHANGED vars
    BY <2>1, KeepDb DEF vars, db
  <2> QED BY <2>1, NextKeeps DEF AnswerInv
<1>3. ASSUME UNCHANGED requests PROVE RowsShaped' /\ RecordedSealsFinal'
  <2>1. ASSUME NEW r \in RequestIds, RecordedAs(r, "seal")
        PROVE  SealAnswer(requests[r].hash.set_id, requests[r].body)'
    <3>1. SealAnswer(requests[r].hash.set_id, requests[r].body)
      BY <2>1 DEF AnswerInv, RecordedSealsFinal
    <3> QED BY <1>2, <1>3, <3>1 DEF KeepsRecords, SealAnswer, Sealed
  <2>2. \A r \in RequestIds : RecordedAs(r, "seal")' => RecordedAs(r, "seal")
    BY <1>3 DEF RecordedAs, Recorded
  <2> QED BY <1>3, <2>1, <2>2 DEF AnswerInv, RowsShaped, RecordedSealsFinal
<1>4. CASE Silent
  <2>1. ToldRecorded'
    BY <1>4 DEF Silent, AnswerInv, ToldRecorded
  <2>2. ToldFinal'
    <3>1. PICK x : x = sent /\ sent' = x
      BY <1>4 DEF Silent
    <3> QED BY <1>2, <3>1, AnswersKept
            DEF AnswerInv, ToldFinal, KeepsRecords, SealAnswer, ReadAnswer, Sealed
  <2> QED BY <1>1, <1>3, <1>4, <2>1, <2>2 DEF Silent, AnswerInv
<1>5. CASE Refusal
  BY <1>1, <1>3, <1>5 DEF Refusal, AnswerInv, ToldRecorded, ToldFinal
<1>6. ASSUME NEW q \in Posts, Repeat(q) PROVE AnswerInv'
  BY <1>1, <1>3, <1>6, RepeatKept DEF Repeat, AnswerInv
<1>7. ASSUME NEW q \in Posts, FirstAnswer(q) PROVE AnswerInv'
  BY <1>1, <1>2, <1>7, FirstKept DEF AnswerInv
<1>8. ASSUME NEW q, Read(q) PROVE AnswerInv'
  <2>1. PICK body : /\ ~IsPost(q) /\ q.kind # "seal" /\ ReadAnswer(q, body)'
                    /\ sent' = [req |-> q, status |-> 200, body |-> body]
                    /\ UNCHANGED requests
    BY <1>8 DEF Read, Answer
  <2>2. ToldRecorded' /\ ToldFinal'
    BY <2>1 DEF ToldRecorded, ToldFinal, ReadAnswer, IsPost
  <2> QED BY <1>1, <1>3, <2>1, <2>2 DEF AnswerInv
<1>9. UNCHANGED vars => Silent
  BY DEF vars, Silent
<1> QED
  BY <1>4, <1>5, <1>6, <1>7, <1>8, <1>9, StepAnswers DEF AnswerInv

\* No answer was given yet.
LEMMA InitAnswers == Init => AnswerInv
<1> SUFFICES ASSUME Init PROVE AnswerInv
  OBVIOUS
<1>1. IInv
  BY InitInv
<1>2. CountingReads
  BY DEF Init, CountingReads, IdleJob
<1>3. RowsShaped /\ RecordedSealsFinal
  BY DEF Init, RowsShaped, RecordedSealsFinal, RecordedAs, Recorded, NoRow
<1>4. ToldRecorded /\ ToldFinal
  BY DEF Init, ToldRecorded, ToldFinal, NoAnswer
<1> QED
  BY <1>1, <1>2, <1>3, <1>4 DEF AnswerInv

\* Every reachable state satisfies the invariant on answers.
THEOREM AnswersInvariant == Spec => []AnswerInv
BY InitAnswers, NextAnswers, PTL DEF Spec

-----------------------------------------------------------------------------
\* A success the client was told of is the recorded answer of its request id, whatever
\* instances, repeats and faults came in between.
THEOREM RetriesGetTheAnswer == Spec => []AnswersAreRecorded
<1>1. AnswerInv => AnswersAreRecorded
  BY DEF AnswerInv, ToldRecorded, AnswersAreRecorded
<1> QED
  BY <1>1, AnswersInvariant, PTL

\* An answered seal, manifest or sealed status describes the rows the set still has.
THEOREM AnswersOfSealedSets == Spec => []SealedAnswersFinal
<1>1. AnswerInv => SealedAnswersFinal
  BY DEF AnswerInv, ToldFinal, SealAnswer, ReadAnswer, SealedAnswersFinal
<1> QED
  BY <1>1, AnswersInvariant, PTL

\* An answer of get_evidence_set that says OPEN carries counts the set had while it was open,
\* also if it was sealed before its rows were counted.
THEOREM OpenAnswers == Spec => OpenAnswersLinear
<1>1. AnswerInv /\ [Next]_vars => [\A w \in Workers : CountObjects(w) => CountsAtRead(w)]_vars
  <2> SUFFICES ASSUME AnswerInv, NEW w \in Workers, CountObjects(w) PROVE CountsAtRead(w)
    OBVIOUS
  <2>1. PICK s \in SetIds : job[w].req = Get("get_evidence_set", s, Null)
    BY DEF AnswerInv, CountingReads, CountObjects
  <2>2. job[w].req.set_id = s
    BY <2>1 DEF Get, Post
  <2>3. sent'.body.counts = object_counts(objects[s])
    BY <2>2 DEF CountObjects, Answer
  <2>4. Sealed(s) => evidence_sets[s].counts = object_counts(objects[s])
    BY DEF AnswerInv, IInv, DbInv, SealedContentsPinned
  <2> QED BY <2>2, <2>3, <2>4 DEF CountsAtRead
<1> QED
  BY <1>1, AnswersInvariant, PTL DEF Spec, OpenAnswersLinear
=============================================================================
