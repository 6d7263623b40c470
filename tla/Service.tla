------------------------------- MODULE Service -------------------------------
(***************************************************************************)
(* The API service (app/api.py over app/store.py): several API instances,  *)
(* each with a pool of threads, share one SQLite database.  A mutating     *)
(* endpoint runs in one BEGIN IMMEDIATE transaction, which is one action   *)
(* here; adjudicate runs in three parts, two transactions around a         *)
(* computation that reads the database outside any transaction, and        *)
(* get_evidence_set makes two separate reads.  Clients may send any        *)
(* request at any time, in particular the same one again after an answer   *)
(* was lost, or two requests under one request_id.                         *)
(*                                                                         *)
(* The adjudication engine is the constant operator Engine: a function of  *)
(* the object rows it reads and of the normalized input.                   *)
(***************************************************************************)
EXTENDS Evidence

CONSTANTS
    Instances, Threads,    \* API processes and the threads of each
    RequestIds,            \* client-chosen request ids
    SetIds,                \* ids uuid4 can return; bounds the number of sets
    Labels, Batches, Inputs,
    Results,               \* results of the engine
    Engine(_, _),          \* rows, input -> outcome
    MaxFaults,             \* bound on crashes and database errors
    Null                   \* no row, no value

\* What the engine refuses an adjudication with, and any other exception it raises, as on a
\* recorded time that does not parse: nothing is recorded of either.
EngineRefusals == {"LEAF_NOT_FOUND", "RESOURCE_EXHAUSTED"}
EngineErrors == EngineRefusals \cup {"INTERNAL"}

Outcomes == [error : EngineErrors \cup {"NONE"}, result : Results,
             touched : SUBSET Fingerprints]

ASSUME ServiceAssumption ==
    /\ Batches \subseteq Seq(Items)
    /\ \A rows \in Rows, inp \in Inputs :
          /\ Engine(rows, inp) \in Outcomes
          /\ Engine(rows, inp).touched \subseteq Present(rows)
    /\ MaxFaults \in Nat

VARIABLES
    evidence_sets,   \* table evidence_sets
    objects,         \* table objects, per set
    requests,        \* table requests, per request id
    adjudications,   \* table adjudications, a set of rows
    job,             \* what each thread is in the middle of
    sent,            \* the last answer put on the wire
    faults           \* crashes and database errors so far

db == <<evidence_sets, objects, requests, adjudications>>
vars == <<evidence_sets, objects, requests, adjudications, job, sent, faults>>

-----------------------------------------------------------------------------
(***************************************************************************)
(* Requests.  The parts of a body that matter; the rest is validated and   *)
(* normalized before any of this runs.                                     *)
(***************************************************************************)
Post(kind, r, s, arg) == [kind |-> kind, request_id |-> r, set_id |-> s, arg |-> arg]

Creates == {Post("create_evidence_set", r, Null, l) : r \in RequestIds, l \in Labels}
Adds    == {Post("add_objects", r, s, b) : r \in RequestIds, s \in SetIds, b \in Batches}
Seals   == {Post("seal", r, s, Null) : r \in RequestIds, s \in SetIds}
Adjudicates == {Post("adjudicate", r, s, i) : r \in RequestIds, s \in SetIds, i \in Inputs}
Posts   == Creates \cup Adds \cup Seals \cup Adjudicates

request_fingerprint(q) ==
    [q EXCEPT !.arg = IF q.kind = "add_objects" THEN canon_objects(q.arg) ELSE q.arg]

Workers == Instances \X Threads

\* No row in requests, no answer yet.
NoRow == [hash |-> Null, status |-> 0, body |-> Null]
NoAnswer == [req |-> Null, status |-> 0, body |-> Null]

IdleJob == [pc |-> "idle", req |-> Null, digest |-> Null, result |-> Null, pack |-> Null]

Idle(w) == job[w] = IdleJob

\* compute_adjudication_id: SHA-256 over the content digest and the input.
compute_adjudication_id(digest, inp) == <<digest, inp>>

\* Mutant: stored adjudications are never found.
get_adjudication_row_none(id) == {}

get_adjudication_row(id) == {a \in adjudications : a.id = id}

HttpStatus(code) ==
    CASE code = "LIMIT_EXCEEDED" -> 413
      [] code \in {"EVIDENCE_SET_NOT_FOUND", "ADJUDICATION_NOT_FOUND"} -> 404
      [] code \in {"EVIDENCE_SET_SEALED", "EVIDENCE_SET_NOT_SEALED",
                   "IDEMPOTENCY_CONFLICT"} -> 409
      [] code \in EngineRefusals -> 422
      [] code = "INTERNAL" -> 500
      [] code = "SERVICE_BUSY" -> 503

Answer(q, status, body) == sent' = [req |-> q, status |-> status, body |-> body]

\* An ApiError: the transaction is rolled back and nothing is recorded.
Fail(q, code) == Answer(q, HttpStatus(code), [error |-> code]) /\ UNCHANGED db

put_request(q, status, body) ==
    requests' = [requests EXCEPT ![q.request_id] =
                    [hash |-> request_fingerprint(q), status |-> status, body |-> body]]

Init ==
    /\ evidence_sets = [s \in SetIds |->
            [status |-> "ABSENT", created |-> Null, manifest |-> Null, counts |-> Null]]
    /\ objects = [s \in SetIds |-> EmptyRows]
    /\ requests = [r \in RequestIds |-> NoRow]
    /\ adjudications = {}
    /\ job = [w \in Workers |-> IdleJob]
    /\ sent = NoAnswer
    /\ faults = 0

-----------------------------------------------------------------------------
(***************************************************************************)
(* run_idempotent: the request id is looked up first.                      *)
(***************************************************************************)
Recorded(r) == requests[r].status # 0

Known(q) == Recorded(q.request_id)

AnswerKnown(q) ==
    LET row == requests[q.request_id]
    IN  IF row.hash # request_fingerprint(q)
        THEN Fail(q, "IDEMPOTENCY_CONFLICT")
        ELSE Answer(q, row.status, row.body) /\ UNCHANGED db

ReplayRequest(w, q) ==
    /\ Idle(w) /\ Known(q)
    /\ AnswerKnown(q)
    /\ UNCHANGED <<job, faults>>

CreateEvidenceSet(w, q) ==
    /\ Idle(w) /\ ~Known(q)
    /\ \E s \in SetIds :
         /\ evidence_sets[s].status = "ABSENT"       \* uuid4 returns a fresh id
         /\ evidence_sets' = [evidence_sets EXCEPT ![s].status = "OPEN",
                                                   ![s].created = q.request_id]
         /\ put_request(q, 201, s)
         /\ Answer(q, 201, s)
    /\ UNCHANGED <<objects, adjudications, job, faults>>

AddBody(batch, rows) ==
    [added      |-> new_objects(batch, rows),
     duplicates |-> duplicates(batch, rows),
     rejected   |-> rejected(batch),
     counts     |-> object_counts(insert_objects(batch, rows))]

\* Mutant: the status of the set is not looked at.
AddRefusal_unsealed(q) == AddError(q.arg, objects[q.set_id])

\* The checks of the handler before the rows are inserted.
AddRefusal(q) ==
    LET status == evidence_sets[q.set_id].status
    IN  CASE status = "ABSENT" -> "EVIDENCE_SET_NOT_FOUND"
          [] status = "SEALED" -> "EVIDENCE_SET_SEALED"
          [] status = "OPEN"   -> AddError(q.arg, objects[q.set_id])

AddObjects(w, q) ==
    /\ Idle(w) /\ ~Known(q)
    /\ LET code == AddRefusal(q)
           body == AddBody(q.arg, objects[q.set_id])
       IN  \/ code # "NONE" /\ Fail(q, code)
           \/ /\ code = "NONE"
              /\ objects' = [objects EXCEPT ![q.set_id] = insert_objects(q.arg, @)]
              /\ put_request(q, 200, body)
              /\ Answer(q, 200, body)
              /\ UNCHANGED <<evidence_sets, adjudications>>
    /\ UNCHANGED <<job, faults>>

SealBody(digest, counts) == [content_digest |-> digest, counts |-> counts]

Seal(w, q) ==
    /\ Idle(w) /\ ~Known(q)
    /\ LET row == evidence_sets[q.set_id]
           rows == objects[q.set_id]
           counts == object_counts(rows)
       IN  \/ row.status = "ABSENT" /\ Fail(q, "EVIDENCE_SET_NOT_FOUND")
           \/ /\ row.status = "SEALED"
              /\ put_request(q, 200, SealBody(row.manifest, row.counts))
              /\ Answer(q, 200, SealBody(row.manifest, row.counts))
              /\ UNCHANGED <<evidence_sets, objects, adjudications>>
           \/ /\ row.status = "OPEN"
              /\ evidence_sets' = [evidence_sets EXCEPT
                    ![q.set_id] = [@ EXCEPT !.status = "SEALED",
                                            !.manifest = rows, !.counts = counts]]
              /\ put_request(q, 200, SealBody(rows, counts))
              /\ Answer(q, 200, SealBody(rows, counts))
              /\ UNCHANGED <<objects, adjudications>>
    /\ UNCHANGED <<job, faults>>
-----------------------------------------------------------------------------
(***************************************************************************)
(* adjudicate: phase 1 pins the sealed set, phase 2 computes outside any   *)
(* transaction, phase 3 looks the request up again and persists.           *)
(***************************************************************************)
\* Mutant: an open set is adjudicated, too.
Refused_open(q) ==
    IF evidence_sets[q.set_id].status = "ABSENT" THEN "EVIDENCE_SET_NOT_FOUND" ELSE "NONE"

Refused(q) ==
    CASE evidence_sets[q.set_id].status = "ABSENT" -> "EVIDENCE_SET_NOT_FOUND"
      [] evidence_sets[q.set_id].status = "OPEN"   -> "EVIDENCE_SET_NOT_SEALED"
      [] evidence_sets[q.set_id].status = "SEALED" -> "NONE"

Pinned(q) == [pc |-> "pinned", req |-> q,
              digest |-> evidence_sets[q.set_id].manifest, result |-> Null, pack |-> Null]

\* Mutant: an adjudication found in phase 1 is answered and not recorded.
PinSet_unrecorded(w, q) ==
    /\ Idle(w) /\ ~Known(q) /\ Refused(q) = "NONE"
    /\ LET id == compute_adjudication_id(evidence_sets[q.set_id].manifest, q.arg)
       IN  \/ /\ get_adjudication_row(id) = {}
              /\ job' = [job EXCEPT ![w] = Pinned(q)]
              /\ UNCHANGED <<db, sent>>
           \/ \E a \in get_adjudication_row(id) :
                Answer(q, 200, a.result) /\ UNCHANGED <<db, job>>
    /\ UNCHANGED faults

PinSet(w, q) ==
    /\ Idle(w) /\ ~Known(q)
    /\ LET id == compute_adjudication_id(evidence_sets[q.set_id].manifest, q.arg)
       IN  \/ /\ Refused(q) # "NONE"
              /\ Fail(q, Refused(q))
              /\ UNCHANGED job
           \/ /\ Refused(q) = "NONE" /\ get_adjudication_row(id) = {}
              /\ job' = [job EXCEPT ![w] = Pinned(q)]
              /\ UNCHANGED <<db, sent>>
           \/ /\ Refused(q) = "NONE"
              /\ \E a \in get_adjudication_row(id) :
                    put_request(q, 200, a.result) /\ Answer(q, 200, a.result)
              /\ UNCHANGED <<evidence_sets, objects, adjudications, job>>
    /\ UNCHANGED faults

\* Mutant: an error of the engine ends the thread's work without an answer.
Compute_silent(w) ==
    /\ job[w].pc = "pinned"
    /\ LET q == job[w].req
           outcome == Engine(objects[q.set_id], q.arg)
       IN  IF outcome.error = "NONE"
           THEN job' = [job EXCEPT ![w] = [@ EXCEPT !.pc = "computed",
                    !.result = outcome.result,
                    !.pack = [f \in outcome.touched |-> objects[q.set_id][f]]]]
           ELSE job' = [job EXCEPT ![w] = IdleJob]
    /\ UNCHANGED <<db, sent, faults>>

\* DbObjectSource reads the rows of the set now, not the pinned manifest.
Compute(w) ==
    /\ job[w].pc = "pinned"
    /\ LET q == job[w].req
           rows == objects[q.set_id]
           outcome == Engine(rows, q.arg)
       IN  \/ /\ outcome.error = "NONE"
              /\ job' = [job EXCEPT ![w] = [@ EXCEPT !.pc = "computed",
                    !.result = outcome.result,
                    !.pack = [f \in outcome.touched |-> rows[f]]]]
              /\ UNCHANGED <<db, sent>>
           \/ /\ outcome.error # "NONE"
              /\ Fail(q, outcome.error)
              /\ job' = [job EXCEPT ![w] = IdleJob]
    /\ UNCHANGED faults

\* Mutant: the request of an adjudication is not recorded.
RecordAdjudication_unrecorded(w) ==
    LET q  == job[w].req
        id == compute_adjudication_id(job[w].digest, q.arg)
        row == [id |-> id, request_id |-> q.request_id, set_id |-> q.set_id,
                result |-> job[w].result, pack |-> job[w].pack]
    IN  /\ adjudications' = IF get_adjudication_row(id) = {}
                            THEN adjudications \cup {row} ELSE adjudications
        /\ Answer(q, 201, row.result)
        /\ UNCHANGED <<evidence_sets, objects, requests>>

\* put_adjudication unless a row with this id exists, then put_request.
RecordAdjudication(w) ==
    LET q  == job[w].req
        id == compute_adjudication_id(job[w].digest, q.arg)
        row == [id |-> id, request_id |-> q.request_id, set_id |-> q.set_id,
                result |-> job[w].result, pack |-> job[w].pack]
    IN  \/ /\ get_adjudication_row(id) = {}
           /\ adjudications' = adjudications \cup {row}
           /\ put_request(q, 201, row.result) /\ Answer(q, 201, row.result)
           /\ UNCHANGED <<evidence_sets, objects>>
        \/ /\ \E a \in get_adjudication_row(id) :
                put_request(q, 201, a.result) /\ Answer(q, 201, a.result)
           /\ UNCHANGED <<evidence_sets, objects, adjudications>>

\* Mutant: phase 3 trusts the look-up of phase 1.
Persist_trusting(w) ==
    /\ job[w].pc = "computed"
    /\ RecordAdjudication(w)
    /\ job' = [job EXCEPT ![w] = IdleJob]
    /\ UNCHANGED faults

Persist(w) ==
    /\ job[w].pc = "computed"
    /\ \/ Known(job[w].req) /\ AnswerKnown(job[w].req)
       \/ ~Known(job[w].req) /\ RecordAdjudication(w)
    /\ job' = [job EXCEPT ![w] = IdleJob]
    /\ UNCHANGED faults

-----------------------------------------------------------------------------
(***************************************************************************)
(* Reads.  get_evidence_set reads the set row, then, for an open set,      *)
(* counts its objects with a second read.                                  *)
(***************************************************************************)
Get(kind, s, arg) == Post(kind, Null, s, arg)

GetEvidenceSet(w, s) ==
    /\ Idle(w)
    /\ LET q == Get("get_evidence_set", s, Null)
           row == evidence_sets[s]
       IN  \/ /\ row.status = "ABSENT"
              /\ Fail(q, "EVIDENCE_SET_NOT_FOUND")
              /\ UNCHANGED job
           \/ /\ row.status = "SEALED"
              /\ Answer(q, 200, [status |-> "SEALED", counts |-> row.counts])
              /\ UNCHANGED <<db, job>>
           \/ /\ row.status = "OPEN"
              /\ job' = [job EXCEPT ![w] = [IdleJob EXCEPT !.pc = "counting", !.req = q]]
              /\ UNCHANGED <<db, sent>>
    /\ UNCHANGED faults

CountObjects(w) ==
    /\ job[w].pc = "counting"
    /\ Answer(job[w].req, 200,
              [status |-> "OPEN", counts |-> object_counts(objects[job[w].req.set_id])])
    /\ job' = [job EXCEPT ![w] = IdleJob]
    /\ UNCHANGED <<db, faults>>

GetManifest(w, s) ==
    /\ Idle(w)
    /\ LET q == Get("get_manifest", s, Null)
       IN  \/ Refused(q) # "NONE" /\ Fail(q, Refused(q))
           \/ /\ Refused(q) = "NONE"
              /\ Answer(q, 200, [manifest |-> evidence_sets[s].manifest])
              /\ UNCHANGED db
    /\ UNCHANGED <<job, faults>>

\* get_adjudication and get_evidence_pack differ in the column they return.
GetAdjudication(w, kind) ==
    /\ Idle(w)
    /\ \/ Fail(Get(kind, Null, Null), "ADJUDICATION_NOT_FOUND")
       \/ \E a \in adjudications :
            /\ Answer(Get(kind, Null, a.id), 200,
                      IF kind = "get_adjudication" THEN a.result ELSE [pack |-> a.pack])
            /\ UNCHANGED db
    /\ UNCHANGED <<job, faults>>

-----------------------------------------------------------------------------
(***************************************************************************)
(* Faults.  sqlite3.OperationalError (a lock not obtained within the busy  *)
(* timeout, an I/O error) rolls back and is answered 503; a crash of an    *)
(* instance loses what its threads were doing and nothing committed.       *)
(***************************************************************************)
DatabaseError(w) ==
    /\ faults < MaxFaults
    /\ faults' = faults + 1
    /\ \/ Idle(w) /\ \E q \in Posts : Fail(q, "SERVICE_BUSY")
       \/ ~Idle(w) /\ Fail(job[w].req, "SERVICE_BUSY")
    /\ job' = [job EXCEPT ![w] = IdleJob]

Crash(i) ==
    /\ faults < MaxFaults
    /\ faults' = faults + 1
    /\ job' = [w \in Workers |-> IF w[1] = i THEN IdleJob ELSE job[w]]
    /\ UNCHANGED <<db, sent>>

Work(w) == Compute(w) \/ Persist(w) \/ CountObjects(w)

Next ==
    \/ \E w \in Workers :
        \/ \E q \in Posts : ReplayRequest(w, q)
        \/ \E q \in Creates : CreateEvidenceSet(w, q)
        \/ \E q \in Adds : AddObjects(w, q)
        \/ \E q \in Seals : Seal(w, q)
        \/ \E q \in Adjudicates : PinSet(w, q)
        \/ Compute(w)
        \/ Persist(w)
        \/ \E s \in SetIds : GetEvidenceSet(w, s) \/ GetManifest(w, s)
        \/ CountObjects(w)
        \/ \E kind \in {"get_adjudication", "get_evidence_pack"} : GetAdjudication(w, kind)
        \/ DatabaseError(w)
    \/ \E i \in Instances : Crash(i)

Spec == Init /\ [][Next]_vars

\* Waitress serves every thread that has work.
Serving == \A w \in Workers : WF_vars(Work(w))

\* A client repeats a request until it is answered (README: a retry after a lost
\* response).
Retries(q) == SF_vars(\E w \in Workers : PinSet(w, q))

-----------------------------------------------------------------------------
(***************************************************************************)
(* Properties.                                                             *)
(***************************************************************************)
SetRows == [status : {"ABSENT", "OPEN", "SEALED"}, created : RequestIds \cup {Null},
            manifest : Rows \cup {Null},
            counts : {object_counts(rows) : rows \in Rows} \cup {Null}]

Packs == UNION {[S -> Times \cup {NoTime}] : S \in SUBSET Fingerprints}

Jobs == [pc : {"idle", "pinned", "computed", "counting"},
         req : Adjudicates \cup {Get("get_evidence_set", s, Null) : s \in SetIds} \cup {Null},
         digest : Rows \cup {Null}, result : Results \cup {Null}, pack : Packs \cup {Null}]

AdjudicationRows ==
    [id : Rows \X Inputs, request_id : RequestIds, set_id : SetIds,
     result : Results, pack : Packs]

TablesOK ==
    /\ evidence_sets \in [SetIds -> SetRows]
    /\ objects \in [SetIds -> Rows]
    /\ \A s \in SetIds, f \in Fingerprints :
          objects[s][f] = NoTime => Kind[f] = "certificate"
    /\ requests = [r \in RequestIds |-> requests[r]]
    /\ adjudications \subseteq AdjudicationRows

\* Types of the tables and of the threads.  Revocation evidence always carries a
\* received_at: the evaluator compares it with the cutoff (revocation.py).
TypeOK ==
    /\ TablesOK
    /\ job \in [Workers -> Jobs]
    /\ faults \in 0..MaxFaults

Sealed(s) == evidence_sets[s].status = "SEALED"

\* The manifest and the counts frozen by seal are those of the rows the set has now:
\* whatever interleaves with the seal, no object enters or leaves behind it.
SealedContentsPinned ==
    \A s \in SetIds : Sealed(s) =>
        /\ evidence_sets[s].manifest = objects[s]
        /\ evidence_sets[s].counts = object_counts(objects[s])

\* A seal, a manifest or a sealed status that was ever answered still describes the
\* set: sealing twice, on any instance, gives the one manifest.
SealedAnswersFinal ==
    sent.status = 200 =>
        /\ sent.req.kind = "seal" =>
              sent.body = SealBody(objects[sent.req.set_id],
                                   object_counts(objects[sent.req.set_id]))
        /\ sent.req.kind = "get_manifest" =>
              sent.body.manifest = objects[sent.req.set_id]
        /\ (sent.req.kind = "get_evidence_set" /\ Sealed(sent.req.set_id)
            /\ sent.body.status = "SEALED") =>
              sent.body.counts = object_counts(objects[sent.req.set_id])

IsPost(q) == q.kind \in {"create_evidence_set", "add_objects", "seal", "adjudicate"}

\* A success the client was told of is the recorded answer of its request id, so a
\* retry after a lost response gets the same answer (run_idempotent, adjudicate).
AnswersAreRecorded ==
    (sent.status \in {200, 201} /\ IsPost(sent.req)) =>
        LET row == requests[sent.req.request_id]
        IN  /\ row.hash = request_fingerprint(sent.req)
            /\ row.status = sent.status
            /\ row.body = sent.body

RecordedAs(r, kind) == Recorded(r) /\ requests[r].hash.kind = kind

\* Exactly once: every set was created by exactly one recorded request and every
\* object row was added by exactly one recorded upload, and conversely.
EffectsMatchRecords ==
    /\ \A s \in SetIds :
          {r \in RequestIds : RecordedAs(r, "create_evidence_set") /\ requests[r].body = s}
            = IF evidence_sets[s].status = "ABSENT" THEN {} ELSE {evidence_sets[s].created}
    /\ \A s \in SetIds, f \in Fingerprints :
          LET adders == {r \in RequestIds : /\ RecordedAs(r, "add_objects")
                                            /\ requests[r].hash.set_id = s
                                            /\ f \in requests[r].body.added}
          IN  Cardinality(adders) = IF objects[s][f] = Absent THEN 0 ELSE 1

Genuine(a) ==
    LET outcome == Engine(a.id[1], a.id[2])
    IN  /\ Sealed(a.set_id) /\ evidence_sets[a.set_id].manifest = a.id[1]
        /\ outcome.error = "NONE" /\ a.result = outcome.result
        /\ a.pack = [f \in outcome.touched |-> a.id[1][f]]

\* A stored adjudication is what the engine says of the sealed contents it names:
\* nothing leaks in between the pin, the computation and the commit, and the pack
\* holds exactly the manifest's rows of the objects the engine touched.
AdjudicationsGenuine == \A a \in adjudications : Genuine(a)

JobPinned(j) ==
    LET outcome == Engine(j.digest, j.req.arg)
    IN  /\ j.pc \in {"pinned", "computed"} =>
              /\ j.req \in Adjudicates /\ Sealed(j.req.set_id)
              /\ j.digest = evidence_sets[j.req.set_id].manifest
        /\ j.pc = "computed" =>
              /\ outcome.error = "NONE" /\ j.result = outcome.result
              /\ j.pack = [f \in outcome.touched |-> j.digest[f]]

\* What a thread carries between the phases of adjudicate is still true of the tables:
\* its set is sealed with the pinned contents, and its result is the engine's verdict
\* on them although the rows were read in a separate, later read.
JobsPinned == \A w \in Workers : JobPinned(job[w])

AnswersVerdict(hash, body) ==
    /\ hash.set_id \in SetIds /\ Sealed(hash.set_id)
    /\ \E a \in adjudications :
          /\ a.id = compute_adjudication_id(evidence_sets[hash.set_id].manifest, hash.arg)
          /\ a.result = body

\* One verdict per adjudication id, and every recorded answer to an adjudication of
\* that content and input, on whichever instance and set, is that verdict.
SingleVerdict ==
    /\ \A a, b \in adjudications : a.id = b.id => a = b
    /\ \A r \in RequestIds :
          RecordedAs(r, "adjudicate") => AnswersVerdict(requests[r].hash, requests[r].body)

\* The request that stored an adjudication is recorded.
AdjudicationsRecorded == \A a \in adjudications : Recorded(a.request_id)

\* The UNIQUE constraint on adjudications.request_id never fires: the handler of
\* sqlite3.IntegrityError in adjudicate is unreachable.
IntegrityErrorUnreachable ==
    \A w \in Workers : (job[w].pc = "computed" /\ ~Known(job[w].req)) =>
        \A a \in adjudications : a.request_id # job[w].req.request_id

\* Concurrent uploads never push a set over the limits its manifest will state.
LimitsRespected == \A s \in SetIds : WithinLimits(objects[s])

KeepsRecords ==
    /\ \A r \in RequestIds : Recorded(r) => requests'[r] = requests[r]
    /\ adjudications \subseteq adjudications'
    /\ \A s \in SetIds : Sealed(s) =>
          evidence_sets'[s] = evidence_sets[s] /\ objects'[s] = objects[s]

\* A recorded answer, a stored adjudication and the contents of a sealed set are
\* never changed or removed, and a set never leaves SEALED.
WriteOnce == [][KeepsRecords]_vars

\* get_evidence_set reads the status of an open set and counts its rows in a second read,
\* and uploads and a seal may come in between.  Its answer is one the set could have given
\* at some moment in between: if the set is sealed by then, the counts are those it was
\* sealed with, the last it had when it was open.
CountsAtRead(w) ==
    LET s == job[w].req.set_id
    IN  Sealed(s) => sent'.body.counts = evidence_sets[s].counts

OpenAnswersLinear == [][\A w \in Workers : CountObjects(w) => CountsAtRead(w)]_vars

\* The last answer is the engine's error on the sealed contents.
AnsweredError(q) ==
    /\ Sealed(q.set_id)
    /\ LET error == Engine(evidence_sets[q.set_id].manifest, q.arg).error
       IN  /\ error # "NONE"
           /\ sent = [req |-> q, status |-> HttpStatus(error), body |-> [error |-> error]]

\* What a repeated adjudication comes to.  Where the engine has a verdict, the request is
\* recorded; where it raises, each repetition is answered with its error.
Settles(q) == Sealed(q.set_id) ~> Known(q) \/ AnsweredError(q)

\* The objects of the uploads recorded for a set.
Uploaded(s) == UNION {DOMAIN requests[r].hash.arg :
    r \in {x \in RequestIds : RecordedAs(x, "add_objects") /\ requests[x].hash.set_id = s}}

\* README "Canonicalization": what a sealed set is depends on the evidence uploaded to
\* it and not on the order of the uploads.
UploadOrderIrrelevant ==
    \A s, t \in SetIds :
        (Sealed(s) /\ Sealed(t) /\ Uploaded(s) = Uploaded(t)) =>
            evidence_sets[s].manifest = evidence_sets[t].manifest

-----------------------------------------------------------------------------
\* The service implements its promise: a set's status and rows, the recorded answers
\* and the stored verdicts, with every phase and fault in between a stutter.
Promise == INSTANCE Ledger WITH
    status   <- [s \in SetIds |-> evidence_sets[s].status],
    contents <- objects,
    answered <- requests,
    verdicts <- {<<a.id[1], a.id[2], a.result>> : a \in adjudications}

\* Every behaviour of the service is one of the ledger's (README "Idempotency, sealing,
\* concurrency").
ImplementsLedger == Promise!Spec
=============================================================================
