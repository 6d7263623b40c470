# A verification project for the PKI forensics service

The program is an HTTP service that archives certificates, CRLs and OCSP
responses in *evidence sets*, seals a set, and adjudicates whether a code
signature was valid at the time it was made, given what was known at a cutoff.
Several API instances share one SQLite database. This directory holds TLA+
models of the program, TLC configurations that check them on small instances,
and proofs that TLAPS checks for every value of the constants.

## 1. The system

| part | source | state | operations | talks to |
|---|---|---|---|---|
| API service | `app/api.py` | none of its own; a request's locals between its phases | create, upload, seal, adjudicate, four reads | store (transactions), engine (call) |
| Store | `app/store.py` | tables `evidence_sets`, `objects`, `requests`, `adjudications` | one SQL statement each | SQLite on a shared volume |
| Engine | `app/adjudicate.py` | the active object set, caches of parsed objects | rounds of search, verdict | path discovery, revocation evaluator |
| Path discovery | `app/graph.py` | call stack, touched set, budget, rejection branches | search | evaluator (status of an edge), certificate checks |
| Revocation evaluator | `app/revocation.py` | status cache, accounting, touched set | status | parsed CRLs and OCSP responses |
| Certificate checks | `app/pki.py` | none | parse, name constraints, policies | called by path discovery |
| Profile, metadata | `app/profile.py`, `app/objmeta.py` | limits | descriptors, signature check, metadata | everyone |
| Offline verifier | `app/verify.py` | none | replay of a pack | engine |
| Canonical forms | `app/canonical.py`, `app/derutil.py` | none | JSON, time, DER | everyone |

What is hard in it:

- **Interleaving and atomicity.** Requests run on threads of several processes.
  Mutating endpoints are one `BEGIN IMMEDIATE` transaction, but `adjudicate` is
  two of them around a long computation that reads the database with no
  transaction at all.
- **Retries.** Clients repeat a request whose answer was lost, possibly on
  another instance while the first is still being served, and may reuse an id.
- **Crashes and failed locks** between any two of these steps.
- **Search.** Iterative deepening, a shared budget, a reachability filter
  computed beforehand, a second pass that records the rejection proof, and then
  the whole search again on the objects the first one touched.
- **Revocation.** Views merged from several objects, a selection rule, a cache,
  delegated responders, and an accounting that is shared by all certificates of
  an adjudication.
- **Rules on whole paths.** Name constraints collected in one walk and applied in
  another; policies narrowed certificate by certificate through mappings, under
  three skip counts that start at any certificate and end at any other.
- **Normal forms.** What is hashed, what the engine reads back and what the
  verifier normalizes again must be the same input.

What makes each part correct is listed, with the hazards it answers and their
lines, in `PROJECT.json` ("hazards").

## 2. The modules

| module | models | properties |
|---|---|---|
| `Evidence` | contents of a set; one upload batch as operators | |
| `Service` | the API over the store: instances, threads, faults | service properties |
| `Ledger` | what the service promises, abstractly | refined by `Service` |
| `ServiceProofs`, `AnswerProofs`, `LedgerProofs` | | theorems about `Service` |
| `Rules` | a chain of checks that stops at the first failure | |
| `Explorer` | `graph.Explorer`: the search | search properties |
| `Engine` | `adjudicate._Engine`: rounds and verdict, on top of `Explorer` | decision properties |
| `Verifier` | the pack of a stored adjudication and its replay, on top of `Engine` | `PackVerifies` |
| `Revocation` | `revocation.RevocationEvaluator` with OCSP authorization | evidence properties |
| `Inputs` | `adjudicate.validate_input`, timestamps of `canonical` | normal form properties |
| `CandidatePath` | the path that the rules on whole paths look at | |
| `NameConstraints` | `pki.check_name_constraints` | `NamesExact` |
| `Policies` | `pki.evaluate_policies` | policy properties |
| `PathRules` | an input and a path through validation, both rules and the verifier | composes the four above |
| `PathProofs` | | theorems about the policy, skip count and name rules in `PathRules` |
| `InputProofs` | | theorems about the way of an input through `PathRules` |
| `SearchProofs` | | theorems about `Explorer` |
| `EngineProofs` | | theorems about `Engine` and `Verifier` |
| `RevocationProofs` | | theorems about `Revocation` |
| `MCService`, `MCWorlds`, `MCEngine`, `MCRevocation`, `MCPathRules` | small instances | |

Operators named `X_something` with a comment "Mutant" are plausible wrong
versions of `X`. No specification uses them; they show that a property fails
when the code is wrong in that way.

### Service, Evidence, Ledger

The four tables are four variables. `objects[s]` maps a fingerprint to its
`received_at`, the only stored field that the DER does not determine, or to
`Absent`. A manifest is the rows it lists, and `content_digest` is the manifest:
SHA-256 is taken to be injective, here and wherever a hash names something.

One action is one transaction: `CreateEvidenceSet`, `AddObjects`, `Seal`, and for
an id that is known already `ReplayRequest`. `adjudicate` is three actions.
`PinSet` is phase 1; `Compute` is phase 2, which reads the rows the set has *then*;
`Persist` is phase 3, with its second look-up of the request id. What a thread
carries from one to the next is its `job`. `GetEvidenceSet` and `CountObjects` are
the two reads of an open set. `DatabaseError` is any request answered 503;
`Crash(i)` drops the jobs of an instance. `sent` is the last answer put on the
wire; a client may not receive it and may ask again, since any request can be
sent at any time.

Errors of a request leave the tables alone and are not recorded, as in
`run_idempotent`. What the engine raises is one: it refuses an adjudication
(`EngineRefusals`, 422), or any other exception escapes from it, as on an early year
(disagreement 6), and becomes 500 `INTERNAL` (`EngineErrors`). A repetition of such a
request is computed again and answered with the same error. Body validation (400, and
422 for an unsupported signature algorithm) changes nothing and is left out.

The engine is a constant operator `Engine(rows, input)`: its determinism is an
assumption of these modules. `Engine`, `Explorer` and `Revocation` model what is
behind it.

`Ledger` is the promise: every request id is answered once for good, a set only
grows until it is sealed, and an adjudication is one atomic evaluation of the
engine on the contents of the sealed set. `ImplementsLedger` says that `Service`
implements it, all phases and faults being stutters.

### Explorer and Engine

The recursion of `_dfs` is an explicit stack: `path` is `path_fps` of the
innermost call and `todo[i]` the issuers that call `i` has still to try. `Start`,
`EnterAnchor`, `Enter`, `TryIssuer`, `Return`, `NextPass` and `Exhaust` are the
calls, iterations and returns of the code. The certificates and what every check
finds out about them are the constant record `world`. The order of rules in
`_leaf_prechecks`, `_edge_checks` and `_terminal_checks` is kept, by
`FirstFailing`; rules of one kind that differ only in wording (expired and not
yet valid, CA flag and keyCertSign) are one rule.

`ReachableIn` is what the flood fill of `_compute_anchor_reachable` comes to: the
least set that holds the anchors and is closed under going to children.
`Walks`, `Chains`, `ValidPaths` and `IsBest` are reference definitions with no search
in them: the walks from the leaf up, those that reach an anchor, those that pass every
check, and the first of them in the documented order. The properties compare the
search with them.

`Engine` adds the loop of `_Engine.run`: `Rerun` starts the search again on the
touched objects until it touches all it is given, then `Decide` draws the
verdict. The active set of the code is two sets here: `active` the certificates,
`archive` the CRLs and OCSP responses. What the evaluator of a round touches is
`Read`, the part of the archive that the search of these certificates asks for
(the constant operator `EvidenceOf`), so a round may also be repeated because of
evidence alone. `firstProof` is a history variable. Statuses stay in `world`: that a
status is the same when it is evaluated over touched evidence only is
`TouchedSuffices` of `Revocation`.

### Revocation

`Status(call)` is one call of `status`: a cache hit, or one evaluation.
`Exclusion`, `Views`, `Selected` and `Conclusion` are the sections of `_compute`
in their order. A signature is the key that made it. `Authorized` is
`_verify_ocsp_authorization`: the response is signed by the issuer, or by one of
the certificates in it that passes every check of the loop (`Delegated`); which of
several such certificates is met first decides only the text of the description.
`outcomes` is what the result reports of each certificate (`Report`): the outcome, the
issuer certificate it was computed under, and the records of the objects evaluated,
some of them records of an earlier evaluation. A cached answer adds no report, so the
one reported may name another certificate of the issuer's key than the path holds.
View ids are short sequences of numbers ordered as the strings are. `ParsedCrl` and
`ParsedOcsp` say what `parse_crl` and `parse_ocsp` promise of their results, above all
that a complete CRL with a removal in it is marked unsupported; `RevocationSpec`
begins with any archive of such objects (`Parsed`). A fingerprint names one
certificate (`RevocationAssumption`). The branch
`SERIAL_MISMATCH` is left out: it would need metadata that disagrees with the
response they were computed from.

### Verifier

`Result` (verdict, path, branches, `exploration_complete`) and the touched objects,
certificates and evidence, are what the API stores and packs (`BuildPack`). Branches
are a set: their order in the proof, which the verifier compares, is left out.
The verifier runs the same engine on the objects of the pack alone (`Adjudicate`,
now with `active` the objects of the pack) and demands the same objects and the
same result (`Compare`). A replay that exhausts its budget raises an error and the
pack is refused; `PackVerifies` says that it does not happen for a pack the service
made.

### Inputs

A timestamp is a record of what its text says: how many digits the year has, local
year and hour, the digits of the fraction, the offset. `TimeError` is what
`parse_time` raises, `parse_time` the instant in ticks, `canon_time` its rendering in
UTC, with the fraction padded and trimmed and the year as `strftime` writes it with
glibc, unpadded. Fractions are cut to `FractionWidth` digits on the way.
`validate_input` normalizes both times, `signed_at` and `knowledge_cutoff`, decodes
and encodes the base64 of the signature (a text is its bytes and the bits of its last
character that decoding drops), sorts the anchors and the initial policy set and adds
its default. A policy is the name it was posted by: `anyPolicy` and its OID
`2.5.29.32.0` are two names, so two normal forms, though the policy rule takes them
for one (`Specific`). `Normalize` is the request, `ReadBack` what the engine does with
the normal form, `Renormalize` what the verifier does with it. The two digests and the
signature algorithm are checked for their form, copied and left out. `Power` is the
power of the base, written as a recursive function (in place of `^`) so that it can be
proved about.

### CandidatePath, NameConstraints, Policies, PathRules

A path is a sequence of parsed certificates, leaf first, anchor last, each a record
of the fields the rules read. `Collect` and `CheckNames` are one iteration each of
the two loops of `check_name_constraints`; `Narrow` is one iteration of the walk in
`evaluate_policies` and `Accept` what follows it. Names are sequences of labels
from the root downwards, so the three matchers are statements about prefixes, case
and empty labels included. `PathRules` runs them in the order of
`_terminal_checks`, on a path proposed by the search (`Propose`), for an input that
was validated and read back. In `Explorer` the name rule is `world.excluded`, a set
of pairs (certificate, issuer above it) that do not go together on a path; that a
rule on a path is one on its certificates and those above them is what
`NamesExact` shows.

`Numerator`, `SameInstant`, `Said`, `Permitted`, `Avoids`, `Counter`, `Supports` and
`Supported` are the references: the exact instant a timestamp denotes, a fraction of an
hour with all its digits, what else an input says, what a path should satisfy
certificate by certificate with no walk, and one running counter per skip count.

`Counter` is the semantics that the docstring of `evaluate_policies` and the README
state, not that of RFC 5280: there a self-issued certificate takes nothing from a
counter (6.1.4 h), and the wrap-up takes one more of explicit policy at the leaf
(6.1.5 a), so that `requireExplicitPolicy` 1 right above the leaf binds there and not
here. The documented profile names neither, so this is no disagreement with it.

## 3. What is checked

| run | question | bounds | states | result |
|---|---|---|---|---|
| `service_adjudication` | phases of `adjudicate` against uploads, seals, retries, faults | 2 instances with one thread, 5 ids, 1 set, 2 inputs (one needs the leaf, one exhausts the budget), 1 batch, 1 fault | 21 477 | holds |
| `service_uploads` | batches against each other, a seal and a read of the counts | 5 objects, 2 times, 7 batches, 4 ids, limits of 2 certificates, 1 evidence object, 2 entries, batches of 3 items and 5 bytes, 1 fault | 20 332 | holds |
| `service_liveness` | an adjudication settles | as the first with 3 ids, no uploads, 2 inputs (a verdict, an exception), one retried request per input | 10 867 | holds |
| `service_upload_order` | the digest is independent of upload order | 2 sets, 1 CRL, 2 times | | violated |
| `engine` | completeness, the best path, the rejection proof, VALID exactly when it should be, the rounds end and how soon, packs verify | all graphs of 4 certificates with up to one defect; all graphs on 3 of them with up to two, or with one and every artifact signature, under 4 anchor sets; the forked graphs of 4 with 3 evidence objects; path limit 2, budget 30 | 481 458 | holds |
| `engine_path_limit` | the documented path limit | 3 certificates, limit 2 | | violated |
| `engine_unsupported` | UNSUPPORTED is reported | 4 certificates, one anchor set, budget 40 | | violated |
| `revocation_evidence` | late, touched, selected, freshest, vouched and accounted evidence | one or two objects with one thing wrong with each; a CRL and a delegated response with up to two responder certificates, one thing wrong with each; base, delta and complete CRL; 3 calls in every order | 159 470 | holds |
| `revocation_path` | status does not depend on the path | one complete CRL, two key identifiers for one key, 3 calls in every order | | violated |
| `path_rules` | normal forms, names, skip counts, policies, acceptance | 3 years of 2 hours, fractions of up to 3 digits, offsets up to one hour; paths of up to 5 certificates | 567 039 | holds |
| `names_accumulate` | every CA's constraint holds below it | as `path_rules` | | violated |
| `inputs_early_year` | a normalized time parses | as `path_rules` | | violated |

**Why the bounds are enough for the interesting cases.** In the service, every
conflict is between two actors over one id, one set or one adjudication id; two
instances, a handful of ids and a set give all of them, and a third party (a retry) is
another id or the same one. The limits are set so that two batches are each admitted
and together refused. In the search, four certificates with the leaf second in the
order give two paths of equal length on either side of it, cycles beside them, and a
round that shrinks the set twice; with three, two defects per graph meet. Evidence
*i*, on certificate *i*, is asked for if an active issuer of it passes the checks
before REVOCATION. It is there in the graphs in which two issuers are above an
intermediate (`Forked`), where rounds occur that lose certificates, evidence only, or
both; the others have none. `MaxPathLen` is 2, so that a pass, a round and the
recording pass are each cut on some graphs and not on others; what the search should
find is at most three certificates long then, and the fourth is there to be missed.
The small budget ends some searches and not others, and a replay always has enough of
it. In the evaluator two objects give every kind of competition of views, and three
the merge against a reissued CRL; more objects only repeat the selection. For
timestamps, the first and the last year and the year where the width changes are three
different ones, an offset carries across each of them, and a fraction may be empty,
shorter, as long as and longer than the width. For names, three CAs (one of them with
a name of its own) and the anchor give constraints from above, from the certificate
itself and from the anchor; each kind is enumerated by itself, as the kinds share
nothing but the order of the checks. For policies, a path has two intermediate
certificates with every assertion and mapping and a skip count on either; skip counts
meet on paths of five certificates, where a count of 0, 1 or 2 can begin and end
inside the path. The proofs below lift the bounds of paths.

**Bounds that are not in the code** are `MaxFaults` (crashes and database errors)
and the finite sets of ids and inputs. `MaxPathLen`, `MaxBranches`, the batch and
set limits are the constants of `profile.py` made small.

**Symmetry** is used in the safety runs of the service over request ids and
instances (or sets), which no property tells apart, and never with liveness.

**Deadlock** is not checked for the search, the engine, the evaluator and
the path rules: they stop when they are done.

### Properties worth reading first

- `AdjudicationsGenuine`, `JobsPinned`: a stored verdict is the engine's verdict
  on the contents that its digest names, although the rows are read in a later,
  unprotected read.
- `EffectsMatchRecords`, `AnswersAreRecorded`, `WriteOnce`: exactly once, in both
  directions between effects and recorded requests.
- `IntegrityErrorUnreachable`: the `except sqlite3.IntegrityError` branch of
  `adjudicate` is dead code.
- `FoundIsBest`, `DecisionIsBestOfSet`: the first path found in the last round is
  the best path of the whole set.
- `ProofCoversEveryChain`, `ProofCoversSet`: no chain to an anchor is missing from
  the rejection proof.
- `PackVerifies`: with the pack alone, a genuine adjudication is repeated within the
  budget, object by object.
- `LateEvidenceIrrelevant`, `TouchedSuffices`, `AccountingExact` for the evaluator;
  `EvidenceVouched`: every object an answer rests on, the base of a merged view too, is
  signed by the issuer or by a responder it delegated.
- `NamesExact`, `ValidPoliciesExact`, `AcceptanceExact`: what the two rules on whole
  paths decide, said with no walk along the path.
- `FreshestSelected`: nothing in the archive makes an answer rest on an older view
  than any part of the archive would give alone.
- `OpenAnswersLinear`: a status answer that was torn by uploads and a seal between its
  two reads is still one that the set could have given at some moment in between.
- `SkipCountsExact`: skip counts taken anew from each position exempt the
  certificates that one counter, carried down the path, exempts.
- `OneNormalForm`, `NormalFormFaithful`: inputs that say the same have one adjudication
  id; inputs that have one differ at most in times below the width of a fraction, and
  what is read back is what was posted, but for these digits.

### Fairness

`FairSpec` assumes weak fairness of each thread's next step, because the server
runs its threads, and strong fairness of `PinSet` for two adjudications with ids
and inputs of their own (`Retried`): their clients get no answer and repeat the
request (documented as the way to use request ids), and an instance takes it again
and again. Other clients may use the same ids for anything, but nothing says that
they do. `AdjudicationSettles` says what such a client gets in the end: the recorded
verdict, or, where the engine raises, the error that every repetition is answered with.
An adjudication of an input that the engine fails on is never recorded, however often
it is repeated. There is no fairness for uploads, seals or faults. The search and the engine
are one thread that runs until it returns: weak fairness of their next step.

### Disagreements with the documentation

1. `service_upload_order`: of an object uploaded twice with different
   `received_at` values the first is kept, so the content digest depends on the
   order of uploads and of items.
2. `engine_path_limit`: a path may hold one certificate more than
   `MAX_PATH_LEN`, as an anchor is entered whatever depth is left; never two more
   (`PathOneOver`, section 4).
3. `engine_unsupported`: a branch that failed as `UNSUPPORTED` can vanish in a
   later round, and the verdict is `INVALID`.
4. `revocation_path`: the status cache ignores the issuer's key identifier, on
   which the status depends. With one CRL whose authority key identifier is that of
   the second issuer certificate, a certificate is `UNKNOWN` under the first alone
   (`KEY_MISMATCH`) and `GOOD` under the second alone; asked about under both, it gets
   for either what was concluded for the one asked first.
5. `names_accumulate`: the permitted subtrees of all CAs of a path are one list of
   which any entry admits a name, so a CA can widen what the CAs above it permit;
   documented is that the constraints of a CA apply to all certificates below it and
   accumulate. `NamesExact` states what the code does instead.
6. `inputs_early_year`: a timestamp of a year below 1000 is accepted and its normal
   form does not parse; the engine then fails on a valid input. `received_at` of
   uploads passes through the same two functions.

One more has no run of its own, since two properties state what the code does instead:
`parse_time` drops the digits of a fraction beyond the sixth (`canonical.py:168`), where
the docstring (`canonical.py:11-13`) says that fractional seconds are preserved. Two
timestamps that differ below a microsecond share one normal form, the one way in which
inputs that say different things share an adjudication id (`OneNormalForm`), and the
engine works on the tick that holds the instant (`NormalFormFaithful`).

Seen while modelling, with no run of its own, as no document excludes it:

- `POLICY_MAPPING_ANY` is not raised for mappings that are inhibited, nor for those
  of the leaf, which are never looked at.
- Mappings of a certificate affect the certificate directly below it; the mapping
  count is read at that certificate and not at the one that holds the mappings.
- A DNS constraint that is empty matches the empty name only.
- `exploration_complete` speaks of the last round only. A first round can be cut at the
  path limit and reject; the round after it, over the touched objects, is not cut any
  more, reports `NO_TRUSTED_ANCHOR` and stores `exploration_complete: true`
  (`graph.py:132`), while the set holds a valid path that is one certificate longer
  than the search admits. So `ValidIffPath` speaks of paths of `MaxPathLen + 1`
  certificates or fewer and not of `cutoff`.

## 4. What is proved

All theorems hold for every value of the constants that satisfies the named
assumptions of the modules.

| theorem | says |
|---|---|
| `ServiceProofs!Invariant` | `Spec => []IInv` |
| `TypeCorrect` | `Spec => []TypeOK` |
| `Consistency` | `SealedContentsPinned`, `AdjudicationsGenuine` and `SingleVerdict` |
| `SealedContents`, `OneVerdict`, `ThreadsPinned` | `SealedContentsPinned`, `SingleVerdict`, `JobsPinned` by themselves |
| `NoIntegrityError` | `IntegrityErrorUnreachable` |
| `RecordsWrittenOnce` | `Spec => WriteOnce` |
| `AnswerProofs!AnswersInvariant` | `Spec => []AnswerInv` |
| `RetriesGetTheAnswer` | `AnswersAreRecorded` |
| `AnswersOfSealedSets` | `SealedAnswersFinal` |
| `OpenAnswers` | `Spec => OpenAnswersLinear` |
| `LedgerProofs!LimitsKept` | `LimitsRespected` |
| `EffectsOnce` | `EffectsMatchRecords` |
| `ServiceImplementsLedger` | `Spec => ImplementsLedger` |
| `PathProofs!PolicyInvariant` | `PathSpec => []PolicyInv` |
| `PoliciesOfThePath` | `ValidPoliciesExact` |
| `PolicyVerdict` | `AcceptanceExact` |
| `NameInvariant` | `PathSpec => []NameInv` |
| `NameVerdict` | `NamesExact` |
| `SkipCountsOfThePath` | `SkipCountsExact` |
| `InputProofs!InputInvariant` | `PathSpec => []InputInv` |
| `OneFormPerMeaning` | `OneNormalForm` |
| `NormalFormKept` | `NormalFormFaithful` |
| `SearchProofs!SearchTypeCorrect` | `SearchSpec => []SearchTypeOK` |
| `SearchFindsBest` | `FoundIsBest` |
| `SearchMissesNothing` | `NothingMissed` |
| `SearchProvesRejection` | `ProofCoversEveryChain` |
| `EngineProofs!DecisionFindsBest` | `EngineSpec => []DecisionIsBestOfSet` |
| `VerdictIsSound` | `ValidIffPath` |
| `PathOneOver` | a path found has at most `MaxPathLen + 1` certificates |
| `StoredProofCovers` | `ProofCoversSet` |
| `AdjudicationIsBounded`, `ReplayIsBounded` | `StepsRunOut`, for `EngineSpec` and `VerifierSpec` |
| `EveryPackVerifies` | `VerifierSpec => []PackVerifies` |
| `ReplayDecides` | the three of `EngineSpec`, for `VerifierSpec` |
| `RevocationProofs!RevocationTypeCorrect` | `RevocationSpec => []RevocationTypeOK` |
| `AccountsForTouched` | `AccountingExact` |
| `StatusesVouched` | `EvidenceVouched` |
| `MergesLikeReissue` | `MergeEqualsReissue` |
| `AnswersAreOutcomes` | `AnswersExplained` |
| `LateEvidenceChangesNothing` | `LateEvidenceIrrelevant`, if `OneKeyIdentifier` |
| `TouchedReplays` | `TouchedSuffices`, if `OneKeyIdentifier` |
| `SelectedReplays` | `SelectedSuffices`, if `OneKeyIdentifier` |
| `FreshestWins` | `FreshestSelected`, if `OneKeyIdentifier` |

**Service** (any numbers of instances, threads, ids, sets, objects and faults; from
`EvidenceAssumption` and `ServiceAssumption`: types of the constants, and that the
engine touches only objects that are there). None of the properties is inductive
alone. That a stored verdict is genuine needs that what a thread stores is genuine,
although it computed on rows read after the pin; that needs the rows of a sealed set
to be those of its manifest at every moment (`SealedContentsPinned`), and that a
thread between phases holds the digest of a set that is sealed (`JobsPinned`). That
one id has one verdict needs the look-up of phase 3 and that every recorded answer of
an adjudication names a stored one; as an id is made of contents and input, it covers
two sets with the same contents, too. That the unique constraint never fires needs
`AdjudicationsRecorded`. `IInv` is their conjunction with the types. The lemmas
`...Db` show that each transaction keeps the tables consistent, the lemmas `...Job`
that each step keeps the threads pinned, and `NextInv` puts them together, one
step per action.

**Answers.** Every step falls into one of five ways to answer (`Silent`, `Refusal`,
`Repeat`, `FirstAnswer`, `Read`; lemma `StepAnswers`). `AnswerInv` adds to `IInv` that
a recorded seal describes what its set has come to, that what was last told is
recorded, and that a thread about to count serves a read of one set. What is said of a
sealed set stays true because no step changes a record (`RecordsWrittenOnce`). The
counts of an open answer (`OpenAnswers`) are those of the rows at the second read, and
if the set is sealed by then they are its frozen ones (`SealedContentsPinned`).

**Ledger.** Every step changes the tables in one of four ways or not at all
(`CreateEffect`, `UploadEffect`, `SealEffect`, `VerdictEffect`; lemma `TableSteps`),
and each of them records an id that had no record. The other three results go by
these four cases. `LimitsKept`: what is there and what a batch adds are disjoint, so
the counts of the rows add up to those the code compared with the limits
(`CountsAdd`, `InsertPresent`, `UploadWithinLimits`). `EffectsOnce`: an effect creates
the rows its record names and no other record named (`EffectsInv`).
`ServiceImplementsLedger`: each effect is the step of `Ledger` of the same name, in
the state of the commit; for a verdict this needs `AdjudicationsGenuine`, as the
engine ran on rows read in an earlier step.

**Rules on whole paths** (paths of every length, any policies, labels and matching of
case; from `PathsAssumption`: a path proposed by the search has a trust anchor, and a
skip count is absent or a natural number). The
policy walk is at each position what the reference says of the certificates walked
(`ValidPoliciesExact` is nearly inductive; it needs `Staged`, which says in which
order validation, names and policies take place, and that no certificate walked maps
anyPolicy, `PolicyDecided`). For names, `NameInv` says that what the first loop has
collected at a position is the union over the certificates above it, and that all
certificates that the second loop has passed fit.

`SkipCountsExact` compares the minimum of the counts above a position, each less its
distance, with a counter that runs down the path. The counter is a recursive function,
so first that there is one (`CountsExist`): counters for shorter paths agree where both
are defined, and a least length without one would be the next to one with. Then that it
is above 0 exactly where no count has run out (`CounterHolds`), by a least position at
which the two differ (`LeastFailure`).

**Inputs** (fractions and lists of every length, every base, width and calendar; from
`InputsAssumption`: a base of at least 2, a width of at least 1, and that a timestamp
that was posted holds numbers, digits and an offset, and a list holds numbers). The
invariant `InputInv` only says which step computes what from what; the work is in two
facts about operators. The first, `ReadsTheTick`: what `parse_time` reads is the tick
that holds the exact instant the text denotes (`Tick`, a quotient of the fraction with
all its digits), and all of it if the fraction is no longer than the width. The value
of the first *n* digits is a function `g` with `g[n + 1] = g[n] * Base + e[n + 1]`; by
a least index at which it would fail, more digits add less than one unit of the last
(`ValuesGrow`), and zeros nothing (`ValuesPadded`), so cutting at the width is
division by the scale. The second, `CanonReads`: `parse_time(canon_time(x)) = x` for
every integer, as the first *n* digits written are worth `x \div Power[width - n]`
less the hours (`DigitsOfValue`) and those that `rstrip` takes are zeros
(`TrimmedReads`); hence one normal form means one tick, and one instant one normal
form. A sorted list has the elements of the list and is fixed by them (`SortedIs`: the
rank of an element is an injection into the positions, and so one onto them).
Recursive functions are shown to exist once (`Iterates`). `NormalFormFaithful` leaves
out years before `WideYear`, where disagreement 6 shows the code to fail, and is exact
only for fractions within the width.

**Search** (every graph, any checks, anchors, limits; from `ExplorerAssumption`: the
certificates are finitely many, ordered by fingerprint). `SearchInv` has four parts.
`StackInv`: the stack is a walk from the leaf that passed every check on the way, and
what is still to be tried at a level are issuers that are not on the walk and come
after the one gone into. `ResultInv`: in a deepening pass every valid path within its
limit is `Pending` (it leaves the stack at an issuer not tried yet), and so is every
longer one unless `cutoff` is noted; none is so short that an earlier pass would have
found it. As the issuers of a level are tried in ascending order, what is found is then
the best (`PathIsBest`). `RecordInv`: in the recording pass every walk is pending, or
`Recorded` (it was cut, or every issuer of its end is tried, or a branch settles it) and
its end marked as touched if the search looked at it (`Tapped`). `ControlInv` is the
types and what holds at each value of `pc`.
That the reachability filter prunes no chain is `ChainsReach`.

**Engine** (besides, from `EngineAssumption`: evidence is finite; any evidence may be
asked for by any search). The first round has the whole set; a later one has what the
round before touched, and that either still holds the best path of the whole set
(`Keeps`), or no path of the set is short enough and every issuer the whole set has
for the end of an `Open` walk is still there (`Lacks`). Either is kept by `Rerun`
(`TouchedIsEnough`), and with it the decision of the last round is one on the whole
set. There are no assumptions on the number of rounds; that it is bounded follows.
`StepsLeft` counts two for each unit of the budget left, one for each call on the
stack, one for each pass left, and a whole search for each certificate and each
evidence object still active: a call or an issuer tried spends, a return unwinds, a
pass deepens or is the last, and a round that does not decide loses an object
(`SearchShortens`, `EngineShortens`). So an adjudication takes at most
`(Cardinality(Certs) + Cardinality(Evidence) + 1) * (2 * MaxBranches + MaxPathLen +
4)` steps.

**Verifier.** The replay starts from the set the last round ended with. That it ends
the same way needs that the search is deterministic: `After` is its step as a function
of its state, and `StepIsAfter` says that every step is that one. `Runs` is the least
set of states closed under it, without recursion; it holds one end at most (`OneEnd`).
`PackInv` keeps that the pack was made of such an end, one that touched all its objects
(the condition for `Decide`) and was within the budget; the replay, which is a run from
the same beginning, can end nowhere else (`ReplayEnds`).

**Evaluator** (any archive of parsed objects, any calls in any order; from
`RevocationAssumption`). Ids of views are totally ordered (`IdsDiffer`) and determine
the view (`ViewById`), so a nonempty set of views has exactly one that is selected
(`SelectedBest`, by well-foundedness of strict subsets). The views over a part of the
archive are those whose evidence lies in the part (`ViewsWithin`). So leaving out
evidence that was late, or that was not looked at, changes neither views nor defects
(`UntimelyIrrelevant`); and the evidence of the selected view gives it again, the best
of fewer views (`SelectedAlone`); and the views over a part are among those over the
whole, so the one selected there is no better (`FreshestWins`). `RevocationInv` lifts
this to the cache: each cached outcome is that of some call with its key, and all it
looked at is touched. That gives `AnswersExplained` for every archive, with no
condition. What the four properties say of the *calling* certificate needs more, since
the cache forgets the issuer's key identifier (disagreement 4): `OneKeyIdentifier`,
which is true of the calls of the run `revocation_evidence` and false of those of
`revocation_path`. It is a condition on the certificates uploaded, not one that the
code enforces; `PathIndependent` is refuted without it and is not proved.

Every invariant was first checked with TLC: its parts are invariants of the runs
above or were checked beside them.

Only model-checked:

- `AdjudicationSettles` and `AdjudicationEnds`: liveness under fairness needs ENABLED,
  which the provers do not have. Of `AdjudicationEnds` the part that needs no fairness is
  proved: no adjudication goes on for ever (`StepsRunOut`). That it does not stop before
  it is decided or exhausted is left to TLC.
- The properties of runs that are violated need no proof.

## 5. What is not modelled

- Parsing of DER, X.509, CRLs and OCSP responses (`parse_certificate`, `parse_crl`,
  `parse_ocsp`, `derutil.py`) and the verification of signatures: they fill fields
  from bytes with no state. What they refuse is an outcome of the models (`Parse`,
  `unsupported`, `signed`), and what the evaluator relies on in the results of
  `parse_crl` and `parse_ocsp` is stated in `ParsedCrl` and `ParsedOcsp`.
- JSON of `canonical.py`: a format; hashes of canonical values are modelled
  by the values.
- Steps 1 to 3 and 5 of the verifier, which recompute digests and compare canonical
  bytes: on a pack the service made they hold as hashes are injective and functions
  deterministic; packs that were altered are not modelled.
- `GET /healthz`, `GET /v1/profile`, body validation apart from the input: no state.
- The order of branches in a rejection proof: `branches` is a set. The code keeps them
  in the order of the recording pass, which is deterministic.
- The time and the reason of a revocation in an outcome.
- The layout of a result: wording, the order of keys, the evidence tables.
- `src/acceptance`: a test client and a generator of certificates.

## 6. Plan

Every invariant and action property of a passing run is a theorem. What a further step
would add: the bytes of the evidence pack in `Verifier` (the digests that steps 1 to 3
of the verifier compare, for packs that were altered), and the parsing of CRLs and OCSP
responses, of which `ParsedCrl` and `ParsedOcsp` state the results.
