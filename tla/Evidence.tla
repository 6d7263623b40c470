------------------------------ MODULE Evidence ------------------------------
(***************************************************************************)
(* The contents of an evidence set and what an upload batch does to them   *)
(* (app/api.py add_objects, app/store.py objects table).  A fingerprint    *)
(* stands for one (type, DER) pair; the SHA-256 that names it is taken to  *)
(* be injective, so a fingerprint and the object are the same thing here.  *)
(* An object row keeps the one client-declared field that the DER does not *)
(* determine, received_at.  The digest of a manifest is modelled by the    *)
(* rows it hashes.                                                         *)
(***************************************************************************)
EXTENDS Integers, Sequences, FiniteSets, FiniteSetsExt

CONSTANTS
    Fingerprints,    \* the DER objects clients may upload
    Times,           \* canonical received_at values
    NoTime,          \* received_at absent (null), legal for certificates only
    Absent,          \* the object is not in the set
    Kind,            \* object type of a fingerprint
    Entries,         \* revocation_entry_count of a fingerprint
    Size,            \* decoded DER length
    Parse,           \* what decoding the item does: see ParseOutcomes
    MaxBatchObjects, MaxBatchBytes,
    MaxCertificates, MaxRevocationEvidence, MaxRevocationEntries

OBJECT_TYPES == {"certificate", "crl", "ocsp"}

\* compute_meta returns, raises ParseError, or raises anything else.
ParseOutcomes == {"ok", "ParseError", "exception"}

ASSUME EvidenceAssumption ==
    /\ IsFiniteSet(Fingerprints)
    /\ NoTime \notin Times
    /\ Absent \notin Times \cup {NoTime}
    /\ Kind \in [Fingerprints -> OBJECT_TYPES]
    /\ Entries \in [Fingerprints -> Nat]
    /\ Size \in [Fingerprints -> Nat]
    /\ Parse \in [Fingerprints -> ParseOutcomes]
    /\ {MaxBatchObjects, MaxBatchBytes, MaxCertificates,
        MaxRevocationEvidence, MaxRevocationEntries} \subseteq Nat

-----------------------------------------------------------------------------
\* The objects table restricted to one set: PRIMARY KEY(set_id, fingerprint).
Rows == [Fingerprints -> Times \cup {NoTime, Absent}]

EmptyRows == [f \in Fingerprints |-> Absent]

Present(rows) == {f \in Fingerprints : rows[f] # Absent}

OfType(S, types) == {f \in S : Kind[f] \in types}

\* The sum of the entries of each object, counted entry by entry.
EntryTotal(S) == Cardinality(UNION {{f} \X (1..Entries[f]) : f \in S})

CountsOf(S) ==
    [certificates        |-> Cardinality(OfType(S, {"certificate"})),
     revocation_evidence |-> Cardinality(OfType(S, {"crl", "ocsp"})),
     revocation_entries  |-> EntryTotal(S),
     total_objects       |-> Cardinality(S)]

object_counts(rows) == CountsOf(Present(rows))

-----------------------------------------------------------------------------
(***************************************************************************)
(* One batch.  An item is one entry of the "objects" list.                 *)
(***************************************************************************)
Items == [fp : Fingerprints, received_at : Times \cup {NoTime}]

\* Mutant: received_at may be left out for any type.
TimeDecodes_any(item) == TRUE

\* received_at is decoded before the DER is parsed.
TimeDecodes(item) == item.received_at # NoTime \/ Kind[item.fp] = "certificate"

Accepted(item) == TimeDecodes(item) /\ Parse[item.fp] = "ok"

\* An exception other than ParseError is not caught per item.
Raises(item) == TimeDecodes(item) /\ Parse[item.fp] = "exception"

rejected(batch) == {i \in DOMAIN batch : ~Accepted(batch[i])}

parsed(batch) == DOMAIN batch \ rejected(batch)

total_bytes(batch) == MapThenSumSet(LAMBDA i : Size[batch[i].fp], parsed(batch))

\* The in-batch "seen" table keeps the first item of each fingerprint.
IsFirst(batch, i) ==
    /\ i \in parsed(batch)
    /\ \A j \in parsed(batch) : batch[j].fp = batch[i].fp => i <= j

unique(batch) == {i \in DOMAIN batch : IsFirst(batch, i)}

\* Mutant: the check against the rows already stored is dropped.
new_objects_unchecked(batch, rows) == {batch[i].fp : i \in unique(batch)}

new_objects(batch, rows) ==
    {batch[i].fp : i \in {j \in unique(batch) : rows[batch[j].fp] = Absent}}
duplicates(batch, rows) ==
    {batch[i].fp : i \in {j \in parsed(batch) :
                            j \notin unique(batch) \/ rows[batch[j].fp] # Absent}}

\* insert_object for every new object; INSERT OR IGNORE leaves a stored row alone.
insert_objects(batch, rows) ==
    [f \in Fingerprints |->
        IF f \in new_objects(batch, rows)
        THEN batch[CHOOSE i \in unique(batch) : batch[i].fp = f].received_at
        ELSE rows[f]]

\* Mutant: the limits are checked against the batch alone.
LimitsAdmit_batch(batch, rows) ==
    LET new == CountsOf(new_objects(batch, rows))
    IN  /\ new.certificates <= MaxCertificates
        /\ new.revocation_evidence <= MaxRevocationEvidence
        /\ new.revocation_entries <= MaxRevocationEntries

\* Whether the set's resource limits admit the new objects.
LimitsAdmit(batch, rows) ==
    LET old == object_counts(rows)
        new == CountsOf(new_objects(batch, rows))
    IN  /\ old.certificates + new.certificates <= MaxCertificates
        /\ old.revocation_evidence + new.revocation_evidence <= MaxRevocationEvidence
        /\ old.revocation_entries + new.revocation_entries <= MaxRevocationEntries

\* The error that aborts the whole batch, in the order the handler meets them.
AddError(batch, rows) ==
    CASE Len(batch) > MaxBatchObjects             -> "LIMIT_EXCEEDED"
      [] Len(batch) <= MaxBatchObjects
         /\ \E i \in DOMAIN batch : Raises(batch[i]) -> "INTERNAL"
      [] OTHER -> IF total_bytes(batch) > MaxBatchBytes \/ ~LimitsAdmit(batch, rows)
                  THEN "LIMIT_EXCEEDED" ELSE "NONE"

\* A batch is fingerprinted as an unordered collection of canonical items.
canon_objects(batch) ==
    [item \in {batch[i] : i \in DOMAIN batch} |->
        Cardinality({i \in DOMAIN batch : batch[i] = item})]

\* Sealed sets never exceed the limits the manifest states.
WithinLimits(rows) ==
    LET c == object_counts(rows)
    IN  /\ c.certificates <= MaxCertificates
        /\ c.revocation_evidence <= MaxRevocationEvidence
        /\ c.revocation_entries <= MaxRevocationEntries
=============================================================================
