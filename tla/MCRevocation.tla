---------------------------- MODULE MCRevocation ----------------------------
(***************************************************************************)
(* Two certificates of one authority, asked about under two certificates   *)
(* of the authority's key, and small archives of evidence: any two objects *)
(* with any one thing wrong with each, or a base, its delta and a later    *)
(* complete CRL with any entries.                                          *)
(***************************************************************************)
EXTENDS Revocation

CONSTANTS OtherSki   \* key identifier of the second issuer certificate

MCSerials == {11, 12}
MCTimes == 1..9

Asked(fp, serial, issuer, ski) ==
    [cert |-> [fp |-> fp, serial |-> serial, issuer |-> "ca"],
     issuer |-> [fp |-> issuer, name |-> "ca", key |-> "k1", ski |-> ski]]

MCCalls == {Asked(1, 11, 1, "s1"), Asked(2, 12, 1, "s1"), Asked(1, 11, 2, OtherSki)}

EntriesOf(S) == [MCSerials -> S]

Crl(this, next, entries) ==
    [type |-> "crl", issuer |-> "ca", received_at |-> 1, unsupported |-> FALSE,
     aki |-> None, signer |-> "k1", number |-> 7, base |-> None, idp |-> None,
     this_update |-> this, next_update |-> next, entries |-> entries]

Delta(crl) == [crl EXCEPT !.base = 7, !.number = 8]

Ocsp(this, status, time) ==
    [type |-> "ocsp", received_at |-> 1, unsupported |-> FALSE,
     signer |-> "k1", responder |-> "ca", produced_at |-> this, certs |-> {},
     responses |-> <<[serial |-> 12, name |-> "ca", key |-> "k2", status |-> "good",
                      this_update |-> 9, next_update |-> None, revocation_time |-> None],
                     [serial |-> 11, name |-> "ca", key |-> "k1", status |-> status,
                      this_update |-> this, next_update |-> None,
                      revocation_time |-> time]>>]

\* An object, and the same with one thing wrong.
Faulty(object) ==
    {object, [object EXCEPT !.received_at = 8], [object EXCEPT !.unsupported = TRUE]}
    \cup IF object.type = "ocsp" THEN {[object EXCEPT !.signer = "k2"]}
         ELSE {[object EXCEPT !.aki = "s1"], [object EXCEPT !.aki = "s2"],
               [object EXCEPT !.signer = "k2"], [object EXCEPT !.number = 6],
               [object EXCEPT !.idp = "dp"], [object EXCEPT !.issuer = "other"]}

\* A responder of the authority, and the same with one thing wrong.
Responder ==
    [name |-> "r", issuer |-> "ca", key |-> "kr", signer |-> "k1", unsupported |-> FALSE,
     ocsp_signing |-> TRUE, not_before |-> 2, not_after |-> 4]

Responders ==
    {Responder, [Responder EXCEPT !.issuer = "other"], [Responder EXCEPT !.signer = "k2"],
     [Responder EXCEPT !.unsupported = TRUE], [Responder EXCEPT !.ocsp_signing = FALSE],
     [Responder EXCEPT !.not_before = 4], [Responder EXCEPT !.not_after = 2],
     [Responder EXCEPT !.name = "q", !.key = "k2"]}

\* The response signed by a responder, with one or two certificates in it.
Delegations(ocsp) ==
    {[ocsp EXCEPT !.signer = "kr", !.responder = id, !.certs = {c, d}] :
        id \in {"r", "kr", "k1"}, c \in Responders, d \in Responders}

\* What complete CRLs and deltas list, before or after the signature.
SomeEntries == {e \in EntriesOf({None, 2, 6}) : e[12] # 6 /\ (e[12] = 2 => e[11] # 6)}
SomeChanges == {e \in EntriesOf({None, 2, Removed}) : e[12] # 2}

CrlChoices == UNION {Faulty(Crl(tn[1], tn[2], e)) :
    tn \in {<<3, None>>, <<3, 7>>, <<5, None>>}, e \in SomeEntries}
DeltaChoices == UNION {Faulty(Delta(Crl(5, None, e))) : e \in SomeChanges}
OcspChoices == UNION {Faulty(Ocsp(this, sr[1], sr[2])) :
    this \in {3, 4}, sr \in {<<"good", None>>, <<"unknown", None>>, <<"revoked", None>>,
                             <<"revoked", 2>>, <<"revoked", 6>>}}

OneObject == \E one \in DeltaChoices \cup OcspChoices : evidence = <<one>>

\* A delegated response and a CRL of the same time.
DelegatedResponse ==
    \E status \in {"good", "unknown"}, this \in {3, 4} :
        \E one \in Delegations(Ocsp(this, status, None)), e \in SomeEntries :
            evidence = <<one, Crl(3, 7, e)>>

TwoObjects ==
    \E one \in CrlChoices :
        \E two \in DeltaChoices \cup OcspChoices \cup {Crl(5, None, e) : e \in SomeEntries} :
            evidence = <<one, two>>

ThreeCrls ==
    \E old, new \in EntriesOf({None, 2}), change \in EntriesOf({None, 2, Removed}) :
        evidence = <<Crl(5, None, new), Delta(Crl(5, None, change)), Crl(3, None, old)>>

MCRevocationInit == (OneObject \/ DelegatedResponse \/ TwoObjects \/ ThreeCrls) /\ RevocationFresh

\* One complete CRL that names the key identifier of the second issuer certificate.
OneCrl ==
    evidence = <<[Crl(5, None, [s \in MCSerials |-> None]) EXCEPT !.aki = OtherSki]>>

MCOneCrlSpec == OneCrl /\ RevocationFresh /\ [][RevocationNext]_rvars

MCRevocationSpec == MCRevocationInit /\ [][RevocationNext]_rvars
=============================================================================
