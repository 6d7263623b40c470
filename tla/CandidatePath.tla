---------------------------- MODULE CandidatePath ----------------------------
(***************************************************************************)
(* A candidate path as the rules of app/pki.py see it: parsed              *)
(* certificates, leaf first, the trust anchor last.  Index i of a path in  *)
(* the code is position i + 1 here.                                        *)
(***************************************************************************)
EXTENDS Rules

CONSTANTS
    None,          \* an optional field that is absent
    AnyPolicy      \* anyPolicy, the OID in a certificate or the marker of an open set

VARIABLE path

Anchor == Len(path)

\* The certificates the rules look at, and those of them above position i.
Below == 1..Anchor - 1
Above(i) == i + 1..Anchor - 1
=============================================================================
