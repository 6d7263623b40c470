--------------------------- MODULE NameConstraints ---------------------------
(***************************************************************************)
(* check_name_constraints (app/pki.py): one loop collects the constraints  *)
(* that apply to each certificate, a second one checks its names.  A DNS   *)
(* name, the host of a URI and a directory name are sequences of labels    *)
(* that begin at the root, so a subtree is a prefix: "a.example.com." is   *)
(* <<"", "com", "example", "a">>, the constraint ".example.com" is         *)
(* <<"com", "example", "">>.  A URI without a host is None.                *)
(***************************************************************************)
EXTENDS CandidatePath, SequencesExt

CONSTANT LowerCase     \* lower case of every label

VARIABLES
    collected,     \* position the first loop stands at
    permitted,     \* constraints collected so far, by kind
    excluded,
    applies,       \* what applies to each position
    checked,       \* position the second loop stands at
    nameResult     \* "PENDING", "NONE" or the code of the failure

nvars == <<collected, permitted, excluded, applies, checked, nameResult>>

Kinds == {"dns", "uri", "dir"}
Nothing == [k \in Kinds |-> {}]

Lower(labels) == [i \in DOMAIN labels |-> LowerCase[labels[i]]]

\* str.rstrip("."), at the root end.
RStrip(labels) ==
    LET dots == {i \in 0..Len(labels) - 1 : \A j \in 1..i : labels[j] = ""}
    IN  SubSeq(labels, Max(dots) + 1, Len(labels))

\* An empty constraint matches the empty name alone.
dns_name_matches(name, constraint) ==
    LET c == RStrip(Lower(constraint))
        n == RStrip(Lower(name))
    IN  n = c \/ (c # <<>> /\ IsPrefix(c, n))

uri_name_matches(host, constraint) ==
    LET c == Lower(constraint)
    IN  /\ host # None
        /\ IF Len(c) > 1 /\ Last(c) = "" THEN IsStrictPrefix(Front(c), Lower(host))
           ELSE Lower(host) = c

dir_name_matches(name, constraint) == IsPrefix(constraint, name)

Matches(kind, name, constraint) ==
    CASE kind = "dns" -> dns_name_matches(name, constraint)
      [] kind = "uri" -> uri_name_matches(name, constraint)
      [] kind = "dir" -> dir_name_matches(name, constraint)

\* The names of a certificate by kind; its subject is a directory name.
NamesOf(cert) == [cert.san EXCEPT !["dir"] = @ \cup {cert.subject}]

NamesFresh ==
    /\ collected = 0 /\ checked = 0
    /\ permitted = Nothing /\ excluded = Nothing /\ applies = <<>>
    /\ nameResult = "PENDING"

\* check_name_constraints is called with p.
StartNames(p) ==
    /\ collected' = Len(p) - 1 /\ checked' = Len(p) - 1
    /\ UNCHANGED <<permitted, excluded, applies, nameResult>>

\* Mutant: a certificate's own constraints apply to itself.
Collect_own ==
    /\ collected > 0 /\ nameResult = "PENDING"
    /\ permitted' = [k \in Kinds |-> permitted[k] \cup path[collected].permitted[k]]
    /\ excluded' = [k \in Kinds |-> excluded[k] \cup path[collected].excluded[k]]
    /\ applies' = <<[permitted |-> permitted', excluded |-> excluded']>> \o applies
    /\ collected' = collected - 1
    /\ UNCHANGED <<checked, nameResult>>

\* One iteration of the first loop, from the certificate below the anchor downwards.
Collect ==
    /\ collected > 0 /\ nameResult = "PENDING"
    /\ applies' = <<[permitted |-> permitted, excluded |-> excluded]>> \o applies
    /\ permitted' = [k \in Kinds |-> permitted[k] \cup path[collected].permitted[k]]
    /\ excluded' = [k \in Kinds |-> excluded[k] \cup path[collected].excluded[k]]
    /\ collected' = collected - 1
    /\ UNCHANGED <<checked, nameResult>>

\* Exclusion is decided before permission, kind after kind.
NameFailure(names, limits) ==
    LET Clear(k) == ~\E n \in names[k], c \in limits.excluded[k] : Matches(k, n, c)
        Within(k) == \/ limits.permitted[k] = {}
                     \/ \A n \in names[k] :
                           \E c \in limits.permitted[k] : Matches(k, n, c)
    IN  FirstFailing(<<Rule("NAME_CONSTRAINT_EXCLUDED", Clear("dns")),
                       Rule("NAME_CONSTRAINT_NOT_PERMITTED", Within("dns")),
                       Rule("NAME_CONSTRAINT_EXCLUDED", Clear("uri")),
                       Rule("NAME_CONSTRAINT_NOT_PERMITTED", Within("uri")),
                       Rule("NAME_CONSTRAINT_EXCLUDED", Clear("dir")),
                       Rule("NAME_CONSTRAINT_NOT_PERMITTED", Within("dir"))>>)

\* One iteration of the second loop, in the same order; past the leaf the names pass.
CheckNames ==
    /\ collected = 0 /\ nameResult = "PENDING"
    /\ IF checked = 0
       THEN nameResult' = "NONE" /\ UNCHANGED checked
       ELSE LET failure == NameFailure(NamesOf(path[checked]), applies[checked])
            IN  IF failure = "NONE"
                THEN checked' = checked - 1 /\ UNCHANGED nameResult
                ELSE nameResult' = failure /\ UNCHANGED checked
    /\ UNCHANGED <<collected, permitted, excluded, applies>>

NamesStep == Collect \/ CheckNames

-----------------------------------------------------------------------------
(***************************************************************************)
(* References.                                                             *)
(***************************************************************************)
Avoids(i, p) ==
    \A k \in Kinds : \A n \in NamesOf(path[i])[k] :
        ~\E c \in path[p].excluded[k] : Matches(k, n, c)

\* The subtrees of one kind that the certificates above a position permit together.
PermittedAbove(i, k) == UNION {path[p].permitted[k] : p \in Above(i)}

Permitted(i) ==
    \A k \in Kinds : PermittedAbove(i, k) # {} =>
        \A n \in NamesOf(path[i])[k] : \E c \in PermittedAbove(i, k) : Matches(k, n, c)

\* A path passes exactly if every certificate keeps out of every subtree that some
\* certificate above it excludes, the anchor apart, and inside those permitted above it.
\* A failure is that of the topmost certificate at fault.
NamesExact ==
    LET Fits(i) == Permitted(i) /\ \A p \in Above(i) : Avoids(i, p)
    IN  /\ nameResult = "NONE" => \A i \in Below : Fits(i)
        /\ nameResult \notin {"NONE", "PENDING"} =>
              ~Fits(checked) /\ \A i \in Above(checked) : Fits(i)

\* pki.py: constraints of CA certificates apply to all certificates below them.  Each
\* CA that permits subtrees of a kind confines every name of that kind below it.
EveryConstraintHolds ==
    nameResult = "NONE" =>
        \A p \in Below : \A i \in 1..p - 1 : \A k \in Kinds :
            path[p].permitted[k] # {} =>
                \A n \in NamesOf(path[i])[k] :
                    \E c \in path[p].permitted[k] : Matches(k, n, c)
=============================================================================
