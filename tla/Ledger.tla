------------------------------- MODULE Ledger -------------------------------
(***************************************************************************)
(* What the service promises, with no instances, threads, phases or        *)
(* faults: every request id is answered once for good, a set only grows    *)
(* until it is sealed and then stays as it is, and an adjudication is one  *)
(* atomic evaluation of the engine on the contents the sealed set has.     *)
(* The promise leaves open which received_at a repeated object keeps and   *)
(* which of several errors a refused request gets: a refusal is a stutter. *)
(***************************************************************************)
CONSTANTS
    RequestIds, SetIds, Null,
    Engine(_, _),       \* the outcome on the contents of a set and an input
    EmptyRows,          \* the contents of a new set
    Present(_),         \* the objects among some contents
    WithinLimits(_)     \* some contents respect the limits of the profile

VARIABLES status, contents, answered, verdicts

lvars == <<status, contents, answered, verdicts>>

Init ==
    /\ status = [s \in SetIds |-> "ABSENT"]
    /\ contents = [s \in SetIds |-> EmptyRows]
    /\ answered = [r \in RequestIds |-> [hash |-> Null, status |-> 0, body |-> Null]]
    /\ verdicts = {}

Unanswered(r) == answered[r].status = 0

\* Request id r, unused so far, is answered for good.
Settle(r) ==
    /\ Unanswered(r) /\ ~Unanswered(r)'
    /\ \A x \in RequestIds \ {r} : answered'[x] = answered[x]

Create(r, s) ==
    /\ Settle(r) /\ answered'[r].body = s
    /\ status[s] = "ABSENT" /\ status' = [status EXCEPT ![s] = "OPEN"]
    /\ UNCHANGED <<contents, verdicts>>

Upload(r, s) ==
    /\ Settle(r)
    /\ status[s] = "OPEN"
    /\ \A x \in SetIds \ {s} : contents'[x] = contents[x]
    /\ \A f \in Present(contents[s]) : contents'[s][f] = contents[s][f]
    /\ answered'[r].body.added = Present(contents'[s]) \ Present(contents[s])
    /\ WithinLimits(contents'[s])
    /\ UNCHANGED <<status, verdicts>>

SealSet(r, s) ==
    /\ Settle(r) /\ answered'[r].body.content_digest = contents[s]
    /\ status[s] # "ABSENT" /\ status' = [status EXCEPT ![s] = "SEALED"]
    /\ UNCHANGED <<contents, verdicts>>

Adjudicate(r, s, inp) ==
    LET outcome == Engine(contents[s], inp)
    IN  /\ Settle(r) /\ answered'[r].body = outcome.result
        /\ status[s] = "SEALED"
        /\ outcome.error = "NONE"
        /\ verdicts' = verdicts \cup {<<contents[s], inp, outcome.result>>}
        /\ UNCHANGED <<status, contents>>

Step(r) ==
    LET h == answered'[r].hash
    IN  \/ h.kind = "create_evidence_set" /\ \E s \in SetIds : Create(r, s)
        \/ h.kind = "add_objects" /\ Upload(r, h.set_id)
        \/ h.kind = "seal" /\ SealSet(r, h.set_id)
        \/ h.kind = "adjudicate" /\ Adjudicate(r, h.set_id, h.arg)

Next == \E r \in RequestIds : Unanswered(r) /\ ~Unanswered(r)' /\ Step(r)

Spec == Init /\ [][Next]_lvars
=============================================================================
