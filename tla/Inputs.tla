------------------------------- MODULE Inputs --------------------------------
(***************************************************************************)
(* The normal form of an adjudication input (app/adjudicate.py,            *)
(* validate_input) and of the timestamps in it (app/canonical.py).  The    *)
(* normal form is hashed into the adjudication id, read back by the engine *)
(* and normalized again by the offline verifier.                           *)
(*                                                                         *)
(* A timestamp is text: the number of digits its year is written with,     *)
(* local year and hour, the digits of the fraction, the offset in hours.   *)
(* A base64 text has the bytes it decodes to, Missing if it does not, and  *)
(* the bits of its last character that decoding drops.                     *)
(* The calendar is small: FractionWidth digits of Base instead of six      *)
(* decimal ones, HoursPerYear hours, and years from WideYear on are        *)
(* written with four digits by strftime.  The two digests and the          *)
(* signature algorithm are copied as they are, once their form is checked, *)
(* and left out.                                                           *)
(***************************************************************************)
EXTENDS Rules, SequencesExt

CONSTANTS
    DefaultPolicy, PolicyOids,        \* numbers: 'anyPolicy', and what has the form of an OID
    Zulu,                             \* the offset "Z"
    FirstYear, WideYear, LastYear, HoursPerYear, MaxOffset,
    Base, FractionWidth,
    RawInputs,                        \* the inputs a client may post
    Missing                           \* a field that is absent or not yet computed

\* A timestamp that matches the pattern holds numbers; fingerprints and policies are
\* numbers, and Missing is no list of them.
ASSUME InputsAssumption ==
    /\ {FirstYear, WideYear, LastYear} \subseteq Nat
    /\ FirstYear <= WideYear /\ WideYear <= LastYear
    /\ {HoursPerYear, FractionWidth} \subseteq Nat \ {0} /\ Base \in Nat \ {0, 1}
    /\ DefaultPolicy \in Int /\ Missing \notin Seq(Int)
    /\ \A r \in RawInputs :
          /\ \A t \in {r.signed_at, r.knowledge_cutoff} :
                /\ {t.year, t.hour} \subseteq Int /\ t.offset \in {Zulu} \cup Int
                /\ t.fraction \in Seq(0..Base - 1)
          /\ r.trust_anchors \in Seq(Int)
          /\ r.initial_policy_set \in {Missing} \cup Seq(Int)

VARIABLES
    raw,           \* the input posted
    outcome,       \* "PENDING", "NONE" or the error code of the request
    input,         \* its normal form
    times,         \* the instants the engine reads from it
    renormalized   \* what validate_input makes of the normal form

ivars == <<raw, outcome, input, times, renormalized>>

Power[n \in Nat] == IF n = 0 THEN 1 ELSE Base * Power[n - 1]

Ticks == Power[FractionWidth]

Number(digits) ==
    LET value[n \in 0..Len(digits)] ==
          IF n = 0 THEN 0 ELSE value[n - 1] * Base + digits[n]
    IN  value[Len(digits)]

\* The digits of the fraction, padded and cut to the width.
micro(fraction) ==
    Number([i \in 1..FractionWidth |-> IF i \in DOMAIN fraction THEN fraction[i] ELSE 0])

\* Hours of UTC since year 0.
Hours(t) == t.year * HoursPerYear + t.hour - (IF t.offset = Zulu THEN 0 ELSE t.offset)

\* What parse_time raises, "NONE" if nothing: the pattern, the offset, the datetime,
\* its conversion to UTC.
TimeError(t) ==
    FirstFailing(
      <<Rule("ValueError", t.digits = 4),
        Rule("ValueError", t.offset = Zulu \/ t.offset \in -MaxOffset..MaxOffset),
        Rule("ValueError", t.year \in FirstYear..LastYear /\ t.hour \in 0..HoursPerYear - 1),
        Rule("OverflowError", Hours(t) \div HoursPerYear \in FirstYear..LastYear)>>)

parse_time(t) == Hours(t) * Ticks + micro(t.fraction)

\* rstrip("0")
Trimmed(digits) ==
    SubSeq(digits, 1, Max({0} \cup {i \in DOMAIN digits : digits[i] # 0}))

\* Mutant: the digits are written without leading zeros.
canon_time_unpadded(instant) ==
    LET hours == instant \div Ticks
        n == instant % Ticks
        needed == {w \in 0..FractionWidth : n < Power[w]}
        width == CHOOSE w \in needed : \A v \in needed : w <= v
    IN  [digits |-> IF hours \div HoursPerYear < WideYear THEN 3 ELSE 4,
         year |-> hours \div HoursPerYear, hour |-> hours % HoursPerYear,
         fraction |-> Trimmed([i \in 1..width |-> (n \div Power[width - i]) % Base]),
         offset |-> Zulu]

\* strftime does not pad the year; the fraction is padded and trimmed.
canon_time(instant) ==
    LET hours == instant \div Ticks
        digit(i) == (instant \div Power[FractionWidth - i]) % Base
    IN  [digits |-> IF hours \div HoursPerYear < WideYear THEN 3 ELSE 4,
         year |-> hours \div HoursPerYear, hour |-> hours % HoursPerYear,
         fraction |-> Trimmed([i \in 1..FractionWidth |-> digit(i)]),
         offset |-> Zulu]

\* sorted(set(...))
Sorted(list) ==
    LET S == ToSet(list)
        Rank(e) == Cardinality({f \in S : f <= e})
    IN  [i \in 1..Cardinality(S) |-> CHOOSE e \in S : Rank(e) = i]

\* Mutant: an empty initial policy set stays empty.
InitialPolicies_empty(r) ==
    IF r.initial_policy_set = Missing THEN <<DefaultPolicy>> ELSE Sorted(r.initial_policy_set)

\* No initial policy set, and an empty one, stand for anyPolicy.
InitialPolicies(r) ==
    IF r.initial_policy_set \in {Missing, <<>>} THEN <<DefaultPolicy>>
    ELSE Sorted(r.initial_policy_set)

b64d(text) == text.bytes

b64e(bytes) == [bytes |-> bytes, spare |-> 0]

\* The first of the two times that is wrong decides.
TimesError(r) ==
    IF TimeError(r.signed_at) = "NONE" THEN TimeError(r.knowledge_cutoff)
    ELSE TimeError(r.signed_at)

\* The error validate_input answers with; an OverflowError is no ValueError and becomes
\* an internal error.
InputError(r) ==
    FirstFailing(<<Rule("VALIDATION", b64d(r.signature) \notin {Missing, <<>>}),
                   Rule("VALIDATION", TimesError(r) # "ValueError"),
                   Rule("INTERNAL", TimesError(r) # "OverflowError"),
                   Rule("VALIDATION", r.trust_anchors # <<>>),
                   Rule("VALIDATION", r.initial_policy_set = Missing
                            \/ ToSet(r.initial_policy_set) \subseteq {DefaultPolicy} \cup PolicyOids)>>)

validate_input(r) ==
    [signature |-> b64e(b64d(r.signature)),
     signed_at |-> canon_time(parse_time(r.signed_at)),
     knowledge_cutoff |-> canon_time(parse_time(r.knowledge_cutoff)),
     trust_anchors |-> Sorted(r.trust_anchors),
     initial_policy_set |-> InitialPolicies(r)]

InputsFresh ==
    /\ outcome = "PENDING" /\ input = Missing
    /\ times = Missing /\ renormalized = Missing

\* The request is validated.
Normalize ==
    /\ outcome = "PENDING"
    /\ outcome' = InputError(raw)
    /\ input' = IF InputError(raw) = "NONE" THEN validate_input(raw) ELSE Missing
    /\ UNCHANGED <<raw, times, renormalized>>

\* The engine reads the times back; an exception is an internal error.
ReadBack ==
    /\ outcome = "NONE" /\ times = Missing
    /\ IF TimesError(input) = "NONE"
       THEN /\ times' = [signed_at |-> parse_time(input.signed_at),
                         knowledge_cutoff |-> parse_time(input.knowledge_cutoff)]
            /\ UNCHANGED outcome
       ELSE outcome' = "INTERNAL" /\ UNCHANGED times
    /\ UNCHANGED <<raw, input, renormalized>>

\* The verifier normalizes the recorded input.
Renormalize ==
    /\ outcome = "NONE" /\ times # Missing /\ renormalized = Missing
    /\ renormalized' =
          IF InputError(input) = "NONE" THEN validate_input(input) ELSE Missing
    /\ UNCHANGED <<raw, outcome, input, times>>

-----------------------------------------------------------------------------
(***************************************************************************)
(* Properties.                                                             *)
(***************************************************************************)

TimeFields == {"signed_at", "knowledge_cutoff"}

\* The instant a timestamp denotes is the fraction Numerator over Scale of an hour, exactly.
Scale(t) == Power[Len(t.fraction)]

Numerator(t) ==
    (t.year * HoursPerYear + t.hour - (IF t.offset = Zulu THEN 0 ELSE t.offset)) * Scale(t)
    + Number(t.fraction)

SameInstant(t, u) == Numerator(t) * Scale(u) = Numerator(u) * Scale(t)

\* The tick that holds the instant: the digits beyond the width are dropped.
Tick(t) == (Numerator(t) * Ticks) \div Scale(t)

\* What an input says besides its times.  Policies are taken by the name posted: two names,
\* 'anyPolicy' and its OID, mean the same to the policy rule and are two things said here.
Said(r) ==
    [signature |-> r.signature.bytes, trust_anchors |-> ToSet(r.trust_anchors),
     initial_policy_set |-> IF r.initial_policy_set \in {Missing, <<>>} THEN {DefaultPolicy}
                            ELSE ToSet(r.initial_policy_set)]

\* README "Canonicalization": inputs that say the same, in other offsets, fractions, orders,
\* repetitions or base64 spellings, share one normal form and so one adjudication id.
\* Inputs that share one say the same, but for times within one tick, of which canon_time
\* keeps no more (where canonical.py's docstring says that fractions are preserved).
OneNormalForm ==
    (input # Missing /\ times = Missing) =>
        LET said == Said(raw)
        IN  \A r \in RawInputs : InputError(r) = "NONE" =>
                /\ (Said(r) = said /\ \A f \in TimeFields : SameInstant(r[f], raw[f])) =>
                      validate_input(r) = input
                /\ validate_input(r) = input =>
                      Said(r) = said /\ \A f \in TimeFields : Tick(r[f]) = Tick(raw[f])

\* Years that strftime writes with all their digits.
WideYears ==
    \A f \in TimeFields : \A y \in FirstYear..WideYear - 1 :
        Tick(raw[f]) \div (Ticks * HoursPerYear) # y

\* The engine works on the ticks that hold the instants the client wrote, which the normal
\* form denotes exactly if no fraction is longer than the width, and the verifier accepts
\* the recorded input and finds it in normal form.  Years that strftime writes short are
\* left out.
NormalFormFaithful ==
    (input # Missing /\ WideYears) =>
        /\ outcome = "NONE" /\ InputError(input) = "NONE"
        /\ \A f \in TimeFields :
              /\ times # Missing => times[f] = Tick(raw[f])
              /\ Len(raw[f].fraction) <= FractionWidth => SameInstant(input[f], raw[f])
        /\ renormalized # Missing => renormalized = input

\* README "Canonicalization": timestamps are RFC 3339, normalized to UTC; so every
\* timestamp that was accepted and normalized parses again.
NormalizedTimeParses == input # Missing => TimesError(input) = "NONE"
=============================================================================
