----------------------------- MODULE InputProofs -----------------------------
(***************************************************************************)
(* Inputs that say the same have one normal form, and what is read back    *)
(* from it is what was posted, for timestamps with fractions of every      *)
(* length, in every base and width, and lists of every length.             *)
(***************************************************************************)
EXTENDS PathProofs, FiniteSetTheorems, FunctionTheorems

(***************************************************************************)
(* Recursive functions.  A function that is defined by recursion exists,   *)
(* as it does up to every number.                                          *)
(***************************************************************************)
Steps(F, S) == F \in [Nat -> [S -> S]]

Iteration(g, S, a, F) == g \in [Nat -> S] /\ g[0] = a /\ \A n \in Nat : g[n + 1] = F[n][g[n]]

LEMMA Iterates ==
    ASSUME NEW S, NEW a \in S, NEW F, Steps(F, S)
    PROVE  \E g : Iteration(g, S, a, F)
<1> USE DEF Steps
<1> DEFINE Upto(h, n) == /\ h \in [0..n -> S] /\ h[0] = a
                         /\ \A j \in 0..n - 1 : h[j + 1] = F[j][h[j]]
           bad == {n \in Nat : ~\E h : Upto(h, n)}
<1>1. ASSUME NEW n \in Nat PROVE \E h : Upto(h, n)
  <2> SUFFICES ASSUME bad # {} PROVE FALSE
    OBVIOUS
  <2>1. PICK m \in bad : m = 0 \/ (m - 1 \in Nat /\ m - 1 \notin bad)
    <3> HIDE DEF bad
    <3>1. bad \in SUBSET Nat
      BY DEF bad
    <3> QED BY <3>1, LeastFailure
  <2>2. CASE m = 0
    <3> DEFINE h == [j \in 0..0 |-> a]
    <3>1. Upto(h, 0)
      OBVIOUS
    <3> QED BY <2>1, <2>2, <3>1
  <2>3. CASE m # 0
    <3>1. m - 1 \in Nat /\ m \in Nat
      BY <2>1, <2>3
    <3>2. PICK k : Upto(k, m - 1)
      BY <2>1, <2>3
    <3> DEFINE h == [j \in 0..m |-> IF j = m THEN F[m - 1][k[m - 1]] ELSE k[j]]
    <3>3. F[m - 1][k[m - 1]] \in S
      BY <3>1, <3>2
    <3>4. h \in [0..m -> S] /\ h[0] = a
      BY <3>1, <3>2, <3>3
    <3>5. ASSUME NEW j \in 0..m - 1 PROVE h[j + 1] = F[j][h[j]]
      <4>1. CASE j = m - 1
        BY <3>1, <4>1
      <4>2. CASE j # m - 1
        BY <3>1, <3>2, <4>2
      <4> QED BY <4>1, <4>2
    <3>6. Upto(h, m)
      BY <3>4, <3>5
    <3> HIDE DEF h, Upto
    <3> QED BY <2>1, <3>6
  <2> QED BY <2>2, <2>3
<1>2. ASSUME NEW n \in Nat, NEW h, NEW k, Upto(h, n), Upto(k, n + 1) PROVE h[n] = k[n]
  <2> DEFINE differ == {j \in Nat : j <= n /\ h[j] # k[j]}
  <2> SUFFICES ASSUME differ # {} PROVE FALSE
    OBVIOUS
  <2>1. PICK j \in differ : j = 0 \/ (j - 1 \in Nat /\ j - 1 \notin differ)
    <3> HIDE DEF differ
    <3>1. differ \in SUBSET Nat
      BY DEF differ
    <3> QED BY <3>1, LeastFailure
  <2>2. j # 0
    BY <1>2, <2>1
  <2>3. j - 1 \in 0..n - 1 /\ j - 1 \in 0..n /\ (j - 1) + 1 = j /\ h[j - 1] = k[j - 1]
    BY <2>1, <2>2
  <2>4. h[j] = F[j - 1][h[j - 1]] /\ k[j] = F[j - 1][k[j - 1]]
    BY <1>2, <2>3
  <2> QED BY <2>1, <2>3, <2>4
<1> DEFINE H(n) == CHOOSE h : Upto(h, n)
           g == [n \in Nat |-> H(n)[n]]
<1>3. \A n \in Nat : Upto(H(n), n)
  <2> HIDE DEF Upto
  <2> QED BY <1>1
<1>4. g \in [Nat -> S]
  <2> HIDE DEF H
  <2> QED BY <1>3
<1>5. g[0] = a
  <2> HIDE DEF H
  <2> QED BY <1>3
<1>6. ASSUME NEW n \in Nat PROVE g[n + 1] = F[n][g[n]]
  <2>1. Upto(H(n), n) /\ Upto(H(n + 1), n + 1)
    <3> HIDE DEF H, Upto
    <3> QED BY <1>3
  <2>2. H(n)[n] = H(n + 1)[n]
    <3> HIDE DEF H, Upto
    <3> QED BY <1>2, <2>1
  <2>3. H(n + 1)[n + 1] = F[n][H(n + 1)[n]]
    <3> HIDE DEF H
    <3> QED BY <2>1
  <2> HIDE DEF H
  <2> QED BY <2>2, <2>3
<1> HIDE DEF g
<1> QED BY <1>4, <1>5, <1>6 DEF Iteration

\* The powers of the base are positive, and each is Base times the one before.
LEMMA Powers ==
    /\ Power \in [Nat -> Nat \ {0}] /\ Power[0] = 1
    /\ \A n \in Nat : Power[n + 1] = Base * Power[n]
<1> DEFINE F == [n \in Nat |-> [v \in Nat \ {0} |-> Base * v]]
<1>1. F \in [Nat -> [Nat \ {0} -> Nat \ {0}]]
  BY InputsAssumption
<1>2. PICK g : Iteration(g, Nat \ {0}, 1, F)
  <2>1. Steps(F, Nat \ {0})
    BY <1>1 DEF Steps
  <2> HIDE DEF F
  <2> QED BY <2>1, Iterates
<1> USE DEF Iteration
<1>3. \A n \in Nat : g[n + 1] = Base * g[n]
  BY <1>2
<1>4. g = [n \in Nat |-> IF n = 0 THEN 1 ELSE Base * g[n - 1]]
  <2>1. ASSUME NEW n \in Nat, n # 0 PROVE g[n] = Base * g[n - 1]
    <3>1. n - 1 \in Nat /\ (n - 1) + 1 = n
      BY <2>1
    <3> QED BY <1>3, <3>1
  <2> QED BY <1>2, <2>1
<1>5. Power = [n \in Nat |-> IF n = 0 THEN 1 ELSE Base * Power[n - 1]]
  BY <1>4 DEF Power
<1>6. ASSUME NEW n \in Nat PROVE Power[n] = g[n]
  <2> DEFINE bad == {m \in Nat : Power[m] # g[m]}
  <2> SUFFICES ASSUME bad # {} PROVE FALSE
    OBVIOUS
  <2>1. PICK m \in bad : m = 0 \/ (m - 1 \in Nat /\ m - 1 \notin bad)
    <3> HIDE DEF bad
    <3>1. bad \in SUBSET Nat
      BY DEF bad
    <3> QED BY <3>1, LeastFailure
  <2> QED BY <1>4, <1>5, <2>1
<1>7. Power = g
  BY <1>5, <1>6, <1>2
<1> QED
  BY <1>2, <1>3, <1>7

-----------------------------------------------------------------------------
(***************************************************************************)
(* Digits.  The value of the first n digits, n by n, and how the values of *)
(* two numbers of digits compare.                                          *)
(***************************************************************************)
Digits == 0..Base - 1

Values(g, e) ==
    /\ g \in [Nat -> Nat] /\ g[0] = 0
    /\ \A n \in Nat : g[n + 1] = g[n] * Base + e[n + 1]

\* Digits without end have values.
LEMMA ValuesExist ==
    ASSUME NEW e \in [Nat -> Digits]
    PROVE  \E g : Values(g, e)
<1> DEFINE F == [n \in Nat |-> [v \in Nat |-> v * Base + e[n + 1]]]
<1>1. ASSUME NEW n \in Nat, NEW v \in Nat PROVE v * Base + e[n + 1] \in Nat
  <2>1. n + 1 \in Nat /\ Digits \subseteq Nat
    <3>1. Base \in Nat
      BY InputsAssumption
    <3> QED BY <3>1 DEF Digits
  <2>2. v * Base \in Nat
    BY InputsAssumption
  <2>3. e[n + 1] \in Nat
    BY <2>1
  <2> QED BY <2>2, <2>3
<1>2. F \in [Nat -> [Nat -> Nat]]
  BY <1>1
<1>3. PICK g : Iteration(g, Nat, 0, F)
  <2>1. Steps(F, Nat)
    BY <1>2 DEF Steps
  <2> HIDE DEF F
  <2> QED BY <2>1, Iterates
<1> QED
  BY <1>3 DEF Values, Iteration

\* The number that digits write is their last value.
LEMMA NumberIs ==
    ASSUME NEW d, Len(d) \in Nat, NEW g \in [Nat -> Nat], g[0] = 0,
           \A n \in 0..Len(d) - 1 : g[n + 1] = g[n] * Base + d[n + 1]
    PROVE  Number(d) = g[Len(d)]
<1> DEFINE L == Len(d)
           h == [n \in 0..L |-> g[n]]
           V == CHOOSE value : value = [n \in 0..L |->
                   IF n = 0 THEN 0 ELSE value[n - 1] * Base + d[n]]
<1>1. h = [n \in 0..L |-> IF n = 0 THEN 0 ELSE h[n - 1] * Base + d[n]]
  <2>1. ASSUME NEW n \in 0..L, n # 0 PROVE h[n] = h[n - 1] * Base + d[n]
    <3>1. n - 1 \in 0..L - 1 /\ n - 1 \in 0..L /\ (n - 1) + 1 = n
      BY <2>1
    <3> QED BY <3>1
  <2> QED BY <2>1
<1>2. V = [n \in 0..L |-> IF n = 0 THEN 0 ELSE V[n - 1] * Base + d[n]]
  <2> HIDE DEF h
  <2> QED BY <1>1
<1>3. Number(d) = V[L]
  BY DEF Number
<1> HIDE DEF V
<1>4. V[L] = g[L]
  <2> DEFINE bad == {n \in Nat : n <= L /\ V[n] # g[n]}
  <2> SUFFICES ASSUME bad # {} PROVE FALSE
    <3>1. L \in Nat /\ L <= L
      OBVIOUS
    <3> QED BY <3>1
  <2>1. PICK n \in bad : n = 0 \/ (n - 1 \in Nat /\ n - 1 \notin bad)
    <3> HIDE DEF bad
    <3>1. bad \in SUBSET Nat
      BY DEF bad
    <3> QED BY <3>1, LeastFailure
  <2>2. n # 0
    BY <1>2, <2>1
  <2>3. n - 1 \in 0..L - 1 /\ n \in 0..L /\ (n - 1) + 1 = n /\ V[n - 1] = g[n - 1]
    BY <2>1, <2>2
  <2> QED BY <1>2, <2>1, <2>2, <2>3
<1> QED
  BY <1>3, <1>4

\* With more digits the value grows in proportion, by less than one unit of the last
\* digit there was.
LEMMA ValuesGrow ==
    ASSUME NEW e \in [Nat -> Digits], NEW g, Values(g, e), NEW m \in Nat, NEW n \in Nat, m <= n
    PROVE  /\ g[m] * Power[n] <= g[n] * Power[m]
           /\ (g[n] + 1) * Power[m] <= (g[m] + 1) * Power[n]
<1> DEFINE Holds(k) == /\ g[m] * Power[k] <= g[k] * Power[m]
                       /\ (g[k] + 1) * Power[m] <= (g[m] + 1) * Power[k]
           bad == {k \in Nat : m <= k /\ ~Holds(k)}
<1> SUFFICES ASSUME bad # {} PROVE FALSE
  OBVIOUS
<1>1. PICK k \in bad : k = 0 \/ (k - 1 \in Nat /\ k - 1 \notin bad)
  <2> HIDE DEF bad
  <2>1. bad \in SUBSET Nat
    BY DEF bad
  <2> QED BY <2>1, LeastFailure
<1>2. k # m
  <2>1. g[m] \in Nat /\ Power[m] \in Nat
    BY Powers DEF Values
  <2> QED BY <1>1, <2>1
<1>3. m <= k - 1 /\ k - 1 \in Nat /\ (k - 1) + 1 = k /\ Holds(k - 1)
  BY <1>1, <1>2
<1> DEFINE a == g[m]  b == g[k - 1]  p == Power[m]  q == Power[k - 1]  c == e[k]
<1>4. /\ a \in Nat /\ b \in Nat /\ p \in Nat /\ q \in Nat /\ c \in 0..Base - 1
      /\ Base \in Nat /\ Power[k] = Base * q /\ g[k] = b * Base + c
  BY <1>1, <1>3, Powers, InputsAssumption DEF Values, Digits
<1>5. a * q <= b * p /\ (b + 1) * p <= (a + 1) * q
  BY <1>3
<1> HIDE DEF a, b, p, q, c
<1>6. a * (Base * q) <= (b * Base + c) * p
  <2>1. a * (Base * q) = Base * (a * q) /\ (b * Base + c) * p = Base * (b * p) + c * p
    BY <1>4
  <2>2. Base * (a * q) <= Base * (b * p) /\ 0 <= c * p
    BY <1>4, <1>5
  <2> QED BY <1>4, <2>1, <2>2
<1>7. (b * Base + c + 1) * p <= (a + 1) * (Base * q)
  <2>1. (b * Base + c + 1) * p <= ((b + 1) * Base) * p
    BY <1>4
  <2>2. ((b + 1) * Base) * p = Base * ((b + 1) * p) /\ (a + 1) * (Base * q) = Base * ((a + 1) * q)
    BY <1>4
  <2>3. Base * ((b + 1) * p) <= Base * ((a + 1) * q)
    BY <1>4, <1>5
  <2> QED BY <1>4, <2>1, <2>2, <2>3
<1>8. Holds(k)
  BY <1>4, <1>6, <1>7 DEF a, p
<1> QED
  BY <1>1, <1>8

\* Zeros behind the last digit change nothing but the scale.
LEMMA ValuesPadded ==
    ASSUME NEW e \in [Nat -> Digits], NEW g, Values(g, e), NEW m \in Nat, NEW n \in Nat, m <= n,
           \A j \in Nat : j > m => e[j] = 0
    PROVE  g[n] * Power[m] = g[m] * Power[n]
<1> DEFINE bad == {k \in Nat : m <= k /\ g[k] * Power[m] # g[m] * Power[k]}
<1> SUFFICES ASSUME bad # {} PROVE FALSE
  OBVIOUS
<1>1. PICK k \in bad : k = 0 \/ (k - 1 \in Nat /\ k - 1 \notin bad)
  <2> HIDE DEF bad
  <2>1. bad \in SUBSET Nat
    BY DEF bad
  <2> QED BY <2>1, LeastFailure
<1>2. k # m
  BY <1>1
<1>3. /\ m <= k - 1 /\ k - 1 \in Nat /\ (k - 1) + 1 = k /\ e[k] = 0
      /\ g[k - 1] * Power[m] = g[m] * Power[k - 1]
  BY <1>1, <1>2
<1> DEFINE a == g[m]  b == g[k - 1]  p == Power[m]  q == Power[k - 1]
<1>4. /\ a \in Nat /\ b \in Nat /\ p \in Nat /\ q \in Nat /\ Base \in Nat
      /\ Power[k] = Base * q /\ g[k] = b * Base /\ b * p = a * q
  <2>1. k \in Nat /\ k - 1 \in Nat /\ b \in Nat /\ Base \in Nat
    BY <1>1, <1>3, InputsAssumption DEF Values
  <2>2. g[(k - 1) + 1] = b * Base + e[(k - 1) + 1]
    BY <2>1 DEF Values
  <2>3. g[k] = b * Base
    BY <1>3, <2>1, <2>2
  <2>4. Power[(k - 1) + 1] = Base * Power[k - 1]
    BY <2>1, Powers
  <2> QED BY <1>1, <1>3, <2>1, <2>3, <2>4, Powers DEF Values
<1> HIDE DEF a, b, p, q
<1>5. (b * Base) * p = a * (Base * q)
  <2>1. (b * Base) * p = Base * (b * p) /\ a * (Base * q) = Base * (a * q)
    BY <1>4
  <2> QED BY <1>4, <2>1
<1> QED
  BY <1>1, <1>4, <1>5 DEF a, p

\* The digits of a fraction followed by zeros have the values that Number and micro read.
LEMMA FractionValues ==
    ASSUME NEW d \in Seq(Digits)
    PROVE  \E e, g :
              /\ e \in [Nat -> Digits] /\ Values(g, e)
              /\ \A j \in Nat : j > Len(d) => e[j] = 0
              /\ \A n \in 0..Len(d) - 1 : g[n + 1] = g[n] * Base + d[n + 1]
              /\ Number(d) = g[Len(d)] /\ micro(d) = g[FractionWidth]
<1> DEFINE e == [j \in Nat |-> IF j \in DOMAIN d THEN d[j] ELSE 0]
           W == FractionWidth
           cut == [i \in 1..W |-> IF i \in DOMAIN d THEN d[i] ELSE 0]
<1>1. W \in Nat /\ Len(d) \in Nat /\ DOMAIN d = 1..Len(d) /\ 0 \in Digits
  BY InputsAssumption DEF Digits
<1>2. e \in [Nat -> Digits]
  BY <1>1
<1>3. PICK g : Values(g, e)
  <2> HIDE DEF e
  <2> QED BY <1>2, ValuesExist
<1>4. ASSUME NEW n \in 0..Len(d) - 1 PROVE g[n + 1] = g[n] * Base + d[n + 1]
  <2>1. n \in Nat /\ n + 1 \in 1..Len(d)
    BY <1>1
  <2>2. e[n + 1] = d[n + 1]
    BY <1>1, <2>1
  <2> QED BY <1>3, <2>1, <2>2 DEF Values
<1>7. Number(d) = g[Len(d)]
  BY <1>1, <1>3, <1>4, NumberIs DEF Values
<1>5. micro(d) = g[W]
  <2>1. Len(cut) = W
    BY <1>1
  <2>2. ASSUME NEW n \in 0..W - 1 PROVE g[n + 1] = g[n] * Base + cut[n + 1]
    <3>1. n \in Nat /\ n + 1 \in 1..W
      BY <1>1
    <3>2. e[n + 1] = cut[n + 1]
      BY <1>1, <3>1
    <3> QED BY <1>3, <3>1, <3>2 DEF Values
  <2>3. Number(cut) = g[Len(cut)]
    <3> HIDE DEF cut
    <3> QED BY <1>1, <1>3, <2>1, <2>2, NumberIs DEF Values
  <2> QED BY <2>1, <2>3 DEF micro
<1>6. \A j \in Nat : j > Len(d) => e[j] = 0
  BY <1>1
<1> HIDE DEF e
<1> QED
  BY <1>2, <1>3, <1>4, <1>5, <1>6, <1>7

LEMMA TicksType == Ticks \in Nat \ {0} /\ FractionWidth \in Nat /\ Ticks = Power[FractionWidth]
  BY Powers, InputsAssumption DEF Ticks

\* A fraction is less than an hour.
LEMMA MicroRange ==
    ASSUME NEW d \in Seq(Digits)
    PROVE  micro(d) \in 0..Ticks - 1
<1>1. PICK e, g : e \in [Nat -> Digits] /\ Values(g, e) /\ micro(d) = g[FractionWidth]
  BY FractionValues
<1>2. (g[FractionWidth] + 1) * Power[0] <= (g[0] + 1) * Power[FractionWidth]
  <2>1. 0 \in Nat /\ 0 <= FractionWidth
    BY TicksType
  <2> QED BY <1>1, <2>1, TicksType, ValuesGrow
<1>3. g[FractionWidth] \in Nat /\ g[0] = 0
  BY <1>1, TicksType DEF Values
<1>4. g[FractionWidth] + 1 <= Ticks
  <2>1. (g[FractionWidth] + 1) * 1 <= (0 + 1) * Ticks
    BY <1>2, <1>3, TicksType, Powers
  <2> QED BY <1>3, <2>1, TicksType
<1> QED
  BY <1>1, <1>3, <1>4, TicksType

LEMMA NextMultiple == ASSUME NEW m \in Int, NEW s \in Int PROVE (m + 1) * s = m * s + s
  OBVIOUS

\* A quotient is known by the multiples on either side of the number.
LEMMA DivIs ==
    ASSUME NEW a \in Int, NEW b \in Nat \ {0}, NEW q \in Int, q * b <= a, a < (q + 1) * b
    PROVE  a \div b = q
<1>1. a \div b \in Int /\ a % b \in 0..b - 1 /\ a = b * (a \div b) + (a % b)
  OBVIOUS
<1>2. (a \div b) * b < (q + 1) * b /\ q * b < ((a \div b) + 1) * b
  BY <1>1
<1> QED
  BY <1>1, <1>2

\* parse_time reads the tick that holds the instant: the digits it cuts off are less than a
\* tick, and nothing if there are no more digits than the width.
LEMMA ReadsTheTick ==
    ASSUME NEW t, t.fraction \in Seq(Digits), Hours(t) \in Int
    PROVE  /\ Tick(t) = parse_time(t)
           /\ Numerator(t) \in Int /\ Scale(t) \in Nat \ {0}
           /\ Len(t.fraction) <= FractionWidth =>
                 parse_time(t) * Scale(t) = Numerator(t) * Ticks
<1> DEFINE d == t.fraction
           L == Len(d)
<1>1. PICK e, g :
         /\ e \in [Nat -> Digits] /\ Values(g, e) /\ \A j \in Nat : j > L => e[j] = 0
         /\ Number(d) = g[L] /\ micro(d) = g[FractionWidth]
  BY FractionValues
<1> DEFINE s == Power[L]  T == Ticks  n == g[L]  m == g[FractionWidth]  h == Hours(t)
<1>2. /\ s \in Nat \ {0} /\ T \in Nat \ {0} /\ n \in Nat /\ m \in Nat /\ h \in Int
      /\ L \in Nat
  <2>1. L \in Nat
    OBVIOUS
  <2> QED BY <1>1, <2>1, Powers, TicksType DEF Values
<1>9. L <= FractionWidth => m * s = n * T
  <2> SUFFICES ASSUME L <= FractionWidth PROVE m * s = n * T
    OBVIOUS
  <2>1. g[FractionWidth] * Power[L] = g[L] * Power[FractionWidth]
    <3>1. /\ Values(g, e) /\ L \in Nat /\ FractionWidth \in Nat /\ L <= FractionWidth
          /\ \A j \in Nat : j > L => e[j] = 0
      BY <1>1, <1>2, TicksType
    <3> HIDE DEF d, L, s, T, n, m, h
    <3>2. e \in [Nat -> Digits]
      BY <1>1
    <3> QED BY <3>1, <3>2, ValuesPadded
  <2> QED BY <2>1, TicksType
<1>3. m * s <= n * T /\ n * T < (m + 1) * s
  <2>1. CASE FractionWidth <= L
    <3>1. m * s <= n * T /\ (n + 1) * T <= (m + 1) * s
      BY <1>1, <1>2, <2>1, TicksType, ValuesGrow
    <3>2. (n + 1) * T = n * T + T
      BY <1>2, NextMultiple
    <3> HIDE DEF s, T, n, m
    <3> QED BY <1>2, <3>1, <3>2
  <2>2. CASE L <= FractionWidth
    <3>1. m * s = n * T
      BY <1>9, <2>2
    <3>2. (m + 1) * s = m * s + s
      BY <1>2, NextMultiple
    <3> HIDE DEF s, T, n, m
    <3> QED BY <1>2, <3>1, <3>2
  <2> QED BY <1>2, <2>1, <2>2, TicksType
<1>4. Numerator(t) = h * s + n /\ Scale(t) = s /\ Tick(t) = ((h * s + n) * T) \div s
  BY <1>1 DEF Tick, Numerator, Scale, Hours
<1>5. parse_time(t) = h * T + m
  BY <1>1 DEF parse_time
<1> HIDE DEF s, T, n, m, h
<1>6. /\ (h * T + m) * s = (h * T) * s + m * s /\ (h * s + n) * T = (h * T) * s + n * T
      /\ (h * T + m + 1) * s = (h * T) * s + (m + 1) * s
  BY <1>2
<1>7. ((h * s + n) * T) \div s = h * T + m
  <2>1. h * T + m \in Int /\ (h * s + n) * T \in Int
    BY <1>2
  <2>2. (h * T + m) * s <= (h * s + n) * T /\ (h * s + n) * T < (h * T + m + 1) * s
    <3>1. (h * T) * s \in Int /\ m * s \in Int /\ n * T \in Int /\ (m + 1) * s \in Int
      BY <1>2
    <3> QED BY <1>3, <1>6, <3>1
  <2> DEFINE A == (h * s + n) * T
             Q == h * T + m
  <2>3. A \in Int /\ Q \in Int /\ Q * s <= A /\ A < (Q + 1) * s
    BY <2>1, <2>2
  <2> HIDE DEF A, Q
  <2>4. A \div s = Q
    BY <1>2, <2>3, DivIs
  <2> QED BY <2>4 DEF A, Q
<1>8. L <= FractionWidth => parse_time(t) * Scale(t) = Numerator(t) * Ticks
  <2>1. m * s = n * T => (h * T + m) * s = (h * s + n) * T
    BY <1>6
  <2> QED BY <1>4, <1>5, <1>9, <2>1 DEF T
<1> QED
  BY <1>2, <1>4, <1>5, <1>7, <1>8 DEF L

\* Timestamps of one instant lie in one tick.
LEMMA OneInstantOneTick ==
    ASSUME NEW t, NEW u, SameInstant(t, u), Numerator(t) \in Int, Numerator(u) \in Int,
           Scale(t) \in Nat \ {0}, Scale(u) \in Nat \ {0}
    PROVE  Tick(t) = Tick(u)
<1> DEFINE m == Numerator(t)  n == Numerator(u)  a == Scale(t)  b == Scale(u)
           T == Ticks  q == (n * T) \div b
<1>1. /\ m \in Int /\ n \in Int /\ a \in Nat \ {0} /\ b \in Nat \ {0} /\ T \in Nat \ {0}
      /\ m * b = n * a
  BY TicksType DEF SameInstant
<1> HIDE DEF m, n, a, b, T
<1>2. n * T \in Int /\ m * T \in Int
  BY <1>1
<1>3. q \in Int /\ q * b <= n * T /\ n * T < (q + 1) * b
  <2> DEFINE A == n * T
  <2>1. A \in Int
    BY <1>2
  <2> HIDE DEF A
  <2>2. A \div b \in Int /\ A % b \in 0..b - 1 /\ A = b * (A \div b) + (A % b)
    BY <1>1, <2>1
  <2>3. (A \div b) * b <= A /\ A < ((A \div b) + 1) * b
    BY <1>1, <2>1, <2>2
  <2> QED BY <2>2, <2>3 DEF A
<1> HIDE DEF q
<1>4. (q * a) * b <= (m * T) * b /\ (m * T) * b < ((q + 1) * a) * b
  <2>1. (m * T) * b = (m * b) * T
    BY <1>1
  <2>2. (n * a) * T = (n * T) * a
    BY <1>1
  <2>3. (q * a) * b = (q * b) * a /\ ((q + 1) * a) * b = ((q + 1) * b) * a
    BY <1>1, <1>3
  <2>4. (q * b) * a <= (n * T) * a /\ (n * T) * a < ((q + 1) * b) * a
    <3> DEFINE x == q * b  y == n * T  z == (q + 1) * b
    <3>1. x \in Int /\ y \in Int /\ z \in Int /\ x <= y /\ y < z
      BY <1>1, <1>2, <1>3
    <3> HIDE DEF x, y, z
    <3>2. x * a <= y * a /\ y * a < z * a
      BY <1>1, <3>1
    <3> QED BY <3>2 DEF x, y, z
  <2> QED BY <1>1, <2>1, <2>2, <2>3, <2>4
<1>5. q * a <= m * T /\ m * T < (q + 1) * a
  <2> DEFINE x == q * a  y == m * T  z == (q + 1) * a
  <2>1. x \in Int /\ y \in Int /\ z \in Int /\ x * b <= y * b /\ y * b < z * b
    BY <1>1, <1>2, <1>3, <1>4
  <2> HIDE DEF x, y, z
  <2>2. x <= y /\ y < z
    BY <1>1, <2>1
  <2> QED BY <2>2 DEF x, y, z
<1>6. (m * T) \div a = q
  <2> DEFINE A == m * T
  <2>1. A \in Int /\ q * a <= A /\ A < (q + 1) * a
    BY <1>2, <1>5
  <2> HIDE DEF A
  <2>2. A \div a = q
    BY <1>1, <1>3, <2>1, DivIs
  <2> QED BY <2>2 DEF A
<1> QED
  BY <1>6 DEF Tick, m, n, a, b, T, q

-----------------------------------------------------------------------------
(***************************************************************************)
(* A normalized timestamp denotes the instant it was made from.            *)
(***************************************************************************)
\* Dividing twice is dividing by the product.
LEMMA DivDiv ==
    ASSUME NEW x \in Int, NEW a \in Nat \ {0}, NEW b \in Nat \ {0}
    PROVE  (x \div a) \div b = x \div (b * a)
<1> DEFINE y == x \div a
           c == b * a
           q == x \div c
<1>1. c \in Nat \ {0} /\ y \in Int
  BY Z3
<1>2. y * a <= x /\ x < (y + 1) * a
  <2>1. x % a \in 0..a - 1 /\ x = a * (x \div a) + (x % a)
    OBVIOUS
  <2> QED BY <1>1, <2>1
<1>3. q \in Int /\ q * c <= x /\ x < (q + 1) * c
  <2> HIDE DEF c
  <2>1. x % c \in 0..c - 1 /\ x = c * (x \div c) + (x % c) /\ x \div c \in Int
    BY <1>1
  <2> QED BY <1>1, <2>1
<1> HIDE DEF y, q
<1>4. q * c = (q * b) * a /\ (q + 1) * c = ((q + 1) * b) * a
  BY <1>1, <1>3
<1> HIDE DEF c
<1>5. q * b <= y /\ y < (q + 1) * b
  <2> DEFINE l == q * b  u == (q + 1) * b
  <2>1. l \in Int /\ u \in Int
    BY <1>3
  <2>2. l * a <= x /\ x < u * a
    BY <1>3, <1>4
  <2> HIDE DEF l, u
  <2>3. l * a < (y + 1) * a /\ y * a < u * a
    <3>1. l * a \in Int /\ (y + 1) * a \in Int /\ y * a \in Int /\ u * a \in Int
      BY <1>1, <2>1
    <3> QED BY <1>2, <2>2, <3>1
  <2>4. l < y + 1 /\ y < u
    BY <1>1, <2>1, <2>3
  <2>5. l <= y
    BY <1>1, <2>1, <2>4
  <2> QED BY <2>4, <2>5 DEF l, u
<1>6. y \div b = q
  BY <1>1, <1>3, <1>5, DivIs
<1> QED
  BY <1>6 DEF y, q, c

\* The trimmed digits end before a run of zeros.
LEMMA TrimmedIs ==
    ASSUME NEW d \in Seq(Digits)
    PROVE  \E k \in 0..Len(d) :
              /\ Trimmed(d) = SubSeq(d, 1, k)
              /\ \A i \in DOMAIN d : i > k => d[i] = 0
<1> DEFINE S == {0} \cup {i \in DOMAIN d : d[i] # 0}
           above == {Len(d) - i : i \in S}
<1>1. Len(d) \in Nat /\ DOMAIN d = 1..Len(d) /\ S \subseteq 0..Len(d)
  OBVIOUS
<1>2. above \in SUBSET Nat /\ above # {}
  BY <1>1
<1>3. PICK n \in above : \A m \in above : n <= m
  <2> HIDE DEF above
  <2> QED BY <1>2, LeastOfSome
<1>4. PICK k \in S : n = Len(d) - k
  OBVIOUS
<1>5. ASSUME NEW i \in S PROVE k >= i
  <2>1. Len(d) - i \in above
    OBVIOUS
  <2>2. Len(d) - k <= Len(d) - i
    BY <1>3, <1>4, <2>1
  <2>3. i \in Int /\ k \in Int
    BY <1>1
  <2> HIDE DEF S
  <2> QED BY <1>1, <2>2, <2>3
<1> DEFINE z == Max(S)
<1>6. z \in S /\ \A i \in S : z >= i
  <2> HIDE DEF S
  <2> QED BY <1>5 DEF Max
<1>7. Trimmed(d) = SubSeq(d, 1, z)
  BY DEF Trimmed
<1> HIDE DEF z
<1> QED
  BY <1>1, <1>6, <1>7

\* Trimming a fraction of full width does not change what is read from it.
LEMMA TrimmedReads ==
    ASSUME NEW d \in Seq(Digits), Len(d) = FractionWidth
    PROVE  /\ Trimmed(d) \in Seq(Digits) /\ micro(Trimmed(d)) = Number(d)
           /\ Len(Trimmed(d)) <= FractionWidth
<1>1. PICK k \in 0..Len(d) : /\ Trimmed(d) = SubSeq(d, 1, k)
                             /\ \A i \in DOMAIN d : i > k => d[i] = 0
  BY TrimmedIs
<1> DEFINE r == Trimmed(d)
           cut == [i \in 1..FractionWidth |-> IF i \in DOMAIN r THEN r[i] ELSE 0]
<1>2. /\ r \in Seq(Digits) /\ DOMAIN r = 1..k /\ Len(r) = k
      /\ \A i \in 1..k : r[i] = d[i]
  <2>1. Len(d) \in Nat /\ 1 \in Nat
    OBVIOUS
  <2> QED BY <1>1, <2>1, SubSeqProperties
<1> HIDE DEF r
<1>3. cut = d
  <2>1. d = [i \in 1..FractionWidth |-> d[i]] /\ DOMAIN d = 1..FractionWidth
    OBVIOUS
  <2>2. ASSUME NEW i \in 1..FractionWidth PROVE cut[i] = d[i]
    <3>1. CASE i \in 1..k
      BY <1>2, <3>1
    <3>2. CASE i \notin 1..k
      BY <1>1, <1>2, <2>1, <3>2, TicksType
    <3> QED BY <3>1, <3>2
  <2> QED BY <2>1, <2>2
<1>4. Len(r) <= FractionWidth
  BY <1>1, <1>2, TicksType
<1> QED
  BY <1>2, <1>3, <1>4 DEF micro, r

\* The digits of a normalized instant, and what their first n say.
DigitsOf(x) == [i \in 1..FractionWidth |-> (x \div Power[FractionWidth - i]) % Base]

\* The digits written for an instant are worth its ticks within the hour.
LEMMA DigitsOfValue ==
    ASSUME NEW x \in Int
    PROVE  /\ DigitsOf(x) \in Seq(Digits) /\ Len(DigitsOf(x)) = FractionWidth
           /\ Number(DigitsOf(x)) = x - Ticks * (x \div Ticks)
<1> DEFINE W == FractionWidth
           h == x \div Ticks
           d == DigitsOf(x)
<1>1. /\ W \in Nat /\ Ticks \in Nat \ {0} /\ Base \in Nat \ {0} /\ Ticks = Power[W]
      /\ \A n \in Nat : Power[n] \in Nat \ {0}
      /\ \A n \in 0..W : n \in Nat /\ W - n \in Nat
  <2>1. W \in Nat /\ Ticks \in Nat \ {0} /\ Ticks = Power[W]
    BY TicksType
  <2>2. Base \in Nat \ {0}
    BY InputsAssumption
  <2>3. \A n \in Nat : Power[n] \in Nat \ {0}
    BY Powers
  <2> QED BY <2>1, <2>2, <2>3
<1>2. h \in Int
  BY <1>1
<1>3. ASSUME NEW a \in Int PROVE a % Base \in Digits /\ a = Base * (a \div Base) + (a % Base)
  BY <1>1 DEF Digits
<1>4. ASSUME NEW i \in 1..W PROVE /\ x \div Power[W - i] \in Int
                                /\ (x \div Power[W - i]) % Base \in Digits
  <2>1. i \in 0..W
    BY <1>1
  <2>2. x \div Power[W - i] \in Int
    BY <1>1, <2>1
  <2> QED BY <1>3, <2>2
<1>5. d \in Seq(Digits) /\ Len(d) = W /\ DOMAIN d = 1..W
  BY <1>1, <1>4 DEF DigitsOf
<1>6. PICK e, g :
         /\ e \in [Nat -> Digits] /\ Values(g, e) /\ Number(d) = g[W]
         /\ \A n \in 0..W - 1 : g[n + 1] = g[n] * Base + d[n + 1]
  <2> HIDE DEF d
  <2> QED BY <1>5, FractionValues
<1>7. g \in [Nat -> Nat] /\ g[0] = 0
  BY <1>6 DEF Values
<1> DEFINE q(n) == x \div Power[W - n]
           Holds(n) == g[n] = q(n) - Power[n] * h
<1>8. \A n \in 0..W : q(n) \in Int
  BY <1>1
<1>9. ASSUME NEW n \in 0..W - 1, Holds(n) PROVE Holds(n + 1)
  <2>1. n \in Nat /\ n \in 0..W /\ n + 1 \in 1..W /\ n + 1 \in 0..W /\ W - (n + 1) \in Nat
        /\ (W - (n + 1)) + 1 = W - n
    BY <1>1
  <2>2. d[n + 1] = q(n + 1) % Base
    BY <2>1 DEF DigitsOf
  <2>3. q(n + 1) \div Base = q(n)
    <3>1. Power[(W - (n + 1)) + 1] = Base * Power[W - (n + 1)]
      BY <2>1, Powers
    <3>2. (x \div Power[W - (n + 1)]) \div Base = x \div (Base * Power[W - (n + 1)])
      BY <1>1, <2>1, DivDiv
    <3> QED BY <2>1, <3>1, <3>2
  <2>4. Power[n + 1] = Base * Power[n] /\ Power[n] \in Nat /\ g[n] \in Nat
    BY <1>7, <2>1, Powers
  <2>5. g[n + 1] = g[n] * Base + d[n + 1]
    BY <1>6
  <2>6. q(n) \in Int /\ q(n + 1) \in Int
    BY <1>8, <2>1
  <2> HIDE DEF q, d
  <2>7. q(n + 1) = Base * q(n) + d[n + 1] /\ d[n + 1] \in Int
    <3>1. q(n + 1) % Base \in Digits /\ q(n + 1) = Base * (q(n + 1) \div Base) + (q(n + 1) % Base)
      BY <1>3, <2>6, Zenon
    <3>2. Digits \subseteq Int
      BY <1>1 DEF Digits
    <3> QED BY <2>2, <2>3, <3>1, <3>2, Zenon
  <2> DEFINE y == q(n)  z == q(n + 1)  c == d[n + 1]  p == Power[n]
  <2>8. g[n + 1] = (y - p * h) * Base + c /\ z = Base * y + c
        /\ y \in Int /\ z \in Int /\ c \in Int /\ p \in Int
    BY <1>9, <2>4, <2>5, <2>6, <2>7
  <2> HIDE DEF y, z, c, p, h
  <2>9. (y - p * h) * Base + c = z - (Base * p) * h
    <3>1. (y - p * h) * Base = Base * y - (Base * p) * h
      BY <1>1, <1>2, <2>8
    <3>2. Base * y \in Int /\ (Base * p) * h \in Int
      BY <1>1, <1>2, <2>8
    <3> QED BY <2>8, <3>1, <3>2
  <2> QED BY <2>4, <2>8, <2>9 DEF z, p
<1>10. Holds(W)
  <2> DEFINE bad == {n \in Nat : n <= W /\ ~Holds(n)}
  <2> SUFFICES ASSUME bad # {} PROVE FALSE
    <3>1. W \in Nat /\ W <= W
      BY <1>1
    <3> HIDE DEF Holds
    <3> QED BY <3>1
  <2>1. PICK n \in bad : n = 0 \/ (n - 1 \in Nat /\ n - 1 \notin bad)
    <3> HIDE DEF bad
    <3>1. bad \in SUBSET Nat
      BY DEF bad
    <3> QED BY <3>1, LeastFailure
  <2>2. n # 0
    <3>1. W - 0 = W /\ Power[0] * h = h /\ h - h = 0
      BY <1>1, <1>2, Powers
    <3>2. Holds(0)
      BY <1>1, <1>7, <3>1, Powers
    <3> HIDE DEF Holds
    <3> QED BY <2>1, <3>2
  <2> HIDE DEF Holds
  <2>3. n - 1 \in 0..W - 1 /\ Holds(n - 1) /\ (n - 1) + 1 = n
    BY <1>1, <2>1, <2>2
  <2>4. Holds(n)
    BY <1>9, <2>3
  <2> QED BY <2>1, <2>4
<1>11. q(W) = x
  <2>1. W - W = 0 /\ Power[0] = 1 /\ x \div 1 = x
    BY <1>1, Powers
  <2> QED BY <2>1
<1> HIDE DEF h, q
<1> QED
  BY <1>1, <1>5, <1>6, <1>10, <1>11 DEF h

\* Every instant is read back from its normal form, with its hours.
LEMMA CanonReads ==
    ASSUME NEW x \in Int
    PROVE  LET t == canon_time(x)
           IN  /\ t.fraction \in Seq(Digits) /\ Hours(t) \in Int
               /\ parse_time(t) = x /\ Hours(t) = x \div Ticks
               /\ Len(t.fraction) <= FractionWidth
<1> DEFINE t == canon_time(x)
           h == x \div Ticks
           H == HoursPerYear
           d == [i \in 1..FractionWidth |-> (x \div Power[FractionWidth - i]) % Base]
<1>1. H \in Nat \ {0} /\ h \in Int /\ Ticks \in Nat \ {0}
  <2>1. H \in Nat \ {0}
    BY InputsAssumption
  <2> QED BY <2>1, TicksType
<1>2. /\ t.year = h \div H /\ t.hour = h % H /\ t.offset = Zulu
      /\ t.fraction = Trimmed(d)
  BY DEF canon_time
<1>3. d = DigitsOf(x)
  BY DEF DigitsOf
<1>4. /\ t.fraction \in Seq(Digits) /\ micro(t.fraction) = x - Ticks * h
      /\ Len(t.fraction) <= FractionWidth
  BY <1>2, <1>3, DigitsOfValue, TrimmedReads
<1> HIDE DEF d, t, h, H
<1>5. Hours(t) = h
  <2>1. h \div H \in Int /\ h % H \in Int /\ h = H * (h \div H) + (h % H)
    BY <1>1
  <2>2. (h \div H) * H = H * (h \div H)
    BY <1>1, <2>1
  <2>3. Hours(t) = (h \div H) * H + (h % H) - 0
    BY <1>2 DEF Hours, H
  <2> QED BY <2>1, <2>2, <2>3
<1>6. parse_time(t) = x
  <2>1. h * Ticks = Ticks * h /\ h * Ticks \in Int
    BY <1>1
  <2> QED BY <1>1, <1>4, <1>5, <2>1 DEF parse_time
<1> QED
  BY <1>1, <1>4, <1>5, <1>6 DEF t, h

\* The normal form of a timestamp whose fraction is not too long denotes its instant.
LEMMA CanonExact ==
    ASSUME NEW t, t.fraction \in Seq(Digits), Hours(t) \in Int,
           Len(t.fraction) <= FractionWidth
    PROVE  SameInstant(canon_time(parse_time(t)), t)
<1> DEFINE x == parse_time(t)
           c == canon_time(x)
           m == Numerator(t)  a == Scale(t)  n == Numerator(c)  b == Scale(c)  T == Ticks
<1>1. x \in Int
  <2>1. micro(t.fraction) \in Int
    BY MicroRange, TicksType
  <2> QED BY <2>1, TicksType DEF parse_time
<1>2. m \in Int /\ a \in Nat \ {0} /\ x * a = m * T
  BY ReadsTheTick
<1>3. /\ c.fraction \in Seq(Digits) /\ Hours(c) \in Int /\ parse_time(c) = x
      /\ Len(c.fraction) <= FractionWidth
  <2> HIDE DEF x
  <2> QED BY <1>1, CanonReads
<1>4. n \in Int /\ b \in Nat \ {0} /\ x * b = n * T
  <2> HIDE DEF c, x
  <2> QED BY <1>3, ReadsTheTick
<1>5. T \in Nat \ {0}
  BY TicksType
<1> HIDE DEF c, x, m, n, a, b, T
<1>6. (n * a) * T = (m * b) * T
  <2>1. (n * a) * T = (n * T) * a /\ (m * b) * T = (m * T) * b
    BY <1>2, <1>4, <1>5
  <2>2. (x * b) * a = (x * a) * b
    BY <1>1, <1>2, <1>4
  <2> QED BY <1>2, <1>4, <2>1, <2>2
<1>7. n * a = m * b
  <2> DEFINE y == n * a  z == m * b
  <2>1. y \in Int /\ z \in Int /\ y * T = z * T
    BY <1>2, <1>4, <1>6
  <2> HIDE DEF y, z
  <2>2. y = z
    BY <1>5, <2>1
  <2> QED BY <2>2 DEF y, z
<1> QED
  BY <1>7 DEF SameInstant, n, a, m, b, c, x

-----------------------------------------------------------------------------
(***************************************************************************)
(* Sorted lists: sorted(set(...)) keeps the elements and nothing else.     *)
(***************************************************************************)
LEMMA ToSetFinite ==
    ASSUME NEW list \in Seq(Int)
    PROVE  IsFiniteSet(ToSet(list)) /\ ToSet(list) \subseteq Int
<1>1. Len(list) \in Nat /\ list \in [1..Len(list) -> Int] /\ DOMAIN list = 1..Len(list)
  OBVIOUS
<1>2. list \in Surjection(1..Len(list), ToSet(list))
  BY <1>1 DEF Surjection, ToSet
<1>3. IsFiniteSet(1..Len(list))
  BY <1>1, FS_Interval
<1>4. IsFiniteSet(ToSet(list))
  BY <1>2, <1>3, FS_Surjection
<1> QED
  BY <1>1, <1>4 DEF ToSet

LEMMA SortedIs ==
    ASSUME NEW list \in Seq(Int)
    PROVE  /\ Sorted(list) \in Seq(Int) /\ ToSet(Sorted(list)) = ToSet(list)
           /\ Len(Sorted(list)) = Cardinality(ToSet(list))
<1> DEFINE S == ToSet(list)
           n == Cardinality(S)
           Upto(e) == {f \in S : f <= e}
           Rank(e) == Cardinality(Upto(e))
           rank == [e \in S |-> Rank(e)]
           at == [i \in 1..n |-> CHOOSE e \in S : Rank(e) = i]
<1>1. IsFiniteSet(S) /\ S \subseteq Int /\ n \in Nat
  BY ToSetFinite, FS_CardinalityType
<1>2. Sorted(list) = at
  BY DEF Sorted
<1> HIDE DEF S
<1>3. ASSUME NEW e \in S PROVE Rank(e) \in 1..n
  <2>1. Upto(e) \in SUBSET S /\ e \in Upto(e)
    BY <1>1
  <2> HIDE DEF Upto
  <2>2. IsFiniteSet(Upto(e)) /\ Rank(e) <= n
    BY <1>1, <2>1, FS_Subset
  <2>3. Rank(e) \in Nat /\ Rank(e) # 0
    BY <2>1, <2>2, FS_CardinalityType, FS_EmptySet
  <2> HIDE DEF n, Rank
  <2> QED BY <1>1, <2>2, <2>3
<1>4. ASSUME NEW a \in S, NEW b \in S, a < b PROVE Rank(a) # Rank(b)
  <2>1. Upto(a) \in SUBSET Upto(b) /\ b \in Upto(b) /\ b \notin Upto(a) /\ Upto(b) \in SUBSET S
    <3>1. a \in Int /\ b \in Int /\ b <= b /\ ~(b <= a)
      BY <1>1, <1>4
    <3>2. \A f \in S : f <= a => f <= b
      BY <1>1, <1>4, <3>1
    <3> QED BY <3>1, <3>2
  <2> HIDE DEF Upto
  <2>2. IsFiniteSet(Upto(b))
    BY <1>1, <2>1, FS_Subset
  <2> QED BY <2>1, <2>2, FS_Subset
<1> HIDE DEF Rank
<1>5. ASSUME NEW a \in S, NEW b \in S, Rank(a) = Rank(b) PROVE a = b
  <2>1. a < b \/ b < a \/ a = b
    BY <1>1
  <2> QED BY <1>4, <1>5, <2>1
<1>6. rank \in Injection(S, 1..n)
  BY <1>3, <1>5 DEF Injection, IsInjective
<1>7. rank \in Surjection(S, 1..n)
  <2>1. IsFiniteSet(1..n) /\ Cardinality(1..n) = n
    BY <1>1, FS_Interval
  <2> HIDE DEF rank
  <2> QED BY <1>1, <1>6, <2>1, FS_Injection
<1>8. ASSUME NEW i \in 1..n PROVE \E e \in S : Rank(e) = i
  BY <1>7 DEF Surjection
<1>9. ASSUME NEW i \in 1..n PROVE at[i] \in S /\ Rank(at[i]) = i
  BY <1>8
<1>10. at \in Seq(Int) /\ Len(at) = n /\ DOMAIN at = 1..n
  <2>1. \A i \in 1..n : at[i] \in Int
    BY <1>1, <1>9
  <2>2. at \in [1..n -> Int]
    <3>1. at = [i \in 1..n |-> at[i]]
      OBVIOUS
    <3> HIDE DEF at
    <3> QED BY <2>1, <3>1
  <2> HIDE DEF at, n
  <2> QED BY <1>1, <2>2
<1>11. ToSet(at) = S
  <2>1. ASSUME NEW e \in S PROVE e \in ToSet(at)
    <3>1. Rank(e) \in 1..n
      BY <1>3
    <3>2. at[Rank(e)] = e
      BY <1>5, <1>9, <3>1
    <3> QED BY <1>10, <3>1, <3>2 DEF ToSet
  <2> HIDE DEF at
  <2> QED BY <1>9, <1>10, <2>1 DEF ToSet
<1> QED
  BY <1>2, <1>10, <1>11 DEF S, n

\* Two lists sort into the same one exactly if they have the same elements.
LEMMA SortedSame ==
    ASSUME NEW a \in Seq(Int), NEW b \in Seq(Int)
    PROVE  Sorted(a) = Sorted(b) <=> ToSet(a) = ToSet(b)
<1>1. ASSUME Sorted(a) = Sorted(b) PROVE ToSet(a) = ToSet(b)
  BY <1>1, SortedIs
<1>2. ASSUME ToSet(a) = ToSet(b) PROVE Sorted(a) = Sorted(b)
  BY <1>2 DEF Sorted
<1> QED
  BY <1>1, <1>2

LEMMA SortedAgain ==
    ASSUME NEW a \in Seq(Int)
    PROVE  /\ Sorted(Sorted(a)) = Sorted(a)
           /\ Sorted(a) = <<>> <=> a = <<>>
<1>1. Sorted(a) \in Seq(Int) /\ ToSet(Sorted(a)) = ToSet(a)
  BY SortedIs
<1>2. Sorted(Sorted(a)) = Sorted(a)
  BY <1>1, SortedSame
<1>3. ASSUME NEW l \in Seq(Int) PROVE l = <<>> <=> ToSet(l) = {}
  <2>1. Len(l) \in Nat /\ DOMAIN l = 1..Len(l)
    OBVIOUS
  <2>2. ASSUME l # <<>> PROVE l[1] \in ToSet(l)
    <3>1. 1 \in DOMAIN l
      BY <2>1, <2>2
    <3> QED BY <3>1 DEF ToSet
  <2>3. ToSet(<<>>) = {}
    BY DEF ToSet
  <2> QED BY <2>2, <2>3
<1> QED
  BY <1>1, <1>2, <1>3

LEMMA SortedSingle ==
    ASSUME NEW d \in Int
    PROVE  <<d>> \in Seq(Int) /\ Sorted(<<d>>) = <<d>> /\ ToSet(<<d>>) = {d}
<1>1. <<d>> \in Seq(Int) /\ ToSet(<<d>>) = {d}
  BY DEF ToSet
<1>2. Sorted(<<d>>) \in Seq(Int) /\ ToSet(Sorted(<<d>>)) = {d} /\ Len(Sorted(<<d>>)) = 1
  BY <1>1, SortedIs, FS_Singleton
<1> DEFINE l == Sorted(<<d>>)
<1>3. l[1] = d
  <2>1. DOMAIN l = 1..1
    BY <1>2
  <2>2. l[1] \in ToSet(l)
    BY <2>1 DEF ToSet
  <2> QED BY <1>2, <2>2
<1>4. l = <<d>>
  <2> HIDE DEF l
  <2> QED BY <1>2, <1>3 DEF l
<1> QED
  BY <1>1, <1>4

-----------------------------------------------------------------------------
(***************************************************************************)
(* The normal form of an input.                                            *)
(***************************************************************************)
TimeTyped(t) == t.fraction \in Seq(Digits) /\ Hours(t) \in Int

Typed(r) ==
    /\ TimeTyped(r.signed_at) /\ TimeTyped(r.knowledge_cutoff)
    /\ r.trust_anchors \in Seq(Int)
    /\ r.initial_policy_set \in {Missing} \cup Seq(Int)

\* The list that stands for the initial policy set.
PolicyList(r) ==
    IF r.initial_policy_set \in {Missing, <<>>} THEN <<DefaultPolicy>>
    ELSE r.initial_policy_set

LEMMA RawTyped == ASSUME NEW r \in RawInputs PROVE Typed(r)
<1>1. /\ \A t \in {r.signed_at, r.knowledge_cutoff} :
            /\ t.year \in Int /\ t.hour \in Int /\ t.offset \in {Zulu} \cup Int
            /\ t.fraction \in Seq(0..Base - 1)
      /\ r.trust_anchors \in Seq(Int)
      /\ r.initial_policy_set \in {Missing} \cup Seq(Int)
  BY InputsAssumption
<1>2. HoursPerYear \in Int
  BY InputsAssumption
<1>3. ASSUME NEW t \in {r.signed_at, r.knowledge_cutoff} PROVE Hours(t) \in Int
  <2> DEFINE away == IF t.offset = Zulu THEN 0 ELSE t.offset
  <2>1. away \in Int
    BY <1>1
  <2>2. t.year * HoursPerYear \in Int /\ t.hour \in Int
    BY <1>1, <1>2
  <2>3. Hours(t) = t.year * HoursPerYear + t.hour - away
    BY DEF Hours
  <2> HIDE DEF away
  <2> QED BY <2>1, <2>2, <2>3
<1> QED
  BY <1>1, <1>3 DEF Typed, TimeTyped, Digits

LEMMA ParsedType == ASSUME NEW t, TimeTyped(t) PROVE parse_time(t) \in Int
<1>1. micro(t.fraction) \in Int
  BY MicroRange, TicksType DEF TimeTyped
<1> QED
  BY <1>1, TicksType DEF parse_time, TimeTyped

LEMMA NormalizedIs ==
    ASSUME NEW r, Typed(r)
    PROVE  /\ PolicyList(r) \in Seq(Int) \ {<<>>}
           /\ InitialPolicies(r) = Sorted(PolicyList(r))
           /\ Said(r) = [signature |-> r.signature.bytes,
                         trust_anchors |-> ToSet(r.trust_anchors),
                         initial_policy_set |-> ToSet(PolicyList(r))]
<1>1. DefaultPolicy \in Int /\ Missing \notin Seq(Int)
  BY InputsAssumption
<1>2. PolicyList(r) \in Seq(Int) \ {<<>>}
  BY <1>1 DEF PolicyList, Typed
<1>3. InitialPolicies(r) = Sorted(PolicyList(r))
  BY <1>1, SortedSingle DEF InitialPolicies, PolicyList
<1>4. Said(r).initial_policy_set = ToSet(PolicyList(r))
  BY <1>1, SortedSingle DEF Said, PolicyList
<1> QED
  BY <1>2, <1>3, <1>4 DEF Said

\* Two timestamps are written alike exactly if they lie in one tick.
LEMMA OneText ==
    ASSUME NEW t, NEW u, TimeTyped(t), TimeTyped(u)
    PROVE  canon_time(parse_time(t)) = canon_time(parse_time(u)) <=> Tick(t) = Tick(u)
<1> DEFINE x == parse_time(t)  y == parse_time(u)
<1>1. x \in Int /\ y \in Int
  BY ParsedType
<1>2. Tick(t) = x /\ Tick(u) = y
  BY ReadsTheTick DEF TimeTyped
<1>3. parse_time(canon_time(x)) = x /\ parse_time(canon_time(y)) = y
  <2> HIDE DEF x, y
  <2> QED BY <1>1, CanonReads
<1> HIDE DEF x, y
<1>4. canon_time(x) = canon_time(y) <=> x = y
  BY <1>3
<1> QED
  BY <1>2, <1>4 DEF x, y

\* Two inputs have one normal form exactly if they say the same and their times lie in the
\* same ticks.
LEMMA OneForm ==
    ASSUME NEW r, NEW s, Typed(r), Typed(s)
    PROVE  validate_input(r) = validate_input(s) <=>
              /\ Said(r) = Said(s) /\ Tick(r.signed_at) = Tick(s.signed_at)
              /\ Tick(r.knowledge_cutoff) = Tick(s.knowledge_cutoff)
<1>1. /\ canon_time(parse_time(r.signed_at)) = canon_time(parse_time(s.signed_at))
         <=> Tick(r.signed_at) = Tick(s.signed_at)
      /\ canon_time(parse_time(r.knowledge_cutoff)) = canon_time(parse_time(s.knowledge_cutoff))
         <=> Tick(r.knowledge_cutoff) = Tick(s.knowledge_cutoff)
  BY OneText DEF Typed
<1>2. Sorted(r.trust_anchors) = Sorted(s.trust_anchors)
      <=> ToSet(r.trust_anchors) = ToSet(s.trust_anchors)
  BY SortedSame DEF Typed
<1>3. InitialPolicies(r) = InitialPolicies(s) <=> ToSet(PolicyList(r)) = ToSet(PolicyList(s))
  BY NormalizedIs, SortedSame
<1>4. b64e(b64d(r.signature)) = b64e(b64d(s.signature))
      <=> r.signature.bytes = s.signature.bytes
  BY DEF b64e, b64d
<1>5. Said(r) = Said(s) <=> /\ r.signature.bytes = s.signature.bytes
                            /\ ToSet(r.trust_anchors) = ToSet(s.trust_anchors)
                            /\ ToSet(PolicyList(r)) = ToSet(PolicyList(s))
  <2>1. /\ Said(r) = [signature |-> r.signature.bytes, trust_anchors |-> ToSet(r.trust_anchors),
                      initial_policy_set |-> ToSet(PolicyList(r))]
        /\ Said(s) = [signature |-> s.signature.bytes, trust_anchors |-> ToSet(s.trust_anchors),
                      initial_policy_set |-> ToSet(PolicyList(s))]
    BY NormalizedIs
  <2> QED BY <2>1
<1>6. validate_input(r) = validate_input(s) <=>
         /\ b64e(b64d(r.signature)) = b64e(b64d(s.signature))
         /\ canon_time(parse_time(r.signed_at)) = canon_time(parse_time(s.signed_at))
         /\ canon_time(parse_time(r.knowledge_cutoff)) = canon_time(parse_time(s.knowledge_cutoff))
         /\ Sorted(r.trust_anchors) = Sorted(s.trust_anchors)
         /\ InitialPolicies(r) = InitialPolicies(s)
  BY DEF validate_input
<1> QED
  BY <1>1, <1>2, <1>3, <1>4, <1>5, <1>6

-----------------------------------------------------------------------------
(***************************************************************************)
(* The errors of an input and of its normal form.                          *)
(***************************************************************************)
LEMMA TimeErrorExact ==
    ASSUME NEW t
    PROVE  /\ TimeError(t) = "NONE" <=>
                 /\ t.digits = 4
                 /\ t.offset = Zulu \/ t.offset \in -MaxOffset..MaxOffset
                 /\ t.year \in FirstYear..LastYear /\ t.hour \in 0..HoursPerYear - 1
                 /\ Hours(t) \div HoursPerYear \in FirstYear..LastYear
           /\ TimeError(t) \in {"NONE", "ValueError", "OverflowError"}
<1> DEFINE a == Rule("ValueError", t.digits = 4)
           b == Rule("ValueError", t.offset = Zulu \/ t.offset \in -MaxOffset..MaxOffset)
           c == Rule("ValueError", t.year \in FirstYear..LastYear /\ t.hour \in 0..HoursPerYear - 1)
           d == Rule("OverflowError", Hours(t) \div HoursPerYear \in FirstYear..LastYear)
<1>1. /\ a.code = "ValueError" /\ b.code = "ValueError" /\ c.code = "ValueError"
      /\ d.code = "OverflowError"
      /\ a.passes = (t.digits = 4)
      /\ b.passes = (t.offset = Zulu \/ t.offset \in -MaxOffset..MaxOffset)
      /\ c.passes = (t.year \in FirstYear..LastYear /\ t.hour \in 0..HoursPerYear - 1)
      /\ d.passes = (Hours(t) \div HoursPerYear \in FirstYear..LastYear)
  BY DEF Rule
<1>2. TimeError(t) = FirstFailing(<<a, b, c, d>>)
  BY DEF TimeError
<1>3. \A r \in {a, b, c, d} : r.code # "NONE" /\ r.passes \in BOOLEAN
  <2>1. /\ a.passes \in BOOLEAN /\ b.passes \in BOOLEAN
        /\ c.passes \in BOOLEAN /\ d.passes \in BOOLEAN
    BY DEF Rule
  <2> HIDE DEF a, b, c, d
  <2> QED BY <1>1, <2>1
<1> HIDE DEF a, b, c, d
<1> QED
  BY <1>1, <1>2, <1>3, FourRules

LEMMA FiveRules ==
    ASSUME NEW a, NEW b, NEW c, NEW d, NEW e,
           \A r \in {a, b, c, d, e} : r.code # "NONE" /\ r.passes \in BOOLEAN
    PROVE  FirstFailing(<<a, b, c, d, e>>) = "NONE" <=>
              a.passes /\ b.passes /\ c.passes /\ d.passes /\ e.passes
<1> DEFINE rules == <<a, b, c, d, e>>
           failing == {i \in DOMAIN rules : ~rules[i].passes}
<1>1. DOMAIN rules = 1..5 /\ \A i \in 1..5 : rules[i] \in {a, b, c, d, e}
  OBVIOUS
<1>2. ASSUME failing # {} PROVE \E i \in 1..5 : FirstFailing(rules) = rules[i].code
  <2>1. failing \in SUBSET Nat
    BY <1>1
  <2>2. \E i \in failing : \A j \in failing : i <= j
    <3> HIDE DEF failing
    <3> QED BY <1>2, <2>1, LeastOfSome
  <2>3. PICK i \in failing : FirstFailing(rules) = rules[i].code
    BY <1>2, <2>2 DEF FirstFailing
  <2> QED BY <1>1, <2>3
<1>3. failing = {} => FirstFailing(rules) = "NONE"
  BY DEF FirstFailing
<1>4. failing = {} <=> a.passes /\ b.passes /\ c.passes /\ d.passes /\ e.passes
  BY <1>1
<1> QED
  BY <1>1, <1>2, <1>3, <1>4

LEMMA TimesErrorExact ==
    ASSUME NEW r
    PROVE  /\ TimesError(r) \in {"NONE", "ValueError", "OverflowError"}
           /\ TimesError(r) = "NONE" <=>
                 TimeError(r.signed_at) = "NONE" /\ TimeError(r.knowledge_cutoff) = "NONE"
BY TimeErrorExact DEF TimesError

LEMMA InputErrorExact ==
    ASSUME NEW r
    PROVE  InputError(r) = "NONE" <=>
              /\ r.signature.bytes \notin {Missing, <<>>}
              /\ TimeError(r.signed_at) = "NONE" /\ TimeError(r.knowledge_cutoff) = "NONE"
              /\ r.trust_anchors # <<>>
              /\ \/ r.initial_policy_set = Missing
                 \/ ToSet(r.initial_policy_set) \subseteq {DefaultPolicy} \cup PolicyOids
<1> DEFINE a == Rule("VALIDATION", b64d(r.signature) \notin {Missing, <<>>})
           b == Rule("VALIDATION", TimesError(r) # "ValueError")
           c == Rule("INTERNAL", TimesError(r) # "OverflowError")
           d == Rule("VALIDATION", r.trust_anchors # <<>>)
           e == Rule("VALIDATION", r.initial_policy_set = Missing
                        \/ ToSet(r.initial_policy_set) \subseteq {DefaultPolicy} \cup PolicyOids)
<1>1. /\ a.code = "VALIDATION" /\ b.code = "VALIDATION" /\ c.code = "INTERNAL"
      /\ d.code = "VALIDATION" /\ e.code = "VALIDATION"
      /\ a.passes = (r.signature.bytes \notin {Missing, <<>>})
      /\ b.passes = (TimesError(r) # "ValueError")
      /\ c.passes = (TimesError(r) # "OverflowError")
      /\ d.passes = (r.trust_anchors # <<>>)
      /\ e.passes = (\/ r.initial_policy_set = Missing
                     \/ ToSet(r.initial_policy_set) \subseteq {DefaultPolicy} \cup PolicyOids)
  BY DEF Rule, b64d
<1>2. InputError(r) = FirstFailing(<<a, b, c, d, e>>)
  BY DEF InputError
<1> HIDE DEF a, b, c, d, e
<1>3. \A x \in {a, b, c, d, e} : x.code # "NONE" /\ x.passes \in BOOLEAN
  BY <1>1
<1>4. InputError(r) = "NONE" <=> a.passes /\ b.passes /\ c.passes /\ d.passes /\ e.passes
  BY <1>2, <1>3, FiveRules
<1> QED
  BY <1>1, <1>4, TimesErrorExact

\* The year of an instant, in UTC.
LEMMA UTCYear ==
    ASSUME NEW t, t.fraction \in Seq(Digits), Hours(t) \in Int
    PROVE  /\ parse_time(t) \in Int /\ parse_time(t) \div Ticks = Hours(t)
           /\ parse_time(t) \div (Ticks * HoursPerYear) = Hours(t) \div HoursPerYear
<1> DEFINE h == Hours(t)  m == micro(t.fraction)  x == parse_time(t)  H == HoursPerYear
<1>1. /\ Ticks \in Nat \ {0} /\ H \in Nat \ {0}
      /\ m \in 0..Ticks - 1 /\ x = h * Ticks + m
  <2>1. H \in Nat \ {0}
    BY InputsAssumption
  <2> QED BY <2>1, TicksType, MicroRange DEF parse_time
<1> HIDE DEF h, m, x, H
<1>2. x \in Int /\ h * Ticks <= x /\ x < (h + 1) * Ticks /\ h \in Int
  <2>1. h \in Int
    BY DEF h
  <2>2. h * Ticks \in Int /\ (h + 1) * Ticks = h * Ticks + Ticks
    BY <1>1, <2>1, NextMultiple
  <2> QED BY <1>1, <2>1, <2>2
<1>3. x \div Ticks = h
  BY <1>1, <1>2, DivIs
<1>4. (x \div Ticks) \div H = x \div (H * Ticks)
  BY <1>1, <1>2, DivDiv
<1>5. H * Ticks = Ticks * H
  BY <1>1
<1> QED
  BY <1>2, <1>3, <1>4, <1>5 DEF h, x, H

\* A timestamp that parses, in a wide year, is written as one that parses.
LEMMA CanonParses ==
    ASSUME NEW t, TimeTyped(t), TimeError(t) = "NONE",
           \A y \in FirstYear..WideYear - 1 : Tick(t) \div (Ticks * HoursPerYear) # y
    PROVE  TimeError(canon_time(parse_time(t))) = "NONE"
<1> DEFINE x == parse_time(t)
           c == canon_time(x)
           h == Hours(t)  H == HoursPerYear
<1>1. /\ x = Tick(t) /\ x \in Int /\ x \div Ticks = h
      /\ x \div (Ticks * H) = h \div H /\ h \in Int
  BY ReadsTheTick, UTCYear DEF TimeTyped
<1>2. h \div H \in FirstYear..LastYear
  BY TimeErrorExact
<1>3. H \in Nat \ {0} /\ FirstYear \in Nat /\ WideYear \in Nat /\ LastYear \in Nat
  BY InputsAssumption
<1>4. h \div H \notin FirstYear..WideYear - 1
  BY <1>1
<1>5. /\ c.digits = (IF h \div H < WideYear THEN 3 ELSE 4) /\ c.year = h \div H
      /\ c.hour = h % H /\ c.offset = Zulu
  <2> HIDE DEF x, h
  <2> QED BY <1>1 DEF canon_time
<1>6. Hours(c) = h
  <2> HIDE DEF x, h
  <2> QED BY <1>1, CanonReads
<1> HIDE DEF h, H, c
<1>7. h % H \in 0..H - 1
  BY <1>1, <1>3
<1>8. ~(h \div H < WideYear)
  BY <1>2, <1>3, <1>4
<1>9. TimeError(c) = "NONE"
  BY <1>2, <1>5, <1>6, <1>7, <1>8, TimeErrorExact DEF H
<1> QED
  BY <1>9 DEF c, x

\* The normal form of an accepted input that is written with wide years is accepted.
LEMMA NormalFormAccepted ==
    ASSUME NEW r, Typed(r), InputError(r) = "NONE",
           \A t \in {r.signed_at, r.knowledge_cutoff} : \A y \in FirstYear..WideYear - 1 :
               Tick(t) \div (Ticks * HoursPerYear) # y
    PROVE  InputError(validate_input(r)) = "NONE"
<1> DEFINE v == validate_input(r)
<1>1. /\ v.signed_at = canon_time(parse_time(r.signed_at))
      /\ v.knowledge_cutoff = canon_time(parse_time(r.knowledge_cutoff))
      /\ v.signature.bytes = r.signature.bytes
      /\ v.trust_anchors = Sorted(r.trust_anchors)
      /\ v.initial_policy_set = Sorted(PolicyList(r))
  BY NormalizedIs DEF validate_input, b64e, b64d
<1>2. /\ r.signature.bytes \notin {Missing, <<>>}
      /\ TimeError(r.signed_at) = "NONE" /\ TimeError(r.knowledge_cutoff) = "NONE"
      /\ r.trust_anchors # <<>>
      /\ \/ r.initial_policy_set = Missing
         \/ ToSet(r.initial_policy_set) \subseteq {DefaultPolicy} \cup PolicyOids
  BY InputErrorExact
<1>3. TimeError(v.signed_at) = "NONE" /\ TimeError(v.knowledge_cutoff) = "NONE"
  <2> HIDE DEF v
  <2> QED BY <1>1, <1>2, CanonParses DEF Typed
<1>4. v.trust_anchors # <<>>
  BY <1>1, <1>2, SortedAgain DEF Typed
<1>5. ToSet(v.initial_policy_set) \subseteq {DefaultPolicy} \cup PolicyOids
  <2>1. ToSet(v.initial_policy_set) = ToSet(PolicyList(r))
    BY <1>1, NormalizedIs, SortedIs
  <2>2. DefaultPolicy \in Int
    BY InputsAssumption
  <2>3. ToSet(<<DefaultPolicy>>) = {DefaultPolicy}
    BY <2>2, SortedSingle
  <2> QED BY <1>2, <2>1, <2>3 DEF PolicyList
<1> HIDE DEF v
<1> QED
  BY <1>1, <1>2, <1>3, <1>4, <1>5, InputErrorExact DEF v

\* The normal form is its own normal form, and its times lie in the ticks of those posted.
LEMMA NormalFormMeans ==
    ASSUME NEW r, Typed(r)
    PROVE  LET v == validate_input(r)
           IN  /\ validate_input(v) = v
               /\ parse_time(v.signed_at) = Tick(r.signed_at)
               /\ parse_time(v.knowledge_cutoff) = Tick(r.knowledge_cutoff)
<1> DEFINE x == parse_time(r.signed_at)
           k == parse_time(r.knowledge_cutoff)
           v == validate_input(r)
<1>1. /\ v = [signature |-> b64e(r.signature.bytes),
              signed_at |-> canon_time(x), knowledge_cutoff |-> canon_time(k),
              trust_anchors |-> Sorted(r.trust_anchors),
              initial_policy_set |-> Sorted(PolicyList(r))]
      /\ PolicyList(r) \in Seq(Int) \ {<<>>}
  BY NormalizedIs DEF validate_input, b64d
<1>2. x \in Int /\ k \in Int /\ x = Tick(r.signed_at) /\ k = Tick(r.knowledge_cutoff)
  BY ParsedType, ReadsTheTick DEF Typed, TimeTyped
<1> HIDE DEF v, x, k
<1>3. parse_time(v.signed_at) = x /\ parse_time(v.knowledge_cutoff) = k
  BY <1>1, <1>2, CanonReads
<1>4. Sorted(v.trust_anchors) = v.trust_anchors
  BY <1>1, SortedAgain DEF Typed
<1>5. /\ v.initial_policy_set \in Seq(Int) \ {<<>>}
      /\ Sorted(v.initial_policy_set) = v.initial_policy_set
  BY <1>1, SortedIs, SortedAgain
<1>6. InitialPolicies(v) = v.initial_policy_set
  <2>1. Missing \notin Seq(Int)
    BY InputsAssumption
  <2> QED BY <1>5, <2>1 DEF InitialPolicies
<1>7. b64d(v.signature) = r.signature.bytes
  BY <1>1 DEF b64d, b64e
<1>8. validate_input(v) = v
  BY <1>1, <1>3, <1>4, <1>6, <1>7 DEF validate_input
<1> QED
  BY <1>2, <1>3, <1>8 DEF v

-----------------------------------------------------------------------------
(***************************************************************************)
(* How the input travels: it is normalized once, read back by the engine   *)
(* and normalized again by the verifier.                                   *)
(***************************************************************************)
InputInv ==
    /\ raw \in RawInputs
    /\ outcome = "PENDING" => input = Missing /\ times = Missing /\ renormalized = Missing
    /\ input # Missing \/ outcome = "NONE" =>
          InputError(raw) = "NONE" /\ input = validate_input(raw)
    /\ input # Missing /\ outcome # "NONE" => TimesError(input) # "NONE"
    /\ times # Missing =>
          /\ outcome = "NONE"
          /\ times = [signed_at |-> parse_time(input.signed_at),
                      knowledge_cutoff |-> parse_time(input.knowledge_cutoff)]
    /\ renormalized # Missing => renormalized = validate_input(input)

LEMMA InitInput == PathInit => InputInv
  BY DEF PathInit, PathFresh, InputsFresh, InputInv

LEMMA NextInput == InputInv /\ [PathNext]_pathvars => InputInv'
<1> SUFFICES ASSUME InputInv, [PathNext]_pathvars PROVE InputInv'
  OBVIOUS
<1> USE DEF InputInv
<1>1. CASE Validate
  <2>1. raw' = raw /\ times' = times /\ renormalized' = renormalized
        /\ outcome = "PENDING" /\ outcome' = InputError(raw)
        /\ input' = IF InputError(raw) = "NONE" THEN validate_input(raw) ELSE Missing
    BY <1>1 DEF Validate, Normalize
  <2>2. CASE InputError(raw) = "NONE"
    BY <2>1, <2>2
  <2>3. CASE InputError(raw) # "NONE"
    BY <2>1, <2>3
  <2> QED BY <2>2, <2>3
<1>2. CASE StartEngine
  BY <1>2 DEF StartEngine, ReadBack
<1>3. CASE VerifyInput
  BY <1>3 DEF VerifyInput, Renormalize
<1>4. CASE Propose \/ EvaluateNames \/ EvaluatePolicies \/ UNCHANGED pathvars
  <2>1. UNCHANGED ivars
    BY <1>4 DEF Propose, EvaluateNames, EvaluatePolicies, pathvars
  <2> QED BY <2>1 DEF ivars
<1> QED
  BY <1>1, <1>2, <1>3, <1>4 DEF PathNext

\* What is recorded, read and checked again is made from the input that was posted, step by
\* step, in every behaviour.
THEOREM InputInvariant == PathSpec => []InputInv
  BY InitInput, NextInput, PTL DEF PathSpec

\* Inputs that say the same, in other offsets, fractions, orders, repetitions or base64
\* spellings, share one normal form and so one adjudication id, and inputs that share one
\* say the same but for times within one tick: canon_time writes every tick in one way that
\* parse_time reads back, and sorted(set(...)) writes every set in one way.
THEOREM OneFormPerMeaning == PathSpec => []OneNormalForm
<1>1. InputInv => OneNormalForm
  <2> SUFFICES ASSUME InputInv, input # Missing, NEW r \in RawInputs
               PROVE  /\ (Said(r) = Said(raw) /\ \A f \in TimeFields : SameInstant(r[f], raw[f])) =>
                            validate_input(r) = input
                      /\ validate_input(r) = input =>
                            /\ Said(r) = Said(raw)
                            /\ \A f \in TimeFields : Tick(r[f]) = Tick(raw[f])
    BY DEF OneNormalForm
  <2>1. input = validate_input(raw) /\ Typed(r) /\ Typed(raw)
    BY RawTyped DEF InputInv
  <2>2. validate_input(r) = input <=>
           /\ Said(r) = Said(raw) /\ Tick(r.signed_at) = Tick(raw.signed_at)
           /\ Tick(r.knowledge_cutoff) = Tick(raw.knowledge_cutoff)
    BY <2>1, OneForm
  <2>3. ASSUME NEW f \in TimeFields, SameInstant(r[f], raw[f]) PROVE Tick(r[f]) = Tick(raw[f])
    <3>1. TimeTyped(r[f]) /\ TimeTyped(raw[f])
      BY <2>1 DEF Typed, TimeFields
    <3>2. /\ Numerator(r[f]) \in Int /\ Scale(r[f]) \in Nat \ {0}
          /\ Numerator(raw[f]) \in Int /\ Scale(raw[f]) \in Nat \ {0}
      BY <3>1, ReadsTheTick DEF TimeTyped
    <3> QED BY <2>3, <3>2, OneInstantOneTick
  <2> QED BY <2>2, <2>3 DEF TimeFields
<1> QED
  BY <1>1, InputInvariant, PTL

\* The times of an accepted input whose years strftime writes with four digits are read back
\* by the engine as the ticks that hold the instants the client wrote, exactly if no
\* fraction is longer than the width, and the verifier accepts what was recorded and finds
\* it in normal form.
THEOREM NormalFormKept == PathSpec => []NormalFormFaithful
<1>1. InputInv => NormalFormFaithful
  <2> SUFFICES ASSUME InputInv, input # Missing, WideYears
               PROVE  /\ outcome = "NONE" /\ InputError(input) = "NONE"
                      /\ \A f \in TimeFields :
                            /\ times # Missing => times[f] = Tick(raw[f])
                            /\ Len(raw[f].fraction) <= FractionWidth =>
                                  SameInstant(input[f], raw[f])
                      /\ renormalized # Missing => renormalized = input
    BY DEF NormalFormFaithful
  <2>1. input = validate_input(raw) /\ InputError(raw) = "NONE" /\ Typed(raw)
    BY RawTyped DEF InputInv
  <2>2. InputError(input) = "NONE"
    <3>1. \A t \in {raw.signed_at, raw.knowledge_cutoff} : \A y \in FirstYear..WideYear - 1 :
              Tick(t) \div (Ticks * HoursPerYear) # y
      BY DEF WideYears, TimeFields
    <3> QED BY <2>1, <3>1, NormalFormAccepted
  <2>3. outcome = "NONE"
    BY <2>2, InputErrorExact, TimesErrorExact DEF InputInv
  <2>4. /\ validate_input(input) = input
        /\ parse_time(input.signed_at) = Tick(raw.signed_at)
        /\ parse_time(input.knowledge_cutoff) = Tick(raw.knowledge_cutoff)
    BY <2>1, NormalFormMeans
  <2>5. ASSUME NEW f \in TimeFields, times # Missing PROVE times[f] = Tick(raw[f])
    BY <2>4, <2>5 DEF InputInv, TimeFields
  <2>6. ASSUME NEW f \in TimeFields, Len(raw[f].fraction) <= FractionWidth
        PROVE  SameInstant(input[f], raw[f])
    <3>1. TimeTyped(raw[f]) /\ input[f] = canon_time(parse_time(raw[f]))
      BY <2>1 DEF Typed, TimeFields, validate_input
    <3> QED BY <2>6, <3>1, CanonExact DEF TimeTyped
  <2> QED BY <2>2, <2>3, <2>4, <2>5, <2>6 DEF InputInv
<1> QED
  BY <1>1, InputInvariant, PTL

=============================================================================
