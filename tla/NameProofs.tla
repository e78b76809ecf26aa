----------------------------- MODULE NameProofs -----------------------------
(***************************************************************************)
(* Proofs about module Name: for integers of every width, every option     *)
(* text and every unit, what a program reads for a number; for every       *)
(* set of hosts and options, sockets fit their addresses, ports and        *)
(* identifiers agree, and the addresses of a host are offered in turn.     *)
(***************************************************************************)
EXTENDS Name, TLAPS

-----------------------------------------------------------------------------
(* Arithmetic of C integers.                                                *)

\* The widths of the integer types: a long holds every narrower number.
LEMMA HalfType ==
    ASSUME NEW w \in Widths
    PROVE  /\ Half[w] \in Nat /\ Half[w] > 0
           /\ Half[64] \in Nat /\ Half[64] > 0
           /\ w # 64 => 2 * Half[w] <= Half[64]
<1>1. Half[w] \in Nat /\ Half[w] > 0 /\ Half[64] \in Nat /\ Half[64] > 0
  BY HalfAssumption DEF Widths
<1>2. ASSUME w # 64 PROVE 2 * Half[w] <= Half[64]
  <2>1. PICK k \in 1 .. Half[64] : Half[64] = k * (2 * Half[w])
    BY <1>2, HalfAssumption
  <2>2. k * (2 * Half[w]) >= 2 * Half[w]
    BY <1>1, <2>1
  <2> QED BY <2>1, <2>2
<1> QED BY <1>1, <1>2

\* The remainder is the only number in 0 .. m - 1 that differs from a by a
\* multiple of m.
LEMMA ModUnique ==
    ASSUME NEW m \in Nat, m > 0, NEW a \in Int, NEW q \in Int, NEW r \in Int,
           a = q * m + r, 0 <= r, r < m
    PROVE  a % m = r
OBVIOUS

\* A cast to a type that holds the number leaves it alone.
LEMMA CastIdentity ==
    ASSUME NEW s \in BOOLEAN, NEW w \in Widths, NEW v \in Values(s, w)
    PROVE  Cast(s, w, v) = v
<1>1. Half[w] \in Nat /\ Half[w] > 0
  BY HalfType
<1>2. v \in Int /\ v >= -Half[w] /\ v < Modulus(w) /\ Modulus(w) \in Nat /\ Modulus(w) > 0
  BY <1>1 DEF Values, MinOf, MaxOf, Modulus
<1>3. CASE v >= 0
  <2>1. v % Modulus(w) = v
    <3>1. v = 0 * Modulus(w) + v
      BY <1>2
    <3> QED BY <3>1, <1>2, <1>3, ModUnique
  <2> QED BY <2>1, <1>1, <1>2, <1>3 DEF Cast, Values, MinOf, MaxOf, Modulus
<1>4. CASE v < 0
  <2>1. v % Modulus(w) = v + Modulus(w)
    <3>1. \E q \in Int : v = q * Modulus(w) + (v + Modulus(w))
      <4>1. -1 \in Int /\ v = (-1) * Modulus(w) + (v + Modulus(w))
        BY <1>2
      <4> QED BY <4>1
    <3>2. 0 <= v + Modulus(w) /\ v + Modulus(w) < Modulus(w)
      BY <1>1, <1>2, <1>4 DEF Modulus
    <3>3. v + Modulus(w) \in Int
      BY <1>2
    <3> QED BY <3>1, <3>2, <3>3, <1>2, ModUnique
  <2> QED BY <2>1, <1>1, <1>2, <1>4 DEF Cast, Values, MinOf, MaxOf, Modulus
<1> QED BY <1>2, <1>3, <1>4

\* What an unsigned long makes of a number, a signed type makes good again.
LEMMA CastBack ==
    ASSUME NEW w \in Widths, NEW v \in Values(TRUE, w)
    PROVE  Cast(TRUE, w, Cast(FALSE, 64, v)) = v
<1> DEFINE m == 2 * Half[w]
           M == 2 * Half[64]
<1>1. /\ Half[w] \in Nat /\ Half[w] > 0 /\ Half[64] \in Nat /\ Half[64] > 0
      /\ Half[w] <= Half[64] /\ v \in Int /\ v >= -Half[w] /\ v < Half[w]
      /\ m \in Nat /\ m > 0 /\ M \in Nat /\ M > 0
  BY HalfType DEF Values, MinOf, MaxOf
<1>2. CASE v >= 0
  <2>1. v \in Values(FALSE, 64)
    BY <1>1, <1>2 DEF Values, MinOf, MaxOf, Modulus
  <2>2. Cast(FALSE, 64, v) = v
    BY <2>1, CastIdentity, ZenonT(60) DEF Widths
  <2> QED BY <2>2, CastIdentity
<1>3. CASE v < 0
  <2>1. v % M = v + M
    <3>1. -1 \in Int /\ v = (-1) * M + (v + M) /\ v + M \in Int
      BY <1>1
    <3>2. 0 <= v + M /\ v + M < M
      BY <1>1, <1>3
    <3>3. \E q \in Int : v = q * M + (v + M)
      BY <3>1
    <3> HIDE DEF M
    <3> QED BY <3>1, <3>2, <3>3, <1>1, ModUnique
  <2>2. PICK k \in Int : M = k * m
    <3>1. CASE w = 64
      <4>1. M = 1 * m
        BY <3>1, <1>1
      <4> QED BY <4>1
    <3>2. CASE w # 64
      <4>1. PICK j \in 1 .. Half[64] : Half[64] = j * m
        BY <3>2, HalfAssumption
      <4>2. M = (2 * j) * m /\ 2 * j \in Int
        BY <4>1, <1>1
      <4> QED BY <4>2
    <3> QED BY <3>1, <3>2
  <2>3. (v + M) % m = v + m
    <3>1. v + M = (k - 1) * m + (v + m) /\ k - 1 \in Int /\ v + m \in Int /\ v + M \in Int
      BY <2>2, <1>1
    <3>2. 0 <= v + m /\ v + m < m
      BY <1>1, <1>3
    <3> HIDE DEF m, M
    <3> QED BY <3>1, <3>2, <1>1, ModUnique
  <2>4. Cast(FALSE, 64, v) = v + M
    BY <2>1 DEF Cast, Modulus
  <2>5. Cast(TRUE, w, v + M) = v
    BY <2>3, <1>1, <1>3 DEF Cast, Modulus
  <2> QED BY <2>4, <2>5
<1>4. v >= 0 \/ v < 0
  BY <1>1
<1> QED BY <1>2, <1>3, <1>4

\* Division with remainder.
LEMMA Division ==
    ASSUME NEW m \in Nat, m > 0, NEW a \in Int
    PROVE  \E q \in Int, r \in Int : a = q * m + r /\ 0 <= r /\ r < m /\ r = a % m
<1>1. PICK q, r : r = a % m /\ q = a \div m
  OBVIOUS
<1>2. q \in Int /\ r \in Int /\ 0 <= r /\ r < m
  BY <1>1
<1>3. a = q * m + r
  BY <1>1, <1>2
<1> QED BY <1>1, <1>2, <1>3, Zenon

LEMMA Distributes ==
    ASSUME NEW a \in Int, NEW b \in Int, NEW m \in Nat
    PROVE  (a + b) * m = a * m + b * m
OBVIOUS

\* A detour over an unsigned long changes no cast.
LEMMA CastTwice ==
    ASSUME NEW s \in BOOLEAN, NEW w \in Widths, NEW x \in Int
    PROVE  Cast(s, w, Cast(FALSE, 64, x)) = Cast(s, w, x)
<1>1. PICK m, M : m = Modulus(w) /\ M = Modulus(64)
  OBVIOUS
<1>2. /\ m \in Nat /\ m > 0 /\ M \in Nat /\ M > 0
      /\ m = 2 * Half[w] /\ M = 2 * Half[64] /\ Half[w] \in Nat /\ Half[64] \in Nat
  BY <1>1, HalfType DEF Modulus
<1>3. PICK k \in Int : M = k * m
  <2>1. CASE w = 64
    <3>1. M = 1 * m
      BY <2>1, <1>2
    <3> QED BY <3>1
  <2>2. CASE w # 64
    <3>1. PICK j \in 1 .. Half[64] : Half[64] = j * (2 * Half[w])
      BY <2>2, HalfAssumption
    <3>2. M = (2 * j) * m /\ 2 * j \in Int
      BY <3>1, <1>2
    <3> QED BY <3>2
  <2> QED BY <2>1, <2>2
<1>4. PICK q \in Int, y \in Int : x = q * M + y /\ 0 <= y /\ y < M /\ y = x % M
  BY <1>2, Division
<1>5. PICK p \in Int, r \in Int : y = p * m + r /\ 0 <= r /\ r < m /\ r = y % m
  BY <1>2, Division
<1>8. x = (q * k + p) * m + r
  <2>1. q * M = (q * k) * m
    BY <1>2, <1>3
  <2>2. (q * k + p) * m = (q * k) * m + p * m
    <3>1. PICK g \in Int : g = q * k
      BY <1>3
    <3>2. (g + p) * m = g * m + p * m
      BY <1>2, Distributes
    <3> QED BY <3>1, <3>2
  <2>3. PICK d, e : d = (q * k) * m /\ e = p * m
    OBVIOUS
  <2>4. d \in Int /\ e \in Int
    BY <2>1, <2>3, <1>2
  <2>5. x = d + y /\ y = e + r /\ (q * k + p) * m = d + e
    BY <2>1, <2>2, <2>3, <1>4, <1>5, Zenon
  <2> QED BY <2>4, <2>5
<1>9. x % m = r
  <2>1. PICK c \in Int : c = q * k + p
    BY <1>3
  <2>2. x = c * m + r
    BY <2>1, <1>8
  <2> QED BY <2>2, <1>2, <1>5, ModUnique
<1>10. Cast(FALSE, 64, x) = y
  BY <1>1, <1>4 DEF Cast
<1> QED BY <1>1, <1>5, <1>9, <1>10 DEF Cast

-----------------------------------------------------------------------------
(* What the conversions of dict.c make of a number's decimal text.          *)

\* The text that data_from_int8 and the others print.
LEMMA StoredText ==
    ASSUME NEW v \in Int
    PROVE  /\ data_from(v).num[0] = (IF v < 0 THEN -v ELSE v)
           /\ Number(data_from(v), 0) = v
           /\ IsText(data_from(v))
<1> DEFINE t == data_from(v)
<1>1. t.minus = (v < 0)
  BY Zenon DEF data_from
<1>2. t.num = [b \in Bases |-> IF v < 0 THEN -v ELSE v] /\ t.tail = [b \in Bases |-> ""]
  BY Zenon DEF data_from
<1> HIDE DEF t
<1>3. t.num[0] = (IF v < 0 THEN -v ELSE v)
  BY <1>2 DEF Bases
<1>4. Number(t, 0) = v
  <2>1. CASE v < 0
    <3>1. Number(t, 0) = -t.num[0]
      BY <1>1, <2>1, Zenon DEF Number
    <3> QED BY <3>1, <1>3, <2>1
  <2>2. CASE ~(v < 0)
    <3>1. Number(t, 0) = t.num[0]
      BY <1>1, <2>2, Zenon DEF Number
    <3> QED BY <3>1, <1>3, <2>2
  <2> QED BY <2>1, <2>2
<1>5. IsText(t)
  <2>1. t.minus \in BOOLEAN
    <3>1. (v < 0) \in BOOLEAN
      OBVIOUS
    <3> QED BY <3>1, <1>1, Zenon
  <2>2. t.num \in [Bases -> Nat]
    <3>1. [b \in Bases |-> IF v < 0 THEN -v ELSE v] \in [Bases -> Nat]
      OBVIOUS
    <3> QED BY <3>1, <1>2, Zenon
  <2>3. t.lead = "" /\ t.tail[0] = ""
    <3>1. t.lead = ""
      BY Zenon DEF data_from, t
    <3>2. t.tail[0] = ""
      BY <1>2 DEF Bases
    <3> QED BY <3>1, <3>2
  <2> QED BY <2>1, <2>2, <2>3 DEF IsText, Leads
<1> QED BY <1>3, <1>4, <1>5 DEF t

\* Reading back what was stored, with the check of dict_get_int8 and the others.
LEMMA CheckedReadsStored ==
    ASSUME NEW s \in BOOLEAN, NEW w \in Widths, NEW v \in Values(s, w)
    PROVE  data_to_checked(s, w, data_from(v)) = Accepted(v)
<1> DEFINE t == data_from(v)
<1>1. /\ Half[w] \in Nat /\ Half[w] > 0 /\ Half[64] \in Nat /\ Half[64] > 0
      /\ w # 64 => 2 * Half[w] <= Half[64]
      /\ v \in Int
  BY HalfType DEF Values, MinOf, MaxOf
<1>2. Number(t, 0) = v /\ (v >= 0 => t.num[0] = v)
  BY <1>1, StoredText
<1>3. Cast(s, w, v) = v
  BY CastIdentity
<1> HIDE DEF t
<1>4. CASE s
  <2>1. v \in Values(TRUE, 64)
    BY <1>1, <1>4 DEF Values, MinOf, MaxOf, Modulus
  <2>2. strtol(t, 0).val = v
    BY <1>1, <1>2, <2>1 DEF strtol, Values, MinOf, MaxOf
  <2>3. ~strtol(t, 0).erange
    BY <1>2, <2>1, Zenon DEF strtol
  <2>4. data_to_checked(s, w, t) = [ret |-> 0, val |-> Cast(s, w, strtol(t, 0).val)]
    BY <2>3, <1>4, Zenon DEF data_to_checked
  <2> QED BY <2>2, <2>4, <1>3 DEF Accepted, t
<1>5. CASE ~s
  <2>1. v \in Values(FALSE, 64) /\ v >= 0
    BY <1>1, <1>5 DEF Values, MinOf, MaxOf, Modulus
  <2>2. Cast(FALSE, 64, v) = v
    BY <2>1, CastIdentity DEF Widths
  <2>3. ~(v > MaxOf(FALSE, 64))
    BY <1>1, <2>1 DEF Values, MinOf, MaxOf, Modulus
  <2>4. strtoul(t, 0) = [val |-> v, erange |-> FALSE]
    BY <1>2, <2>1, <2>2, <2>3 DEF strtoul
  <2>5. ~strtoul(t, 0).erange /\ strtoul(t, 0).val = v
    BY <2>4
  <2>6. data_to_checked(s, w, t) = [ret |-> 0, val |-> Cast(s, w, strtoul(t, 0).val)]
    BY <2>5, <1>5, Zenon DEF data_to_checked
  <2> QED BY <2>5, <2>6, <1>3 DEF Accepted, t
<1> QED BY <1>4, <1>5 DEF t

\* Reading it back without a check: data_to_uint64 stops at the largest long.
LEMMA UncheckedReadsStored ==
    ASSUME NEW s \in BOOLEAN, NEW w \in Widths, NEW v \in Values(s, w)
    PROVE  data_to(s, w, data_from(v))
             = IF ~s /\ w = 64 /\ v > MaxOf(TRUE, 64) THEN MaxOf(TRUE, 64) ELSE v
<1> DEFINE t == data_from(v)
<1>1. /\ Half[w] \in Nat /\ Half[w] > 0 /\ Half[64] \in Nat /\ Half[64] > 0
      /\ w # 64 => 2 * Half[w] <= Half[64]
      /\ v \in Int
  BY HalfType DEF Values, MinOf, MaxOf
<1>2. Number(t, 0) = v /\ t.num[0] = IF v < 0 THEN -v ELSE v
  BY <1>1, StoredText
<1>3. CASE s /\ w \in {32, 64}
  <2>1. ~(t.num[0] > MaxOf(FALSE, 64))
    BY <1>1, <1>2, <1>3 DEF Values, MinOf, MaxOf, Modulus
  <2>2. strtoul(t, 0).val = Cast(FALSE, 64, v)
    BY <1>2, <2>1 DEF strtoul
  <2>3. Cast(s, w, Cast(FALSE, 64, v)) = v
    BY <1>3, CastBack
  <2> QED BY <1>3, <2>2, <2>3 DEF data_to
<1>4. CASE ~(s /\ w \in {32, 64}) /\ v \in Values(TRUE, 64)
  <2>1. strtol(t, 0).val = v
    BY <1>1, <1>2, <1>4 DEF strtol, Values, MinOf, MaxOf
  <2>2. Cast(s, w, v) = v
    BY CastIdentity
  <2>3. ~(v > MaxOf(TRUE, 64))
    BY <1>1, <1>4 DEF Values, MinOf, MaxOf
  <2> QED BY <1>4, <2>1, <2>2, <2>3 DEF data_to
<1>5. CASE ~(s /\ w \in {32, 64}) /\ v \notin Values(TRUE, 64)
  <2>1. ~s /\ w = 64 /\ v > MaxOf(TRUE, 64)
    BY <1>1, <1>5 DEF Values, MinOf, MaxOf, Modulus, Widths
  <2>2. strtol(t, 0).val = MaxOf(TRUE, 64)
    BY <1>2, <2>1 DEF strtol
  <2>3. MaxOf(TRUE, 64) \in Values(s, w)
    BY <1>1, <2>1 DEF Values, MinOf, MaxOf, Modulus
  <2>4. Cast(s, w, MaxOf(TRUE, 64)) = MaxOf(TRUE, 64)
    BY <2>3, CastIdentity
  <2> QED BY <1>5, <2>1, <2>2, <2>4 DEF data_to
<1> QED BY <1>3, <1>4, <1>5

-----------------------------------------------------------------------------
(* What the conversions of common-utils.c make of a text.                   *)

\* A product with a unit is not smaller.
LEMMA UnitGrows ==
    ASSUME NEW a \in Nat, NEW u \in Nat, u > 0
    PROVE  a <= a * u /\ a * u \in Nat
OBVIOUS

LEMMA NumberType ==
    ASSUME NEW t, IsText(t), NEW b \in Bases
    PROVE  /\ t.num[b] \in Nat /\ Number(t, b) \in Int
           /\ ~t.minus => Number(t, b) = t.num[b]
           /\ t.minus => Number(t, b) = -t.num[b]
<1>1. t.num[b] \in Nat
  BY DEF IsText
<1>2. (~t.minus => Number(t, b) = t.num[b]) /\ (t.minus => Number(t, b) = -t.num[b])
  BY Zenon DEF Number
<1>3. t.minus \/ ~t.minus
  OBVIOUS
<1> QED BY <1>1, <1>2, <1>3

\* string2long accepts exactly the longs that nothing follows.
LEMMA LongExact ==
    ASSUME NEW t, IsText(t), NEW b \in Bases
    PROVE  string2long(t, b) = IF t.tail[b] = "" /\ Number(t, b) \in Values(TRUE, 64)
                               THEN Accepted(Number(t, b)) ELSE Refused
<1>1. Half[64] \in Nat /\ Half[64] > 0 /\ Number(t, b) \in Int
  BY HalfType, NumberType DEF Widths
<1>2. strtol(t, b).erange = (Number(t, b) \notin Values(TRUE, 64))
  BY Zenon DEF strtol
<1>3. Number(t, b) \in Values(TRUE, 64) => strtol(t, b).val = Number(t, b)
  BY <1>1 DEF strtol, Values, MinOf, MaxOf
<1> QED BY <1>2, <1>3, Zenon DEF string2long

\* string2ulong accepts exactly the unsigned longs without a sign that nothing
\* follows.
LEMMA UlongExact ==
    ASSUME NEW t, IsText(t), NEW b \in Bases
    PROVE  string2ulong(t, b) = IF t.tail[b] = "" /\ ~t.minus /\ Number(t, b) \in Values(FALSE, 64)
                                THEN Accepted(Number(t, b)) ELSE Refused
<1>1. Half[64] \in Nat /\ Half[64] > 0 /\ t.num[b] \in Nat /\ (~t.minus => Number(t, b) = t.num[b])
  BY HalfType, NumberType DEF Widths
<1>2. ~t.minus => (Number(t, b) \in Values(FALSE, 64) <=> ~(t.num[b] > MaxOf(FALSE, 64)))
  BY <1>1 DEF Values, MinOf, MaxOf, Modulus
<1>3. t.num[b] > MaxOf(FALSE, 64) => strtoul(t, b).erange
  BY DEF strtoul
<1>4. ~(t.num[b] > MaxOf(FALSE, 64)) =>
          ~strtoul(t, b).erange /\ strtoul(t, b).val = Cast(FALSE, 64, Number(t, b))
  BY DEF strtoul
<1>5. Number(t, b) \in Values(FALSE, 64) => Cast(FALSE, 64, Number(t, b)) = Number(t, b)
  BY CastIdentity DEF Widths
<1> QED BY <1>2, <1>3, <1>4, <1>5, Zenon DEF string2ulong

\* The types are nested.
LEMMA ValuesNested ==
    ASSUME NEW s \in BOOLEAN, NEW w \in Widths, NEW n \in Values(s, w)
    PROVE  n \in Values(s, 64) /\ (w # 64 => n \in Values(TRUE, 64)) /\ n \in Int
BY HalfType DEF Values, MinOf, MaxOf, Modulus

\* An unsigned int fits a signed long.
LEMMA UintFitsLong ==
    ASSUME NEW n \in Values(FALSE, 32)
    PROVE  n \in Values(TRUE, 64)
<1>1. 32 \in Widths /\ 64 \in Widths /\ 32 # 64
  BY DEF Widths
<1> QED  BY <1>1, HalfType DEF Values, MinOf, MaxOf, Modulus

\* The factor of a text: one unless the function knows units.
LEMMA FactorType ==
    ASSUME NEW r \in StringReaders, NEW t, IsText(t)
    PROVE  /\ Factor(r, t) \in Nat /\ Factor(r, t) > 0
           /\ r.fn \notin {"bytesize", "str_to_long_long"} => Factor(r, t) = 1
           /\ r.fn = "bytesize" =>
                  Factor(r, t) = IF t.tail[10] \in DOMAIN Unit THEN Unit[t.tail[10]] ELSE 1
           /\ r.fn = "str_to_long_long" =>
                  Factor(r, t) = IF t.lead \in DOMAIN Unit THEN Unit[t.lead] ELSE 1
<1>1. DOMAIN Unit = {"KB", "MB", "GB", "TB", "PB"} /\ \A u \in DOMAIN Unit : Unit[u] \in Nat /\ Unit[u] > 0
  BY UnitAssumption
<1>2. PICK u : /\ Factor(r, t) = IF u \in DOMAIN Unit THEN Unit[u] ELSE 1
               /\ r.fn \notin {"bytesize", "str_to_long_long"} => u = ""
               /\ r.fn = "bytesize" => u = t.tail[10]
               /\ r.fn = "str_to_long_long" => u = t.lead
  BY DEF Factor
<1>3. "" \notin DOMAIN Unit
  BY <1>1
<1>4. Factor(r, t) \in Nat /\ Factor(r, t) > 0
  <2>1. CASE u \in DOMAIN Unit
    <3>1. Unit[u] \in Nat /\ Unit[u] > 0
      BY <1>1, <2>1
    <3>2. Factor(r, t) = Unit[u]
      BY <1>2, <2>1, Zenon
    <3> QED BY <3>1, <3>2
  <2>2. CASE u \notin DOMAIN Unit
    <3>1. Factor(r, t) = 1
      BY <1>2, <2>2, Zenon
    <3> QED BY <3>1
  <2> QED BY <2>1, <2>2
<1> QED BY <1>2, <1>3, <1>4

\* What is nearer to zero than a number of a 64-bit type has that type too.
LEMMA SmallerFits ==
    ASSUME NEW m \in Nat, NEW k \in Nat, m <= k
    PROVE  /\ k \in Values(FALSE, 64) => m \in Values(FALSE, 64)
           /\ k \in Values(TRUE, 64) => m \in Values(TRUE, 64)
           /\ -k \in Values(TRUE, 64) => -m \in Values(TRUE, 64)
<1>1. Half[64] \in Nat /\ Half[64] > 0
  BY HalfType DEF Widths
<1> QED BY <1>1 DEF Values, MinOf, MaxOf, Modulus

\* A number fits when its product with a factor does.
LEMMA ProductFits ==
    ASSUME NEW t, IsText(t), NEW b \in Bases, NEW f \in Nat, f > 0,
           NEW s \in BOOLEAN, s \/ ~t.minus, Number(t, b) * f \in Values(s, 64)
    PROVE  Number(t, b) \in Values(s, 64)
<1>1. PICK m : m = t.num[b]
  OBVIOUS
<1>2. /\ m \in Nat
      /\ ~t.minus => Number(t, b) = m
      /\ t.minus => Number(t, b) = -m
  BY <1>1, NumberType
<1>3. PICK k : k = m * f
  OBVIOUS
<1>4. k \in Nat /\ m <= k
  BY <1>2, <1>3, UnitGrows
<1>5. CASE ~t.minus
  <2>1. k \in Values(s, 64)
    BY <1>2, <1>3, <1>5
  <2>2. m \in Values(s, 64)
    <3>1. CASE s
      BY <3>1, <2>1, <1>2, <1>4, SmallerFits
    <3>2. CASE ~s
      BY <3>2, <2>1, <1>2, <1>4, SmallerFits
    <3> QED BY <3>1, <3>2
  <2> QED BY <2>2, <1>2, <1>5
<1>6. CASE t.minus
  <2>1. s = TRUE
    BY <1>6
  <2>2. (-m) * f = -k
    BY <1>2, <1>3
  <2>3. -k \in Values(TRUE, 64)
    BY <1>2, <1>6, <2>1, <2>2
  <2>4. -m \in Values(TRUE, 64)
    BY <2>3, <1>2, <1>4, SmallerFits
  <2> QED BY <2>1, <2>4, <1>2, <1>6
<1> QED BY <1>5, <1>6

\* A conversion to a sized type that begins with one to a long or unsigned long.
LEMMA RangedExact ==
    ASSUME NEW s \in BOOLEAN, NEW w \in Widths, NEW n \in Int, NEW ok \in BOOLEAN, NEW q,
           q = IF ok /\ n \in Values(s, 64) THEN Accepted(n) ELSE Refused
    PROVE  Ranged(q, s, w) = IF ok /\ n \in Values(s, w) THEN Accepted(n) ELSE Refused
<1>1. n \in Values(s, w) => n \in Values(s, 64)
  BY ValuesNested
<1>2. Accepted(n).ret = 0 /\ Accepted(n).val = n /\ Refused.ret # 0
  BY DEF Accepted, Refused
<1>3. CASE ok /\ n \in Values(s, 64)
  <2>1. q = Accepted(n)
    BY <1>3, Zenon
  <2> QED BY <2>1, <1>2, <1>3, Zenon DEF Ranged
<1>4. CASE ~(ok /\ n \in Values(s, 64))
  <2>1. q = Refused
    BY <1>4, Zenon
  <2> QED BY <2>1, <1>1, <1>2, <1>4, Zenon DEF Ranged
<1> QED BY <1>3, <1>4, Zenon

\* The conversions that refuse what their type does not hold accept exactly
\* what it holds.
LEMMA ExactConverted ==
    ASSUME NEW r \in StringReaders, r.fn \in Exact, NEW t, IsText(t)
    PROVE  StringConverted(r, t, ReadText(r, t))
<1>1. PICK b : b = BaseOf(r)
  OBVIOUS
<1>2. PICK n : n = Number(t, b)
  OBVIOUS
<1>3. /\ b \in Bases
      /\ r.fn \in {"uintN_base10", "ulong_base10"} => b = 10
      /\ r.fn \notin {"uintN_base10", "ulong_base10"} => b = 0
  BY <1>1 DEF BaseOf, Bases, Exact
<1>4. /\ r.w \in Widths /\ r.signed \in BOOLEAN
      /\ r.fn \in {"intN", "long", "longlong"} => r.signed = TRUE
      /\ r.fn \notin {"intN", "long", "longlong"} => r.signed = FALSE
      /\ r.fn \notin {"intN", "uintN", "uintN_base10"} => r.w = 64
  BY DEF StringReaders, Exact, Widths
<1>5. n \in Int
  BY <1>2, <1>3, NumberType
<1>6. PICK ok \in BOOLEAN : ok = (t.tail[b] = "" /\ (r.signed \/ ~t.minus))
  <2>1. (t.tail[b] = "" /\ (r.signed \/ ~t.minus)) \in BOOLEAN
    OBVIOUS
  <2> QED BY <2>1, Zenon
<1>7. PICK q : q = IF ok /\ n \in Values(r.signed, 64) THEN Accepted(n) ELSE Refused
  OBVIOUS
<1>8. r.signed = TRUE => string2long(t, b) = q
  <2>1. string2long(t, b) = IF t.tail[b] = "" /\ n \in Values(TRUE, 64) THEN Accepted(n) ELSE Refused
    BY <1>2, <1>3, LongExact
  <2>2. r.signed = TRUE => ok = (t.tail[b] = "")
    BY <1>6
  <2> QED BY <2>1, <2>2, <1>7, Zenon
<1>9. r.signed = FALSE => string2ulong(t, b) = q
  <2>1. string2ulong(t, b)
          = IF t.tail[b] = "" /\ ~t.minus /\ n \in Values(FALSE, 64) THEN Accepted(n) ELSE Refused
    BY <1>2, <1>3, UlongExact
  <2>2. r.signed = FALSE => ok = (t.tail[b] = "" /\ ~t.minus)
    BY <1>6
  <2> QED BY <2>1, <2>2, <1>7, Zenon
<1>10. ReadText(r, t) = IF ok /\ n \in Values(r.signed, r.w) THEN Accepted(n) ELSE Refused
  <2>1. CASE r.fn \in {"intN", "uintN", "uintN_base10"}
    <3>1. ReadText(r, t) = Ranged(q, r.signed, r.w)
      <4>1. CASE r.fn = "intN"
        <5>1. ReadText(r, t) = string2intN(t, r.w)
          BY <4>1 DEF ReadText
        <5>2. string2intN(t, r.w) = Ranged(string2long(t, 0), TRUE, r.w)
          BY Zenon DEF string2intN, string2longlong
        <5> QED BY <5>1, <5>2, <4>1, <1>3, <1>4, <1>8
      <4>2. CASE r.fn = "uintN"
        <5>1. ReadText(r, t) = string2uintN(t, r.w)
          BY <4>2 DEF ReadText
        <5>2. string2uintN(t, r.w) = Ranged(string2ulong(t, 0), FALSE, r.w)
          BY Zenon DEF string2uintN, string2ulonglong
        <5> QED BY <5>1, <5>2, <4>2, <1>3, <1>4, <1>9
      <4>3. CASE r.fn = "uintN_base10"
        <5>1. ReadText(r, t) = string2uintN_base10(t, r.w)
          BY <4>3 DEF ReadText
        <5>2. string2uintN_base10(t, r.w) = Ranged(string2ulong(t, 10), FALSE, r.w)
          BY Zenon DEF string2uintN_base10, string2ulonglong
        <5> QED BY <5>1, <5>2, <4>3, <1>3, <1>4, <1>9
      <4> QED BY <4>1, <4>2, <4>3, <2>1
    <3>2. Ranged(q, r.signed, r.w) = IF ok /\ n \in Values(r.signed, r.w) THEN Accepted(n) ELSE Refused
      BY <1>4, <1>5, <1>7, RangedExact
    <3> QED BY <3>1, <3>2
  <2>2. CASE r.fn \notin {"intN", "uintN", "uintN_base10"}
    <3>1. ReadText(r, t) = IF r.signed THEN string2long(t, b) ELSE string2ulong(t, b)
      <4>1. CASE r.fn = "long"
        BY <4>1, <1>3, <1>4 DEF ReadText
      <4>2. CASE r.fn = "longlong"
        BY <4>2, <1>3, <1>4 DEF ReadText, string2longlong
      <4>3. CASE r.fn = "ulong"
        BY <4>3, <1>3, <1>4 DEF ReadText
      <4>4. CASE r.fn = "ulong_base10"
        BY <4>4, <1>3, <1>4 DEF ReadText
      <4>5. CASE r.fn = "ulonglong"
        BY <4>5, <1>3, <1>4 DEF ReadText, string2ulonglong
      <4> QED BY <4>1, <4>2, <4>3, <4>4, <4>5, <2>2 DEF Exact
    <3> QED BY <3>1, <2>2, <1>4, <1>7, <1>8, <1>9, Zenon
  <2> QED BY <2>1, <2>2
<1>11. Known(r, t) = ok
  <2>1. Suffixes(r) = {""} /\ r.fn # "str_to_long_long"
    BY DEF Suffixes, Exact
  <2> QED BY <2>1, <1>1, <1>6, Zenon DEF Known
<1>12. Meaning(r, t) = n
  <2>1. Factor(r, t) = 1
    BY FactorType DEF Exact
  <2>2. Meaning(r, t) = n * 1
    BY <2>1, <1>1, <1>2, Zenon DEF Meaning
  <2> QED BY <2>2, <1>5
<1>13. r.fn # "str_to_long_long"
  BY DEF Exact
<1> QED BY <1>10, <1>11, <1>12, <1>13, Zenon DEF StringConverted

\* The conversions that cut down what they read.
LEMMA CutConverted ==
    ASSUME NEW r \in StringReaders, r.fn \notin Exact, r.fn # "str_to_long_long", NEW t, IsText(t)
    PROVE  StringConverted(r, t, ReadText(r, t))
<1>1. PICK b : b = BaseOf(r)
  OBVIOUS
<1>2. PICK n, f, m : n = Number(t, b) /\ f = Factor(r, t) /\ m = Meaning(r, t)
  OBVIOUS
<1>3. PICK s \in BOOLEAN : s = (r.fn \in ReadSigned)
  <2>1. (r.fn \in ReadSigned) \in BOOLEAN
    OBVIOUS
  <2> QED BY <2>1, Zenon
<1>4. /\ r.fn \in {"int", "uint", "uint_base10", "time", "percent", "bytesize"}
      /\ r.fn = "int" => r.signed = TRUE
      /\ r.fn # "int" => r.signed = FALSE
      /\ r.fn = "bytesize" => r.w = 64
      /\ r.fn # "bytesize" => r.w = 32
  BY DEF StringReaders, Exact
<1>5. /\ b \in Bases
      /\ r.fn \in {"uint_base10", "bytesize"} => b = 10
      /\ r.fn \notin {"uint_base10", "bytesize"} => b = 0
  BY <1>1, <1>4 DEF BaseOf, Bases
<1>6. /\ r.fn \in {"int", "time", "percent"} => s = TRUE
      /\ r.fn \in {"uint", "uint_base10", "bytesize"} => s = FALSE
  BY <1>3 DEF ReadSigned
<1>7. /\ n \in Int /\ t.num[b] \in Nat
      /\ ~t.minus => n = t.num[b]
      /\ t.minus => n = -t.num[b]
  BY <1>2, <1>5, NumberType
<1>8. /\ f \in Nat /\ f > 0
      /\ r.fn # "bytesize" => f = 1
      /\ r.fn = "bytesize" => f = IF t.tail[10] \in DOMAIN Unit THEN Unit[t.tail[10]] ELSE 1
  BY <1>2, <1>4, FactorType
<1>9. m = n * f
  BY <1>1, <1>2, Zenon DEF Meaning
<1>10. f = 1 => m = n
  BY <1>7, <1>9
<1>11. Known(r, t) = (t.tail[b] \in Suffixes(r) /\ (r.signed \/ ~t.minus))
  BY <1>1, <1>4, Zenon DEF Known
<1>12. ReadText(r, t) = IF Known(r, t) /\ n \in Values(s, 64)
                        THEN Accepted(Cast(r.signed, r.w, m)) ELSE Refused
  <2>1. CASE r.fn = "int"
    <3>1. Known(r, t) = (t.tail[b] = "")
      BY <2>1, <1>4, <1>11 DEF Suffixes
    <3>2. string2long(t, b) = IF t.tail[b] = "" /\ n \in Values(TRUE, 64) THEN Accepted(n) ELSE Refused
      BY <1>2, <1>5, LongExact
    <3>3. ReadText(r, t) = string2int(t)
      BY <2>1 DEF ReadText
    <3>4. string2int(t) = IF string2long(t, b).ret = 0 THEN Accepted(Cast(TRUE, 32, string2long(t, b).val))
                          ELSE string2long(t, b)
      BY <2>1, <1>5 DEF string2int
    <3>5. m = n /\ s = TRUE /\ r.signed = TRUE /\ r.w = 32
      BY <2>1, <1>4, <1>6, <1>8, <1>10
    <3>6. CASE t.tail[b] = "" /\ n \in Values(TRUE, 64)
      <4>1. string2long(t, b).ret = 0 /\ string2long(t, b).val = n
        <5>1. string2long(t, b) = Accepted(n)
          BY <3>2, <3>6, Zenon
        <5> QED BY <5>1 DEF Accepted
      <4>2. ReadText(r, t) = Accepted(Cast(TRUE, 32, n))
        BY <3>3, <3>4, <4>1, Zenon
      <4> QED BY <4>2, <3>1, <3>5, <3>6
    <3>7. CASE ~(t.tail[b] = "" /\ n \in Values(TRUE, 64))
      <4>1. string2long(t, b) = Refused
        BY <3>2, <3>7, Zenon
      <4>2. string2long(t, b).ret # 0
        BY <4>1 DEF Refused
      <4>3. ReadText(r, t) = Refused
        BY <3>3, <3>4, <4>1, <4>2, Zenon
      <4> QED BY <4>3, <3>1, <3>5, <3>7
    <3> QED BY <3>6, <3>7
  <2>2. CASE r.fn \in {"uint", "uint_base10"}
    <3>1. Known(r, t) = (t.tail[b] = "" /\ ~t.minus)
      BY <2>2, <1>4, <1>11 DEF Suffixes
    <3>2. string2ulong(t, b) = IF t.tail[b] = "" /\ ~t.minus /\ n \in Values(FALSE, 64)
                               THEN Accepted(n) ELSE Refused
      BY <1>2, <1>5, UlongExact
    <3>3. ReadText(r, t) = string2uint(t, b)
      BY <2>2, <1>5 DEF ReadText
    <3>4. m = n /\ s = FALSE /\ r.signed = FALSE /\ r.w = 32
      BY <2>2, <1>4, <1>6, <1>8, <1>10
    <3>5. string2uint(t, b) = IF string2ulong(t, b).ret = 0
                              THEN Accepted(Cast(FALSE, 32, string2ulong(t, b).val))
                              ELSE string2ulong(t, b)
      BY Zenon DEF string2uint
    <3>6. CASE t.tail[b] = "" /\ ~t.minus /\ n \in Values(FALSE, 64)
      <4>1. string2ulong(t, b).ret = 0 /\ string2ulong(t, b).val = n
        <5>1. string2ulong(t, b) = Accepted(n)
          BY <3>2, <3>6, Zenon
        <5> QED BY <5>1 DEF Accepted
      <4>2. ReadText(r, t) = Accepted(Cast(FALSE, 32, n))
        BY <3>3, <3>5, <4>1, Zenon
      <4> QED BY <4>2, <3>1, <3>4, <3>6
    <3>7. CASE ~(t.tail[b] = "" /\ ~t.minus /\ n \in Values(FALSE, 64))
      <4>1. string2ulong(t, b) = Refused
        BY <3>2, <3>7, Zenon
      <4>2. string2ulong(t, b).ret # 0
        BY <4>1 DEF Refused
      <4>3. ReadText(r, t) = Refused
        BY <3>3, <3>5, <4>1, <4>2, Zenon
      <4> QED BY <4>3, <3>1, <3>4, <3>7
    <3> QED BY <3>6, <3>7
  <2>3. CASE r.fn \in {"time", "percent"}
    <3>1. ReadText(r, t) = Suffixed(t, Suffixes(r))
      BY <2>3 DEF ReadText, string2time, string2percent, Suffixes
    <3>2. m = n /\ s = TRUE /\ r.signed = FALSE /\ r.w = 32 /\ b = 0
      BY <2>3, <1>4, <1>5, <1>6, <1>8, <1>10
    <3>3. strtol(t, 0).erange = (n \notin Values(TRUE, 64))
      BY <3>2, <1>2, Zenon DEF strtol
    <3>4. n \in Values(TRUE, 64) => strtol(t, 0).val = n
      <4>1. Half[64] \in Nat /\ Half[64] > 0
        BY HalfType DEF Widths
      <4> QED BY <4>1, <3>2, <1>2, <1>7 DEF strtol, Values, MinOf, MaxOf
    <3>5. Known(r, t) = (t.tail[0] \in Suffixes(r) /\ ~t.minus)
      BY <3>2, <1>11
    <3> QED BY <3>1, <3>2, <3>3, <3>4, <3>5, Zenon DEF Suffixed
  <2>4. CASE r.fn = "bytesize"
    <3>1. s = FALSE /\ r.signed = FALSE /\ r.w = 64 /\ b = 10
      BY <2>4, <1>4, <1>5, <1>6
    <3>2. ReadText(r, t) = string2bytesize(t)
      BY <2>4 DEF ReadText
    <3>3. Known(r, t) = (t.tail[10] \in {""} \cup DOMAIN Unit /\ ~t.minus)
      BY <2>4, <3>1, <1>11 DEF Suffixes
    <3>4. CASE t.minus
      BY <3>2, <3>3, <3>4, Zenon DEF string2bytesize
    <3>5. CASE ~t.minus
      <4>1. Half[64] \in Nat /\ Half[64] > 0
        BY HalfType DEF Widths
      <4>2. n \in Values(FALSE, 64) <=> ~(t.num[10] > MaxOf(FALSE, 64))
        BY <4>1, <3>1, <3>5, <1>7 DEF Values, MinOf, MaxOf, Modulus
      <4>3. n \in Values(FALSE, 64) => Cast(FALSE, 64, n) = n
        BY CastIdentity DEF Widths
      <4>4. strtoul(t, 10).erange = (n \notin Values(FALSE, 64))
        BY <4>2 DEF strtoul
      <4>5. n \in Values(FALSE, 64) => strtoul(t, 10).val = n
        BY <4>2, <4>3, <3>1, <1>2 DEF strtoul
      <4>6. CASE t.tail[10] = ""
        <5>1. "" \notin DOMAIN Unit
          BY UnitAssumption
        <5>2. m = n
          BY <5>1, <4>6, <2>4, <1>8, <1>10
        <5>3. string2bytesize(t) = IF n \notin Values(FALSE, 64) THEN Refused ELSE Accepted(strtoul(t, 10).val)
          BY <4>4, <4>6, <3>5, Zenon DEF string2bytesize
        <5> QED BY <5>2, <5>3, <4>3, <4>5, <4>6, <3>1, <3>2, <3>3, <3>5
      <4>7. CASE t.tail[10] # "" /\ t.tail[10] \in DOMAIN Unit
        <5>1. m = n * Unit[t.tail[10]]
          BY <4>7, <2>4, <1>8, <1>9
        <5>2. string2bytesize(t) = IF n \notin Values(FALSE, 64) THEN Refused
                                   ELSE Accepted(Cast(FALSE, 64, strtoul(t, 10).val * Unit[t.tail[10]]))
          BY <4>4, <4>7, <3>5, Zenon DEF string2bytesize
        <5> QED BY <5>1, <5>2, <4>5, <4>7, <3>1, <3>2, <3>3, <3>5
      <4>8. CASE t.tail[10] # "" /\ t.tail[10] \notin DOMAIN Unit
        <5>1. string2bytesize(t) = Refused
          BY <4>8, Zenon DEF string2bytesize
        <5> QED BY <5>1, <4>8, <3>2, <3>3
      <4> QED BY <4>6, <4>7, <4>8
    <3> QED BY <3>4, <3>5
  <2> QED BY <2>1, <2>2, <2>3, <2>4, <1>4
<1>13. ASSUME Known(r, t), m \in Values(r.signed, r.w)
       PROVE  n \in Values(s, 64) /\ Cast(r.signed, r.w, m) = m
  <2>1. r.w \in Widths /\ r.signed \in BOOLEAN
    BY <1>4 DEF Widths
  <2>2. Cast(r.signed, r.w, m) = m
    BY <2>1, <1>13, CastIdentity
  <2>3. m \in Values(s, 64)
    <3>1. CASE r.fn \in {"time", "percent"}
      <4>1. r.signed = FALSE /\ r.w = 32 /\ s = TRUE
        BY <3>1, <1>4, <1>6
      <4> QED BY <4>1, <1>13, UintFitsLong
    <3>2. CASE r.fn \notin {"time", "percent"}
      <4>1. r.signed = s
        BY <3>2, <1>4, <1>6
      <4> QED BY <4>1, <2>1, <1>13, ValuesNested, ZenonT(60)
    <3> QED BY <3>1, <3>2
  <2>4. s \/ ~t.minus
    BY <1>13, <1>4, <1>6, <1>11
  <2>5. n \in Values(s, 64)
    BY <2>3, <2>4, <1>2, <1>5, <1>8, <1>9, ProductFits
  <2> QED BY <2>2, <2>5
<1> QED BY <1>1, <1>2, <1>3, <1>12, <1>13, Zenon DEF StringConverted

\* lz_str_to_long_long, which never refuses.
LEMMA LenientConverted ==
    ASSUME NEW r \in StringReaders, r.fn = "str_to_long_long", NEW t, IsText(t)
    PROVE  StringConverted(r, t, ReadText(r, t))
<1>1. PICK n, f, m, v : n = Number(t, 0) /\ f = Factor(r, t) /\ m = Meaning(r, t) /\ v = Nearest(TRUE, n)
  OBVIOUS
<1>2. BaseOf(r) = 0 /\ 0 \in Bases /\ r.signed = TRUE /\ r.w = 64 /\ 64 \in Widths
  BY DEF BaseOf, Bases, StringReaders, Widths
<1>3. n \in Int
  BY <1>1, <1>2, NumberType
<1>4. f \in Nat /\ f > 0 /\ f = IF t.lead \in DOMAIN Unit THEN Unit[t.lead] ELSE 1
  BY <1>1, FactorType
<1>5. m = n * f
  BY <1>1, <1>2, Zenon DEF Meaning
<1>6. Half[64] \in Nat /\ Half[64] > 0
  BY HalfType DEF Widths
<1>7. v \in Values(TRUE, 64) /\ v \in Int /\ (n \in Values(TRUE, 64) => v = n)
  BY <1>1, <1>3, <1>6 DEF Nearest, Values, MinOf, MaxOf
<1>8. strtol(t, 0).val = v
  BY <1>1, Zenon DEF strtol, Nearest
<1>9. ReadText(r, t) = str_to_long_long(t)
  BY DEF ReadText
<1>10. str_to_long_long(t) = Accepted(Cast(TRUE, 64, v * f))
  <2>1. DOMAIN Unit = {"KB", "MB", "GB", "TB", "PB"} /\ t.lead \in {"KB", "MB", "GB", ""}
    BY UnitAssumption DEF IsText, Leads
  <2>2. CASE t.lead = ""
    <3>1. f = 1
      BY <2>1, <2>2, <1>4
    <3>4. v * f = v
      BY <3>1, <1>7
    <3>2. Cast(TRUE, 64, v) = v
      BY <1>2, <1>7, CastIdentity
    <3>3. str_to_long_long(t) = Accepted(v)
      BY <2>2, <1>8, Zenon DEF str_to_long_long
    <3> QED BY <3>2, <3>3, <3>4
  <2>3. CASE t.lead # ""
    <3>1. f = Unit[t.lead]
      BY <2>1, <2>3, <1>4
    <3> QED BY <3>1, <2>3, <1>8, Zenon DEF str_to_long_long
  <2> QED BY <2>2, <2>3
<1>11. ASSUME m \in Values(TRUE, 64)
       PROVE  Cast(TRUE, 64, v * f) = m
  <2>1. n \in Values(TRUE, 64)
    <3>1. Number(t, 0) * f \in Values(TRUE, 64)
      BY <1>1, <1>5, <1>11
    <3>2. Number(t, 0) \in Values(TRUE, 64)
      BY <3>1, <1>2, <1>4, ProductFits
    <3> QED BY <3>2, <1>1
  <2>2. v * f = m
    BY <2>1, <1>5, <1>7
  <2> QED BY <2>2, <1>2, <1>11, CastIdentity
<1>12. r.fn \notin Exact
  BY DEF Exact
<1> QED BY <1>1, <1>2, <1>9, <1>10, <1>11, <1>12, Zenon DEF StringConverted

-----------------------------------------------------------------------------
(* NumbersConverted is an invariant of every run.                           *)

\* The inductive invariant.  The text is a text; when the program set it as a
\* number it is the text of that number; and what was read last was read from
\* the text that is still there, because a setter forgets it.
NumbersInv ==
    /\ text # NULL => IsText(text)
    /\ value # NULL => value \in Int /\ text = data_from(value)
    /\ got # NULL => /\ text # NULL
                     /\ got.reader \in StringReaders \cup DictReaders
                     /\ got.result = ReadText(got.reader, text)

\* Every conversion of a string.
LEMMA StringsConverted ==
    ASSUME NEW r \in StringReaders, NEW t, IsText(t)
    PROVE  StringConverted(r, t, ReadText(r, t))
BY ExactConverted, CutConverted, LenientConverted

\* strtoul and strtol on numbers of 64 bits and on larger ones.
LEMMA UlongRead ==
    ASSUME NEW t, IsText(t)
    PROVE  /\ t.num[0] \in Values(FALSE, 64) =>
                  ~strtoul(t, 0).erange /\ strtoul(t, 0).val = Cast(FALSE, 64, Number(t, 0))
           /\ t.num[0] \notin Values(FALSE, 64) =>
                  strtoul(t, 0).erange /\ strtoul(t, 0).val = Nearest(FALSE, t.num[0])
<1>1. Half[64] \in Nat /\ Half[64] > 0
  BY HalfType DEF Widths
<1>2. t.num[0] \in Nat
  BY NumberType DEF Bases
<1>3. t.num[0] \in Values(FALSE, 64) <=> ~(t.num[0] > MaxOf(FALSE, 64))
  BY <1>1, <1>2 DEF Values, MinOf, MaxOf, Modulus
<1>4. CASE t.num[0] \in Values(FALSE, 64)
  BY <1>3, <1>4 DEF strtoul
<1>5. CASE t.num[0] \notin Values(FALSE, 64)
  BY <1>3, <1>5 DEF strtoul, Nearest
<1> QED BY <1>4, <1>5

LEMMA LongRead ==
    ASSUME NEW t, IsText(t)
    PROVE  /\ strtol(t, 0).erange = (Number(t, 0) \notin Values(TRUE, 64))
           /\ strtol(t, 0).val = Nearest(TRUE, Number(t, 0))
           /\ Number(t, 0) \in Values(TRUE, 64) => strtol(t, 0).val = Number(t, 0)
<1>1. Half[64] \in Nat /\ Half[64] > 0
  BY HalfType DEF Widths
<1>2. Number(t, 0) \in Int
  BY NumberType DEF Bases
<1>3. strtol(t, 0).erange = (Number(t, 0) \notin Values(TRUE, 64))
  BY Zenon DEF strtol
<1>4. strtol(t, 0).val = Nearest(TRUE, Number(t, 0))
  BY Zenon DEF strtol, Nearest
<1>5. Number(t, 0) \in Values(TRUE, 64) => Nearest(TRUE, Number(t, 0)) = Number(t, 0)
  BY <1>1, <1>2 DEF Nearest, Values, MinOf, MaxOf
<1> QED BY <1>3, <1>4, <1>5

\* A getter of a dict on any text.
LEMMA GettersConverted ==
    ASSUME NEW r \in DictReaders, NEW t, IsText(t)
    PROVE  DictConverted(r, t, ReadText(r, t))
<1>1. PICK f \in {"dict_get", "data_to"}, ty \in DictTypes :
          r = [fn |-> f, signed |-> ty.signed, w |-> ty.w]
  BY DEF DictReaders
<1>2. ty.signed \in BOOLEAN /\ ty.w \in Widths
  BY DEF DictTypes
<1>3. r.signed \in BOOLEAN /\ r.w \in Widths /\ r.fn = f
  BY <1>1, <1>2, Zenon
<1>4. PICK n, u : n = Number(t, 0) /\ u = t.num[0]
  OBVIOUS
<1>5. n \in Int
  BY <1>4, NumberType DEF Bases
<1>6. Cast(r.signed, r.w, Cast(FALSE, 64, n)) = Cast(r.signed, r.w, n)
  BY <1>3, <1>5, CastTwice
<1>7. /\ strtol(t, 0).erange = (n \notin Values(TRUE, 64))
      /\ strtol(t, 0).val = Nearest(TRUE, n)
      /\ n \in Values(TRUE, 64) => strtol(t, 0).val = n
  BY <1>4, LongRead
<1>8. /\ u \in Values(FALSE, 64) => ~strtoul(t, 0).erange /\ strtoul(t, 0).val = Cast(FALSE, 64, n)
      /\ u \notin Values(FALSE, 64) => strtoul(t, 0).erange /\ strtoul(t, 0).val = Nearest(FALSE, u)
  BY <1>4, UlongRead
<1>9. CASE f = "dict_get"
  <2>1. ReadText(r, t) = data_to_checked(r.signed, r.w, t)
    BY <1>3, <1>9 DEF ReadText
  <2>2. CASE r.signed
    <3>1. data_to_checked(r.signed, r.w, t)
            = [ret |-> IF strtol(t, 0).erange THEN -1 ELSE 0, val |-> Cast(r.signed, r.w, strtol(t, 0).val)]
      BY <2>2, Zenon DEF data_to_checked
    <3>2. ASSUME n \in Values(TRUE, 64)
          PROVE  ReadText(r, t) = Accepted(Cast(r.signed, r.w, n))
      <4>1. ~strtol(t, 0).erange /\ strtol(t, 0).val = n
        BY <3>2, <1>7, Zenon
      <4>2. ReadText(r, t) = [ret |-> 0, val |-> Cast(r.signed, r.w, n)]
        BY <2>1, <3>1, <4>1, Zenon
      <4> QED BY <4>2, Zenon DEF Accepted
    <3>3. ASSUME n \notin Values(TRUE, 64)
          PROVE  ReadText(r, t).ret = -1
      <4>1. strtol(t, 0).erange
        BY <3>3, <1>7, Zenon
      <4>2. ReadText(r, t) = [ret |-> -1, val |-> Cast(r.signed, r.w, strtol(t, 0).val)]
        BY <2>1, <3>1, <4>1, Zenon
      <4> QED BY <4>2
    <3> QED BY <2>2, <3>2, <3>3, <1>3, <1>4, <1>9 DEF DictConverted
  <2>3. CASE ~r.signed
    <3>1. data_to_checked(r.signed, r.w, t)
            = [ret |-> IF strtoul(t, 0).erange THEN -1 ELSE 0, val |-> Cast(r.signed, r.w, strtoul(t, 0).val)]
      BY <2>3, Zenon DEF data_to_checked
    <3>2. u \in Values(FALSE, 64) => ReadText(r, t) = Accepted(Cast(r.signed, r.w, n))
      BY <2>1, <3>1, <1>6, <1>8 DEF Accepted
    <3>3. u \notin Values(FALSE, 64) => ReadText(r, t).ret = -1
      BY <2>1, <3>1, <1>8
    <3>4. r.signed = FALSE
      BY <2>3, <1>3
    <3> QED BY <3>2, <3>3, <3>4, <1>3, <1>4, <1>9 DEF DictConverted
  <2> QED BY <2>2, <2>3
<1>10. CASE f = "data_to"
  <2>1. ReadText(r, t) = Accepted(data_to(r.signed, r.w, t))
    BY <1>3, <1>10 DEF ReadText
  <2>2. CASE r.signed /\ r.w \in {32, 64}
    <3>1. data_to(r.signed, r.w, t) = Cast(r.signed, r.w, strtoul(t, 0).val)
      BY <2>2, Zenon DEF data_to
    <3>2. u \in Values(FALSE, 64) => ReadText(r, t) = Accepted(Cast(r.signed, r.w, n))
      BY <2>1, <3>1, <1>6, <1>8
    <3>3. u \notin Values(FALSE, 64) => ReadText(r, t) = Accepted(Cast(r.signed, r.w, Nearest(FALSE, u)))
      BY <2>1, <3>1, <1>8
    <3>4. r.signed = TRUE /\ ~(r.w < 32)
      BY <2>2, <1>3
    <3> QED BY <3>2, <3>3, <3>4, <1>3, <1>4, <1>10 DEF DictConverted
  <2>3. CASE ~(r.signed /\ r.w \in {32, 64})
    <3>1. data_to(r.signed, r.w, t) = Cast(r.signed, r.w, strtol(t, 0).val)
      BY <2>3, Zenon DEF data_to
    <3>2. n \in Values(TRUE, 64) => ReadText(r, t) = Accepted(Cast(r.signed, r.w, n))
      BY <2>1, <3>1, <1>7
    <3>3. n \notin Values(TRUE, 64) => ReadText(r, t) = Accepted(Cast(r.signed, r.w, Nearest(TRUE, n)))
      BY <2>1, <3>1, <1>7
    <3>4. ~r.signed \/ r.w < 32
      BY <2>3, <1>3 DEF Widths
    <3> QED BY <3>2, <3>3, <3>4, <1>3, <1>4, <1>10 DEF DictConverted
  <2> QED BY <2>2, <2>3
<1> QED BY <1>9, <1>10

\* A getter of a dict that finds a stored number which its type holds.
LEMMA DictReadsStored ==
    ASSUME NEW r \in DictReaders, NEW v \in Values(r.signed, r.w)
    PROVE  ReadText(r, data_from(v)) = Accepted(
               IF r.fn = "data_to" /\ ~r.signed /\ r.w = 64 /\ v > MaxOf(TRUE, 64)
               THEN MaxOf(TRUE, 64) ELSE v)
<1>1. PICK f \in {"dict_get", "data_to"}, ty \in DictTypes :
          r = [fn |-> f, signed |-> ty.signed, w |-> ty.w]
  BY DEF DictReaders
<1>2. ty.signed \in BOOLEAN /\ ty.w \in Widths
  BY DEF DictTypes
<1>3. r.signed \in BOOLEAN /\ r.w \in Widths /\ r.fn = f
  BY <1>1, <1>2, Zenon
<1>4. CASE f = "dict_get"
  <2>1. ReadText(r, data_from(v)) = data_to_checked(r.signed, r.w, data_from(v))
    BY <1>3, <1>4 DEF ReadText
  <2> QED BY <2>1, <1>3, <1>4, CheckedReadsStored
<1>5. CASE f = "data_to"
  <2>1. ReadText(r, data_from(v)) = Accepted(data_to(r.signed, r.w, data_from(v)))
    BY <1>3, <1>5 DEF ReadText
  <2>2. data_to(r.signed, r.w, data_from(v))
          = IF ~r.signed /\ r.w = 64 /\ v > MaxOf(TRUE, 64) THEN MaxOf(TRUE, 64) ELSE v
    BY <1>3, UncheckedReadsStored, ZenonT(60)
  <2> QED BY <2>1, <2>2, <1>3, <1>5, Zenon
<1> QED BY <1>1, <1>4, <1>5

\* What the invariant is for.
LEMMA NumbersInvConverted == NumbersInv => NumbersConverted
<1> SUFFICES ASSUME NumbersInv PROVE NumbersConverted
  OBVIOUS
<1>1. got # NULL => IsText(text) /\ got.result = ReadText(got.reader, text)
  BY DEF NumbersInv
<1>2. ASSUME got # NULL, got.reader \in StringReaders
      PROVE  StringConverted(got.reader, text, got.result)
  <2>1. StringConverted(got.reader, text, ReadText(got.reader, text))
    BY <1>1, <1>2, StringsConverted
  <2> QED BY <2>1, <1>1, <1>2
<1>3. ASSUME got # NULL, got.reader \in DictReaders
      PROVE  DictConverted(got.reader, text, got.result)
  <2>1. DictConverted(got.reader, text, ReadText(got.reader, text))
    BY <1>1, <1>3, GettersConverted
  <2> QED BY <2>1, <1>1, <1>3
<1>4. StoredNumberRead
  <2> SUFFICES ASSUME got # NULL, got.reader \in DictReaders, value # NULL,
                      value \in Values(got.reader.signed, got.reader.w)
               PROVE  got.result = Accepted(
                          IF /\ got.reader.fn = "data_to" /\ ~got.reader.signed
                             /\ got.reader.w = 64 /\ value > MaxOf(TRUE, 64)
                          THEN MaxOf(TRUE, 64) ELSE value)
    BY Zenon DEF StoredNumberRead
  <2>1. text = data_from(value) /\ got.result = ReadText(got.reader, text)
    BY DEF NumbersInv
  <2> QED BY <2>1, DictReadsStored
<1> QED BY <1>2, <1>3, <1>4, Zenon DEF NumbersConverted

\* Initially there is no option.
LEMMA NumbersInit == Init => NumbersInv
BY DEF Init, NumbersInv

\* Every step keeps the invariant: the setters make a text and forget what was
\* read, a getter reads the text, and the sockets touch neither.
LEMMA NumbersStep == NumbersInv /\ [Next]_vars => NumbersInv'
<1> SUFFICES ASSUME NumbersInv, [Next]_vars PROVE NumbersInv'
  OBVIOUS
<1>1. ASSUME NEW ty \in DictTypes, NEW v \in Values(ty.signed, ty.w), dict_set_number(ty, v)
      PROVE  NumbersInv'
  <2>1. ty.w \in Widths /\ ty.signed \in BOOLEAN
    BY DEF DictTypes
  <2>2. v \in Int
    BY <2>1, ValuesNested
  <2>3. IsText(data_from(v))
    BY <2>2, StoredText
  <2>4. text' = data_from(v) /\ value' = v /\ got' = NULL
    BY <1>1 DEF dict_set_number
  <2> QED BY <2>2, <2>3, <2>4 DEF NumbersInv
<1>2. ASSUME NEW t \in Texts, set_text(t)
      PROVE  NumbersInv'
  BY <1>2, TextAssumption DEF set_text, NumbersInv
<1>3. ASSUME NEW r \in StringReaders \cup DictReaders, read_number(r)
      PROVE  NumbersInv'
  <2>1. text # NULL /\ text' = text /\ value' = value
    BY <1>3 DEF read_number
  <2>2. got' = [reader |-> r, result |-> ReadText(r, text)]
    BY <1>3 DEF read_number
  <2>3. got'.reader = r /\ got'.result = ReadText(r, text')
    BY <2>1, <2>2, Zenon
  <2> QED BY <2>1, <2>3 DEF NumbersInv
<1>4. CASE Start
  BY <1>4 DEF Start, NumbersInv
<1>5. CASE UNCHANGED <<text, value, got>>
  BY <1>5 DEF NumbersInv
<1>6. ASSUME socket_client_get_remote_sockaddr \/ ClientConnect \/ ClientFinish \/ ClientCloses
             \/ ServerListen \/ Accept
      PROVE  UNCHANGED <<text, value, got>>
  BY <1>6, Zenon DEF socket_client_get_remote_sockaddr, ClientConnect, ClientFinish, ClientCloses,
                     ServerListen, Accept
<1> QED BY <1>1, <1>2, <1>3, <1>4, <1>5, <1>6 DEF Next, vars

\* For integers of every width, units of every size and every option text: a
\* number that the type a program reads holds arrives as it was written or set
\* (data_to_uint64 gives the largest signed one for what is beyond it), the
\* conversions to sized types and to longs refuse every other, and the rest cut
\* down what they read to their type or refuse it as NumbersConverted says
\* (lz_string2..., lz_str_to_long_long, dict_get_..., data_to_...).
THEOREM ConversionsCorrect == Spec => []NumbersConverted
<1>1. Init => NumbersInv
  BY NumbersInit
<1>2. NumbersInv /\ [Next]_vars => NumbersInv'
  BY NumbersStep
<1>3. NumbersInv => NumbersConverted
  BY NumbersInvConverted
<1> QED BY <1>1, <1>2, <1>3, PTL DEF Spec

-----------------------------------------------------------------------------
(* Addresses, ports and identifiers.  The inductive invariant is NameInv.   *)

\* The families of addresses that are asked of the resolver, and those of sockets.
InetFamilies == {"INET", "INET6"}
SocketFamilies == {"UNIX", "INET", "INET6", "INET_SDP"}

\* What the resolver finds for the client's options.
RemotePort == PortOf(options.remote_port)
Wanted == InetFamily(client_fill_address_family)
Hosts == [fam : IF Wanted = "UNSPEC" THEN InetFamilies ELSE {Wanted}, mapped : {FALSE},
          id : Ids, port : {RemotePort}]

\* An address as it is, without the name that an SDP socket gives it.
Inet(a) == [a EXCEPT !.fam = InetFamily(@)]

\* An address that a socket of a family can have.
Named(family, a) ==
    /\ family \in SocketFamilies
    /\ a = Address(a.fam, a.id, a.port)
    /\ a.fam = InetFamily(family)

\* A list of addresses for the client's options; those before the next one were
\* offered.
Turn(c, o) ==
    /\ c = [first |-> c.first, next |-> c.next]
    /\ c.first \in Seq(Hosts)
    /\ \A i, j \in DOMAIN c.first : c.first[i] = c.first[j] => i = j
    /\ c.next \in 0 .. Len(c.first)
    /\ c.next = 0 => o = c.first
    /\ c.next # 0 => /\ o \in Seq(Hosts)
                     /\ Len(o) = c.next - 1
                     /\ \A i \in 1 .. c.next - 1 : o[i] = c.first[i]

CacheInv == cache # NULL => options # NULL /\ Turn(cache, offered)

\* The client's socket and the address it connects to.
RemoteNamed(a) ==
    /\ Named(client.family, a)
    /\ client.family # "UNIX" => a.port = RemotePort /\ RemotePort # NoPort

ClientInv ==
    /\ client.at \in {"idle", "resolved", "connecting", "connected"}
    /\ client.at # "idle" => options # NULL
    /\ client.at \in {"resolved", "connecting"} => RemoteNamed(client.peer)
    /\ client.at = "connecting" => Named(client.family, client.mine)
    /\ client.at = "connected" =>
          /\ client.mine \in NamesOf(client.family, Inet(client.mine))
          /\ client.peer \in NamesOf(client.family, Inet(client.peer))
          /\ RemoteNamed(Inet(client.peer)) /\ Named(client.family, Inet(client.mine))
          /\ client.myid \in {Inet(client.mine), Junk}
          /\ client.peerid \in {Inet(client.peer), Junk}

ServerInv ==
    /\ server.at \in {"idle", "listening"}
    /\ server.at = "listening" =>
          /\ options # NULL
          /\ Named(server.family, server.addr)
          /\ server.family # "UNIX" => server.addr.port = ListenPort(options.listen_port)

NameInv ==
    /\ CacheInv /\ ClientInv /\ ServerInv
    /\ IdentifiersMatch
    /\ accepted # NULL => client.at = "connected"

\* The families that options can name.
LEMMA FamilyLemma ==
    /\ client_fill_address_family # NULL => client_fill_address_family \in SocketFamilies \cup {"UNSPEC"}
    /\ server_fill_address_family # NULL => server_fill_address_family \in SocketFamilies \cup {"UNSPEC"}
<1>1. ASSUME NEW name PROVE FamilyNamed(name) # NULL => FamilyNamed(name) \in SocketFamilies \cup {"UNSPEC"}
  <2>1. ASSUME name \in DOMAIN FamilyNames PROVE FamilyNames[name] \in SocketFamilies \cup {"UNSPEC"}
    <3>1. name \in {"unix", "inet", "inet6", "inet_sdp", "inet_inet6"}
      BY <2>1 DEF FamilyNames
    <3> QED  BY <3>1 DEF FamilyNames, SocketFamilies
  <2> QED  BY <2>1 DEF FamilyNamed
<1>2. "UNIX" \in SocketFamilies \cup {"UNSPEC"} /\ "UNSPEC" \in SocketFamilies \cup {"UNSPEC"}
  BY DEF SocketFamilies
<1>3. client_fill_address_family \in {FamilyNamed(options.family), NULL, "UNIX", "UNSPEC"}
  BY DEF client_fill_address_family
<1>4. server_fill_address_family \in {FamilyNamed(options.family), "UNSPEC"}
  BY DEF server_fill_address_family
<1>5. client_fill_address_family # NULL => client_fill_address_family \in SocketFamilies \cup {"UNSPEC"}
  BY <1>1, <1>2, <1>3, Zenon
<1>6. server_fill_address_family # NULL => server_fill_address_family \in SocketFamilies \cup {"UNSPEC"}
  BY <1>1, <1>2, <1>4, Zenon
<1> QED  BY <1>5, <1>6

\* getaddrinfo finds different addresses of the families that are asked for.
LEMMA ListsLemma ==
    ASSUME NEW l \in Lists(Wanted, RemotePort)
    PROVE  l \in Seq(Hosts) /\ Len(l) \in Nat /\ Len(l) >= 1
           /\ \A i, j \in DOMAIN l : l[i] = l[j] => i = j
<1> DEFINE found == {Address(f, id, RemotePort) :
                        f \in IF Wanted = "UNSPEC" THEN {"INET", "INET6"} ELSE {Wanted}, id \in Ids}
<1>1. found \subseteq Hosts
  <2>1. PICK fams, port : fams = (IF Wanted = "UNSPEC" THEN {"INET", "INET6"} ELSE {Wanted}) /\ port = RemotePort
    OBVIOUS
  <2>2. Hosts = [fam : fams, mapped : {FALSE}, id : Ids, port : {port}]
    BY <2>1, Zenon DEF Hosts, InetFamilies
  <2>3. found = {Address(f, id, port) : f \in fams, id \in Ids}
    BY <2>1
  <2>4. ASSUME NEW f \in fams, NEW id \in Ids PROVE Address(f, id, port) \in Hosts
    BY <2>2 DEF Address
  <2> QED  BY <2>3, <2>4
<1>2. /\ l \in UNION {[1 .. n -> found] : n \in 1 .. MaxAddrs}
      /\ \A i, j \in DOMAIN l : l[i] = l[j] => i = j
  BY DEF Lists
<1> HIDE DEF found
<1>3. PICK n \in 1 .. MaxAddrs : l \in [1 .. n -> found]
  BY <1>2
<1>4. n \in Nat /\ n >= 1
  BY AddrsAssumption
<1>5. l \in [1 .. n -> Hosts]
  BY <1>1, <1>3
<1>6. l \in Seq(Hosts) /\ Len(l) = n
  BY <1>4, <1>5
<1> QED  BY <1>2, <1>4, <1>6

\* The address that is returned is the next of the list.
Next1(d) == [d EXCEPT !.next = IF d.next = Len(d.first) THEN 0 ELSE d.next + 1]

LEMMA ResolvedInTurn ==
    ASSUME CacheInv, options # NULL, NEW r \in Resolved(Wanted, RemotePort)
    PROVE  /\ r.ok \in BOOLEAN
           /\ r.cache # NULL => Turn(r.cache, r.offered)
           /\ r.ok = FALSE => r.offered = <<>>
           /\ r.ok = TRUE =>
                 /\ r.addr \in Hosts
                 /\ \/ /\ r.offered = Append(offered, r.addr)
                       /\ \A i \in DOMAIN offered : offered[i] # r.addr
                    \/ /\ Len(r.offered) = 1
                       /\ cache # NULL => offered = cache.first
<1> DEFINE c == Flushed(cache)
           probing == c.first = <<>>
           lists == IF probing THEN {[first |-> l, next |-> 1] : l \in Lists(Wanted, RemotePort)}
                    ELSE {c}
           Ret(d) == [ok |-> TRUE, addr |-> d.first[d.next],
                      offered |-> Append(IF probing THEN <<>> ELSE offered, d.first[d.next]),
                      cache |-> Next1(d)]
           Freed == [ok |-> FALSE, cache |-> NULL, offered |-> <<>>]
           NoService == [ok |-> FALSE, cache |-> c, offered |-> <<>>]
<1>1. (\E d \in lists : r = Ret(d)) \/ r = Freed \/ (probing /\ r = NoService)
  BY DEF Resolved, Next1
<1>2. \/ c = NoList /\ probing /\ (cache # NULL => offered = cache.first)
      \/ c = cache /\ ~probing /\ cache # NULL /\ cache.next # 0 /\ Turn(cache, offered)
  <2>1. CASE cache = NULL
    BY <2>1 DEF Flushed, NoList
  <2>2. CASE cache # NULL /\ cache.next = 0
    BY <2>2 DEF Flushed, NoList, CacheInv, Turn
  <2>3. CASE cache # NULL /\ cache.next # 0
    <3>1. c = cache
      BY <2>3 DEF Flushed
    <3>2. Turn(cache, offered)
      BY <2>3 DEF CacheInv
    <3>3. cache.first # <<>>
      BY <3>2, <2>3 DEF Turn
    <3> QED  BY <2>3, <3>1, <3>2, <3>3
  <2> QED  BY <2>1, <2>2, <2>3
<1>3. Turn(NoList, <<>>)
  BY DEF Turn, NoList
<1>4. CASE r = Freed
  BY <1>4
<1>5. CASE probing /\ r = NoService
  <2>1. c = NoList
    BY <1>2, <1>5
  <2>2. r.ok = FALSE /\ r.cache = NoList /\ r.offered = <<>>
    BY <1>5, <2>1
  <2> QED  BY <2>2, <1>3
<1>6. CASE \E d \in lists : r = Ret(d)
  <2>1. PICK d \in lists : r = Ret(d)
    BY <1>6
  <2>2. PICK o : o = IF probing THEN <<>> ELSE offered
    OBVIOUS
  <2>3. /\ r.ok = TRUE /\ r.addr = d.first[d.next] /\ r.offered = Append(o, d.first[d.next])
        /\ r.cache = Next1(d)
    BY <2>1, <2>2
  <2>4. /\ d = [first |-> d.first, next |-> d.next]
        /\ d.first \in Seq(Hosts) /\ \A i, j \in DOMAIN d.first : d.first[i] = d.first[j] => i = j
        /\ d.next \in 1 .. Len(d.first)
        /\ o \in Seq(Hosts) /\ Len(o) = d.next - 1
        /\ \A i \in 1 .. d.next - 1 : o[i] = d.first[i]
    <3>1. CASE probing
      <4>1. PICK l \in Lists(Wanted, RemotePort) : d = [first |-> l, next |-> 1]
        BY <3>1
      <4>2. o = <<>>
        BY <2>2, <3>1
      <4>3. d.first = l /\ d.next = 1
        BY <4>1
      <4>4. l \in Seq(Hosts) /\ Len(l) \in Nat /\ Len(l) >= 1 /\ \A i, j \in DOMAIN l : l[i] = l[j] => i = j
        BY ListsLemma
      <4> QED  BY <4>1, <4>2, <4>3, <4>4
    <3>2. CASE ~probing
      <4>1. d = cache /\ o = offered /\ cache.next # 0 /\ Turn(cache, offered)
        BY <1>2, <2>2, <3>2
      <4> QED  BY <4>1 DEF Turn
    <3> QED  BY <3>1, <3>2
  <2>5. \/ o = offered
        \/ o = <<>> /\ (cache # NULL => offered = cache.first)
    BY <1>2, <2>2
  <2> HIDE DEF c, probing, lists, Ret, Freed, NoService
  <2>6. PICK f, n : f = d.first /\ n = d.next
    OBVIOUS
  <2>7. /\ f \in Seq(Hosts) /\ (\A i, j \in DOMAIN f : f[i] = f[j] => i = j) /\ n \in 1 .. Len(f)
        /\ o \in Seq(Hosts) /\ Len(o) = n - 1 /\ \A i \in 1 .. n - 1 : o[i] = f[i]
    BY <2>4, <2>6
  <2>8. f[n] \in Hosts /\ Len(f) \in Nat /\ DOMAIN f = 1 .. Len(f) /\ DOMAIN o = 1 .. n - 1
    BY <2>7
  <2>9. /\ Append(o, f[n]) \in Seq(Hosts) /\ Len(Append(o, f[n])) = n
        /\ \A i \in 1 .. n : Append(o, f[n])[i] = f[i]
    <3>1. Append(o, f[n]) \in Seq(Hosts) /\ Len(Append(o, f[n])) = n
      BY <2>7, <2>8
    <3>2. \A i \in 1 .. n - 1 : Append(o, f[n])[i] = o[i]
      BY <2>7, <2>8
    <3>3. Append(o, f[n])[n] = f[n]
      BY <2>7, <2>8
    <3>4. \A i \in 1 .. n : i = n \/ i \in 1 .. n - 1
      BY <2>7
    <3> QED  BY <3>1, <3>2, <3>3, <3>4, <2>7
  <2>10. r.cache = [first |-> f, next |-> IF n = Len(f) THEN 0 ELSE n + 1]
    BY <2>3, <2>4, <2>6 DEF Next1
  <2>11. Turn(r.cache, r.offered)
    <3>1. PICK m, a : m = (IF n = Len(f) THEN 0 ELSE n + 1) /\ a = Append(o, f[n])
      OBVIOUS
    <3>2. r.cache = [first |-> f, next |-> m] /\ r.offered = a
      BY <2>3, <2>6, <2>10, <3>1
    <3>3. m \in 0 .. Len(f)
      BY <2>7, <2>8, <3>1
    <3>4. ASSUME m = 0 PROVE a = f
      <4>1. n = Len(f)
        <5>1. n + 1 # 0
          BY <2>7, <2>8
        <5> QED  BY <5>1, <3>1, <3>4
      <4>2. a \in Seq(Hosts) /\ Len(a) = Len(f) /\ \A i \in 1 .. Len(f) : a[i] = f[i]
        BY <2>9, <3>1, <4>1
      <4> QED  BY <4>2, <2>7
    <3>5. ASSUME m # 0 PROVE a \in Seq(Hosts) /\ Len(a) = m - 1 /\ \A i \in 1 .. m - 1 : a[i] = f[i]
      <4>1. m - 1 = n
        BY <2>7, <3>1, <3>5
      <4> QED  BY <2>9, <3>1, <4>1
    <3> QED  BY <2>7, <3>2, <3>3, <3>4, <3>5 DEF Turn
  <2>12. CASE o = offered
    <3>1. \A i \in DOMAIN offered : offered[i] # f[n]
      <4>1. ASSUME NEW i \in 1 .. n - 1 PROVE o[i] # f[n]
        <5>1. i \in DOMAIN f /\ n \in DOMAIN f /\ i # n /\ o[i] = f[i]
          BY <2>7, <2>8
        <5> QED  BY <5>1, <2>7
      <4> QED  BY <4>1, <2>8, <2>12
    <3> QED  BY <3>1, <2>3, <2>6, <2>8, <2>11, <2>12
  <2>13. CASE o = <<>> /\ (cache # NULL => offered = cache.first)
    <3>1. Len(r.offered) = 1
      BY <2>3, <2>13
    <3> QED  BY <3>1, <2>3, <2>6, <2>8, <2>11, <2>13
  <2> QED  BY <2>5, <2>12, <2>13
<1> QED  BY <1>1, <1>4, <1>5, <1>6

-----------------------------------------------------------------------------
(* Steps that leave a part of the state alone.                              *)

LEMMA OptionsKept ==
    ASSUME options' = options
    PROVE  RemotePort' = RemotePort /\ Wanted' = Wanted /\ Hosts' = Hosts
<1>1. RemotePort' = RemotePort
  BY DEF RemotePort
<1>2. Wanted' = Wanted
  BY DEF Wanted, client_fill_address_family
<1> QED  BY <1>1, <1>2 DEF Hosts

LEMMA PartsKept ==
    ASSUME NameInv, options' = options
    PROVE  /\ cache' = cache /\ offered' = offered => CacheInv'
           /\ client' = client => ClientInv'
           /\ server' = server => ServerInv'
           /\ client' = client /\ accepted' = accepted => IdentifiersMatch'
<1>1. RemotePort' = RemotePort /\ Hosts' = Hosts
  BY OptionsKept
<1>2. ASSUME cache' = cache, offered' = offered PROVE CacheInv'
  BY <1>1, <1>2 DEF NameInv, CacheInv, Turn
<1>3. ASSUME client' = client PROVE ClientInv'
  <2>1. ClientInv
    BY DEF NameInv
  <2> QED  BY <2>1, <1>1, <1>3 DEF ClientInv, RemoteNamed
<1>4. ASSUME server' = server PROVE ServerInv'
  <2>1. ServerInv
    BY DEF NameInv
  <2> QED  BY <2>1, <1>4 DEF ServerInv
<1>5. ASSUME client' = client, accepted' = accepted PROVE IdentifiersMatch'
  <2>1. IdentifiersMatch
    BY DEF NameInv
  <2> QED  BY <2>1, <1>5 DEF IdentifiersMatch
<1> QED  BY <1>2, <1>3, <1>4, <1>5

-----------------------------------------------------------------------------
(* The client resolves its host.                                            *)

\* What AddressesInTurn says of a step.
InTurn ==
    offered' # offered /\ offered' # <<>> =>
        \/ /\ offered' = Append(offered, client'.peer)
           /\ \A i \in DOMAIN offered : offered[i] # client'.peer
        \/ /\ Len(offered') = 1
           /\ cache # NULL => offered = cache.first

\* An address of the host fits the socket that is made for it.
LEMMA HostNamed ==
    ASSUME NEW fam \in {"INET", "INET6", "INET_SDP", "UNSPEC"},
           fam = client_fill_address_family, NEW a \in Hosts
    PROVE  Named(SocketFamily(fam, a), a) /\ a.port = RemotePort
<1>1. Wanted = InetFamily(fam)
  BY DEF Wanted
<1>2. a.fam \in (IF Wanted = "UNSPEC" THEN InetFamilies ELSE {Wanted}) /\ a.port = RemotePort
      /\ a = [fam |-> a.fam, mapped |-> FALSE, id |-> a.id, port |-> a.port]
  BY DEF Hosts
<1>3. CASE fam = "UNSPEC"
  BY <1>1, <1>2, <1>3 DEF InetFamily, InetFamilies, Named, Address, SocketFamily, SocketFamilies
<1>4. CASE fam # "UNSPEC"
  BY <1>1, <1>2, <1>4 DEF InetFamily, Named, Address, SocketFamily, SocketFamilies
<1> QED  BY <1>3, <1>4

\* A call that finds nothing leaves the client as it is.
LEMMA ResolveStep ==
    ASSUME NameInv, socket_client_get_remote_sockaddr
    PROVE  NameInv' /\ InTurn
<1>1. PICK fam : fam = client_fill_address_family
  OBVIOUS
<1>2. PICK r \in IF fam = NULL THEN {[ok |-> FALSE, cache |-> cache, offered |-> offered]}
                 ELSE IF fam = "UNIX" THEN {af_unix_client_get_remote_sockaddr}
                 ELSE af_inet_client_get_remote_sockaddr(InetFamily(fam)) :
          /\ cache' = r.cache
          /\ offered' = r.offered
          /\ client' = IF r.ok THEN [at |-> "resolved", peer |-> r.addr, family |-> SocketFamily(fam, r.addr)]
                       ELSE client
  BY <1>1 DEF socket_client_get_remote_sockaddr
<1>3. options # NULL /\ client.at = "idle" /\ options' = options /\ server' = server /\ accepted' = accepted
  BY DEF socket_client_get_remote_sockaddr
<1>4. CacheInv /\ ClientInv /\ ServerInv /\ accepted = NULL
  BY <1>3 DEF NameInv
<1>5. ServerInv' /\ IdentifiersMatch' /\ accepted' = NULL
  BY <1>3, <1>4, PartsKept DEF IdentifiersMatch
<1>6. CASE r.ok = FALSE /\ r.cache = cache /\ r.offered = offered
  <2>1. client' = client /\ cache' = cache /\ offered' = offered
    BY <1>2, <1>6
  <2>2. ClientInv' /\ CacheInv'
    BY <2>1, <1>3, PartsKept
  <2> QED  BY <2>1, <2>2, <1>5 DEF NameInv, InTurn
<1>7. ASSUME r.ok = TRUE, Named(SocketFamily(fam, r.addr), r.addr),
             SocketFamily(fam, r.addr) # "UNIX" => r.addr.port = RemotePort /\ RemotePort # NoPort
      PROVE  ClientInv' /\ client'.peer = r.addr
  <2>1. client' = [at |-> "resolved", peer |-> r.addr, family |-> SocketFamily(fam, r.addr)]
    BY <1>2, <1>7
  <2>2. RemotePort' = RemotePort
    BY <1>3, OptionsKept
  <2>3. client'.at = "resolved" /\ client'.peer = r.addr /\ client'.family = SocketFamily(fam, r.addr)
    BY <2>1
  <2>4. RemoteNamed(client.peer)'
    BY <2>2, <2>3, <1>7 DEF RemoteNamed
  <2> QED  BY <2>3, <2>4, <1>3 DEF ClientInv
<1>8. CASE fam = NULL
  <2>1. r = [ok |-> FALSE, cache |-> cache, offered |-> offered]
    BY <1>2, <1>8
  <2> QED  BY <2>1, <1>6
<1>9. CASE fam # NULL /\ fam = "UNIX"
  <2>1. r = af_unix_client_get_remote_sockaddr
    BY <1>2, <1>9
  <2>2. r.ok = (options.connect_path = "fits") /\ r.addr = UnixAddress("path")
        /\ r.cache = cache /\ r.offered = offered
    BY <2>1, Zenon DEF af_unix_client_get_remote_sockaddr
  <2>3. CASE options.connect_path = "fits"
    <3>1. r.ok = TRUE
      BY <2>2, <2>3
    <3>2. SocketFamily(fam, r.addr) = "UNIX" /\ Named("UNIX", UnixAddress("path"))
      BY <1>9 DEF SocketFamily, Named, UnixAddress, Address, SocketFamilies, InetFamily
    <3>3. ClientInv'
      BY <3>1, <3>2, <2>2, <1>7
    <3>4. CacheInv' /\ offered' = offered
      BY <2>2, <1>2, <1>3, PartsKept
    <3> QED  BY <3>1, <3>3, <3>4, <1>5 DEF NameInv, InTurn
  <2>4. CASE options.connect_path # "fits"
    BY <2>2, <2>4, <1>6
  <2> QED  BY <2>3, <2>4
<1>10. CASE fam # NULL /\ fam # "UNIX"
  <2>1. r \in af_inet_client_get_remote_sockaddr(InetFamily(fam))
    BY <1>2, <1>10
  <2>2. fam \in {"INET", "INET6", "INET_SDP", "UNSPEC"} /\ Wanted = InetFamily(fam)
    BY <1>1, <1>10, FamilyLemma DEF SocketFamilies, Wanted
  <2>3. CASE ~(options.remote_host /\ PortOf(options.remote_port) # NoPort)
    <3>1. r = [ok |-> FALSE, cache |-> cache, offered |-> offered]
      BY <2>1, <2>3 DEF af_inet_client_get_remote_sockaddr
    <3> QED  BY <3>1, <1>6
  <2>4. CASE options.remote_host /\ PortOf(options.remote_port) # NoPort
    <3>1. r \in Resolved(Wanted, RemotePort) /\ RemotePort # NoPort
      BY <2>1, <2>2, <2>4 DEF af_inet_client_get_remote_sockaddr, RemotePort
    <3>2. /\ r.ok \in BOOLEAN
          /\ r.cache # NULL => Turn(r.cache, r.offered)
          /\ r.ok = FALSE => r.offered = <<>>
          /\ r.ok = TRUE =>
                /\ r.addr \in Hosts
                /\ \/ /\ r.offered = Append(offered, r.addr)
                      /\ \A i \in DOMAIN offered : offered[i] # r.addr
                   \/ /\ Len(r.offered) = 1
                      /\ cache # NULL => offered = cache.first
      BY <3>1, <1>3, <1>4, ResolvedInTurn
    <3>3. CacheInv'
      <4>1. Hosts' = Hosts
        BY <1>3, OptionsKept
      <4>2. cache' = r.cache /\ offered' = r.offered
        BY <1>2
      <4> QED  BY <4>1, <4>2, <3>2, <1>3 DEF CacheInv, Turn
    <3>4. CASE r.ok = TRUE
      <4>1. Named(SocketFamily(fam, r.addr), r.addr) /\ r.addr.port = RemotePort
        BY <3>2, <3>4, <2>2, <1>1, HostNamed
      <4>2. ClientInv' /\ client'.peer = r.addr /\ client'.at = "resolved"
        <5>1. client' = [at |-> "resolved", peer |-> r.addr, family |-> SocketFamily(fam, r.addr)]
          BY <3>4, <1>2
        <5>2. client'.at = "resolved"
          BY <5>1
        <5> QED  BY <5>2, <4>1, <3>1, <3>4, <1>7
      <4>3. InTurn
        <5>1. offered' = r.offered
          BY <1>2
        <5> QED  BY <5>1, <4>2, <3>2, <3>4 DEF InTurn
      <4> QED  BY <4>2, <4>3, <3>3, <1>5 DEF NameInv
    <3>5. CASE r.ok = FALSE
      <4>1. client' = client /\ offered' = <<>>
        BY <1>2, <3>2, <3>5
      <4>2. ClientInv'
        BY <4>1, <1>3, PartsKept
      <4> QED  BY <4>1, <4>2, <3>3, <1>5 DEF NameInv, InTurn
    <3> QED  BY <3>2, <3>4, <3>5
  <2> QED  BY <2>3, <2>4
<1> QED  BY <1>8, <1>9, <1>10

-----------------------------------------------------------------------------
(* The other steps of the client, and the server's.                         *)

\* A name whose family is replaced.
WithFam(a, g) == [a EXCEPT !.fam = g]

LEMMA Renamed ==
    ASSUME NEW f, NEW i, NEW p, NEW g
    PROVE  WithFam([fam |-> f, mapped |-> FALSE, id |-> i, port |-> p], g)
             = [fam |-> g, mapped |-> FALSE, id |-> i, port |-> p]
<1>1. PICK m : m = FALSE
  OBVIOUS
<1>2. WithFam([fam |-> f, mapped |-> m, id |-> i, port |-> p], g)
        = [fam |-> g, mapped |-> m, id |-> i, port |-> p]
  BY DEF WithFam
<1> QED  BY <1>1, <1>2, Zenon

LEMMA InetOf ==
    ASSUME NEW f, NEW i, NEW p
    PROVE  Inet([fam |-> f, mapped |-> FALSE, id |-> i, port |-> p])
             = [fam |-> InetFamily(f), mapped |-> FALSE, id |-> i, port |-> p]
<1>1. PICK m, g : m = FALSE /\ g = InetFamily(f)
  OBVIOUS
<1>2. Inet([fam |-> f, mapped |-> m, id |-> i, port |-> p])
        = WithFam([fam |-> f, mapped |-> m, id |-> i, port |-> p], g)
  BY <1>1 DEF Inet, WithFam
<1>3. Inet([fam |-> f, mapped |-> FALSE, id |-> i, port |-> p])
        = WithFam([fam |-> f, mapped |-> FALSE, id |-> i, port |-> p], g)
  BY <1>1, <1>2, Zenon
<1>4. WithFam([fam |-> f, mapped |-> FALSE, id |-> i, port |-> p], g)
        = [fam |-> g, mapped |-> FALSE, id |-> i, port |-> p]
  BY Renamed
<1>5. g = InetFamily(f)
  BY <1>1
<1> QED  BY <1>3, <1>4, <1>5

LEMMA UnixNamed == ASSUME NEW path PROVE Named("UNIX", UnixAddress(path))
BY DEF Named, UnixAddress, Address, SocketFamilies, InetFamily

\* The name of a socket below the ceiling, or not.
LEMMA BindNames ==
    ASSUME NEW family \in SocketFamilies, NEW b \in OrFail(client_bind(InetFamily(family))), b.ok
    PROVE  Named(family, b.name)
<1>1. PICK fam : fam = InetFamily(family)
  OBVIOUS
<1>2. fam \in {"UNIX", "INET", "INET6"} /\ (fam = "UNIX") = (family = "UNIX")
  BY <1>1 DEF InetFamily, SocketFamilies
<1>3. b \in client_bind(fam)
  BY <1>1 DEF OrFail, Fail
<1>4. CASE fam = "UNIX"
  <2>1. b \in af_unix_client_bind
    BY <1>3, <1>4 DEF client_bind
  <2>2. b # Fail
    BY DEF Fail
  <2>3. \E path : b = [ok |-> TRUE, name |-> UnixAddress(path)]
    BY <2>1, <2>2 DEF af_unix_client_bind, OrFail
  <2>4. PICK path : b.name = UnixAddress(path)
    BY <2>3
  <2> QED  BY <2>4, <1>2, <1>4, UnixNamed
<1>5. CASE fam # "UNIX"
  <2>1. \E p : b = [ok |-> TRUE, name |-> Address(fam, Me, p)]
    BY <1>3, <1>5 DEF client_bind
  <2>2. \E p : b.name = Address(fam, Me, p)
    BY <2>1
  <2> QED  BY <2>2, <1>1 DEF Named, Address
<1> QED  BY <1>4, <1>5

\* Only the client changes: what is left is to find its new state.
LEMMA ClientMoves ==
    ASSUME NameInv, UNCHANGED <<options, cache, offered, server>>, accepted' = NULL, ClientInv'
    PROVE  NameInv'
<1>1. CacheInv' /\ ServerInv'
  BY PartsKept
<1> QED  BY <1>1 DEF NameInv, IdentifiersMatch

LEMMA ConnectStep == ASSUME NameInv, ClientConnect PROVE NameInv'
<1>1. PICK b \in OrFail(client_bind(client.peer.fam)) :
          client' = IF b.ok THEN [at |-> "connecting", family |-> client.family,
                                  peer |-> client.peer, mine |-> b.name]
                    ELSE Idle
  BY DEF ClientConnect
<1>2. client.at = "resolved" /\ UNCHANGED <<options, cache, offered, server, accepted>>
  BY DEF ClientConnect
<1>3. options # NULL /\ RemoteNamed(client.peer) /\ accepted = NULL
  BY <1>2 DEF NameInv, ClientInv
<1>4. PICK f, p : f = client.family /\ p = client.peer
  OBVIOUS
<1>5. Named(f, p) /\ f \in SocketFamilies /\ p.fam = InetFamily(f)
  BY <1>3, <1>4 DEF RemoteNamed, Named
<1>6. RemotePort' = RemotePort
  BY <1>2, OptionsKept
<1>7. CASE b.ok
  <2>1. client' = [at |-> "connecting", family |-> f, peer |-> p, mine |-> b.name]
    BY <1>1, <1>4, <1>7
  <2>2. client'.at = "connecting" /\ client'.family = f /\ client'.peer = p /\ client'.mine = b.name
    BY <2>1
  <2>3. Named(f, b.name)
    BY <1>1, <1>4, <1>5, <1>7, BindNames
  <2>4. RemoteNamed(client.peer)'
    BY <2>2, <1>3, <1>4, <1>6 DEF RemoteNamed
  <2>5. ClientInv'
    BY <2>2, <2>3, <2>4, <1>2, <1>3 DEF ClientInv
  <2> QED  BY <2>5, <1>2, <1>3, ClientMoves
<1>8. CASE ~b.ok
  <2>1. client'.at = "idle"
    BY <1>1, <1>8 DEF Idle
  <2>2. ClientInv'
    BY <2>1 DEF ClientInv
  <2> QED  BY <2>2, <1>2, <1>3, ClientMoves
<1> QED  BY <1>7, <1>8

\* A socket's own name is its address, although an SDP socket may say SDP.
LEMMA NamesOfInet ==
    ASSUME NEW family \in SocketFamilies, NEW a, Named(family, a), NEW n \in NamesOf(family, a)
    PROVE  /\ Inet(n) = a /\ Inet(a) = a
           /\ n.fam = "INET_SDP" => family = "INET_SDP" /\ WithFam(n, "INET") = a
           /\ n.fam # "INET_SDP" => n = a
           /\ Unmapped(a) = a /\ a.fam # "INET_SDP"
<1>1. PICK f, i, p : a = [fam |-> f, mapped |-> FALSE, id |-> i, port |-> p] /\ f = InetFamily(family)
  BY DEF Named, Address
<1>2. f \in {"UNIX", "INET", "INET6"} /\ (family = "INET_SDP" => f = "INET") /\ InetFamily(f) = f
  BY <1>1 DEF InetFamily, SocketFamilies
<1>3. n = a \/ (family = "INET_SDP" /\ n = [fam |-> "INET_SDP", mapped |-> FALSE, id |-> i, port |-> p])
  BY <1>1, Renamed DEF NamesOf, WithFam
<1>4. a.fam = f /\ Inet(a) = a
  BY <1>1, <1>2, InetOf
<1>7. Unmapped(a) = a
  BY <1>1, Zenon DEF Unmapped
<1>5. CASE n = a
  BY <1>2, <1>4, <1>5, <1>7
<1>6. CASE family = "INET_SDP" /\ n = [fam |-> "INET_SDP", mapped |-> FALSE, id |-> i, port |-> p]
  <2>1. n.fam = "INET_SDP" /\ WithFam(n, "INET") = a
    <3>1. n.fam = "INET_SDP" /\ f = "INET"
      BY <1>2, <1>6
    <3>2. WithFam(n, "INET") = [fam |-> "INET", mapped |-> FALSE, id |-> i, port |-> p]
      BY <1>6, Renamed
    <3> QED  BY <3>1, <3>2, <1>1
  <2>2. Inet(n) = a
    <3>1. InetFamily("INET_SDP") = "INET"
      BY DEF InetFamily
    <3> QED  BY <3>1, <1>1, <1>2, <1>6, InetOf
  <2> QED  BY <2>1, <2>2, <1>2, <1>4, <1>6, <1>7
<1> QED  BY <1>3, <1>5, <1>6

\* The names that are printed for a connection of the client's.
LEMMA IdentifiersOf ==
    ASSUME NEW family \in SocketFamilies, NEW a, NEW b, Named(family, a), Named(family, b),
           NEW n \in NamesOf(family, a), NEW c \in get_transport_identifiers(n, b)
    PROVE  /\ c.mine = n /\ c.peer \in NamesOf(family, b)
           /\ c.myid \in {a, Junk} /\ c.peerid \in {b, Junk}
<1>1. /\ n.fam = "INET_SDP" => family = "INET_SDP" /\ WithFam(n, "INET") = a
      /\ n.fam # "INET_SDP" => n = a
      /\ Unmapped(a) = a /\ a.fam # "INET_SDP"
  <2>1. Named(family, a) /\ family \in SocketFamilies /\ n \in NamesOf(family, a)
    OBVIOUS
  <2> QED  BY <2>1, NamesOfInet
<1>2. b \in NamesOf(family, b) /\ (family = "INET_SDP" => WithFam(b, "INET_SDP") \in NamesOf(family, b))
  BY DEF NamesOf, WithFam
<1>3. Unmapped(b) = b /\ b.fam # "INET_SDP"
  <2>1. PICK k : k = b
    OBVIOUS
  <2> QED  BY <2>1, <1>2, NamesOfInet
<1>4. Unmapped(a) = a /\ Unmapped(b) = b
  BY <1>1, <1>3
<1>5. CASE n.fam = "INET_SDP"
  <2>1. PICK m, p : m = WithFam(n, "INET") /\ p = WithFam(b, "INET")
    OBVIOUS
  <2>2. \E i \in fill_inet6_inet_identifiers(m), j \in fill_inet6_inet_identifiers(p) :
            c = [mine |-> n, peer |-> WithFam(b, "INET_SDP"), myid |-> i, peerid |-> j]
    BY <2>1, <1>5 DEF get_transport_identifiers, WithFam
  <2>3. m = a
    BY <2>1, <1>1, <1>5
  <2>4. p = b
    <3>1. PICK f, i, q : b = [fam |-> f, mapped |-> FALSE, id |-> i, port |-> q] /\ f = InetFamily(family)
      BY DEF Named, Address
    <3>2. f = "INET"
      BY <3>1, <1>1, <1>5 DEF InetFamily
    <3> QED  BY <3>1, <3>2, <2>1, Renamed
  <2>5. c.mine = n /\ c.peer = WithFam(b, "INET_SDP")
        /\ c.myid \in fill_inet6_inet_identifiers(m) /\ c.peerid \in fill_inet6_inet_identifiers(p)
    BY <2>2
  <2> QED  BY <2>3, <2>4, <2>5, <1>1, <1>2, <1>4, <1>5 DEF fill_inet6_inet_identifiers
<1>6. CASE n.fam # "INET_SDP"
  <2>1. n = a
    BY <1>1, <1>6
  <2>2. \E i \in {a, Junk}, j \in {b, Junk} : c = [mine |-> n, peer |-> b, myid |-> i, peerid |-> j]
    <3>1. CASE n.fam = "UNIX"
      BY <2>1, <3>1, <1>6 DEF get_transport_identifiers
    <3>2. CASE n.fam # "UNIX"
      BY <2>1, <3>2, <1>4, <1>6 DEF get_transport_identifiers, fill_inet6_inet_identifiers
    <3> QED  BY <3>1, <3>2
  <2> QED  BY <2>2, <1>2
<1> QED  BY <1>5, <1>6


LEMMA FinishStep == ASSUME NameInv, ClientFinish PROVE NameInv'
<1>1. PICK f, a, b : f = client.family /\ a = client.mine /\ b = client.peer
  OBVIOUS
<1>2. client.at = "connecting" /\ UNCHANGED <<options, cache, offered, server, accepted>>
  BY DEF ClientFinish
<1>3. PICK n \in NamesOf(f, a) : \E c \in get_transport_identifiers(n, b) :
          client' = [at |-> "connected", family |-> f, mine |-> c.mine,
                     peer |-> c.peer, myid |-> c.myid, peerid |-> c.peerid]
  BY <1>1 DEF ClientFinish
<1>4. PICK c \in get_transport_identifiers(n, b) :
          client' = [at |-> "connected", family |-> f, mine |-> c.mine,
                     peer |-> c.peer, myid |-> c.myid, peerid |-> c.peerid]
  BY <1>3
<1>5. options # NULL /\ RemoteNamed(client.peer) /\ Named(client.family, client.mine) /\ accepted = NULL
  BY <1>2 DEF NameInv, ClientInv
<1>6. Named(f, a) /\ Named(f, b) /\ f \in SocketFamilies
      /\ (f # "UNIX" => b.port = RemotePort /\ RemotePort # NoPort)
  BY <1>1, <1>5 DEF RemoteNamed, Named
<1>7. /\ c.mine = n /\ c.peer \in NamesOf(f, b)
      /\ c.myid \in {a, Junk} /\ c.peerid \in {b, Junk}
  BY <1>4, <1>6, IdentifiersOf
<1>8. Inet(n) = a
  BY <1>3, <1>6, NamesOfInet
<1>9. PICK p : p = c.peer
  OBVIOUS
<1>10. Inet(p) = b /\ p \in NamesOf(f, b)
  BY <1>6, <1>7, <1>9, NamesOfInet
<1>11. /\ client'.at = "connected" /\ client'.family = f /\ client'.mine = n /\ client'.peer = p
       /\ client'.myid \in {a, Junk} /\ client'.peerid \in {b, Junk}
  BY <1>4, <1>7, <1>9
<1>12. ClientInv'
  <2>1. (Inet(client.mine) = a /\ Inet(client.peer) = b)'
    BY <1>8, <1>10, <1>11 DEF Inet
  <2>2. RemotePort' = RemotePort
    BY <1>2, OptionsKept
  <2>3. RemoteNamed(Inet(client.peer))'
    BY <2>1, <2>2, <1>6, <1>11 DEF RemoteNamed
  <2> QED  BY <2>1, <2>3, <1>2, <1>3, <1>5, <1>6, <1>10, <1>11 DEF ClientInv
<1> QED  BY <1>2, <1>5, <1>12, ClientMoves

LEMMA CloseStep == ASSUME NameInv, ClientCloses PROVE NameInv'
<1>1. client'.at = "idle" /\ accepted' = NULL /\ UNCHANGED <<options, cache, offered, server>>
  BY DEF ClientCloses, Idle
<1> QED  BY <1>1, ClientMoves DEF ClientInv

\* The server's address fits the socket that is made for it.
LEMMA ListenNamed ==
    ASSUME NEW r \in OrFail(socket_server_get_local_sockaddr), r.ok
    PROVE  /\ Named(r.family, r.addr)
           /\ r.family # "UNIX" => r.addr.port = ListenPort(options.listen_port)
<1>1. PICK fam : fam = server_fill_address_family
  OBVIOUS
<1>2. r # Fail
  BY DEF Fail
<1>3. PICK s \in IF fam = NULL THEN {Fail}
                 ELSE IF fam = "UNIX" THEN af_unix_server_get_local_sockaddr
                 ELSE af_inet_server_get_local_sockaddr(InetFamily(fam)) :
          r = IF s.ok THEN [ok |-> TRUE, addr |-> s.addr, family |-> SocketFamily(fam, s.addr)] ELSE Fail
  BY <1>1, <1>2 DEF OrFail, socket_server_get_local_sockaddr
<1>4. s.ok /\ s # Fail /\ r.addr = s.addr /\ r.family = SocketFamily(fam, s.addr)
  BY <1>2, <1>3 DEF Fail
<1>5. fam # NULL
  BY <1>3, <1>4
<1>6. fam \in SocketFamilies \cup {"UNSPEC"}
  BY <1>1, <1>5, FamilyLemma
<1>7. CASE fam = "UNIX"
  <2>1. s \in af_unix_server_get_local_sockaddr
    BY <1>3, <1>5, <1>7
  <2>2. s.addr = UnixAddress("path")
    BY <2>1, <1>4 DEF af_unix_server_get_local_sockaddr
  <2>3. r.family = "UNIX"
    BY <1>4, <1>7 DEF SocketFamily
  <2> QED  BY <2>2, <2>3, <1>4, UnixNamed
<1>8. CASE fam # "UNIX"
  <2>1. PICK g, port : g = InetFamily(fam) /\ port = ListenPort(options.listen_port)
    OBVIOUS
  <2>2. s \in af_inet_server_get_local_sockaddr(g)
    BY <2>1, <1>3, <1>5, <1>8
  <2>3. PICK f \in IF g = "UNSPEC" THEN {"INET", "INET6"} ELSE {g} :
            \E i : s = [ok |-> TRUE, addr |-> Address(f, i, port)]
    <3> DEFINE fams == IF g = "UNSPEC" THEN {"INET", "INET6"} ELSE {g}
               hosts == IF options.bind_address THEN Ids ELSE {"ANY"}
               found == {[ok |-> TRUE, addr |-> Address(f, id, port)] : f \in fams, id \in hosts}
    <3>1. s \in IF g # "UNSPEC" /\ ~options.bind_address THEN found ELSE OrFail(found)
      BY <2>1, <2>2 DEF af_inet_server_get_local_sockaddr
    <3> HIDE DEF hosts, fams
    <3>2. s \in found
      BY <3>1, <1>4 DEF OrFail
    <3>3. PICK f \in fams : \E id \in hosts : s = [ok |-> TRUE, addr |-> Address(f, id, port)]
      BY <3>2
    <3> QED  BY <3>3 DEF fams
  <2>4. PICK i : s.addr = Address(f, i, port)
    BY <2>3
  <2>5. s.addr = Address(s.addr.fam, s.addr.id, s.addr.port) /\ s.addr.fam = f /\ s.addr.port = port
    BY <2>4 DEF Address
  <2>6. SocketFamily(fam, s.addr) \in SocketFamilies /\ f = InetFamily(SocketFamily(fam, s.addr))
    BY <2>1, <2>3, <2>5, <1>6, <1>8 DEF SocketFamily, SocketFamilies, InetFamily
  <2> QED  BY <2>1, <2>5, <2>6, <1>4 DEF Named
<1> QED  BY <1>7, <1>8

LEMMA ListenStep == ASSUME NameInv, ServerListen PROVE NameInv'
<1>1. PICK r \in OrFail(socket_server_get_local_sockaddr) :
          server' = IF r.ok THEN [at |-> "listening", family |-> r.family, addr |-> r.addr] ELSE Idle
  BY DEF ServerListen
<1>2. options # NULL /\ UNCHANGED <<options, cache, offered, client, accepted>>
  BY DEF ServerListen
<1>3. ServerInv'
  <2>1. CASE r.ok
    <3>1. server' = [at |-> "listening", family |-> r.family, addr |-> r.addr]
      BY <1>1, <2>1
    <3>2. server'.at = "listening" /\ server'.family = r.family /\ server'.addr = r.addr
      BY <3>1
    <3>3. Named(r.family, r.addr) /\ (r.family # "UNIX" => r.addr.port = ListenPort(options.listen_port))
      BY <1>1, <2>1, ListenNamed
    <3> QED  BY <3>2, <3>3, <1>2 DEF ServerInv
  <2>2. CASE ~r.ok
    <3>1. server'.at = "idle"
      BY <1>1, <2>2 DEF Idle
    <3> QED  BY <3>1 DEF ServerInv
  <2> QED  BY <2>1, <2>2
<1>4. CacheInv' /\ ClientInv' /\ IdentifiersMatch'
  BY <1>2, PartsKept
<1> QED  BY <1>2, <1>3, <1>4 DEF NameInv


\* What the server prints for an end of the connection is the client's name
\* of it: an SDP name is printed as the IPv4 address it stands for, and so is
\* an IPv4 address that the server sees inside an IPv6 one.
LEMMA PrintedName ==
    ASSUME NEW f, NEW g, f = g \/ (f = "INET" /\ g = "INET6"),
           NEW a, Named(f, a), NEW n \in NamesOf(g, SeenBy(g, a))
    PROVE  /\ n.fam = "INET_SDP" => Unmapped(WithFam(n, "INET")) = a
           /\ n.fam # "INET_SDP" => Unmapped(n) = a /\ (n.fam = "UNIX" => n = a)
<1>1. f \in SocketFamilies
  BY DEF Named
<1>2. PICK h, i, p : a = [fam |-> h, mapped |-> FALSE, id |-> i, port |-> p] /\ h = InetFamily(f)
  BY DEF Named, Address
<1>3. CASE SeenBy(g, a) = a /\ f = g
  <2>1. n \in NamesOf(f, a)
    BY <1>3
  <2>2. Named(f, a) /\ f \in SocketFamilies
    BY <1>1
  <2>3. /\ n.fam = "INET_SDP" => WithFam(n, "INET") = a
        /\ n.fam # "INET_SDP" => n = a
        /\ Unmapped(a) = a
    BY <2>1, <2>2, NamesOfInet
  <2> QED  BY <2>3
<1>4. CASE g = "INET6" /\ h = "INET"
  <2>1. PICK yes, no : yes = TRUE /\ no = FALSE
    OBVIOUS
  <2>2. a = [fam |-> h, mapped |-> no, id |-> i, port |-> p] /\ a.fam = "INET" /\ a.id = i /\ a.port = p
    BY <1>2, <1>4, <2>1
  <2>3. SeenBy(g, a) = [a EXCEPT !.fam = "INET6", !.mapped = yes]
    BY <1>4, <2>1, <2>2 DEF SeenBy
  <2>4. SeenBy(g, a) = [fam |-> "INET6", mapped |-> yes, id |-> i, port |-> p]
    BY <2>2, <2>3
  <2>5. n = [fam |-> "INET6", mapped |-> yes, id |-> i, port |-> p]
    BY <1>4, <2>4 DEF NamesOf
  <2>6. n.fam = "INET6" /\ n.mapped = yes /\ n.id = i /\ n.port = p
    BY <2>5
  <2>7. n.mapped
    BY <2>1, <2>6
  <2>8. Unmapped(n) = Address("INET", i, p)
    BY <2>6, <2>7 DEF Unmapped
  <2>9. a = Address("INET", i, p)
    BY <1>2, <1>4 DEF Address
  <2> QED  BY <2>6, <2>8, <2>9
<1>5. SeenBy(g, a) = a \/ (g = "INET6" /\ a.fam = "INET")
  BY DEF SeenBy
<1>6. f = "INET" => h = "INET"
  BY <1>2 DEF InetFamily
<1>7. a.fam = h
  BY <1>2
<1>8. CASE f = g
  BY <1>3, <1>4, <1>5, <1>7, <1>8
<1>9. CASE f = "INET" /\ g = "INET6"
  BY <1>4, <1>6, <1>9
<1> QED  BY <1>8, <1>9

LEMMA AcceptStep == ASSUME NameInv, Accept PROVE NameInv'
<1>1. client.at = "connected" /\ server.at = "listening" /\ Reaches
      /\ UNCHANGED <<options, cache, offered, client, server>>
  BY DEF Accept
<1>2. PICK f, g, a, b : f = client.family /\ g = server.family /\ a = Inet(client.mine) /\ b = Inet(client.peer)
  OBVIOUS
<1>3. PICK peer \in NamesOf(g, SeenBy(g, a)) : \E mine \in NamesOf(g, SeenBy(g, b)) :
          mine.fam = peer.fam /\ accepted' \in get_transport_identifiers(mine, peer)
  BY <1>2 DEF Accept, Inet
<1>4. PICK mine \in NamesOf(g, SeenBy(g, b)) :
          mine.fam = peer.fam /\ accepted' \in get_transport_identifiers(mine, peer)
  BY <1>3
<1>5. f = g \/ (f = "INET" /\ g = "INET6")
  BY <1>1, <1>2 DEF Reaches
<1>6. /\ Named(f, a) /\ Named(f, b)
      /\ client.myid \in {a, Junk} /\ client.peerid \in {b, Junk}
  BY <1>1, <1>2 DEF NameInv, ClientInv, RemoteNamed
<1>7. /\ peer.fam = "INET_SDP" => Unmapped(WithFam(peer, "INET")) = a
      /\ peer.fam # "INET_SDP" => Unmapped(peer) = a /\ (peer.fam = "UNIX" => peer = a)
  BY <1>5, <1>6, PrintedName
<1>8. /\ mine.fam = "INET_SDP" => Unmapped(WithFam(mine, "INET")) = b
      /\ mine.fam # "INET_SDP" => Unmapped(mine) = b /\ (mine.fam = "UNIX" => mine = b)
  BY <1>5, <1>6, PrintedName
<1>9. PICK c : c = accepted'
  OBVIOUS
<1>10. c.myid \in {b, Junk} /\ c.peerid \in {a, Junk}
  <2>1. CASE mine.fam = "INET_SDP"
    <3>1. PICK m, p : m = WithFam(mine, "INET") /\ p = WithFam(peer, "INET")
      OBVIOUS
    <3>2. \E i \in fill_inet6_inet_identifiers(m), j \in fill_inet6_inet_identifiers(p) :
              c = [mine |-> mine, peer |-> WithFam(peer, "INET_SDP"), myid |-> i, peerid |-> j]
      BY <1>4, <1>9, <2>1, <3>1 DEF get_transport_identifiers, WithFam
    <3>3. c.myid \in {Unmapped(m), Junk} /\ c.peerid \in {Unmapped(p), Junk}
      BY <3>2 DEF fill_inet6_inet_identifiers
    <3> QED  BY <3>1, <3>3, <2>1, <1>4, <1>7, <1>8
  <2>2. CASE mine.fam # "INET_SDP"
    <3>1. CASE mine.fam = "UNIX"
      <4>1. c = [mine |-> mine, peer |-> peer, myid |-> mine, peerid |-> peer]
        BY <1>4, <1>9, <2>2, <3>1 DEF get_transport_identifiers
      <4> QED  BY <4>1, <3>1, <1>4, <1>7, <1>8
    <3>2. CASE mine.fam # "UNIX"
      <4>1. \E i \in fill_inet6_inet_identifiers(mine), j \in fill_inet6_inet_identifiers(peer) :
                c = [mine |-> mine, peer |-> peer, myid |-> i, peerid |-> j]
        BY <1>4, <1>9, <2>2, <3>2 DEF get_transport_identifiers
      <4>2. c.myid \in {Unmapped(mine), Junk} /\ c.peerid \in {Unmapped(peer), Junk}
        BY <4>1 DEF fill_inet6_inet_identifiers
      <4> QED  BY <4>2, <2>2, <1>4, <1>7, <1>8
    <3> QED  BY <3>1, <3>2
  <2> QED  BY <2>1, <2>2
<1>11. IdentifiersMatch'
  <2>1. client'.myid \in {a, Junk} /\ client'.peerid \in {b, Junk}
    BY <1>1, <1>6
  <2> QED  BY <2>1, <1>9, <1>10 DEF IdentifiersMatch
<1>12. CacheInv' /\ ClientInv' /\ ServerInv'
  BY <1>1, PartsKept
<1> QED  BY <1>1, <1>11, <1>12 DEF NameInv

-----------------------------------------------------------------------------
(* The invariant and what it is for.                                        *)

LEMMA NameInit == Init => NameInv
BY DEF Init, NameInv, CacheInv, ClientInv, ServerInv, IdentifiersMatch, Idle

\* Until the options are there, nothing is.
LEMMA NothingYet ==
    ASSUME NameInv, options = NULL, UNCHANGED <<cache, offered, client, server, accepted>>
    PROVE  NameInv'
<1>1. cache = NULL /\ client.at = "idle" /\ server.at = "idle" /\ accepted = NULL
  BY DEF NameInv, CacheInv, ClientInv, ServerInv
<1> QED  BY <1>1 DEF NameInv, CacheInv, ClientInv, ServerInv, IdentifiersMatch

\* Only the resolver changes what was offered to anything but nothing.
LEMMA NameStep == NameInv /\ [Next]_vars => NameInv' /\ (offered' # offered => socket_client_get_remote_sockaddr)
<1> SUFFICES ASSUME NameInv, [Next]_vars
             PROVE  NameInv' /\ (offered' # offered => socket_client_get_remote_sockaddr)
  OBVIOUS
<1>1. ASSUME NEW ty \in DictTypes, NEW v \in Values(ty.signed, ty.w), dict_set_number(ty, v)
      PROVE  NameInv' /\ offered' = offered
  BY <1>1, NothingYet DEF dict_set_number
<1>2. ASSUME NEW t \in Texts, set_text(t) PROVE NameInv' /\ offered' = offered
  BY <1>2, NothingYet DEF set_text
<1>3. ASSUME NEW r \in StringReaders \cup DictReaders, read_number(r) PROVE NameInv' /\ offered' = offered
  BY <1>3, NothingYet DEF read_number
<1>4. CASE Start
  BY <1>4, NothingYet DEF Start
<1>5. CASE socket_client_get_remote_sockaddr
  BY <1>5, ResolveStep
<1>6. CASE ClientConnect
  BY <1>6, ConnectStep DEF ClientConnect
<1>7. CASE ClientFinish
  BY <1>7, FinishStep DEF ClientFinish
<1>8. CASE ClientCloses
  BY <1>8, CloseStep DEF ClientCloses
<1>9. CASE ServerListen
  BY <1>9, ListenStep DEF ServerListen
<1>10. CASE Accept
  BY <1>10, AcceptStep DEF Accept
<1>11. CASE UNCHANGED vars
  BY <1>11, PartsKept DEF vars, NameInv
<1> QED  BY <1>1, <1>2, <1>3, <1>4, <1>5, <1>6, <1>7, <1>8, <1>9, <1>10, <1>11 DEF Next

\* The two names of a connection that is established.
LEMMA Connected ==
    ASSUME ClientInv, client.at = "connected"
    PROVE  /\ client.peer.fam = InetFamily(client.family) \/ client.peer.fam = client.family
           /\ client.mine.fam = InetFamily(client.family) \/ client.mine.fam = client.family
           /\ client.family # "UNIX" => client.peer.port = RemotePort /\ RemotePort # NoPort
<1>1. PICK f, a, b, m, p : /\ f = client.family /\ m = client.mine /\ p = client.peer
                           /\ a = Inet(client.mine) /\ b = Inet(client.peer)
  OBVIOUS
<1>2. /\ m \in NamesOf(f, a) /\ p \in NamesOf(f, b) /\ Named(f, a) /\ Named(f, b)
      /\ f # "UNIX" => b.port = RemotePort /\ RemotePort # NoPort
  BY <1>1 DEF ClientInv, RemoteNamed
<1>3. f \in SocketFamilies /\ a.fam = InetFamily(f) /\ b.fam = InetFamily(f)
  BY <1>2 DEF Named
<1>4. m = a \/ (m.fam = "INET_SDP" /\ f = "INET_SDP")
  BY <1>2, <1>3, NamesOfInet
<1>5. p = b \/ (p.fam = "INET_SDP" /\ f = "INET_SDP")
  BY <1>2, <1>3, NamesOfInet
<1>6. p.port = b.port
  BY <1>1 DEF Inet
<1> QED  BY <1>1, <1>2, <1>3, <1>4, <1>5, <1>6

\* The sockets' families.
LEMMA NameInvFits == NameInv => AddressFitsSocket
<1> SUFFICES ASSUME NameInv PROVE AddressFitsSocket
  OBVIOUS
<1>1. ClientInv /\ ServerInv
  BY DEF NameInv
<1>2. client.at # "idle" => client.peer.fam = InetFamily(client.family) \/ client.peer.fam = client.family
  <2>1. CASE client.at \in {"resolved", "connecting"}
    BY <1>1, <2>1 DEF ClientInv, RemoteNamed, Named
  <2>2. CASE client.at = "connected"
    BY <1>1, <2>2, Connected
  <2> QED  BY <1>1, <2>1, <2>2 DEF ClientInv
<1>3. client.at \in {"connecting", "connected"} =>
          client.mine.fam = InetFamily(client.family) \/ client.mine.fam = client.family
  <2>1. CASE client.at = "connecting"
    BY <1>1, <2>1 DEF ClientInv, Named
  <2>2. CASE client.at = "connected"
    BY <1>1, <2>2, Connected
  <2> QED  BY <2>1, <2>2
<1>4. server.at = "listening" =>
          server.addr.fam = InetFamily(server.family) \/ server.addr.fam = server.family
  BY <1>1 DEF ServerInv, Named
<1> QED  BY <1>2, <1>3, <1>4 DEF AddressFitsSocket

\* A port that the client takes is not the one that the server replaces.
LEMMA NameInvPort == NameInv => SamePort
<1> SUFFICES ASSUME NameInv, client.at # "idle", server.at = "listening",
                    client.family # "UNIX", server.family # "UNIX",
                    options.remote_port = options.listen_port
             PROVE  client.peer.port = server.addr.port
  BY DEF SamePort
<1>1. ClientInv /\ ServerInv
  BY DEF NameInv
<1>2. client.peer.port = RemotePort /\ RemotePort # NoPort
  <2>1. CASE client.at \in {"resolved", "connecting"}
    BY <1>1, <2>1 DEF ClientInv, RemoteNamed
  <2>2. CASE client.at = "connected"
    BY <1>1, <2>2, Connected
  <2> QED  BY <1>1, <2>1, <2>2 DEF ClientInv
<1>3. ListenPort(options.listen_port) = RemotePort
  BY <1>2 DEF ListenPort, RemotePort
<1> QED  BY <1>1, <1>2, <1>3 DEF ServerInv

\* For every set of host addresses, every order in which the resolver finds
\* them and every outcome of the calls below, a socket has the family of the
\* address that it connects or binds to (client_fill_address_family,
\* socket_client_get_remote_sockaddr, socket_server_get_local_sockaddr,
\* client_bind, get_transport_identifiers).
THEOREM SocketsFitAddresses == Spec => []AddressFitsSocket
<1>1. Init => NameInv
  BY NameInit
<1>2. NameInv /\ [Next]_vars => NameInv'
  BY NameStep
<1>3. NameInv => AddressFitsSocket
  BY NameInvFits
<1> QED  BY <1>1, <1>2, <1>3, PTL DEF Spec

\* A client and a server with the same text for their port use the same port
\* (client_get_remote_port and socket_server_get_local_sockaddr treat the
\* value (uint16_t) -1 differently).
THEOREM PortsAgree == Spec => []SamePort
<1>1. Init => NameInv
  BY NameInit
<1>2. NameInv /\ [Next]_vars => NameInv'
  BY NameStep
<1>3. NameInv => SamePort
  BY NameInvPort
<1> QED  BY <1>1, <1>2, <1>3, PTL DEF Spec

\* The two ends of a connection print the same names for it, for every pair of
\* families that can connect (fill_inet6_inet_identifiers and
\* get_transport_identifiers at both ends).
THEOREM IdentifiersAgree == Spec => []IdentifiersMatch
<1>1. Init => NameInv
  BY NameInit
<1>2. NameInv /\ [Next]_vars => NameInv'
  BY NameStep
<1>3. NameInv => IdentifiersMatch
  BY DEF NameInv
<1> QED  BY <1>1, <1>2, <1>3, PTL DEF Spec

\* The addresses of a host are offered in turn, each once, before its name is
\* resolved again (lz_resolve_ip6 with the cache of the transport).
THEOREM HostsInTurn == Spec => AddressesInTurn
<1>1. Init => NameInv
  BY NameInit
<1>2. NameInv /\ [Next]_vars => NameInv'
  BY NameStep
<1>3. NameInv /\ [Next]_vars =>
          [offered' # offered /\ offered' # <<>> =>
              \/ /\ offered' = Append(offered, client'.peer)
                 /\ \A i \in DOMAIN offered : offered[i] # client'.peer
              \/ /\ Len(offered') = 1
                 /\ cache # NULL => offered = cache.first]_vars
  <2> SUFFICES ASSUME NameInv, [Next]_vars PROVE InTurn
    BY Zenon DEF InTurn
  <2>1. CASE offered' = offered
    BY <2>1 DEF InTurn
  <2>2. CASE offered' # offered
    BY <2>2, NameStep, ResolveStep
  <2> QED  BY <2>1, <2>2
<1> QED  BY <1>1, <1>2, <1>3, PTL DEF Spec, AddressesInTurn

=============================================================================
