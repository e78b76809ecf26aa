------------------------------ MODULE Numbers -------------------------------
(***************************************************************************)
(* Numbers as texts: what the lz_string2... functions of common-utils.c    *)
(* and the data_from_..., data_to_... and _data_to_... functions of dict.c *)
(* make of an option's text.                                               *)
(*                                                                         *)
(* A text is its optional minus sign, its digits and what follows them:    *)
(* num[b] is the number strtol and its kin read in base b, tail[b] where   *)
(* they stop.  Base 0 takes "010" for eight and "0x10" for sixteen, base   *)
(* 10 reads ten and a zero followed by "x10".  lead is the unit that the   *)
(* first two characters of tail[0] name: "KB" for "KB" and for "KBx".  An  *)
(* empty text reads like "0".  Half[w] is half of the number of values of  *)
(* a w-bit integer; the model checker gives it scaled down values.         *)
(***************************************************************************)
EXTENDS Integers

CONSTANTS Half, Unit

Widths == {8, 16, 32, 64}
Bases == {0, 10}

ASSUME HalfAssumption ==
    /\ Half \in [Widths -> Nat \ {0}]
    /\ \A w \in Widths \ {64} : \E k \in 1 .. Half[64] : Half[64] = k * (2 * Half[w])

\* Unit["KB"] and the others: LZ_UNIT_KB ... LZ_UNIT_PB.
ASSUME UnitAssumption == Unit \in [{"KB", "MB", "GB", "TB", "PB"} -> Nat \ {0}]

Leads == {"KB", "MB", "GB"}

IsText(t) ==
    /\ t.minus \in BOOLEAN
    /\ t.num \in [Bases -> Nat]
    /\ t.lead \in Leads \cup {""}
    /\ t.tail[0] \in Leads => t.lead = t.tail[0]

Modulus(w) == 2 * Half[w]
MinOf(signed, w) == IF signed THEN -Half[w] ELSE 0
MaxOf(signed, w) == IF signed THEN Half[w] - 1 ELSE Modulus(w) - 1
Values(signed, w) == MinOf(signed, w) .. MaxOf(signed, w)

\* The conversion of a C integer to the type (signed, w).
Cast(signed, w, x) ==
    LET m == x % Modulus(w)
    IN  IF signed /\ m >= Half[w] THEN m - Modulus(w) ELSE m

Number(t, b) == IF t.minus THEN -t.num[b] ELSE t.num[b]

-----------------------------------------------------------------------------
(* The C library on a platform whose long has 64 bits.                      *)

\* strtol, strtoll: the nearest long, and ERANGE when that is another number.
strtol(t, b) ==
    LET n == Number(t, b)
    IN  [val |-> IF n > MaxOf(TRUE, 64) THEN MaxOf(TRUE, 64)
                 ELSE IF n < MinOf(TRUE, 64) THEN MinOf(TRUE, 64)
                 ELSE n,
         erange |-> n \notin Values(TRUE, 64)]

\* strtoul, strtoull: digits that fit are negated as an unsigned number.
strtoul(t, b) ==
    IF t.num[b] > MaxOf(FALSE, 64)
    THEN [val |-> MaxOf(FALSE, 64), erange |-> TRUE]
    ELSE [val |-> Cast(FALSE, 64, Number(t, b)), erange |-> FALSE]

-----------------------------------------------------------------------------
(* common-utils.c: conversions that refuse what they cannot represent.      *)

\* On a refusal *n is left alone: the 0 is nobody's number.
Refused == [ret |-> -1, val |-> 0]
Accepted(v) == [ret |-> 0, val |-> v]

string2long(t, b) ==
    LET r == strtol(t, b)
    IN  IF r.erange \/ t.tail[b] # "" THEN Refused ELSE Accepted(r.val)

string2ulong(t, b) ==
    LET r == strtoul(t, b)
    IN  IF t.minus \/ r.erange \/ t.tail[b] # "" THEN Refused ELSE Accepted(r.val)

\* A number of more than 32 bits is cut down to 32 and accepted.
string2uint(t, b) ==
    LET r == string2ulong(t, b)
    IN  IF r.ret = 0 THEN Accepted(Cast(FALSE, 32, r.val)) ELSE r

\* The long is written through the int's address: the int gets its lower half
\* (and the four bytes behind the int the other one).
string2int(t) ==
    LET r == string2long(t, 0)
    IN  IF r.ret = 0 THEN Accepted(Cast(TRUE, 32, r.val)) ELSE r

string2longlong(t, b) == string2long(t, b)
string2ulonglong(t, b) == string2ulong(t, b)

\* A mutant: a range that ends one too late.
RangedOneMore(r, signed, w) ==
    IF r.ret = 0 /\ r.val \in MinOf(signed, w) .. MaxOf(signed, w) + 1 THEN r ELSE Refused

Ranged(r, signed, w) ==
    IF r.ret = 0 /\ r.val \in Values(signed, w) THEN r ELSE Refused

\* lz_string2int8, lz_string2int16, lz_string2int32, lz_string2int64
string2intN(t, w) ==
    Ranged(IF w = 64 THEN string2longlong(t, 0) ELSE string2long(t, 0), TRUE, w)

\* lz_string2uint8, lz_string2uint16, lz_string2uint32, lz_string2uint64
string2uintN(t, w) ==
    Ranged(IF w = 64 THEN string2ulonglong(t, 0) ELSE string2ulong(t, 0), FALSE, w)

\* lz_string2uint8_base10 and the wider ones
string2uintN_base10(t, w) ==
    Ranged(IF w = 64 THEN string2ulonglong(t, 10) ELSE string2ulong(t, 10), FALSE, w)

\* A number and a unit the function knows, cut down to 32 bits.
Suffixed(t, suffixes) ==
    LET r == strtol(t, 0)
    IN  IF t.minus \/ r.erange \/ t.tail[0] \notin suffixes THEN Refused
        ELSE Accepted(Cast(FALSE, 32, r.val))

string2time(t) == Suffixed(t, {"", "s", "sec"})
string2percent(t) == Suffixed(t, {"", "%"})

\* The product is taken modulo 2^64.
string2bytesize(t) ==
    LET r == strtoul(t, 10)
        tail == t.tail[10]
    IN  IF t.minus \/ r.erange \/ tail \notin {""} \cup DOMAIN Unit THEN Refused
        ELSE Accepted(IF tail = "" THEN r.val ELSE Cast(FALSE, 64, r.val * Unit[tail]))

\* It has no way to refuse, and looks at two characters behind the number:
\* "KBx" counts as "KB", and what names no unit as none.
str_to_long_long(t) ==
    LET n == strtol(t, 0).val
    IN  Accepted(IF t.lead # "" THEN Cast(TRUE, 64, n * Unit[t.lead]) ELSE n)

-----------------------------------------------------------------------------
(* dict.c: numbers are stored as the decimal text of their value.           *)

\* data_from_int8 ... data_from_uint64, int_to_data
data_from(v) ==
    [minus |-> v < 0,
     num |-> [b \in Bases |-> IF v < 0 THEN -v ELSE v],
     tail |-> [b \in Bases |-> ""],
     lead |-> ""]

\* _data_to_int8 ... _data_to_uint64, as dict_get_int8 ... dict_get_uint64 use them
data_to_checked(signed, w, t) ==
    LET r == IF signed THEN strtol(t, 0) ELSE strtoul(t, 0)
    IN  [ret |-> IF r.erange THEN -1 ELSE 0, val |-> Cast(signed, w, r.val)]

\* data_to_int8 ... data_to_uint64: the wide signed ones read an unsigned
\* number, the unsigned ones a signed number.
data_to(signed, w, t) ==
    LET r == IF signed /\ w \in {32, 64} THEN strtoul(t, 0) ELSE strtol(t, 0)
    IN  Cast(signed, w, r.val)

=============================================================================
