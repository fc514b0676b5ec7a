---------------------------- MODULE PutToLamports ----------------------------
(***************************************************************************)
(* put_to_lamports and parse_amount of sdk/program/src/native_token.rs:    *)
(* the integer part of a PUT string is parsed as a u128, the fraction as   *)
(* the f64 "0.<digits>", multiplied by LAMPORTS_PER_PUT as f64 and cast    *)
(* (truncated) to u128.                                                    *)
(*                                                                         *)
(* An f64 is a binary float with a FloatBits-bit significand, rounded to   *)
(* nearest, ties to even.  Both the significand (53 bits) and              *)
(* LAMPORTS_PER_PUT (10^9) are reduced, keeping 2^(FloatBits-1) above      *)
(* LamportsPerPut as 2^52 is above 10^9: the rounding error of the two    *)
(* float steps stays below one lamport, as it does for f64.              *)
(***************************************************************************)
EXTENDS Integers, Sequences, SequencesExt

CONSTANTS
    LamportsPerPut,  \* LAMPORTS_PER_PUT, reduced
    FloatBits,       \* significand bits of f64, reduced
    IntParts,        \* the digits before the dot of the input strings
    FracDigits,      \* fractions of up to this many digits are enumerated
    None             \* no call in progress

DigitChars == {"0", "1", "2", "3", "4", "5", "6", "7", "8", "9"}
DigitValue(c) == CHOOSE d \in 0..9 : <<"0", "1", "2", "3", "4", "5", "6", "7", "8", "9">>[d + 1] = c

\* str::parse::<u128> of a string of digits (the empty string fails).
ParseU128(s) == FoldLeft(LAMBDA acc, c : acc * 10 + DigitValue(c), 0, s)

\* amount.split('.') collected into a Vec.
RECURSIVE Split(_)
Split(s) ==
    LET i == SelectInSeq(s, LAMBDA c : c = ".") IN
    IF i = 0 THEN <<s>> ELSE <<SubSeq(s, 1, i - 1)>> \o Split(SubSeq(s, i + 1, Len(s)))

\* a / b rounded to the nearest integer, ties to even.
RoundDiv(a, b) ==
    LET q == a \div b
        r == a % b
    IN IF 2 * r > b \/ (2 * r = b /\ q % 2 = 1) THEN q + 1 ELSE q

(***************************************************************************)
(* A non-negative f64 is [m, e], the value m / 2^e.  ("0." + digits)       *)
(* .parse::<f64>() is the float nearest to n / 10^k, n the value of the k  *)
(* digits: the exponent puts n * 2^e / 10^k in [2^(FloatBits-1),           *)
(* 2^FloatBits), and the significand is that quotient rounded.             *)
(***************************************************************************)
Zero == [m |-> 0, e |-> 0]
ParseFrac(n, k) ==
    IF n = 0 THEN Zero
    ELSE LET e == CHOOSE x \in 0..(FloatBits + 4 * k) :
                      /\ n * 2^x >= 2^(FloatBits - 1) * 10^k
                      /\ n * 2^x < 2^FloatBits * 10^k
         IN [m |-> RoundDiv(n * 2^e, 10^k), e |-> e]

\* Variant: the product rounded up to a whole lamport instead of truncated.
FracLamportsCeil(f) ==
    LET x == f.m * LamportsPerPut
        s == CHOOSE y \in 0..(3 * FloatBits) :
                 x < 2^(FloatBits + y) /\ (y = 0 \/ x >= 2^(FloatBits + y - 1))
        p == RoundDiv(x, 2^s) * 2^s
    IN p \div 2^f.e + (IF p % 2^f.e = 0 THEN 0 ELSE 1)
\* (frac * LAMPORTS_PER_PUT as f64) as u128: the product m * L / 2^e
\* rounded to FloatBits significant bits, then truncated toward zero.
FracLamports(f) ==
    LET x == f.m * LamportsPerPut
        s == CHOOSE y \in 0..(3 * FloatBits) :
                 x < 2^(FloatBits + y) /\ (y = 0 \/ x >= 2^(FloatBits + y - 1))
    IN (RoundDiv(x, 2^s) * 2^s) \div 2^f.e

(***************************************************************************)
(* parse_amount: one part is the integer; two parts are the integer and   *)
(* the fraction, an empty fraction being 0.0; more parts give (0, 0.0).   *)
(* The unwrap of the integer parse panics on an empty integer part.       *)
(***************************************************************************)
Panic == [kind |-> "panic"]
Parsed(i, f) == [kind |-> "ok", inte |-> i, frac |-> f]
ParseAmount(amount) ==
    LET num == Split(amount) IN
    CASE Len(num) > 2    -> Parsed(0, Zero)
      [] num[1] = <<>>   -> Panic
      [] Len(num) = 1    -> Parsed(ParseU128(num[1]), Zero)
      [] num[2] = <<>>   -> Parsed(ParseU128(num[1]), Zero)
      [] OTHER           -> Parsed(ParseU128(num[1]), ParseFrac(ParseU128(num[2]), Len(num[2])))

\* put_to_lamports: inte * LAMPORTS_PER_PUT + the truncated fraction.
PutToLamports(put) ==
    LET p == ParseAmount(put) IN
    IF p.kind = "panic" THEN Panic
    ELSE [kind |-> "ok", val |-> p.inte * LamportsPerPut + FracLamports(p.frac)]

\* The strings passed in: an integer part, with or without a dot and a
\* fraction, and a string with two dots.
Inputs ==
    IntParts
    \cup {ip \o <<".">> \o fp : ip \in IntParts, fp \in BoundedSeq(DigitChars, FracDigits)}
    \cup {ip \o <<".", "5", ".", "5">> : ip \in IntParts}

VARIABLES call, out
vars == <<call, out>>

Init == call = None /\ out = None
Idle == call = None

Convert ==
    /\ Idle
    /\ \E put \in Inputs : call' = put /\ out' = PutToLamports(put)

Return == ~Idle /\ call' = None /\ out' = None

Next == Convert \/ Return
Spec == Init /\ [][Next]_vars
-----------------------------------------------------------------------------
\* A decimal string: digits, then at most one dot followed by digits.
IsDecimal(s) ==
    LET num == Split(s) IN Len(num) <= 2 /\ num[1] # <<>>

(* put_to_lamports, documented as an approximate conversion, is within    *)
(* one lamport of the exact value of the string for every decimal string  *)
(* with a leading digit (what f64::to_string gives FeeStructure::new),    *)
(* and never above it when the string has no more fraction digits than   *)
(* a lamport resolves: the f64 parse and product may cost the last        *)
(* lamport, never add one.                                                 *)
PutToLamportsApprox ==
    call # None /\ IsDecimal(call) =>
      LET num   == Split(call)
          k     == IF Len(num) = 2 THEN Len(num[2]) ELSE 0
          n     == IF k > 0 THEN ParseU128(num[2]) ELSE 0
          exact == ParseU128(num[1]) * LamportsPerPut * 10^k + n * LamportsPerPut
      IN /\ out.kind = "ok"
         /\ exact - 10^k <= out.val * 10^k /\ out.val * 10^k <= exact + 10^k
         /\ 10^k <= LamportsPerPut => out.val * 10^k \in {exact - 10^k, exact}
====
