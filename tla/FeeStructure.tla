----------------------------- MODULE FeeStructure -----------------------------
(***************************************************************************)
(* FeeStructure::new and FeeStructure::default of sdk/src/fee.rs: every    *)
(* PUT amount given as an f64 is printed with f64::to_string and the       *)
(* string converted by put_to_lamports.  The f64 is the binary float of    *)
(* PutToLamports (FloatBits-bit significand, LamportsPerPut reduced); its  *)
(* Display is the shortest decimal that parses back to the same float,    *)
(* without exponent, and without a dot for an integral value.             *)
(***************************************************************************)
EXTENDS Integers, Sequences

CONSTANTS
    LamportsPerPut,  \* LAMPORTS_PER_PUT, reduced
    FloatBits,       \* significand bits of f64, reduced
    FracDigits,      \* fractions of the amounts given to new
    None             \* no call in progress

Float == INSTANCE PutToLamports WITH IntParts <- {}, call <- None, out <- None

\* The f64 argument written in source as the decimal n / 10^k.
F64(d) == Float!ParseFrac(d[1], d[2])

\* The decimal digits of n, most significant first.
RECURSIVE Digits(_)
Digits(n) ==
    (IF n < 10 THEN <<>> ELSE Digits(n \div 10))
    \o <<CHOOSE c \in Float!DigitChars : Float!DigitValue(c) = n % 10>>

\* n / 10^k as text: the integer digits, then a dot and exactly k digits.
DecimalText(n, k) ==
    LET s == Digits(n)
        p == [i \in 1..(k + 1 - Len(s)) |-> "0"] \o s
    IN IF k = 0 THEN s ELSE SubSeq(p, 1, Len(p) - k) \o <<".">> \o SubSeq(p, Len(p) - k + 1, Len(p))

\* The k-digit decimal nearest to the float f, as n with f ~ n / 10^k.
Nearest(f, k) == Float!RoundDiv(f.m * 10^k, 2^f.e)
RoundTrips(f, k) == Float!ParseFrac(Nearest(f, k), k) = f

\* Variant: a fixed two-digit format ("{:.2}") instead of the shortest.
DisplayFixed2(f) == DecimalText(Nearest(f, 2), 2)
\* f64::to_string: the fewest fraction digits that parse back to f.
Display(f) ==
    LET k == CHOOSE k \in 0..FloatBits : RoundTrips(f, k) /\ \A j \in 0..(k - 1) : ~RoundTrips(f, j)
    IN DecimalText(Nearest(f, k), k)

\* put_to_lamports((x).to_string().as_str()), which cannot panic here: the
\* text of a non-negative f64 always has an integer digit.
ToLamports(f) == Float!PutToLamports(Display(f)).val

(***************************************************************************)
(* FeeStructure::new: the compute fee bins keep their limits and order,    *)
(* each fee converted; the per-signature and per-write-lock amounts        *)
(* converted the same way.                                                 *)
(***************************************************************************)
New(perSig, perWriteLock, bins) ==
    [lamports_per_signature  |-> ToLamports(perSig),
     lamports_per_write_lock |-> ToLamports(perWriteLock),
     compute_fee_bins        |-> [i \in 1..Len(bins) |-> [limit |-> bins[i][1], fee |-> ToLamports(bins[i][2])]]]

\* The decimals given to new: an integer part 0 or 2, a fraction of up to
\* FracDigits digits, as the pair <<n, k>> of n / 10^k.
Decimals ==
    {<<i * 10^d[1] + d[2], d[1]>> :
        i \in {0, 2}, d \in {x \in (0..FracDigits) \X (0..(10^FracDigits - 1)) : x[2] < 10^x[1]}}

\* FeeStructure::default: new(0.000005, 0.0, [(1_400_000, 0.0)]), with the
\* 5000 lamports of 0.000005 PUT scaled to LamportsPerPut.
DefaultArgs ==
    [sig |-> <<5, 3>>, wl |-> <<0, 0>>, bins |-> <<<<1400000, <<0, 0>>>>>>]

VARIABLES call, out
vars == <<call, out>>

Init == call = None /\ out = None
Idle == call = None

\* new with one amount ranging over the decimals and the others fixed: the
\* per-signature fee, the write-lock fee, or the fee of the one bin, each
\* converted on its own; and default().
ZeroPut == <<0, 0>>
Bin(d) == <<<<1400000, d>>>>
NewArgs ==
    {[sig |-> d, wl |-> ZeroPut, bins |-> <<>>] : d \in Decimals}
    \cup {[sig |-> ZeroPut, wl |-> d, bins |-> <<>>] : d \in Decimals}
    \cup {[sig |-> ZeroPut, wl |-> ZeroPut, bins |-> Bin(d)] : d \in Decimals}
    \cup {DefaultArgs}

CallNew ==
    /\ Idle
    /\ \E a \in NewArgs :
         /\ call' = a
         /\ out' = New(F64(a.sig), F64(a.wl), [i \in 1..Len(a.bins) |-> <<a.bins[i][1], F64(a.bins[i][2])>>])

Return == ~Idle /\ call' = None /\ out' = None

Next == CallNew \/ Return
Spec == Init /\ [][Next]_vars
-----------------------------------------------------------------------------
\* The exact lamports of the decimal <<n, k>> (k fraction digits).
ExactLamports(d) == (d[1] * LamportsPerPut) \div 10^d[2]
\* The exact lamports of each amount a call gives, in the order of the fields.
ExactFees(a) ==
    <<ExactLamports(a.sig), ExactLamports(a.wl)>> \o [i \in 1..Len(a.bins) |-> ExactLamports(a.bins[i][2])]
Fees(o) ==
    <<o.lamports_per_signature, o.lamports_per_write_lock>> \o [i \in 1..Len(o.compute_fee_bins) |-> o.compute_fee_bins[i].fee]

(* FeeStructure::new, through f64::to_string and put_to_lamports, gives    *)
(* for every amount written with no more fraction digits than a lamport   *)
(* resolves the exact lamports or one lamport less, never more, and the    *)
(* compute fee bins keep their number, order and limits: the shortest      *)
(* Display of the f64 recovers the decimal the caller wrote.              *)
FeeStructureNewExact ==
    call # None =>
      /\ Len(out.compute_fee_bins) = Len(call.bins)
      /\ \A i \in 1..Len(call.bins) : out.compute_fee_bins[i].limit = call.bins[i][1]
      /\ \A i \in 1..Len(ExactFees(call)) : Fees(out)[i] \in {ExactFees(call)[i] - 1, ExactFees(call)[i]}
====
