---------------------------- MODULE PplTokenAmount ----------------------------
(***************************************************************************)
(* ppl_token_amount of tokens/src/ppl_token.rs: a UI amount given as an   *)
(* f64 scaled to base units, (amount * 10_usize.pow(decimals) as f64) as   *)
(* u128.  The f64 arithmetic is that of PutToLamports: a FloatBits-bit     *)
(* significand rounded to nearest, ties to even, reduced from 53 bits;    *)
(* usize is reduced from 64 bits to UsizeBits, so 10^decimals overflows    *)
(* it from a small number of decimals on, as 10^20 overflows a 64-bit     *)
(* usize before 10^23 stops being an exact f64.                          *)
(***************************************************************************)
EXTENDS Integers

CONSTANTS
    FloatBits,        \* significand bits of f64, reduced
    UsizeBits,        \* width of usize, reduced
    Numerators,       \* digits of the UI amount, read as an integer n
    MaxFracDigits,    \* the amount is n / 10^k for k up to this
    MaxTokenDecimals, \* mint decimals enumerated
    None              \* no call in progress

\* The float operators of put_to_lamports, with p as the f64 multiplier.
Float(p) == INSTANCE PutToLamports
              WITH LamportsPerPut <- p, IntParts <- {}, FracDigits <- 0,
                   call <- None, out <- None

\* The f64 amount: the float nearest to n / 10^k, as str::parse gives it.
Amount(n, k) == Float(1)!ParseFrac(n, k)

\* 10_usize.pow(decimals): wraps in a release build, panics in a debug one.
Pow10Overflows(d) == 10^d >= 2^UsizeBits
Pow10Wrapped(d) == 10^d % 2^UsizeBits

\* Variant: the f64 product rounded up to a whole unit instead of truncated.
ScaleCeil(f, p) == Float(p)!FracLamportsCeil(f)
\* (amount * p as f64) as u128: the product rounded to FloatBits bits, then
\* truncated toward zero (the cast saturates, far beyond these values).
Scale(f, p) == Float(p)!FracLamports(f)

Panic == [kind |-> "panic"]
Val(v) == [kind |-> "ok", val |-> v]

\* The results ppl_token_amount can have: one value, or, when the power
\* overflows usize, the panic of a debug build or the wrapped power of a
\* release build.
PplTokenAmount(f, d) ==
    IF Pow10Overflows(d) THEN {Panic, Val(Scale(f, Pow10Wrapped(d)))}
    ELSE {Val(Scale(f, 10^d))}

VARIABLES call, out
vars == <<call, out>>

Init == call = None /\ out = None
Idle == call = None

Convert ==
    /\ Idle
    /\ \E n \in Numerators, k \in 0..MaxFracDigits, d \in 0..MaxTokenDecimals :
         /\ call' = [n |-> n, k |-> k, d |-> d]
         /\ out' \in PplTokenAmount(Amount(n, k), d)

Return == ~Idle /\ call' = None /\ out' = None

Next == Convert \/ Return
Spec == Init /\ [][Next]_vars
-----------------------------------------------------------------------------
\* The exact base units of n / 10^k at decimals d.
ExactUnits(c) == c.n * 10^(c.d - c.k)

(* ppl_token_amount of a decimal amount with no more fraction digits than *)
(* the mint has decimals, and a power that fits usize: below 2^(bits-1)    *)
(* base units (2^52 for f64) the result is the exact amount or one unit    *)
(* short, never above; beyond, the f64 parse and product may cost or add  *)
(* units, never more than one unit per 2^(bits-1) of the amount.          *)
PplTokenAmountBounded ==
    call # None /\ call.k <= call.d /\ ~Pow10Overflows(call.d) =>
      LET exact == ExactUnits(call)
          half  == 2^(FloatBits - 1)
      IN /\ out.kind = "ok"
         /\ exact < half => out.val \in {exact - 1, exact}
         /\ (out.val - exact) * half <= exact + half
         /\ (exact - out.val) * half <= exact + half
====
