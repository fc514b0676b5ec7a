----------------------------- MODULE TokenAmount -----------------------------
(***************************************************************************)
(* Amount rendering: real_number_string, real_number_string_trimmed and    *)
(* token_amount_to_ui_amount (account-decoder/src/parse_token.rs), the     *)
(* UiTokenAmount methods, lamports_to_put and the PUT Display              *)
(* (sdk/program/src/native_token.rs), Token's Display                      *)
(* (tokens/src/token_display.rs) and the balance difference printed by     *)
(* print_token_balances (tokens/src/ppl_token.rs).  A string is a sequence *)
(* of one-character strings; integers wrap at AmountBits bits (u128) and   *)
(* checked_pow fails at UsizeBits bits (usize), both reduced widths; an   *)
(* f64 has a UiFloatBits-bit significand, reduced from 53 bits.           *)
(***************************************************************************)
EXTENDS Integers, Sequences, FiniteSets

CONSTANTS
    MaxAmount,      \* amounts 0 .. MaxAmount are rendered
    MaxDecimals,    \* decimals 0 .. MaxDecimals
    LamportSamples, \* further lamport amounts around the 10^9 boundary
    AmountBits,     \* width of u128, reduced
    UsizeBits,      \* width of usize, reduced
    MaxBalance,     \* balances 0 .. MaxBalance in print_token_balances
    UiFloatBits,    \* significand bits of f64, reduced
    UiSamples       \* further amounts given to token_amount_to_ui_amount

Amounts  == 0..MaxAmount
Decimals == 0..MaxDecimals
Lamports == Amounts \cup LamportSamples
LAMPORTS_PER_PUT == 1000000000
Sym == "SYM"      \* the PUT currency symbol
Dot == "."

Digit(n) == <<"0", "1", "2", "3", "4", "5", "6", "7", "8", "9">>[n + 1]

\* u128::to_string: decimal digits without leading zeros.
RECURSIVE ToDigits(_)
ToDigits(n) == IF n < 10 THEN <<Digit(n)>> ELSE ToDigits(n \div 10) \o <<Digit(n % 10)>>

\* Variant: format!("{:1$}", n, w), which pads with spaces.
PadLeftSpaces(s, w) == IF Len(s) >= w THEN s ELSE [i \in 1..(w - Len(s)) |-> " "] \o s

\* format!("{:01$}", n, w): zeros on the left up to width w.
PadLeft(s, w) == IF Len(s) >= w THEN s ELSE [i \in 1..(w - Len(s)) |-> "0"] \o s

\* String::insert(i, c) at byte offset i.
InsertAt(s, i, c) == SubSeq(s, 1, i) \o <<c>> \o SubSeq(s, i + 1, Len(s))

\* str::trim_end_matches(c).
RECURSIVE TrimEnd(_, _)
TrimEnd(s, c) == IF s # <<>> /\ s[Len(s)] = c THEN TrimEnd(SubSeq(s, 1, Len(s) - 1), c) ELSE s

\* u128::from_str(..).unwrap_or_default(): 0 for an empty or non-digit string
\* and for a value that does not fit the width.
RECURSIVE DigitsValue(_)
DigitsValue(s) == IF s = <<>> THEN 0
                  ELSE DigitsValue(SubSeq(s, 1, Len(s) - 1)) * 10
                       + (CHOOSE n \in 0..9 : Digit(n) = s[Len(s)])
ParseU128OrDefault(s) ==
    IF s # <<>> /\ \A i \in DOMAIN s : s[i] \in {Digit(n) : n \in 0..9}
       /\ DigitsValue(s) < 2^AmountBits
    THEN DigitsValue(s) ELSE 0

-----------------------------------------------------------------------------
\* Variant: padding to `decimals` digits, which drops the integer zero.
RealNumberStringShortPad(amount, decimals) ==
    IF decimals > 0
    THEN LET s == PadLeft(ToDigits(amount), decimals) IN InsertAt(s, Len(s) - decimals, Dot)
    ELSE ToDigits(amount)

\* real_number_string
RealNumberString(amount, decimals) ==
    IF decimals > 0
    THEN LET s == PadLeft(ToDigits(amount), decimals + 1) IN InsertAt(s, Len(s) - decimals, Dot)
    ELSE ToDigits(amount)

\* Variant: the dot trimmed before the zeros.
TrimZerosDotSwapped(s) == TrimEnd(TrimEnd(s, Dot), "0")

\* The two trims shared by real_number_string_trimmed and lamports_to_put.
TrimZerosDot(s) == TrimEnd(TrimEnd(s, "0"), Dot)

\* real_number_string_trimmed
RealNumberStringTrimmed(amount, decimals) ==
    IF decimals > 0 THEN TrimZerosDot(RealNumberString(amount, decimals))
    ELSE RealNumberString(amount, decimals)

\* 10_usize.checked_pow(d) is Some exactly when no product overflows.
RECURSIVE CheckedPow10(_)
CheckedPow10(d) == d = 0 \/ (CheckedPow10(d - 1) /\ 10^d < 2^UsizeBits)

(***************************************************************************)
(* f64 arithmetic: a float is [m, e], the value m / 2^e with e any        *)
(* integer and m below 2^UiFloatBits; every operation rounds to nearest,  *)
(* ties to even.                                                           *)
(***************************************************************************)
RoundDiv(a, b) ==
    LET q == a \div b
        r == a % b
    IN IF 2 * r > b \/ (2 * r = b /\ q % 2 = 1) THEN q + 1 ELSE q

\* The k with 2^k <= p / q < 2^(k+1), for p, q > 0.
RECURSIVE Log2Floor(_, _)
Log2Floor(p, q) ==
    IF p >= 2 * q THEN 1 + Log2Floor(p, 2 * q)
    ELSE IF p < q THEN Log2Floor(2 * p, q) - 1
    ELSE 0

\* The float nearest to p / q.
NearestFloat(p, q) ==
    IF p = 0 THEN [m |-> 0, e |-> 0]
    ELSE LET e == UiFloatBits - 1 - Log2Floor(p, q)
             m == IF e >= 0 THEN RoundDiv(p * 2^e, q) ELSE RoundDiv(p, q * 2^(-e))
         IN IF m = 2^UiFloatBits THEN [m |-> 2^(UiFloatBits - 1), e |-> e - 1]
            ELSE [m |-> m, e |-> e]

\* n as f64 (u128 and usize alike).
AsF64(n) == NearestFloat(n, 1)

\* x / y in f64: the quotient of the significands rounded, then scaled.
DivF64(x, y) ==
    IF x.m = 0 THEN x
    ELSE LET f == NearestFloat(x.m, y.m) IN [f EXCEPT !.e = @ + x.e - y.e]

\* Variant: (amount / dividend) as f64, an integer division.
UiAmountIntDiv(amount, decimals) == AsF64(amount \div 10^decimals)
\* amount as f64 / dividend as f64, dividend = 10^decimals.
UiAmountF64(amount, decimals) == DivF64(AsF64(amount), AsF64(10^decimals))

\* token_amount_to_ui_amount: ui_amount is None (<<>>) when checked_pow
\* fails, else Some (<<f>>).
TokenAmountToUiAmount(amount, decimals) ==
    [uiAmount |-> IF CheckedPow10(decimals) THEN <<UiAmountF64(amount, decimals)>> ELSE <<>>,
     decimals |-> decimals, amount |-> ToDigits(amount),
     uiAmountString |-> RealNumberStringTrimmed(amount, decimals)]

\* UiTokenAmount::real_number_string_trimmed: the stored string if there is
\* one, else the amount string parsed again.
UiRealNumberStringTrimmed(ui) ==
    IF ui.uiAmountString # <<>> THEN ui.uiAmountString
    ELSE RealNumberStringTrimmed(ParseU128OrDefault(ui.amount), ui.decimals)

\* lamports_to_put
LamportsToPut(lamports) ==
    LET s == PadLeft(ToDigits(lamports), 10) IN TrimZerosDot(InsertAt(s, Len(s) - 9, Dot))

\* PUT::write_in_put: "{}.{:09}" of the quotient and remainder by 10^9.
WriteInPut(lamports) ==
    <<Sym>> \o ToDigits(lamports \div LAMPORTS_PER_PUT) \o <<Dot>>
        \o PadLeft(ToDigits(lamports % LAMPORTS_PER_PUT), 9)

\* Token::write_with_symbol
WriteWithSymbol(tokenType, amount, decimals) ==
    IF tokenType = "PUT" THEN <<Sym>> \o LamportsToPut(amount)
    ELSE RealNumberStringTrimmed(amount, decimals) \o <<"tokens">>

\* The difference column of print_token_balances: the u128 subtraction
\* panics with overflow checks and wraps without them.
BalanceDifference(actual, expected, decimals, checked) ==
    IF actual >= expected THEN RealNumberString(actual - expected, decimals)
    ELSE IF checked THEN <<"panic">>
    ELSE RealNumberString((actual - expected) % 2^AmountBits, decimals)

-----------------------------------------------------------------------------
Balances == 0..MaxBalance
Call(fn, a, b, d, t) == [fn |-> fn, a |-> a, b |-> b, d |-> d, t |-> t]
NoCall == Call("none", 0, 0, 0, "none")

VARIABLES call, out
vars == <<call, out>>

Init == call = NoCall /\ out = <<>>

Idle == call = NoCall

CallRealNumberString ==
    \E a \in Amounts, d \in Decimals :
        /\ Idle /\ call' = Call("real_number_string", a, 0, d, "none")
        /\ out' = RealNumberString(a, d)

CallRealNumberStringTrimmed ==
    \E a \in Amounts, d \in Decimals :
        /\ Idle /\ call' = Call("real_number_string_trimmed", a, 0, d, "none")
        /\ out' = RealNumberStringTrimmed(a, d)

CallTokenAmountToUiAmount ==
    \E a \in Amounts \cup UiSamples, d \in Decimals :
        /\ Idle /\ call' = Call("token_amount_to_ui_amount", a, 0, d, "none")
        /\ out' = TokenAmountToUiAmount(a, d)

\* A UiTokenAmount as token_amount_to_ui_amount builds it, or as it is
\* deserialized from a JSON without uiAmountString (serde default "").
CallUiRealNumberStringTrimmed ==
    \E a \in Amounts, d \in Decimals, legacy \in BOOLEAN :
        LET made == TokenAmountToUiAmount(a, d)
            ui   == IF legacy THEN [made EXCEPT !.uiAmountString = <<>>] ELSE made
        IN /\ Idle
           /\ call' = Call("ui_real_number_string_trimmed", a, 0, d,
                           IF legacy THEN "legacy" ELSE "none")
           /\ out' = UiRealNumberStringTrimmed(ui)

CallLamportsToPut ==
    \E l \in Lamports :
        /\ Idle /\ call' = Call("lamports_to_put", l, 0, 9, "none")
        /\ out' = LamportsToPut(l)

CallWriteInPut ==
    \E l \in Lamports :
        /\ Idle /\ call' = Call("write_in_put", l, 0, 9, "none")
        /\ out' = WriteInPut(l)

\* Token::put(amount) has 9 decimals; Token::ppl_token(amount, decimals).
CallWriteWithSymbol ==
    \/ \E l \in Lamports :
          /\ Idle /\ call' = Call("write_with_symbol", l, 0, 9, "PUT")
          /\ out' = WriteWithSymbol("PUT", l, 9)
    \/ \E a \in Amounts, d \in Decimals :
          /\ Idle /\ call' = Call("write_with_symbol", a, 0, d, "PplToken")
          /\ out' = WriteWithSymbol("PplToken", a, d)

\* print_token_balances with an associated token account holding `actual`
\* and an allocation of `expected`; the build has overflow checks or not.
CallPrintTokenBalances ==
    \E actual, expected \in Balances, d \in Decimals, checked \in BOOLEAN :
        /\ Idle
        /\ call' = Call("print_token_balances", actual, expected, d,
                        IF checked THEN "checked" ELSE "wrapping")
        /\ out' = BalanceDifference(actual, expected, d, checked)

Return == ~Idle /\ call' = NoCall /\ out' = <<>>

Next ==
    \/ CallRealNumberString \/ CallRealNumberStringTrimmed
    \/ CallTokenAmountToUiAmount \/ CallUiRealNumberStringTrimmed
    \/ CallLamportsToPut \/ CallWriteInPut \/ CallWriteWithSymbol
    \/ CallPrintTokenBalances \/ Return

Spec == Init /\ [][Next]_vars

-----------------------------------------------------------------------------
(* Reference renderings from the amount formatting rules of the spec      *)
(* (4.4): the exact form has the integer part amount / 10^d, a dot and    *)
(* the remainder on exactly d digits; the trimmed form is the exact form  *)
(* of the same value with the fewest decimals, "0" for zero.              *)
Exact(a, d) ==
    IF d = 0 THEN ToDigits(a)
    ELSE ToDigits(a \div 10^d) \o <<Dot>> \o PadLeft(ToDigits(a % 10^d), d)
TrailingZeros(a, d) ==
    CHOOSE z \in 0..d : a % 10^z = 0 /\ (z = d \/ a % 10^(z + 1) # 0)
Shortest(a, d) == LET z == TrailingZeros(a, d) IN Exact(a \div 10^z, d - z)

Chars == {Digit(n) : n \in 0..9} \cup {Dot, Sym, "tokens", "panic"}
F64s == [m : 0..(2^UiFloatBits - 1), e : Int]
UiAmounts == [uiAmount : {<<>>} \cup [{1} -> F64s], decimals : Decimals,
              amount : Seq(Chars), uiAmountString : Seq(Chars)]

TypeOK ==
    /\ call.fn \in {"none", "real_number_string", "real_number_string_trimmed",
                    "token_amount_to_ui_amount", "ui_real_number_string_trimmed",
                    "lamports_to_put", "write_in_put", "write_with_symbol",
                    "print_token_balances"}
    /\ \/ call.fn = "token_amount_to_ui_amount" /\ out \in UiAmounts
       \/ call.fn # "token_amount_to_ui_amount" /\ out \in Seq(Chars)

(* real_number_string renders the exact value: the padding to d+1 digits *)
(* and the dot inserted d places from the right agree with integer        *)
(* division at every digit count.                                          *)
ExactRendering ==
    call.fn = "real_number_string" => out = Exact(call.a, call.d)

(* Every trimmed rendering (real_number_string_trimmed, lamports_to_put,  *)
(* Token's Display, UiTokenAmount::real_number_string_trimmed, including  *)
(* a UiTokenAmount deserialized without its string) is the shortest exact *)
(* form: no trailing zero after the dot, no dangling dot, "0" for zero.   *)
TrimmedRendering ==
    /\ call.fn \in {"real_number_string_trimmed", "ui_real_number_string_trimmed"}
           => out = Shortest(call.a, call.d)
    /\ call.fn = "lamports_to_put" => out = Shortest(call.a, 9)
    /\ call.fn = "write_with_symbol" =>
           out = IF call.t = "PUT" THEN <<Sym>> \o Shortest(call.a, 9)
                 ELSE Shortest(call.a, call.d) \o <<"tokens">>

\* The error of the float f against a / 10^d, and a / 10^d, both scaled
\* by 10^d * 2^e (e >= 0) or by 10^d (e < 0).
UiError(f, a, d) ==
    IF f.e >= 0 THEN <<f.m * 10^d - a * 2^f.e, a * 2^f.e>>
    ELSE <<f.m * 10^d * 2^(-f.e) - a, a>>

(* The ui_amount of token_amount_to_ui_amount (spec 4.4: the lossy float  *)
(* projection amount / 10^decimals): below 2^bits base units (2^53 for    *)
(* f64) both operands are exact and it is the float nearest the value of  *)
(* ui_amount_string; above, amount as f64 rounds before the division      *)
(* rounds again, and the result, no longer always the nearest, stays      *)
(* within a relative 2^-(bits-1) of the value.                            *)
UiAmountProjection ==
    call.fn = "token_amount_to_ui_amount" /\ out.uiAmount # <<>> =>
        LET f   == out.uiAmount[1]
            err == UiError(f, call.a, call.d)
        IN
        /\ call.a < 2^UiFloatBits => f = NearestFloat(call.a, 10^call.d)
        /\ err[1] * 2^(UiFloatBits - 1) <= err[2]
        /\ -err[1] * 2^(UiFloatBits - 1) <= err[2]

(* The difference column of print_token_balances shows actual - expected: *)
(* a recipient holding less than its allocation shows a negative amount.  *)
BalanceDifferenceSigned ==
    call.fn = "print_token_balances" =>
        out = IF call.a >= call.b THEN Exact(call.a - call.b, call.d)
              ELSE <<"-">> \o Exact(call.b - call.a, call.d)

=============================================================================
