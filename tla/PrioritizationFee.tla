--------------------------- MODULE PrioritizationFee ---------------------------
(***************************************************************************)
(* PrioritizationFeeDetails::new (program-runtime/src/prioritization_fee.rs) *)
(* and FeeStructure::get_max_fee (sdk/src/fee.rs).  u128 is reduced to     *)
(* Bits bits and U256 to 2 * Bits bits; MICRO_LAMPORTS_PER_LAMPORT is      *)
(* reduced to Micro, which keeps the rounding at price Micro - 1, Micro,   *)
(* Micro + 1.                                                              *)
(***************************************************************************)
EXTENDS Integers

CONSTANTS
    Bits,        \* width of u128, reduced
    Micro,       \* MICRO_LAMPORTS_PER_LAMPORT, reduced
    MaxCount,    \* signatures and write locks 0 .. MaxCount
    Rates,       \* lamports per signature / per write lock
    BinFees      \* fees of the last compute fee bin

U128Max == 2^Bits - 1
U256Max == 2^(2 * Bits) - 1
Values  == 0..U128Max
NoBin   == -1   \* compute_fee_bins is empty

\* saturating_mul, saturating_add, saturating_div of an unsigned type.
SatMul(a, b, max) == IF a * b > max THEN max ELSE a * b
SatAdd(a, b, max) == IF a + b > max THEN max ELSE a + b
SatDiv(a, b)      == a \div b

\* Variant: the U256 result handed back without the u128 conversion.
ToU128Unclamped(x) == x
\* u128::try_from(x).unwrap_or(u128::MAX)
ToU128(x) == IF x > U128Max THEN U128Max ELSE x

\* Variant: no rounding term, the fee rounded down.
CuPriceFeeFloor(price, units) ==
    ToU128(SatDiv(SatMul(price, units, U256Max), Micro))

\* ComputeUnitPrice: fee = ceil(price * units / Micro) in U256, saturated.
CuPriceFee(price, units) ==
    ToU128(SatDiv(SatAdd(SatMul(price, units, U256Max), Micro - 1, U256Max), Micro))

\* Variant: the zero-unit test dropped, dividing by one instead.
DeprecatedPriorityNoZeroCheck(fee, units) ==
    ToU128(SatDiv(SatMul(fee, Micro, U256Max), IF units = 0 THEN 1 ELSE units))

\* Deprecated: priority = fee * Micro / units in U256, 0 for zero units.
DeprecatedPriority(fee, units) ==
    IF units = 0 THEN 0
    ELSE ToU128(SatDiv(SatMul(fee, Micro, U256Max), units))

\* PrioritizationFeeDetails::new
New(type, x, units) ==
    IF type = "Deprecated" THEN [fee |-> x, priority |-> DeprecatedPriority(x, units)]
    ELSE [fee |-> CuPriceFee(x, units), priority |-> x]

\* Variant: get_max_fee adding the bin fee with a wrapping add.
GetMaxFeeWrapping(lps, lpw, bin, sigs, locks) ==
    (SatAdd(SatMul(sigs, lps, U128Max), SatMul(locks, lpw, U128Max), U128Max)
        + (IF bin = NoBin THEN 0 ELSE bin)) % (U128Max + 1)

\* FeeStructure::get_max_fee; bin is the fee of the last compute fee bin,
\* NoBin for an empty list (unwrap_or_default).
GetMaxFee(lps, lpw, bin, sigs, locks) ==
    SatAdd(SatAdd(SatMul(sigs, lps, U128Max), SatMul(locks, lpw, U128Max), U128Max),
           IF bin = NoBin THEN 0 ELSE bin, U128Max)

-----------------------------------------------------------------------------
VARIABLES call, out
vars == <<call, out>>

NoCall == [fn |-> "none", type |-> "none", x |-> 0, units |-> 0]
Init == call = NoCall /\ out = [fee |-> 0, priority |-> 0]
Idle == call = NoCall

\* A compute budget instruction priced a transaction.
CallNew ==
    \E type \in {"Deprecated", "ComputeUnitPrice"}, x, units \in Values :
        /\ Idle
        /\ call' = [fn |-> "new", type |-> type, x |-> x, units |-> units]
        /\ out' = New(type, x, units)

\* The bank asks for the largest fee of a transaction.
CallGetMaxFee ==
    \E lps, lpw \in Rates, bin \in BinFees \cup {NoBin}, sigs, locks \in 0..MaxCount :
        /\ Idle
        /\ call' = [fn |-> "get_max_fee", type |-> <<lps, lpw, bin>>, x |-> sigs, units |-> locks]
        /\ out' = [fee |-> GetMaxFee(lps, lpw, bin, sigs, locks), priority |-> 0]

Return == ~Idle /\ call' = NoCall /\ out' = [fee |-> 0, priority |-> 0]

Next == CallNew \/ CallGetMaxFee \/ Return

Spec == Init /\ [][Next]_vars

-----------------------------------------------------------------------------
TypeOK == out.fee \in Values /\ out.priority \in Values

(* ComputeUnitPrice (spec 4.4): the fee is the price times the compute    *)
(* units in micro-lamports rounded up to whole lamports, toward the       *)
(* validator, and saturates at u128::MAX instead of wrapping.             *)
FeeIsCeiling ==
    call.fn = "new" /\ call.type = "ComputeUnitPrice" =>
        LET need == call.x * call.units IN
        \/ out.fee = U128Max /\ need > U128Max * Micro
        \/ out.fee * Micro >= need /\ (out.fee = 0 \/ (out.fee - 1) * Micro < need)

(* Deprecated (spec 4.4): the priority is the fee in micro-lamports per   *)
(* compute unit rounded down, 0 for zero units (no division by zero), and *)
(* saturates at u128::MAX.                                                *)
PriorityIsFloor ==
    call.fn = "new" /\ call.type = "Deprecated" =>
        LET paid == call.x * Micro IN
        IF call.units = 0 THEN out.priority = 0
        ELSE \/ out.priority = U128Max /\ U128Max * call.units <= paid
             \/ out.priority * call.units <= paid /\ paid < (out.priority + 1) * call.units

(* get_max_fee is the exact sum of the signature fees, write-lock fees    *)
(* and the last bin's fee, or u128::MAX when that sum does not fit: no    *)
(* step wraps around.                                                     *)
MaxFeeSaturates ==
    call.fn = "get_max_fee" =>
        LET exact == call.x * call.type[1] + call.units * call.type[2]
                     + (IF call.type[3] = NoBin THEN 0 ELSE call.type[3])
        IN out.fee = IF exact > U128Max THEN U128Max ELSE exact

=============================================================================
