\* Recipients holding less than their allocation.
CONSTANTS
    MaxAmount = 3
    MaxDecimals = 2
    LamportSamples <- MCLamportSamples
    AmountBits = 16
    UsizeBits = 16
    MaxBalance = 3
    UiFloatBits = 10
    UiSamples = {}
SPECIFICATION Spec
INVARIANT BalanceDifferenceSigned
