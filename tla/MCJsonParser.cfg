\* A long long of 117 and an unsigned one of 235, which like the real ones leave
\* a remainder when divided by 10; two levels, two elements.
CONSTANTS
    Texts <- MCTexts
    Digits <- MCDigits
    DigitValue <- MCDigitValue
    LLONG_MAX = 117
    ULLONG_MAX = 235
    MAX_RECURSION_DEPTH = 2
    MAX_JSON_ELEMENTS = 2
SPECIFICATION Spec
INVARIANTS TypeOK NoOverflow DepthCounted Decides
