SPECIFICATION Spec
CONSTANTS
    Symbol <- MCSymbol
    Lengths <- MCLengths
INVARIANTS TypeOK OneFrameByte RoundTrip NeverRejected
PROPERTY Decoded
CHECK_DEADLOCK FALSE
