\* Bytes of three values, HEADER the last: streams of up to eight bytes.
SPECIFICATION Spec
CONSTANTS
    Radix = 3
    HEADER = 2
    MaxBytes = 8
INVARIANTS
    ParsersAreExact
    NothingIsPassedOver
