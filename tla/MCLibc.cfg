SPECIFICATION Spec
CONSTANTS
    NULL = NULL
    IntBits = 8
    LongBits = 10
    Formats <- FewFormats
    Texts = {0, 3, 75, 125, 127, 128}
    TextLen = 2
    Cells = 4
    Bytes = 3
INVARIANTS NumbersExact WrittenCounts StringsExact
