SPECIFICATION Spec
CONSTANTS
    Chunks = 2
    Packed = 2
    Lag = 1
    Numbers = 4
    Nothing = Nothing
    Torn = Torn
INVARIANTS OwesEachBlock ReaderAndWriterApart
PROPERTY SendsBlocksInOrder
