\* bound: a read that ends one frame, holds another and most of a third leaves the
\* cursor in the middle; the stream can then outgrow the largest buffer
SPECIFICATION Spec
CONSTANTS
    Base = 2
    ReadSize = 5
    MaxStream = 12
    Exchanges <- MCExchanges
    MaxHeader = 5
CHECK_DEADLOCK FALSE
INVARIANTS
    TypeOK
    StreamingMatchesBulk
    AnswersInOrder
    BufferBounded
    
PROPERTY
    QuietConnectionEnds
