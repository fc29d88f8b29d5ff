SPECIFICATION Spec
CONSTANTS
    AddressCount = 8
    InstructionLengthLimit = 6
    MaximumUnprefixed = 4
    HalfModulus = 2
    Encoding <- FetchEncoding
    Mapping <- FetchMapping
VIEW FetchView
PROPERTIES
    DirectReadsInsideWindow
    InstructionAtATime
