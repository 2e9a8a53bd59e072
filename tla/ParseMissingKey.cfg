CONSTANTS
    IpBits = 2
    Invalid = Invalid
    MaxList = 4
    SizeBits = 8
    MaxInterval = 128
    NoFile = NoFile
    BadJson = BadJson
SPECIFICATION Spec
CHECK_DEADLOCK FALSE
INVARIANT ConfigErrorIsFatal
