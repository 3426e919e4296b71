\* Timestamp codes and value codes in one bit stream.
SPECIFICATION StreamSpec
CONSTANTS
    W7 = 4
    W9 = 8
    W12 = 16
    W14 = 32
    W32 = 64
    W64 = 256
    Stamps <- MCStamps
    MaxPoints = 4
    ByteBits = 3
    BufferCapacity = 2
    WordBits = 8
    MaskBits = 2
    LeadBits = 2
    LengthBits = 3
    Points <- MCPoints
INVARIANTS RoundTrip Drift StreamInSync PayloadExact SizeExact
