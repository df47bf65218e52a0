\* Does a subscriber see every device as it is, and miss no number?
SPECIFICATION Spec
CONSTANTS
    N = 2
    Batched = {1}
    Writable = {2}
    Value = {v, w}
    Nothing = Nothing
    Modulus = 3
    MaxQueue = 1
    MaxFaults = 1
INVARIANTS BornBeforeData Gapless QuietAgrees
PROPERTY DeviceSeen
