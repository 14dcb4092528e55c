\* Two byte values, so that a lost, repeated or torn byte shows.
CONSTANTS
    Byte = {b0, b1}
    Size = 3
    MaxReq = 3
SPECIFICATION Spec
SYMMETRY Interchangeable
INVARIANTS TypeOK ClaimsFit NoOverlap WrapRoom ProbeSound PtrsAgree
PROPERTY ImplementsFifo
