CONSTANTS
    Requests = {r1, r2, r3}
    NoSid = NoSid
    ExplicitIds = {"s1"}
    MintIds = {"m1", "m2", "m3"}
    Descs <- MC_Descs
SPECIFICATION Spec
INVARIANTS TypeOK CodeRunsOwnSource
PROPERTIES  QuietReadsAsSpecified
