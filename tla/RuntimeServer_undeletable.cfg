CONSTANTS
    Requests = {r1, r2}
    NoSid = NoSid
    ExplicitIds = {"s1"}
    MintIds = {"m1", "m2"}
    Descs <- MC_LinkDescs
SPECIFICATION Spec
INVARIANT QuietDeleteSucceeds
