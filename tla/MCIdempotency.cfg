SPECIFICATION Spec
CONSTANTS
    kRoom = kRoom kDelete = kDelete kVoice = kVoice kRetry = kRetry
    r1 = r1 r2 = r2 d1 = d1 d2 = d2 d3 = d3 v1 = v1 v2 = v2 u1 = u1 u2 = u2
    Nobody = Nobody
    Key = {kRoom, kDelete, kVoice, kRetry}
    Request = {r1, r2, d1, d2, d3, v1, v2, u1, u2}
    Fingerprint = {"a", "b"}
    KeyOf <- MCKeyOf
    FingerprintOf <- MCFingerprintOf
    ShapeOf <- MCShapeOf
    Lease = 2
    MaxEffects = 2
CONSTRAINT TwoKeysAtATime
INVARIANTS OneEffect AnswersAgree AnswerMeansEffect
PROPERTY KeepsPromise
