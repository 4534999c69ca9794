SPECIFICATION FairSpec
CONSTANTS
    k1 = k1 k2 = k2 d1 = d1 d2 = d2 d3 = d3 u1 = u1 j1 = j1
    Nobody = Nobody
    Key = {k1, k2}
    Request = {d1, d2, d3}
    Fingerprint = {"empty"}
    KeyOf <- MCKeyOf
    FingerprintOf <- MCFingerprintOf
    Lease = 1
    Mixes <- MCMixes
    Patient = {d1, d3}
    Upload = {u1}
    SpeechJob = {j1}
INVARIANTS LeftoverIsLate
PROPERTY AccountIsDeleted
