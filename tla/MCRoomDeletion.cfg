SPECIFICATION FairSpec
CONSTANTS
    kVoice = kVoice kDelete = kDelete kAgain = kAgain
    v1 = v1 v2 = v2 d1 = d1 d2 = d2 pVoice = pVoice pTts = pTts
    w1 = w1 w2 = w2
    Nobody = Nobody
    Key = {kVoice, kDelete, kAgain}
    Request = {v1, v2, d1, d2}
    Fingerprint = {"a"}
    KeyOf <- MCKeyOf
    FingerprintOf <- MCFingerprintOf
    PathOf <- MCPathOf
    VoicePath = {pVoice}
    TtsPath = {pTts}
    Worker = {w1, w2}
    MaxAttempts = 2
    MaxToken = 2
    Lease = 1
    Mixes <- MCMixes
    Patient = {d1}
INVARIANTS ReadyHasFile OrphansExplained
PROPERTY RoomIsDeleted
