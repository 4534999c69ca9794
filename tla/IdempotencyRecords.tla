-------------------------- MODULE IdempotencyRecords --------------------------
(***************************************************************************)
(* The table idempotency_records and the three methods of                  *)
(* IdempotencyRepository (app/services/idempotency.py), for the modules of *)
(* the services that use them.  A record belongs to a (user, scope, key);  *)
(* here that triple is a Key.                                              *)
(*                                                                         *)
(* A Request is one HTTP request being served.  Its claim_token, a fresh   *)
(* UUID, is the request itself: an instance of a request that has ended    *)
(* never comes back with its old token.  The lease is the time left, so    *)
(* "lease_expires_at <= now" is "lease = 0".  claim reads the clock before *)
(* it waits for the row; the model's Tick may follow at once, which covers *)
(* a lease that is shorter by the time waited.                             *)
(***************************************************************************)
EXTENDS Integers

CONSTANTS
    Key,          \* idempotency keys (with user and scope)
    Request,      \* requests in flight
    Fingerprint,        \* fingerprints of request payloads
    KeyOf,        \* the key a request carries
    FingerprintOf,      \* the fingerprint of what it carries
    Lease,        \* idempotency_lease_seconds
    Nobody        \* the null claim_token, and the null response

ASSUME RecordsAssumption ==
    /\ KeyOf \in [Request -> Key]
    /\ FingerprintOf \in [Request -> Fingerprint]
    /\ Lease \in Nat \ {0}
    /\ Nobody \notin Request

VARIABLE record

RecordState == {"none", "in_progress", "completed", "failed"}

\* A response is identified with the request whose execution produced it.
Record == [state : RecordState, fingerprint : Fingerprint \cup {Nobody},
           token : Request \cup {Nobody}, lease : 0 .. Lease,
           answer : Request \cup {Nobody}]

RecordsTypeOK == record \in [Key -> Record]

\* "none" is the absence of a row.
NoRecord == [state |-> "none", fingerprint |-> Nobody, token |-> Nobody,
             lease |-> 0, answer |-> Nobody]

RecordsInit == record = [k \in Key |-> NoRecord]

Mine(q) == record[KeyOf[q]]

-------------------------------------------------------------------------------
\* The outcomes of claim, in the order the code tests them.

\* 409 IDEMPOTENCY_KEY_REUSED: the key came with another payload.
KeyReused(q) == Mine(q).state # "none" /\ Mine(q).fingerprint # FingerprintOf[q]

\* The stored response, for whoever knows the key.
FaultyReplays(q) == Mine(q).state = "completed"

\* The stored response is returned.
Replays(q) ==
    /\ ~KeyReused(q)
    /\ Mine(q).state = "completed"

\* A claim that is never taken from a holder that died.
FaultyClaims(q) ==
    \/ Mine(q).state = "none"
    \/ Mine(q).fingerprint = FingerprintOf[q] /\ Mine(q).state = "failed"

\* The row is inserted, or taken over: its holder failed, or let the lease run out.
Claims(q) ==
    \/ Mine(q).state = "none"
    \/ /\ Mine(q).fingerprint = FingerprintOf[q]
       /\ \/ Mine(q).state = "failed"
          \/ Mine(q).state = "in_progress" /\ Mine(q).lease = 0

\* 409 IDEMPOTENCY_REQUEST_IN_PROGRESS
Busy(q) == ~KeyReused(q) /\ ~Replays(q) /\ ~Claims(q)

ClaimedRecord(q) ==
    [state |-> "in_progress", fingerprint |-> FingerprintOf[q], token |-> q,
     lease |-> Lease, answer |-> Nobody]

\* complete and fail_retryable update only the row that still carries the
\* request's claim_token; otherwise they raise "idempotency claim was lost".
HoldsClaim(q) == Mine(q).state = "in_progress" /\ Mine(q).token = q

\* A completion that leaves the row open to a later claim.
FaultyCompletedRecord(q) ==
    [state |-> "failed", fingerprint |-> FingerprintOf[q], token |-> Nobody,
     lease |-> 0, answer |-> q]

CompletedRecord(q) ==
    [state |-> "completed", fingerprint |-> FingerprintOf[q], token |-> Nobody,
     lease |-> 0, answer |-> q]

FailedRecord(q) ==
    [state |-> "failed", fingerprint |-> FingerprintOf[q], token |-> Nobody,
     lease |-> 0, answer |-> Nobody]

WithRecord(q, r) == [record EXCEPT ![KeyOf[q]] = r]

\* Time passes for every lease.
LeasesRun ==
    record' = [k \in Key |->
        [record[k] EXCEPT !.lease = IF @ > 0 THEN @ - 1 ELSE 0]]
=============================================================================
