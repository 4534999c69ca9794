------------------------------ MODULE StreamOrder ------------------------------
(***************************************************************************)
(* What a client may rely on in the chunks it receives: a statement over   *)
(* the row of the speech and the generator that reads it (iter_tts_pcm),   *)
(* whatever workers do to the table of chunks in between.                  *)
(***************************************************************************)
EXTENDS Integers, Sequences

VARIABLES
    token,     \* processing_token of the row
    attempt,   \* transport_attempt_count of its latest job
    reader     \* the generator iter_tts_pcm

IsPrefixOfAttempt(s) ==
    \A i \in DOMAIN s : s[i].seq = i - 1 /\ s[i].attempt = s[1].attempt

\* What a client received of a token, when its job was not retried, is the beginning
\* of one attempt: nothing twice, nothing left out, nothing of another generation,
\* although a worker that was given up may append beside its successor.
GenerationInOrder ==
    \A i \in DOMAIN reader.sent :
        (reader.token = token /\ attempt <= 1) =>
            /\ reader.sent[i].token = reader.token
            /\ IsPrefixOfAttempt(reader.sent)
=============================================================================
