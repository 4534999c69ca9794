---------------------------- MODULE KeyedOperation ----------------------------
(***************************************************************************)
(* What an operation with an idempotency key promises its clients, without *)
(* rows, claim tokens, leases and transactions.  The operation of a key    *)
(* takes effect at most once and has one response, which never changes.    *)
(* From then on whoever comes with the same payload is given that response *)
(* and whoever comes with another one a conflict; only a request that was  *)
(* under way before may still end in an error.                             *)
(*                                                                         *)
(* It does not promise that an effect is ever followed by its response.    *)
(***************************************************************************)
EXTENDS Naturals

CONSTANTS
    Key, Request,
    KeyOf, PayloadOf,    \* what a request carries
    Nobody               \* the response of a key that has none

VARIABLES
    effects,     \* how often the operation of a key took effect
    response,    \* the request whose execution made the response of a key
    seen,        \* what the client of a request was answered last
    underway     \* requests that have begun and are not answered yet

kvars == <<effects, response, seen, underway>>

Init ==
    /\ effects = [k \in Key |-> 0]
    /\ response = [k \in Key |-> Nobody]
    /\ seen = [q \in Request |-> "nothing"]
    /\ underway = {}

Open(q) == response[KeyOf[q]] = Nobody

SamePayload(q) == PayloadOf[response[KeyOf[q]]] = PayloadOf[q]

Answers(q, a) ==
    /\ seen' = [seen EXCEPT ![q] = a]
    /\ underway' = underway \ {q}

\* The work begins, with nothing to show for it yet or with its effect.
Begin(q) ==
    /\ q \notin underway /\ Open(q)
    /\ underway' = underway \cup {q}
    /\ \/ UNCHANGED effects
       \/ effects[KeyOf[q]] = 0 /\ effects' = [effects EXCEPT ![KeyOf[q]] = 1]
    /\ UNCHANGED <<response, seen>>

\* The response is stored with the effect, or after it.
Succeed(q) ==
    /\ Open(q)
    /\ effects[KeyOf[q]] \in {0, 1}
    /\ effects' = [effects EXCEPT ![KeyOf[q]] = 1]
    /\ response' = [response EXCEPT ![KeyOf[q]] = q]
    /\ Answers(q, q)

Replay(q) ==
    /\ q \notin underway /\ ~Open(q) /\ SamePayload(q)
    /\ Answers(q, response[KeyOf[q]])
    /\ UNCHANGED <<effects, response>>

\* The key is busy, or belongs to another payload.
Refuse(q) ==
    /\ q \notin underway /\ (Open(q) \/ ~SamePayload(q))
    /\ Answers(q, "conflict")
    /\ UNCHANGED <<effects, response>>

\* An error says nothing of the effect.
Fail(q) ==
    /\ q \in underway \/ Open(q)
    /\ Answers(q, "error")
    /\ UNCHANGED <<effects, response>>

Next == \E q \in Request : Begin(q) \/ Succeed(q) \/ Replay(q) \/ Refuse(q) \/ Fail(q)

Spec == Init /\ [][Next]_kvars
=============================================================================
