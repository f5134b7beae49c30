--------------------------- MODULE DeliveryPolicy ---------------------------
(***************************************************************************)
(* The pure decisions of a delivery attempt: how the sink client classes a *)
(* downstream answer, which classes are retried, when an event is given up *)
(***************************************************************************)
EXTENDS Naturals

CONSTANT MaxAttempts    \* HOOKLANE_RETRY_MAXIMUM_ATTEMPTS

ASSUME MaxAttemptsAssumption == MaxAttempts \in Nat \ {0}

ErrorClass ==
    {"timeout", "connection_error", "http_1xx", "http_3xx", "http_429", "http_5xx", "http_4xx"}

IsRetryable(class) == class \in {"timeout", "connection_error", "http_429", "http_5xx"}

\* Mutant: one attempt too many.
ShouldDeadLetterLate(class, attemptCount) ==
    ~IsRetryable(class) \/ attemptCount > MaxAttempts

ShouldDeadLetter(class, attemptCount) ==
    ~IsRetryable(class) \/ attemptCount >= MaxAttempts
=============================================================================
