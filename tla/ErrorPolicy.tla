------------------------------ MODULE ErrorPolicy ------------------------------
(***************************************************************************)
(* What an exception means for retries and for the middleware chain: the    *)
(* error codes of onion_core/error_codes.py, the exception classes and the  *)
(* RetryPolicy of onion_core/models.py.  Definitions only.                  *)
(***************************************************************************)

Outcomes == {"retry", "fallback", "fatal"}

\* ErrorCode, by category.
SecurityCodes == {"BLOCKED_KEYWORD", "PII_DETECTED", "PROMPT_INJECTION", "FORBIDDEN_TOOL"}
RateLimitCodes == {"RATE_LIMIT_EXCEEDED", "WINDOW_FULL"}
CircuitCodes == {"CIRCUIT_OPEN", "CIRCUIT_TRIPPED"}
ProviderCodes == {"AUTH_FAILED", "QUOTA_EXCEEDED", "MODEL_NOT_FOUND", "CONTENT_FILTER",
                  "CONTEXT_OVERFLOW", "INVALID_REQUEST"}
MiddlewareCodes == {"REQUEST_FAILED", "RESPONSE_FAILED", "STREAM_FAILED", "MIDDLEWARE_TIMEOUT",
                    "CHAIN_ABORTED"}
ValidationCodes == {"INVALID_CONFIG", "INVALID_MESSAGE", "INVALID_TOOL_CALL", "INVALID_CONTEXT"}
TimeoutCodes == {"PROVIDER_TIMEOUT", "TIMEOUT_MIDDLEWARE", "TOTAL_TIMEOUT"}
FallbackCodes == {"FALLBACK_TRIGGERED", "FALLBACK_EXHAUSTED", "FALLBACK_PROVIDER_FAILED"}
InternalCodes == {"UNEXPECTED", "NOT_IMPLEMENTED", "STATE_CORRUPT"}

ErrorCode ==
  UNION {SecurityCodes, RateLimitCodes, CircuitCodes, ProviderCodes, MiddlewareCodes,
         ValidationCodes, TimeoutCodes, FallbackCodes, InternalCodes}

\* _ERROR_RETRY_STR: the outcome of each code.
RetriedCodes == (MiddlewareCodes \ {"CHAIN_ABORTED"}) \cup (TimeoutCodes \ {"TOTAL_TIMEOUT"})
FallbackCodesOfPolicy ==
  RateLimitCodes \cup CircuitCodes \cup (FallbackCodes \ {"FALLBACK_EXHAUSTED"})

CodeOutcome(code) ==
  IF code \in RetriedCodes THEN "retry"
  ELSE IF code \in FallbackCodesOfPolicy THEN "fallback" ELSE "fatal"

-----------------------------------------------------------------------------
(* Exceptions: a class, and the code of an OnionErrorWithCode *)

NoCode == "no code"

FatalOnionErrors == {"OnionError", "SecurityException", "RateLimitExceeded", "ValidationError"}
TransientOnionErrors == {"ProviderError", "CircuitBreakerError", "CacheHitException"}
OnionErrors == FatalOnionErrors \cup TransientOnionErrors \cup {"OnionErrorWithCode"}

\* RetryPolicy._FATAL_TYPES, and the other built-in exceptions that occur.
FatalTypes == {"ValueError", "TypeError", "NotImplementedError", "AttributeError", "KeyError",
               "IndexError"}
OtherTypes == {"RuntimeError", "TimeoutError", "ConnectionError", "OSError"}

Plain(class) == [class |-> class, code |-> NoCode]
Coded(code) == [class |-> "OnionErrorWithCode", code |-> code]

AllExceptions ==
  {Plain(c) : c \in FatalOnionErrors \cup TransientOnionErrors \cup FatalTypes \cup OtherTypes}
    \cup {Coded(code) : code \in ErrorCode}

HasOutcome(e) == e.code # NoCode
IsFatalClass(e) == IF HasOutcome(e) THEN CodeOutcome(e.code) = "fatal"
                   ELSE e.class \in FatalOnionErrors

\* RetryPolicy.classify, with the default _FALLBACK_TYPES = ().
Classify(e) ==
  IF e.class \in OnionErrors
  THEN IF HasOutcome(e) THEN CodeOutcome(e.code)
       ELSE IF IsFatalClass(e) THEN "fatal" ELSE "retry"
  ELSE IF e.class \in FatalTypes THEN "fatal" ELSE "retry"

\* RetryPolicy.is_chain_breaking: the chain of middlewares is cut.
IsChainBreaking(e) ==
  IF e.class \in OnionErrors
  THEN IF HasOutcome(e) THEN CodeOutcome(e.code) = "fatal" ELSE IsFatalClass(e)
  ELSE Classify(e) = "fatal"
=============================================================================
