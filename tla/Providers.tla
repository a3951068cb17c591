------------------------------ MODULE Providers ------------------------------
(***************************************************************************)
(* The structured calls of app/llm: how ClaudeProvider, GeminiProvider and *)
(* OllamaProvider turn what comes back from their service into an answer,  *)
(* an LLMDecisionError, another attempt, or an exception of the client     *)
(* library that nobody expects.  The five calls of a provider are alike.   *)
(***************************************************************************)
EXTENDS Integers

Providers == {"claude", "gemini", "ollama"}

(***************************************************************************)
(* What an attempt may bring: a text that fits the schema, one that does   *)
(* not (the empty one too), a response without the part that should hold   *)
(* the text (a blocked or cut answer, a body that is no JSON), or no       *)
(* response (HTTP error, timeout, connection refused).                     *)
(***************************************************************************)
Attempts == {"valid", "invalid", "empty", "failed"}

(***************************************************************************)
(* Claude: the text block is taken with next(), a missing one raises       *)
(* StopIteration, which leaves a coroutine as a RuntimeError; errors of    *)
(* the client are not caught.                                              *)
(***************************************************************************)
ClaudeOutcome(attempt) ==
    CASE attempt = "valid"               -> "answer"
      [] attempt = "invalid"             -> "LLMDecisionError"
      [] attempt \in {"empty", "failed"} -> "escapes"

\* Gemini: no text is looked for; errors of the client are not caught.
GeminiOutcome(attempt) ==
    CASE attempt = "valid"                -> "answer"
      [] attempt \in {"invalid", "empty"} -> "LLMDecisionError"
      [] attempt = "failed"               -> "escapes"

MaxAttempts == 2    \* _MAX_ATTEMPTS

\* Mutated form: nobody catches the errors of the client.
OllamaUncaught(n, attempt) ==
    CASE attempt = "valid"               -> "answer"
      [] attempt \in {"failed", "empty"} -> "escapes"
      [] attempt = "invalid"             ->
            IF n < MaxAttempts THEN "again" ELSE "LLMDecisionError"

(***************************************************************************)
(* Ollama: every httpx.HTTPError is an LLMDecisionError, at once; a text   *)
(* that does not fit is fed back and asked again.  The content is taken    *)
(* out of the body behind both handlers: a body that is no JSON or has no  *)
(* message or content raises what nobody catches.                          *)
(***************************************************************************)
OllamaOutcome(n, attempt) ==
    CASE attempt = "valid"   -> "answer"
      [] attempt = "failed"  -> "LLMDecisionError"
      [] attempt = "empty"   -> "escapes"
      [] attempt = "invalid" ->
            IF n < MaxAttempts THEN "again" ELSE "LLMDecisionError"

\* The outcome of attempt number n.
Outcome(provider, n, attempt) ==
    CASE provider = "claude" -> ClaudeOutcome(attempt)
      [] provider = "gemini" -> GeminiOutcome(attempt)
      [] provider = "ollama" -> OllamaOutcome(n, attempt)
=============================================================================
