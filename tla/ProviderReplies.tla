--------------------------- MODULE ProviderReplies ----------------------------
(***************************************************************************)
(* What one provider call of DeepSeekInterpreter.interpret comes to.       *)
(* DeepSeekProvider.generate_structured raises, or returns content that is *)
(* JSON; the normaliser finds an envelope in it or not; the envelope       *)
(* becomes an IR or one of the errors that RetryPolicy tells apart by the  *)
(* type of their cause and by their message.                               *)
(*                                                                         *)
(* The adapter itself makes one try: DeepSeekConfig.max_retries is 0.      *)
(***************************************************************************)

Absent == "none"

\* What generate_structured raises: no answer, a status, or a body without
\* usable text.
Faults == {"timeout", "network", "status5xx", "status429", "status401",
           "status4xx", "bodyNotJson", "noChoices", "blank", "truncated",
           "textNotJson"}

\* The JSON text that comes back.  A code fence quoted inside it (a user's
\* text is echoed in raw_input) is taken out before the JSON is read.
Forms == {"fencedWords", "fencedBraces", "notObject", "bare", "alien",
          "v2", "flat", "enveloped"}

\* What the body of a readable envelope amounts to for the pipeline.
Bodies == {"misfit", "insufficient", "contradictory", "unresolved", "guarded",
           "incomplete", "sound"}

Readable == {"v2", "flat", "enveloped"}

Replies ==
  [fault : Faults, form : {Absent}, body : {Absent}]
    \cup [fault : {Absent}, form : Forms \ Readable, body : {Absent}]
    \cup [fault : {Absent}, form : {"v2"}, body : {"misfit", "sound"}]
    \cup [fault : {Absent}, form : {"flat", "enveloped"}, body : Bodies]

\* self.last_raw_content = response.content: not reached by a fault.
HasContent(r) == r.fault = Absent

\* normalize_raw_provider_output: what stops it, or "ok".
Normalized(r) ==
  CASE r.form = "fencedWords"  -> "no_brace"
    [] r.form = "fencedBraces" -> "malformed"
    [] r.form = "notObject"    -> "not_object"
    [] r.form = "alien"        -> "wrong_ir_kind"
    [] OTHER -> "ok"

\* dispatch_provider_payload.  A flat proposal has been wrapped by then.
Route(r) ==
  CASE Normalized(r) # "ok" -> Normalized(r)
    [] r.form = "bare" -> "proposal_transport"
    [] r.form = "v2" -> "v2_canonical"
    [] OTHER -> "semantic_v3"

\* _parse_response: "accepted", or the error raised.
Parsed(r) ==
  CASE Route(r) = "v2_canonical" \/ r.body = "misfit" ->
         IF r.body = "misfit" THEN "schema" ELSE "accepted"
    [] Route(r) # "semantic_v3" -> Route(r)
    [] r.body \in {"insufficient", "contradictory"} -> "proposal_semantics"
    [] r.body = "guarded" -> "acceptance_guard"
    [] r.body = "incomplete" -> "execution_incomplete"
    [] r.body = "unresolved" -> "semantic_resolution"
    [] OTHER -> "accepted"

Accepted(r)   == HasContent(r) /\ Parsed(r) = "accepted"
Incomplete(r) == HasContent(r) /\ Parsed(r) = "execution_incomplete"

\* RetryPolicy.classify.  Of the raw-output failures only the message of a
\* malformed object is recognised.
FaultClass(f) ==
  CASE f = "timeout"    -> "timeout"
    [] f = "network"    -> "temporary_network"
    [] f = "status5xx"  -> "http_5xx"
    [] f = "status429"  -> "rate_limited"
    [] f = "status401"  -> "authentication"
    [] f = "status4xx"  -> "permanent_provider"
    [] f = "blank"      -> "empty_response"
    [] f = "truncated"  -> "truncated"
    [] OTHER -> "invalid_json"

ErrorClass(e) ==
  CASE e \in {"proposal_semantics", "acceptance_guard", "execution_incomplete",
              "semantic_resolution"} -> "semantic_non_retryable"
    [] e = "schema" -> "schema_invalid"
    [] e \in {"malformed", "wrong_ir_kind"} -> "invalid_json"
    [] OTHER -> "unknown"

FailureClass(r) ==
  IF HasContent(r) THEN ErrorClass(Parsed(r)) ELSE FaultClass(r.fault)

\* RetryPolicy.is_retryable, before the bound on attempts.
Retryable(r) ==
  /\ ~Accepted(r)
  /\ FailureClass(r) \notin {"authentication", "permanent_provider",
                             "semantic_non_retryable", "unknown"}
===============================================================================
