----------------------------- MODULE HttpClient -----------------------------
(***************************************************************************)
(* fanest.http: one call of HttpService, its interceptors and retries,     *)
(* against a server that may refuse it, answer it, or lose the answer, and *)
(* a shutdown that closes the client meanwhile.                            *)
(***************************************************************************)
EXTENDS Naturals

CONSTANTS
  Methods, RetryMethods,  \* verbs; retry_methods of the options
  Codes, RetryCodes,      \* status codes; retry_status_codes
  MaxAttempts

ASSUME HttpAssumption ==
  RetryMethods \subseteq Methods /\ RetryCodes \subseteq Codes /\ MaxAttempts \in Nat \ {0}

VARIABLES
  call,     \* where the call is: its phase, method, attempts allowed, attempt
  got,      \* what the attempt gave: a status code, 0 for an error
  outcome,  \* what the caller got: a code, 0 for an error, Nothing so far
  clientClosed, \* whether aclose() ran
  sent,     \* history: attempts given to the transport
  received  \* history: how often the server received the request

httpVars == <<call, got, outcome, clientClosed, sent, received>>

NoCall == [phase |-> "idle", method |-> "none", attempts |-> 0, attempt |-> 0]
Nothing == 999

HttpInit ==
  /\ call = NoCall /\ got = 0 /\ outcome = Nothing /\ clientClosed = FALSE
  /\ sent = 0 /\ received = 0

To(phase) == call' = [call EXCEPT !.phase = phase]
Finish(result) == To("done") /\ outcome' = result

\* request(): the request interceptors may replace the request, or raise.
Request ==
  /\ call.phase = "idle"
  /\ \E method \in Methods, attempts \in 1..MaxAttempts :
       \/ /\ call' = [phase |-> "send", method |-> method, attempts |-> attempts, attempt |-> 0]
          /\ UNCHANGED outcome
       \/ /\ call' = [phase |-> "done", method |-> method, attempts |-> attempts, attempt |-> 0]
          /\ outcome' = 0
  /\ UNCHANGED <<got, clientClosed, sent, received>>

\* client.send(): a closed client raises, the network may lose the request or
\* the answer.
Transmit ==
  /\ call.phase = "send"
  /\ sent' = sent + 1
  /\ \/ received' = received /\ got' = 0
     \/ /\ ~clientClosed /\ received' = received + 1
        /\ got' \in Codes \cup {0}
  /\ To(IF got' = 0 THEN "error" ELSE "response")
  /\ UNCHANGED <<outcome, clientClosed>>

AttemptsLeft == call.attempt + 1 < call.attempts

\* _should_retry_error.  Variant: a request nobody answered is sent again,
\* whatever its method.
RetryAny == AttemptsLeft
RetryError == AttemptsLeft /\ call.method \in RetryMethods

RetryResponse(code) == AttemptsLeft /\ call.method \in RetryMethods /\ code \in RetryCodes

\* The response interceptors keep the response, replace it or raise, which is
\* handled as an error of the attempt; so is an aclose() that raises.
Receive ==
  /\ call.phase = "response"
  /\ \/ got' = 0 /\ To("error") /\ UNCHANGED outcome
     \/ /\ got' \in Codes
        /\ IF RetryResponse(got') THEN To("sleep") /\ UNCHANGED outcome ELSE Finish(got')
  /\ UNCHANGED <<clientClosed, sent, received>>

\* The error interceptors leave the error, answer for the server or raise; an
\* answer passes the response interceptors, which may raise.
Fail ==
  /\ call.phase = "error"
  /\ \/ IF RetryError THEN To("sleep") /\ UNCHANGED outcome ELSE Finish(0)
     \/ \E result \in Codes \cup {0} : Finish(result)
  /\ UNCHANGED <<got, clientClosed, sent, received>>

\* After the back-off a copy of the request is sent.
Retry ==
  /\ call.phase = "sleep"
  /\ call' = [call EXCEPT !.phase = "send", !.attempt = @ + 1]
  /\ UNCHANGED <<got, outcome, clientClosed, sent, received>>

\* The caller gives up.
Abandon ==
  /\ call.phase \in {"send", "sleep"}
  /\ Finish(0)
  /\ UNCHANGED <<got, clientClosed, sent, received>>

\* aclose(), on_application_shutdown().
CloseClient == ~clientClosed /\ clientClosed' = TRUE /\ UNCHANGED <<call, got, outcome, sent, received>>

HttpNext == Request \/ Transmit \/ Receive \/ Fail \/ Retry \/ Abandon \/ CloseClient

HttpSpec == HttpInit /\ [][HttpNext]_httpVars

-----------------------------------------------------------------------------
\* A request whose method must not be repeated reaches the server at most once,
\* whatever fails: the network, an interceptor, closing the refused response
\* (module.py:51); any other at most as often as there are attempts.
SentSafely ==
  /\ call.method \notin RetryMethods => received <= 1
  /\ received <= call.attempts
=============================================================================
