-------------------------- MODULE ManagementService --------------------------
(***************************************************************************)
(* HTTP requests to the management service                                 *)
(* (lib/_provisioning/management-service.js): a request, and the ones that *)
(* follow it to where it is redirected.  A handler returns the request as  *)
(* it leaves it and what the response callback is given: "none" when it is *)
(* not invoked, "error", or an answer without an error.  There is no       *)
(* timeout: a response whose end never comes is waited for.                *)
(***************************************************************************)
EXTENDS Naturals

CONSTANT MaxRedirects  \* HTTP_MAX_REDIRECTS, 5 in the code

ASSUME RedirectsAssumption == MaxRedirects \in Nat

(* "waiting" for the headers, "reading" the body, "draining" the body of    *)
(* the redirect that was one too many, "lost" when its end never comes.     *)
(* Requests stay open when their headers have come: no 'error' handler is   *)
(* ever removed, and each may be invoked once.                              *)
Request == [phase : {"idle", "waiting", "reading", "draining", "lost"},
            redirects : 0..MaxRedirects,
            open : Nat]

Idle == [phase |-> "idle", redirects |-> 0, open |-> 0]
HttpGet(request, redirects) ==
    [request EXCEPT !.phase = "waiting", !.redirects = redirects]

(* What the headers may say: a redirect to the same host and port, one to  *)
(* nowhere or to elsewhere, one URL() cannot parse, or no redirect.        *)
Headers == {"redirect", "misdirect", "unparsable", "content"}

(* What the body of an answer amounts to: an "error" (a status code that is *)
(* not 2xx, no body, no ':', a status that is not OK, invalid JSON), JSON   *)
(* that is "void" ("", 0, false or null), JSON the caller cannot use        *)
(* ("malformed") or can ("good").                                           *)
Bodies == {"error", "void", "malformed", "good"}

After(request, phase, result) ==
    [request |-> [request EXCEPT !.phase = phase], result |-> result]

Open(request) == [request EXCEPT !.open = @ + 1]

(* A slip to tell apart: the error of a misdirection has no return. *)
OnResponse_NoReturn(request, headers) ==
    LET next == Open(request)
    IN  IF headers = "content" THEN After(next, "reading", "none")
        ELSE IF request.redirects = MaxRedirects \/ headers = "misdirect"
          THEN After(next, "draining", "error")
        ELSE IF headers = "unparsable" THEN After(next, "lost", "throws")
        ELSE [request |-> HttpGet(next, request.redirects + 1), result |-> "none"]

(* The response handler.  At the limit the location is not looked at, and   *)
(* there is no return after the callback: the body is read as well, and its *)
(* end invokes the callback again, with the error of a status that is 302.  *)
OnResponse(request, headers) ==
    LET next == Open(request)
    IN  IF headers = "content" THEN After(next, "reading", "none")
        ELSE IF request.redirects = MaxRedirects
          THEN After(next, "draining", "error")
        ELSE IF headers = "misdirect" THEN After(next, "idle", "error")
        ELSE IF headers = "unparsable" THEN After(next, "lost", "throws")
        ELSE [request |-> HttpGet(next, request.redirects + 1), result |-> "none"]

(* A slip to tell apart: the body of the last redirect is an answer. *)
OnEnd_AnyBody(request, body) == After(request, "idle", body)

(* The 'end' handler, and the callback request() gives to httpGet(). *)
OnEnd(request, body) ==
    After(request, "idle",
          IF request.phase = "draining" THEN "error" ELSE body)

(* The 'error' event of a request without a response, and of one that has   *)
(* been answered, redirected or not: the latter changes nothing else.       *)
OnError(request) == After(request, "idle", "error")
OnLateError(request) ==
    [request |-> [request EXCEPT !.open = @ - 1], result |-> "error"]
=============================================================================
