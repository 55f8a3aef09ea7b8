---------------------------- MODULE ErrorContract ----------------------------
(***************************************************************************)
(* AllExceptionsFilter: what the client is answered when a handler throws.  *)
(* An exception is told apart by what the filter looks at, a response by    *)
(* its status, whose words it carries and whether it says Retry-After.      *)
(***************************************************************************)
EXTENDS Naturals

\* An Error nobody prepared for; the others differ from it where they say so.
Unexpected ==
    [http |-> FALSE,            \* instanceof HttpException
     structured |-> FALSE,      \* its payload is an object without `message`
     expose |-> FALSE,          \* http-errors' expose
     status |-> 0,              \* statusCode ?? status, 0 if not a number
     driverCode |-> "none",     \* driverError.code
     code |-> "none",           \* code
     poolTimeout |-> FALSE,     \* pg-pool's acquire timeout message
     transientPublishFailure |-> FALSE]

HttpException(status) == [Unexpected EXCEPT !.http = TRUE, !.status = status]
MqUnavailableError == [Unexpected EXCEPT !.transientPublishFailure = TRUE]
PayloadTooLarge == [Unexpected EXCEPT !.expose = TRUE, !.status = 413]

\* TypeORM's wrapper hides the driver's code from `code`.
SqlState(x) == IF x.driverCode # "none" THEN x.driverCode ELSE x.code

IsTransientTimeout(x) ==
    x.transientPublishFailure \/ SqlState(x) \in {"57014", "25P03"} \/ x.poolTimeout

AsExposedClientError(x) == x.expose /\ x.status \in 400..499

\* The branches of catch(), in order.
Catch(x) ==
    CASE x.http ->
           [status |-> x.status, retryAfter |-> FALSE,
            words |-> IF x.structured THEN "verbatim" ELSE "own"]
      [] ~x.http /\ AsExposedClientError(x) ->
           [status |-> x.status, retryAfter |-> FALSE, words |-> "own"]
      [] ~x.http /\ ~AsExposedClientError(x) /\ IsTransientTimeout(x) ->
           [status |-> 503, retryAfter |-> TRUE, words |-> "generic"]
      [] OTHER ->
           [status |-> 500, retryAfter |-> FALSE, words |-> "generic"]
=============================================================================
