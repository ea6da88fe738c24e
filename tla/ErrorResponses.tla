--------------------------- MODULE ErrorResponses ---------------------------
(***************************************************************************)
(* The way of an exception raised by a view: the handler that answers the  *)
(* request, and the interceptor that makes an error of the answer in the   *)
(* client.  There are two handlers: the one of the REST framework, which   *)
(* is in force, and custom_exception_handler, which no setting names.      *)
(***************************************************************************)
EXTENDS Integers

\* The exceptions, with the status_code of those whose class has one.
OwnStatus ==
  [AppError |-> 500, InvalidLoginException |-> 422, InvalidRefreshException |-> 403,
   ValidationError |-> 400, AuthenticationFailed |-> 401, PermissionDenied |-> 403,
   NotFound |-> 404]

AppExceptions == {"InvalidLoginException", "InvalidRefreshException"}
APIExceptions == {"ValidationError", "AuthenticationFailed", "PermissionDenied", "NotFound"}

Exceptions ==
  {"AppError"} \cup AppExceptions \cup APIExceptions \cup
  {"ObjectDoesNotExist", "BadRequest", "DjangoPermissionDenied", "PermissionError", "Http404",
   "IntegrityError"}

NoCode == "null"

AppCode(ex) ==
  CASE ex = "InvalidLoginException"   -> "invalid_login"
    [] ex = "InvalidRefreshException" -> "invalid_refresh"
    [] OTHER                          -> NoCode

\* An answer: its status, its kind of body ("normalised", "detail" or "page"),
\* and the status and the code that a normalised body repeats.
Plain(status, body) ==
  [status |-> status, body |-> body, status_code |-> 0, app_code |-> NoCode]

\* exception_handler of the REST framework: its own exceptions, and two of
\* Django's, are answered with what they detail.
HasDetail(ex) == ex \in APIExceptions \cup {"Http404", "DjangoPermissionDenied"}

DetailStatus(ex) ==
  CASE ex = "Http404"                -> 404
    [] ex = "DjangoPermissionDenied" -> 403
    [] OTHER                         -> OwnStatus[ex]

\* All others are raised again, and Django answers with a page.
InstalledHandler(ex) ==
  IF HasDetail(ex) THEN Plain(DetailStatus(ex), "detail")
  ELSE Plain(IF ex = "BadRequest" THEN 400 ELSE 500, "page")

\* The status in the body, by the class of the exception.
NormalisedStatus(ex) ==
  CASE ex \in DOMAIN OwnStatus \ {"PermissionDenied"}                             -> OwnStatus[ex]
    [] ex = "ObjectDoesNotExist"                                                  -> 404
    [] ex = "BadRequest"                                                          -> 400
    [] ex \in {"DjangoPermissionDenied", "PermissionDenied", "PermissionError"}   -> 403
    [] OTHER                                                                      -> 500

NormalisedCode(ex) ==
  IF ex \in {"DjangoPermissionDenied", "PermissionDenied", "PermissionError"}
    THEN "permission_denied" ELSE AppCode(ex)

\* Defect: the body is built only when the framework has an answer.
HandlerOfDetailsOnly(ex) ==
  IF HasDetail(ex)
    THEN [status |-> DetailStatus(ex), body |-> "normalised",
          status_code |-> NormalisedStatus(ex), app_code |-> NormalisedCode(ex)]
    ELSE Plain(500, "page")

\* A normalised body in each case; the status is that of the framework's answer
\* if it has one, and otherwise that of the body.
CustomHandler(ex) ==
  [status      |-> IF HasDetail(ex) THEN DetailStatus(ex) ELSE NormalisedStatus(ex),
   body        |-> "normalised",
   status_code |-> NormalisedStatus(ex),
   app_code    |-> NormalisedCode(ex)]

----------------------------------------------------------------------------
(* The client.                                                             *)

\* onError reads the fields of a normalised body, and throws when they are not
\* there: what is left is the error without a meaning.
OnError(answer) ==
  IF answer.body = "normalised"
    THEN [kind |-> "ServerClientError", statusCode |-> answer.status_code,
          appCode |-> answer.app_code]
    ELSE [kind |-> "DioException", statusCode |-> 0, appCode |-> NoCode]

\* And when no answer came.
OnNoAnswer == [kind |-> "ServerClientError", statusCode |-> 0, appCode |-> NoCode]
=============================================================================
