--------------------------- MODULE ApiValidation ---------------------------
(***************************************************************************)
(* What protoc-gen-validate checks of a request, TRUE if Validate() gives  *)
(* no error.  A message that is not set is valid, and so is every message  *)
(* whose fields and parts have no rules; those have no operator here.      *)
(***************************************************************************)
EXTENDS ApiMessages

CONSTANTS
  RuneCount,  \* length of a string
  Emails      \* strings that are e-mail addresses

ASSUME ValidationAssumption ==
  /\ RuneCount \in [String -> Nat]
  /\ \A s \in String : RuneCount[s] = 0 <=> s = ""
  /\ Emails \subseteq String

MinLen(s, n) == RuneCount[s] >= n

\* _validateEmail
ValidateEmail(s) == s \in Emails

\* The configuration is required; its parts have no rules.
ValidateCreateJobRequest(m) == m.config # Nil

ValidateDeleteJobRequest(m) == MinLen(m.id, 1)

ValidateGetTaskAnalyticsRequest(m) == MinLen(m.jobId, 1)

ValidateGetJobExportFileURLRequest(m) == MinLen(m.jobId, 1) /\ m.fileType \in {"json", "csv"}

ValidateGetTaskFileURLRequest(m) == MinLen(m.taskId, 1) /\ m.fileType \in {"pages", "result"}

ValidateCreatePreviewRequest(m) == MinLen(m.url, 1)

ValidateRegisterRequest(m) == ValidateEmail(m.email) /\ MinLen(m.password, 8)

ValidateLoginRequest(m) == ValidateEmail(m.email) /\ MinLen(m.password, 1)

ValidateRefreshRequest(m) == MinLen(m.refreshToken, 1)

ValidateLogoutRequest(m) == MinLen(m.refreshToken, 1)

\* ValidateInterceptor calls the Validate() of the request's own type.
ValidateInterceptor(method, req) ==
  CASE method = "CreateJob" -> ValidateCreateJobRequest(req)
    [] method = "DeleteJob" -> ValidateDeleteJobRequest(req)
    [] method = "GetTaskAnalytics" -> ValidateGetTaskAnalyticsRequest(req)
    [] method = "GetJobExportFileURL" -> ValidateGetJobExportFileURLRequest(req)
    [] method = "GetTaskFileURL" -> ValidateGetTaskFileURLRequest(req)
    [] method = "CreatePreview" -> ValidateCreatePreviewRequest(req)
    [] method = "Register" -> ValidateRegisterRequest(req)
    [] method = "Login" -> ValidateLoginRequest(req)
    [] method = "Refresh" -> ValidateRefreshRequest(req)
    [] method = "Logout" -> ValidateLogoutRequest(req)
    [] OTHER -> TRUE
=============================================================================
