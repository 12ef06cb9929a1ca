------------------------------ MODULE Fetchers ------------------------------
(***************************************************************************)
(* How an attempt to fetch a page ends: with the page, with an error that   *)
(* the fetcher takes for permanent, or with one that it tries again after.  *)
(* The status of a page does not matter: an answer 404 or 500 is a page.    *)
(***************************************************************************)
EXTENDS Integers

Outcomes == {"page", "permanent", "retry"}

\* NewHTTPFetcher, NewBrowserFetcher, NewSeleniumFetcher: at least one attempt.
AttemptsOf(maxAttempts) == IF maxAttempts = 0 THEN 1 ELSE maxAttempts

\* What http.Client.Do and reading the body may return.
HTTPErrors == {"dns", "scheme", "refused", "timeout", "reset"}

\* isRetryableError
IsRetryable(err) == err \notin {"dns", "scheme", "refused"}

\* HTTPFetcher: doFetch, and what Fetch makes of its error.
HTTPAttempt(result) ==
  IF result = "ok" THEN "page" ELSE IF IsRetryable(result) THEN "retry" ELSE "permanent"

StepResults == {"ok", "late", "error"}

\* BrowserFetcher.doFetch: all of these in turn; the page and its document must
\* be ready, but that the network or the document does not come to rest in time
\* is no error.
BrowserSteps == {"resolveWSURL", "Navigate", "waitForReadyState", "waitForNetworkIdle", "waitForDOMStable", "OuterHTML"}

WaitForNetworkIdle(result) == result # "error"

WaitForDOMStable(result) == result # "error"

BrowserAttempt(steps) ==
  IF /\ \A s \in BrowserSteps \ {"waitForNetworkIdle", "waitForDOMStable"} : steps[s] = "ok"
     /\ WaitForNetworkIdle(steps["waitForNetworkIdle"])
     /\ WaitForDOMStable(steps["waitForDOMStable"])
  THEN "page" ELSE "retry"

\* SeleniumFetcher.doFetch: with cookies the page is loaded twice; a document
\* that is not ready, or cannot be asked, is taken as it is when the time is over.
SeleniumSteps == {"NewRemote", "Get", "setCookies", "reload", "waitForSeleniumReady", "PageSource"}

WaitForSeleniumReady(result) == TRUE

SeleniumAttempt(steps) ==
  IF /\ \A s \in SeleniumSteps \ {"waitForSeleniumReady"} : steps[s] = "ok"
     /\ WaitForSeleniumReady(steps["waitForSeleniumReady"])
  THEN "page" ELSE "retry"

\* CreateFetcher of the factory that the worker was started with, and how one of
\* its attempts may end.
AttemptOutcomes(fetcher) ==
  CASE fetcher = "http"     -> {HTTPAttempt(r) : r \in HTTPErrors \cup {"ok"}}
    [] fetcher = "browser"  -> {BrowserAttempt(r) : r \in [BrowserSteps -> StepResults]}
    [] fetcher = "selenium" -> {SeleniumAttempt(r) : r \in [SeleniumSteps -> StepResults]}
=============================================================================
