---------------------------- MODULE FetchPipeline ----------------------------
(***************************************************************************)
(* One call of fetchWithNativeClient (src/http/fetch.ts): the loop of      *)
(* cookies, hooks, dispatch, redirects and retries, with its catch block.  *)
(*                                                                         *)
(* pc names the await the call is suspended at; an action is the code from *)
(* one await to the next.  Hooks, the cookie jar, the server and the       *)
(* caller's AbortController choose freely at their steps.  A response is   *)
(* known by an id; open holds the ids whose body nobody has cancelled.     *)
(***************************************************************************)
EXTENDS Naturals, FiniteSets

CONSTANTS
    Urls,          \* where requests and redirects may go
    Starts,        \* the requests callers make: url, method, body, a Cookie header
    Origins,
    OriginOf,      \* the origin of each URL
    Invalid,       \* a Location header that is no URL
    NoValue,       \* no header, no credential, no error code
    OptionSets     \* the resolved options a call may run with

Methods == {"GET", "HEAD", "POST"}

ASSUME FetchAssumption ==
    /\ OriginOf \in [Urls -> Origins]
    /\ Starts \subseteq {s \in [url : Urls, method : Methods, body : {"none", "bytes", "stream"},
                               hasCookie : BOOLEAN] : s.body # "none" => s.method = "POST"}
    /\ Invalid \notin Urls
    /\ NoValue \notin Origins
    /\ OptionSets \subseteq [limit : Nat, maxRedirects : Nat, retryMethods : SUBSET Methods,
                             redirect : {"follow", "manual", "error"},
                             cookieJar : BOOLEAN, throwHttpErrors : BOOLEAN,
                             validateStatus : BOOLEAN]

Cookies  == [url : Urls, version : Nat]
Requests == {r \in [url : Urls, method : Methods, body : {"none", "bytes", "stream"},
                    authorization : Origins \cup {NoValue}, cookie : Cookies \cup {NoValue}] :
                r.body # "none" => r.method = "POST"}
Replies  == [status : {"ok", "retryable", "refused", "301", "303", "307"},
             location : Urls \cup {Invalid}, id : Nat]
Errors   == [retryable : BOOLEAN, response : Nat]

NoReply  == [status |-> "ok", location |-> Invalid, id |-> 0]
NoError  == [retryable |-> FALSE, response |-> 0]

VARIABLES
    options,       \* resolveOptions, fixed for the call
    pc,            \* where the call is suspended
    request,       \* the current Request
    attempt,
    chain,         \* redirectChain.length
    visited,       \* visitedRedirectTargets
    reply,         \* the current Response; id 0 for none
    error,         \* normalizedError, in the catch block
    aborted,       \* options.signal.aborted
    streamUsed,    \* the one-shot body stream has been handed to a dispatch
    jarVersion,    \* how often the jar has been written
    sends,         \* native dispatches so far
    nextId,
    open,          \* responses whose body has been neither cancelled nor taken by a hook
    dropped,       \* history: responses that were current when a callback threw or a
                   \* Location was invalid, and that no catch block cancels
    cloneAwaited,  \* the call awaits the cancel of a body that a hook has cloned
    sawErrorHooks  \* the beforeError hooks have run

bodyVars == <<nextId, open, dropped, cloneAwaited>>
hopVars  == <<request, chain, visited>>
vars     == <<options, pc, hopVars, attempt, reply, error, aborted, streamUsed, jarVersion,
              sends, bodyVars, sawErrorHooks>>

Labels == {"start", "cookies", "beforeRequest", "build", "dispatch", "waiting", "afterResponse",
           "stats", "persist", "decide", "beforeRedirect", "shouldRetry", "beforeRetry",
           "backoff", "validate", "errorStats", "errorShouldRetry", "errorBeforeRetry",
           "errorBackoff", "beforeError", "returned", "threw"}

TypeOK ==
    /\ options \in OptionSets
    /\ pc \in Labels
    /\ request \in Requests
    /\ attempt \in Nat /\ chain \in Nat /\ sends \in Nat /\ jarVersion \in Nat
    /\ visited \subseteq Urls
    /\ reply \in Replies
    /\ error \in Errors
    /\ aborted \in BOOLEAN /\ streamUsed \in BOOLEAN /\ sawErrorHooks \in BOOLEAN
    /\ nextId \in Nat
    /\ open \subseteq Nat /\ dropped \subseteq Nat
    /\ cloneAwaited \in BOOLEAN

(* The request of createRequest: the caller may bring an Authorization and *)
(* a Cookie header meant for the URL it asks for.                          *)
Init ==
    /\ options \in OptionSets
    /\ pc = "start"
    /\ \E s \in Starts :
          request = [url |-> s.url, method |-> s.method, body |-> s.body,
                     authorization |-> OriginOf[s.url],
                     cookie |-> IF s.hasCookie THEN [url |-> s.url, version |-> 0] ELSE NoValue]
    /\ attempt = 1
    /\ chain = 0
    /\ visited = {request.url}
    /\ reply = NoReply
    /\ error = NoError
    /\ aborted = FALSE
    /\ streamUsed = FALSE
    /\ jarVersion = 0
    /\ sends = 0
    /\ nextId = 1
    /\ open = {} /\ dropped = {}
    /\ cloneAwaited = FALSE
    /\ sawErrorHooks = FALSE

-----------------------------------------------------------------------------
(* Bodies, errors and the retry policy. *)

(* The cancel of a body that an afterResponse hook, or a callback after    *)
(* it, has cloned settles when the clone has been read or cancelled too;   *)
(* any other settles by itself.                                            *)
AwaitClone(id) == cloneAwaited' \in (IF id \in open THEN BOOLEAN ELSE {FALSE})

(* cancelResponseBody; the stream a hook has locked is not in open: it is  *)
(* left to its reader.                                                     *)
CancelBody(id) ==
    /\ open' = open \ {id}
    /\ AwaitClone(id)
    /\ UNCHANGED dropped

(* Control goes to the catch block with an error that names the current    *)
(* response, or none: then nothing cancels the current response, whose     *)
(* body is left to the finalizer of Response.                              *)
(* What the retry policy will look at is the status of the response the    *)
(* error names, otherwise the error's code.                                *)
Throw(retryable, id) ==
    /\ pc' = "errorStats"
    /\ error' = [retryable |-> retryable, response |-> id]
    /\ reply' = NoReply
    /\ dropped' = IF id = 0 THEN dropped \cup ({reply.id} \ {0}) ELSE dropped
    /\ UNCHANGED <<open, cloneAwaited>>

(* What a callback may throw: its own error, or one with a retryable code. *)
CallbackThrows ==
    /\ \E retryable \in BOOLEAN : Throw(retryable, 0)
    /\ UNCHANGED <<options, hopVars, attempt, aborted, streamUsed, jarVersion, sends, nextId,
                   sawErrorHooks>>

(* A callback of the catch block throws: nothing catches it, and nothing   *)
(* cancels the response of the error that it replaces.                     *)
CallbackEscapes ==
    /\ pc' = "threw"
    /\ error' = NoError
    /\ dropped' = dropped \cup ({error.response} \ {0})
    /\ UNCHANGED <<options, hopVars, attempt, reply, aborted, streamUsed, jarVersion, sends,
                   nextId, open, cloneAwaited, sawErrorHooks>>

(* The call goes on to the next await and changes nothing else. *)
Continue(from, to) ==
    /\ pc = from
    /\ pc' = to
    /\ UNCHANGED <<options, hopVars, attempt, reply, error, aborted, streamUsed, jarVersion,
                   sends, bodyVars, sawErrorHooks>>

(* Defect: the limit counts one attempt too many. *)
MayRetryOnceMore(retryable) ==
    /\ attempt <= options.limit + 1
    /\ request.method \in options.retryMethods
    /\ retryable

(* shouldRetryRequest up to the user's callback: the status decides when   *)
(* there is a response, the error code when there is none.                 *)
MayRetry(retryable) ==
    /\ attempt + 1 <= options.limit + 1
    /\ request.method \in options.retryMethods
    /\ retryable

IsRedirect == reply.status \in {"301", "303", "307"}

(* rewriteRedirectMethod and Request._replace: 303 always drops the body,  *)
(* 301 and 302 drop that of a POST.                                        *)
BodyDropped == reply.status = "303" \/ (reply.status = "301" /\ request.method = "POST")

(* _replace clones a body it keeps; a one-shot stream that was sent cannot *)
(* be cloned.                                                              *)
ReplaceThrows == ~BodyDropped /\ request.body = "stream" /\ streamUsed

(* Defect: the method is rewritten, the body stays. *)
RedirectedKeepingBody ==
    LET crossOrigin == OriginOf[request.url] # OriginOf[reply.location]
    IN  [url |-> reply.location,
         method |-> IF BodyDropped /\ request.method # "HEAD" THEN "GET" ELSE request.method,
         body |-> request.body,
         authorization |-> IF crossOrigin THEN NoValue ELSE request.authorization,
         cookie |-> IF crossOrigin \/ options.cookieJar THEN NoValue ELSE request.cookie]

(* Defect: the Cookie header is not stripped across origins. *)
RedirectedKeepingCookie ==
    LET crossOrigin == OriginOf[request.url] # OriginOf[reply.location]
    IN  [url |-> reply.location,
         method |-> IF BodyDropped /\ request.method # "HEAD" THEN "GET" ELSE request.method,
         body |-> IF BodyDropped THEN "none" ELSE request.body,
         authorization |-> IF crossOrigin THEN NoValue ELSE request.authorization,
         cookie |-> IF options.cookieJar THEN NoValue ELSE request.cookie]

(* The redirected request: method, body, and the headers that           *)
(* stripRedirectSensitiveHeaders and the cookie jar take away.             *)
Redirected ==
    LET crossOrigin == OriginOf[request.url] # OriginOf[reply.location]
    IN  [url |-> reply.location,
         method |-> IF BodyDropped /\ request.method # "HEAD" THEN "GET" ELSE request.method,
         body |-> IF BodyDropped THEN "none" ELSE request.body,
         authorization |-> IF crossOrigin THEN NoValue ELSE request.authorization,
         cookie |-> IF crossOrigin \/ options.cookieJar THEN NoValue ELSE request.cookie]

-----------------------------------------------------------------------------
(* The try block. *)

(* Defect: the Cookie header of the attempt before is kept. *)
StartKeepingCookie ==
    /\ pc = "start"
    /\ ~aborted
    /\ pc' = "cookies"
    /\ UNCHANGED <<options, hopVars, attempt, reply, error, aborted, streamUsed,
                   jarVersion, sends, bodyVars, sawErrorHooks>>

Start ==
    /\ pc = "start"
    /\ ~aborted
    /\ pc' = "cookies"
    /\ request' = [request EXCEPT !.cookie = IF options.cookieJar THEN NoValue ELSE @]
    /\ UNCHANGED <<options, chain, visited, attempt, reply, error, aborted, streamUsed,
                   jarVersion, sends, bodyVars, sawErrorHooks>>

(* throwIfAborted, and nativeRequest's own look at the signal. *)
ThrowAborted ==
    /\ pc \in {"start", "dispatch", "waiting"}
    /\ aborted
    /\ Throw(TRUE, 0)
    /\ UNCHANGED <<options, hopVars, attempt, aborted, streamUsed, jarVersion, sends, nextId,
                   sawErrorHooks>>

(* loadCookiesIntoRequest; the jar may have nothing for the URL. *)
LoadCookies ==
    /\ pc = "cookies"
    /\ pc' = "beforeRequest"
    /\ \/ UNCHANGED request
       \/ /\ options.cookieJar
          /\ request.cookie = NoValue
          /\ request' = [request EXCEPT !.cookie = [url |-> request.url, version |-> jarVersion]]
    /\ UNCHANGED <<options, chain, visited, attempt, reply, error, aborted, streamUsed,
                   jarVersion, sends, bodyVars, sawErrorHooks>>

CookiesThrow == pc = "cookies" /\ options.cookieJar /\ CallbackThrows

(* beforeRequest hooks that return nothing; one may authorize the request. *)
BeforeRequest ==
    /\ pc = "beforeRequest"
    /\ pc' = "build"
    /\ request' \in {request, [request EXCEPT !.authorization = OriginOf[request.url]]}
    /\ UNCHANGED <<options, chain, visited, attempt, reply, error, aborted, streamUsed,
                   jarVersion, sends, bodyVars, sawErrorHooks>>

BeforeRequestThrows == pc = "beforeRequest" /\ CallbackThrows

(* A new response becomes the current one. *)
Receive(status, location) ==
    /\ reply' = [status |-> status, location |-> location, id |-> nextId]
    /\ nextId' = nextId + 1
    /\ open' = open \cup {nextId}
    /\ UNCHANGED <<dropped, cloneAwaited>>

AnyReply == \E status \in {"ok", "retryable", "refused", "301", "303", "307"} :
               \E location \in Urls \cup {Invalid} :
                  /\ status \in {"ok", "retryable", "refused"} => location = Invalid
                  /\ Receive(status, location)

(* A beforeRequest hook answers the request itself. *)
ShortCircuit ==
    /\ pc = "beforeRequest"
    /\ AnyReply
    /\ pc' = "afterResponse"
    /\ UNCHANGED <<options, hopVars, attempt, error, aborted, streamUsed, jarVersion, sends,
                   sawErrorHooks>>

(* Defect: the upload of a used stream is prepared all the same. *)
BuildReusingStream == Continue("build", "dispatch")

(* buildNativeRequest: a one-shot stream is handed out only once. *)
Build ==
    /\ ~(request.body = "stream" /\ streamUsed)
    /\ Continue("build", "dispatch")

(* buildNativeRequest or the binding refuses the options, or the stream    *)
(* has been handed out.                                                    *)
BuildThrows ==
    /\ pc \in {"build", "dispatch"}
    /\ Throw(FALSE, 0)
    /\ UNCHANGED <<options, hopVars, attempt, aborted, streamUsed, jarVersion, sends, nextId,
                   sawErrorHooks>>

(* Defect: the signal is not looked at again. *)
DispatchIgnoringAbort ==
    /\ pc = "dispatch"
    /\ pc' = "waiting"
    /\ sends' = sends + 1
    /\ streamUsed' = (streamUsed \/ request.body = "stream")
    /\ UNCHANGED <<options, hopVars, attempt, reply, error, aborted, jarVersion, bodyVars,
                   sawErrorHooks>>

(* nativeRequest: the native request starts and reads the body. *)
Dispatch ==
    /\ pc = "dispatch"
    /\ ~aborted
    /\ pc' = "waiting"
    /\ sends' = sends + 1
    /\ streamUsed' = (streamUsed \/ request.body = "stream")
    /\ UNCHANGED <<options, hopVars, attempt, reply, error, aborted, jarVersion, bodyVars,
                   sawErrorHooks>>

Answer ==
    /\ pc = "waiting"
    /\ ~aborted
    /\ AnyReply
    /\ pc' = "afterResponse"
    /\ UNCHANGED <<options, hopVars, attempt, error, aborted, streamUsed, jarVersion, sends,
                   sawErrorHooks>>

(* A transport error: a timeout has a retryable code, others have none. *)
Fail ==
    /\ pc = "waiting"
    /\ ~aborted
    /\ CallbackThrows

(* afterResponse hooks: look, lock the body's stream (then a cancel fails  *)
(* at once), or replace the response, which cancels the one before.        *)
AfterResponse == Continue("afterResponse", "stats")

AfterResponseLocks ==
    /\ pc = "afterResponse"
    /\ open' = open \ {reply.id}
    /\ UNCHANGED <<options, pc, hopVars, attempt, reply, error, aborted, streamUsed, jarVersion,
                   sends, nextId, dropped, cloneAwaited, sawErrorHooks>>

AfterResponseReplaces ==
    /\ pc = "afterResponse"
    /\ pc' = "stats"
    /\ \E status \in {"ok", "retryable"} :
          reply' = [status |-> status, location |-> Invalid, id |-> nextId]
    /\ nextId' = nextId + 1
    /\ open' = (open \ {reply.id}) \cup {nextId}
    /\ AwaitClone(reply.id)
    /\ UNCHANGED <<options, hopVars, attempt, error, aborted, streamUsed, jarVersion, sends,
                   dropped, sawErrorHooks>>

AfterResponseThrows ==
    /\ pc = "afterResponse"
    /\ CancelBody(reply.id)
    /\ pc' = "errorStats"
    /\ error' \in [retryable : BOOLEAN, response : {0}]
    /\ reply' = NoReply
    /\ UNCHANGED <<options, hopVars, attempt, aborted, streamUsed, jarVersion, sends, nextId,
                   sawErrorHooks>>

Stats == Continue("stats", "persist")

StatsThrows == pc = "stats" /\ CallbackThrows

(* persistResponseCookies: Set-Cookie headers go into the jar. *)
Persist ==
    /\ pc = "persist"
    /\ pc' = "decide"
    /\ \/ UNCHANGED jarVersion
       \/ options.cookieJar /\ jarVersion' = jarVersion + 1
    /\ UNCHANGED <<options, hopVars, attempt, reply, error, aborted, streamUsed, sends, bodyVars,
                   sawErrorHooks>>

PersistThrows == pc = "persist" /\ options.cookieJar /\ CallbackThrows

-----------------------------------------------------------------------------
(* After the response: a redirect, a retry, or the end. *)

StatusAllowed == options.throwHttpErrors => reply.status = "ok"

TooManyRedirects == chain >= options.maxRedirects

Return ==
    /\ \/ pc = "decide" /\ IsRedirect /\ options.redirect = "manual"
       \/ pc = "validate" /\ (options.validateStatus \/ StatusAllowed)
    /\ pc' = "returned"
    /\ UNCHANGED <<options, hopVars, attempt, reply, error, aborted, streamUsed, jarVersion, sends,
                   bodyVars, sawErrorHooks>>

(* redirect: "error", too many redirects, a loop: the error names the response. *)
RedirectRefused ==
    /\ pc = "decide"
    /\ IsRedirect
    /\ \/ options.redirect = "error"
       \/ options.redirect = "follow" /\ (TooManyRedirects \/ reply.location \in visited)
    /\ Throw(FALSE, reply.id)
    /\ UNCHANGED <<options, hopVars, attempt, aborted, streamUsed, jarVersion, sends, nextId,
                   sawErrorHooks>>

Follows ==
    /\ pc = "decide"
    /\ IsRedirect
    /\ options.redirect = "follow"
    /\ ~TooManyRedirects

(* resolveRedirectLocation throws an error without the response. *)
LocationInvalid ==
    /\ Follows
    /\ reply.location = Invalid
    /\ Throw(FALSE, 0)
    /\ UNCHANGED <<options, hopVars, attempt, aborted, streamUsed, jarVersion, sends, nextId,
                   sawErrorHooks>>

(* _replace throws: the body is cancelled and the error rethrown. *)
RedirectNotReplayable ==
    /\ Follows
    /\ reply.location \in Urls \ visited
    /\ ReplaceThrows
    /\ CancelBody(reply.id)
    /\ pc' = "errorStats"
    /\ error' = NoError
    /\ reply' = NoReply
    /\ UNCHANGED <<options, hopVars, attempt, aborted, streamUsed, jarVersion, sends, nextId,
                   sawErrorHooks>>

(* Defect: redirect loops are not looked for. *)
RedirectAnywhere ==
    /\ Follows
    /\ reply.location \in Urls
    /\ ~ReplaceThrows
    /\ pc' = "beforeRedirect"
    /\ UNCHANGED <<options, request, chain, visited, attempt, reply, error, aborted, streamUsed,
                   jarVersion, sends, bodyVars, sawErrorHooks>>

Redirect ==
    /\ Follows
    /\ reply.location \in Urls \ visited
    /\ ~ReplaceThrows
    /\ pc' = "beforeRedirect"
    /\ UNCHANGED <<options, request, chain, visited, attempt, reply, error, aborted, streamUsed,
                   jarVersion, sends, bodyVars, sawErrorHooks>>

(* beforeRedirect hooks, one of which may authorize the next request; then *)
(* the body is cancelled and the loop goes on with that request.           *)
FollowRedirect ==
    /\ pc = "beforeRedirect"
    /\ pc' = "start"
    /\ request' \in {Redirected, [Redirected EXCEPT !.authorization = OriginOf[reply.location]]}
    /\ CancelBody(reply.id)
    /\ chain' = chain + 1
    /\ visited' = visited \cup {reply.location}
    /\ reply' = NoReply
    /\ UNCHANGED <<options, attempt, error, aborted, streamUsed, jarVersion, sends,
                   nextId, sawErrorHooks>>

BeforeRedirectThrows == pc = "beforeRedirect" /\ CallbackThrows

NotARedirect == ~IsRedirect /\ Continue("decide", "shouldRetry")

RetryAccepted == MayRetry(reply.status = "retryable") /\ Continue("shouldRetry", "beforeRetry")

(* The policy says no, or the user's shouldRetry does. *)
RetryDeclined == Continue("shouldRetry", "validate")

ShouldRetryThrows ==
    pc = "shouldRetry" /\ MayRetry(reply.status = "retryable") /\ CallbackThrows

(* Defect: the body of the failed response is left open. *)
BeforeRetryKeepingBody == Continue("beforeRetry", "backoff")

(* beforeRetry hooks ran; the body of the failed response is cancelled. *)
BeforeRetry ==
    /\ pc = "beforeRetry"
    /\ pc' = "backoff"
    /\ CancelBody(reply.id)
    /\ UNCHANGED <<options, hopVars, attempt, reply, error, aborted, streamUsed, jarVersion, sends,
                   nextId, sawErrorHooks>>

BeforeRetryThrows == pc = "beforeRetry" /\ CallbackThrows

(* Defect: the attempt is not counted. *)
RetryUncounted(from) ==
    /\ pc = from
    /\ pc' = "start"
    /\ reply' = NoReply
    /\ error' = NoError
    /\ UNCHANGED <<options, hopVars, attempt, aborted, streamUsed, jarVersion, sends, bodyVars,
                   sawErrorHooks>>

(* runRetryDelay is over; also the end of the catch block's retry. *)
Retry(from) ==
    /\ pc = from
    /\ pc' = "start"
    /\ attempt' = attempt + 1
    /\ reply' = NoReply
    /\ error' = NoError
    /\ UNCHANGED <<options, hopVars, aborted, streamUsed, jarVersion, sends, bodyVars,
                   sawErrorHooks>>

BackoffThrows == pc = "backoff" /\ CallbackThrows

(* isResponseStatusAllowed says no: the user's validateStatus, or the range. *)
StatusRefused ==
    /\ pc = "validate"
    /\ options.validateStatus \/ ~StatusAllowed
    /\ Throw(reply.status = "retryable", reply.id)
    /\ UNCHANGED <<options, hopVars, attempt, aborted, streamUsed, jarVersion, sends, nextId,
                   sawErrorHooks>>

ValidateThrows == pc = "validate" /\ options.validateStatus /\ CallbackThrows

-----------------------------------------------------------------------------
(* The catch block. *)

ErrorStats == Continue("errorStats", "errorShouldRetry")

ErrorMayRetry == MayRetry(error.retryable)

ErrorRetryAccepted == ErrorMayRetry /\ Continue("errorShouldRetry", "errorBeforeRetry")

ErrorRetryDeclined == Continue("errorShouldRetry", "beforeError")

ErrorBeforeRetry ==
    /\ pc = "errorBeforeRetry"
    /\ pc' = "errorBackoff"
    /\ CancelBody(error.response)
    /\ UNCHANGED <<options, hopVars, attempt, reply, error, aborted, streamUsed, jarVersion, sends,
                   nextId, sawErrorHooks>>

(* onStats, shouldRetry, a beforeRetry hook or backoff throws in there. *)
ErrorCallbackThrows ==
    /\ \/ pc \in {"errorStats", "errorBeforeRetry", "errorBackoff"}
       \/ pc = "errorShouldRetry" /\ ErrorMayRetry
    /\ CallbackEscapes

(* beforeError hooks run on the error about to be thrown; then it is.      *)
BeforeError ==
    /\ pc = "beforeError"
    /\ pc' = "threw"
    /\ sawErrorHooks' = TRUE
    /\ UNCHANGED <<options, hopVars, attempt, reply, error, aborted, streamUsed, jarVersion, sends,
                   bodyVars>>

-----------------------------------------------------------------------------

(* Whoever has the clone reads it to its end or cancels it. *)
CloneFinishes ==
    /\ cloneAwaited
    /\ cloneAwaited' = FALSE
    /\ UNCHANGED <<options, pc, hopVars, attempt, reply, error, aborted, streamUsed, jarVersion,
                   sends, nextId, open, dropped, sawErrorHooks>>

(* The caller's AbortController. *)
Abort ==
    /\ ~aborted
    /\ pc \notin {"returned", "threw"}
    /\ aborted' = TRUE
    /\ UNCHANGED <<options, pc, hopVars, attempt, reply, error, streamUsed, jarVersion, sends,
                   bodyVars, sawErrorHooks>>

TryStep ==
    \/ Start \/ ThrowAborted
    \/ LoadCookies \/ CookiesThrow
    \/ BeforeRequest \/ BeforeRequestThrows \/ ShortCircuit
    \/ Build \/ BuildThrows
    \/ Dispatch \/ Answer \/ Fail
    \/ AfterResponse \/ AfterResponseLocks \/ AfterResponseReplaces \/ AfterResponseThrows
    \/ Stats \/ StatsThrows
    \/ Persist \/ PersistThrows

DecideStep ==
    \/ Return
    \/ RedirectRefused \/ LocationInvalid \/ RedirectNotReplayable \/ Redirect
    \/ FollowRedirect \/ BeforeRedirectThrows
    \/ NotARedirect
    \/ RetryAccepted \/ RetryDeclined \/ ShouldRetryThrows
    \/ BeforeRetry \/ BeforeRetryThrows
    \/ Retry("backoff") \/ BackoffThrows
    \/ StatusRefused \/ ValidateThrows

CatchStep ==
    \/ ErrorStats
    \/ ErrorRetryAccepted \/ ErrorRetryDeclined
    \/ ErrorBeforeRetry
    \/ Retry("errorBackoff")
    \/ ErrorCallbackThrows
    \/ BeforeError

(* The call takes its next step, unless it waits for a clone. *)
CallStep == ~cloneAwaited /\ (TryStep \/ DecideStep \/ CatchStep)

Next == CallStep \/ CloneFinishes \/ Abort

Spec == Init /\ [][Next]_vars

(***************************************************************************)
(* Fairness: every promise the call awaits settles, which makes the call   *)
(* take its next step.  That holds when hooks, jar and callbacks return    *)
(* and the request has a timeout or a live peer.  It is not assumed of the *)
(* cancel of a body that a hook has cloned.                                *)
(***************************************************************************)
FairSpec == Spec /\ WF_vars(CallStep)

-----------------------------------------------------------------------------
(* Properties. *)

(* The loop is bounded across retries and redirects together: each native  *)
(* request is paid for by an attempt or by a followed redirect.            *)
DispatchBudget ==
    /\ attempt <= options.limit + 1
    /\ chain <= options.maxRedirects
    /\ sends <= attempt + chain

(* No URL is visited twice: every followed redirect adds a new one.        *)
RedirectsAcyclic == Cardinality(visited) = chain + 1 /\ request.url \in visited

(* What goes out carries no credential made for another origin, wherever   *)
(* redirects, retries and hooks have led the request.                      *)
CredentialsStayOnOrigin ==
    pc = "waiting" =>
        /\ request.authorization \in {NoValue, OriginOf[request.url]}
        /\ request.cookie # NoValue => OriginOf[request.cookie.url] = OriginOf[request.url]

(* With a jar, a Cookie header that goes out was read for this very URL    *)
(* after the last write: a retry sees what the failed response stored.     *)
JarCookieCurrent ==
    pc = "waiting" /\ options.cookieJar /\ request.cookie # NoValue =>
        request.cookie = [url |-> request.url, version |-> jarVersion]

(* Between iterations and at the end, the bodies nobody has cancelled are  *)
(* that of the response the call returns or that its error hands to the    *)
(* caller, and those of responses dropped when a callback threw or a       *)
(* Location was invalid.  Of these there is at most one for each attempt:  *)
(* a redirect leaves none, and neither does any other way to go on.        *)
BodiesReleased ==
    pc \in {"start", "returned", "threw"} =>
        /\ open \subseteq dropped \cup {reply.id, error.response}
        /\ Cardinality(dropped) <= attempt

(* Once the signal is aborted nothing is sent any more, although the abort *)
(* error is itself retried until the limit.                                *)
NoSendAfterAbort == [][aborted => sends' = sends]_vars

(* A one-shot stream feeds at most one native request: neither a retry nor *)
(* a redirect sends what is left of it.                                    *)
StreamSentOnce ==
    [][streamUsed /\ request.body = "stream" => sends' = sends]_vars

(* The call settles, whatever the server, the hooks and the signal do,     *)
(* unless it cancels a response of which a hook keeps a clone for ever,    *)
(* neither read nor cancelled.                                             *)
FetchSettles ==
    []<>~cloneAwaited => <>(pc \in {"returned", "threw"})

(* BeforeErrorHook's promise in src/types/hooks.ts: the beforeError hooks  *)
(* run before the final error is thrown to the caller.                     *)
ErrorsSeeHooks == pc = "threw" => sawErrorHooks
=============================================================================
