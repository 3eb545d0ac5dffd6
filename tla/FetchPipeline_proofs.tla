------------------------- MODULE FetchPipeline_proofs -------------------------
(***************************************************************************)
(* Proofs about FetchPipeline for any URLs, origins and options.  Most of  *)
(* what the runs check of the loop holds at one await only because of what *)
(* holds at the awaits before it: IInv says so for every await.            *)
(***************************************************************************)
EXTENDS FetchPipeline, FiniteSetTheorems, TLAPS

(* Where the call prepares a request, has one under way, or holds what     *)
(* answered it; and where it is in the catch block.                        *)
Preparing == {"start", "cookies", "beforeRequest", "build", "dispatch"}
Holding   == {"afterResponse", "stats", "persist", "decide", "beforeRedirect", "shouldRetry",
              "beforeRetry", "validate", "returned"}
Catching  == {"errorStats", "errorShouldRetry", "errorBeforeRetry", "beforeError"}
Trying    == Preparing \cup Holding \cup {"waiting", "backoff"}
Retrying  == {"beforeRetry", "backoff", "errorBeforeRetry", "errorBackoff"}

(* A retry under way leaves room for one more attempt, a redirect for one  *)
(* more hop, and a request being prepared has not been paid out yet.       *)
Budget ==
    /\ DispatchBudget
    /\ pc \in Preparing => sends < attempt + chain
    /\ pc \in Retrying => attempt < options.limit + 1
    /\ pc = "beforeRedirect" => chain < options.maxRedirects

(* A redirect about to be followed leads to a URL not seen before. *)
Acyclic ==
    /\ IsFiniteSet(visited)
    /\ RedirectsAcyclic
    /\ pc = "beforeRedirect" => reply.location \in Urls \ visited

(* The request never holds a credential of another origin, sent or not. *)
OwnCredentials ==
    /\ request.authorization \in {NoValue, OriginOf[request.url]}
    /\ request.cookie # NoValue => OriginOf[request.cookie.url] = OriginOf[request.url]

(* With a jar, the Cookie header is absent when the jar is asked and is    *)
(* the jar's answer from then until the answer to the request comes.       *)
JarCookies ==
    options.cookieJar =>
        /\ pc = "cookies" => request.cookie = NoValue
        /\ pc \in {"beforeRequest", "build", "dispatch", "waiting"} /\ request.cookie # NoValue =>
              request.cookie = [url |-> request.url, version |-> jarVersion]

(* A stream that has been handed out does not reach the dispatch. *)
StreamFresh == pc = "dispatch" => ~(request.body = "stream" /\ streamUsed)

(* At every await the only body that is open and was not dropped is that   *)
(* of the response the try block holds or the error in the catch block     *)
(* names.                                                                  *)
Bodies ==
    /\ nextId > 0
    /\ 0 \notin open
    /\ pc \in Preparing \cup {"waiting"} =>
          open \subseteq dropped /\ reply = NoReply /\ error = NoError
    /\ pc \in Holding => open \subseteq dropped \cup {reply.id} /\ error = NoError
    /\ pc \in {"backoff", "errorBackoff"} => open \subseteq dropped
    /\ pc \in Catching \cup {"threw"} => open \subseteq dropped \cup {error.response}

(* An attempt drops at most one response: none before it leaves the try    *)
(* block, and none in the catch block unless the error names one.          *)
DropsPaid ==
    /\ IsFiniteSet(dropped)
    /\ Cardinality(dropped) <= attempt
    /\ \/ pc \in Trying
       \/ pc \in Catching \cup {"errorBackoff"} /\ error.response # 0
       => Cardinality(dropped) < attempt

IInv ==
    /\ TypeOK
    /\ Budget
    /\ Acyclic
    /\ OwnCredentials
    /\ JarCookies
    /\ StreamFresh
    /\ Bodies
    /\ DropsPaid

-----------------------------------------------------------------------------
(* No response and no error are values of their variables too. *)
LEMMA NothingTyped == NoReply \in Replies /\ NoError \in Errors
BY DEF Replies, Errors, NoReply, NoError

LEMMA AwaitCloneTyped == ASSUME NEW id, AwaitClone(id) PROVE cloneAwaited' \in BOOLEAN
BY DEF AwaitClone

(* The invariant holds when fetch() is called. *)
LEMMA InitInv == Init => IInv
<1> USE FetchAssumption
<1> SUFFICES ASSUME Init PROVE IInv
  OBVIOUS
<1>1. PICK s \in Starts :
         request = [url |-> s.url, method |-> s.method, body |-> s.body,
                    authorization |-> OriginOf[s.url],
                    cookie |-> IF s.hasCookie THEN [url |-> s.url, version |-> 0] ELSE NoValue]
  BY DEF Init
<1>2. request \in Requests
  <2>1. [url |-> s.url, version |-> 0] \in Cookies
    BY DEF Cookies
  <2>2. PICK c \in Cookies \cup {NoValue} :
           c = IF s.hasCookie THEN [url |-> s.url, version |-> 0] ELSE NoValue
    BY <2>1
  <2> QED
    BY <1>1, <2>2 DEF Requests, Methods
<1>3. TypeOK
  BY <1>2 DEF Init, TypeOK, Labels, Requests, Replies, Errors, NoReply, NoError
<1>4. Budget
  BY DEF Init, Budget, DispatchBudget, Preparing, Retrying
<1>5. Acyclic
  <2>1. IsFiniteSet(visited) /\ Cardinality(visited) = 1
    BY FS_Singleton DEF Init
  <2> QED
    BY <2>1 DEF Init, Acyclic, RedirectsAcyclic
<1>6. OwnCredentials
  BY <1>1 DEF OwnCredentials
<1>7. JarCookies /\ StreamFresh /\ Bodies
  BY DEF Init, JarCookies, StreamFresh, Bodies, Holding, Catching, Preparing
<1>8. DropsPaid
  BY FS_EmptySet DEF Init, DropsPaid
<1> QED
  BY <1>3, <1>4, <1>5, <1>6, <1>7, <1>8 DEF IInv

(* The steps that end in the catch block.                                  *)
Throws ==
    \/ ThrowAborted \/ CookiesThrow \/ BeforeRequestThrows \/ BuildThrows \/ Fail
    \/ AfterResponseThrows \/ StatsThrows \/ PersistThrows
    \/ RedirectRefused \/ LocationInvalid \/ RedirectNotReplayable \/ BeforeRedirectThrows
    \/ ShouldRetryThrows \/ BeforeRetryThrows \/ BackoffThrows
    \/ StatusRefused \/ ValidateThrows

(* Whatever threw, the error names the current response or none.  The body *)
(* of that response is left to the error, cancelled or dropped: dropped    *)
(* only when the error names none.                                         *)
Forgets ==
    /\ pc' = "errorStats"
    /\ error' \in Errors
    /\ open' \subseteq open
    /\ \/ error'.response = reply.id /\ dropped' = dropped
       \/ error'.response = 0 /\ dropped' = dropped /\ open' = open \ {reply.id}
       \/ error'.response = 0 /\ dropped' = dropped \cup ({reply.id} \ {0})
    /\ cloneAwaited' \in BOOLEAN
    /\ reply' = NoReply

(* Throw, with an error that names no response or the current one, does that. *)
LEMMA ThrowForgets ==
    ASSUME TypeOK, NEW retryable \in BOOLEAN, NEW id \in {0, reply.id}, Throw(retryable, id)
    PROVE  Forgets
BY DEF TypeOK, Replies, Errors, Throw, Forgets

(* Whatever threw, the request is what it was. *)
LEMMA ThrowShape ==
    ASSUME TypeOK, Throws
    PROVE  /\ pc \in Trying
           /\ Forgets
           /\ UNCHANGED <<options, hopVars, attempt, aborted, streamUsed, jarVersion, sends,
                          nextId, sawErrorHooks>>
<1> USE DEF Trying, Preparing, Holding
<1>1. CASE ThrowAborted \/ BuildThrows
  BY <1>1, ThrowForgets DEF ThrowAborted, BuildThrows
<1>2. CASE LocationInvalid
  BY <1>2, ThrowForgets DEF LocationInvalid, Follows
<1>3. CASE RedirectRefused
  BY <1>3, ThrowForgets DEF RedirectRefused
<1>4. CASE StatusRefused
  BY <1>4, ThrowForgets DEF StatusRefused
<1>5. CASE AfterResponseThrows
  <2>1. cloneAwaited' \in BOOLEAN
    BY <1>5, AwaitCloneTyped DEF AfterResponseThrows, CancelBody
  <2>2. error' \in Errors /\ error'.response = 0
    BY <1>5 DEF AfterResponseThrows, Errors
  <2> QED
    BY <1>5, <2>1, <2>2 DEF AfterResponseThrows, Forgets, CancelBody
<1>6. CASE RedirectNotReplayable
  BY <1>6 DEF RedirectNotReplayable, Follows, Forgets, CancelBody, AwaitClone, Errors, NoError
<1>7. ASSUME CallbackThrows
      PROVE  /\ Forgets
             /\ UNCHANGED <<options, hopVars, attempt, aborted, streamUsed, jarVersion, sends,
                            nextId, sawErrorHooks>>
  BY <1>7, ThrowForgets DEF CallbackThrows
<1>8. CASE CookiesThrow \/ BeforeRequestThrows \/ Fail \/ StatsThrows \/ PersistThrows
  BY <1>7, <1>8 DEF CookiesThrow, BeforeRequestThrows, Fail, StatsThrows, PersistThrows
<1>9. CASE BeforeRedirectThrows \/ ShouldRetryThrows \/ BeforeRetryThrows \/ BackoffThrows
           \/ ValidateThrows
  BY <1>7, <1>9 DEF BeforeRedirectThrows, ShouldRetryThrows, BeforeRetryThrows, BackoffThrows,
                    ValidateThrows
<1> QED
  BY <1>1, <1>2, <1>3, <1>4, <1>5, <1>6, <1>8, <1>9 DEF Throws

(* A step into the catch block keeps the invariant. *)
LEMMA ThrowStep ==
    ASSUME IInv, Throws
    PROVE  IInv'
<1> USE DEF IInv, Forgets, hopVars
<1>1. TypeOK'
  <2>1. /\ pc' \in Labels
        /\ reply' \in Replies
        /\ error' \in Errors
        /\ open' \subseteq Nat /\ dropped' \subseteq Nat
        /\ cloneAwaited' \in BOOLEAN
    <3>1. pc' \in Labels /\ error' \in Errors
      BY ThrowShape DEF Labels
    <3>2. reply' \in Replies
      BY ThrowShape, NothingTyped
    <3>3. open' \subseteq Nat /\ dropped' \subseteq Nat /\ cloneAwaited' \in BOOLEAN
      BY ThrowShape DEF TypeOK, Replies
    <3> QED
      BY <3>1, <3>2, <3>3
  <2> QED
    BY <2>1, ThrowShape DEF TypeOK
<1>2. Budget'
  BY ThrowShape DEF Budget, DispatchBudget, Preparing, Retrying
<1>3. Acyclic'
  BY ThrowShape DEF Acyclic, RedirectsAcyclic
<1>4. OwnCredentials' /\ JarCookies' /\ StreamFresh'
  BY ThrowShape DEF OwnCredentials, JarCookies, StreamFresh
<1>5. Bodies'
  <2>1. pc \in Trying => open \subseteq dropped \cup {reply.id}
    BY DEF Bodies, Trying
  <2> QED
    BY <2>1, ThrowShape DEF Bodies, Preparing, Holding, Catching
<1>6. DropsPaid'
  <2>1. IsFiniteSet(dropped) /\ Cardinality(dropped) < attempt /\ Cardinality(dropped) \in Nat
    BY ThrowShape, FS_CardinalityType DEF DropsPaid
  <2>2. /\ pc' = "errorStats" /\ attempt' = attempt
        /\ \/ dropped' = dropped
           \/ error'.response = 0 /\ dropped' = dropped \cup {reply.id}
    BY ThrowShape
  <2>3. CASE dropped' = dropped
    BY <2>1, <2>2, <2>3 DEF DropsPaid, TypeOK, Trying, Preparing, Holding
  <2>4. CASE error'.response = 0 /\ dropped' = dropped \cup {reply.id}
    <3>1. /\ IsFiniteSet(dropped')
          /\ Cardinality(dropped') = Cardinality(dropped)
                \/ Cardinality(dropped') = Cardinality(dropped) + 1
      BY <2>1, <2>4, FS_AddElement
    <3> QED
      BY <2>1, <2>2, <2>4, <3>1 DEF DropsPaid, TypeOK, Trying, Preparing, Holding
  <2> QED
    BY <2>2, <2>3, <2>4
<1> QED
  BY <1>1, <1>2, <1>3, <1>4, <1>5, <1>6

(* The steps that only move the call on to its next await. *)
Moves ==
    \/ Build \/ AfterResponse \/ Stats \/ Return \/ Redirect \/ NotARedirect
    \/ RetryAccepted \/ RetryDeclined
    \/ ErrorStats \/ ErrorRetryAccepted \/ ErrorRetryDeclined \/ BeforeError

(* Each of them starts from one await, under the condition its code tests. *)
LEMMA MoveShape ==
    ASSUME TypeOK, Moves
    PROVE  /\ \/ pc = "build" /\ pc' = "dispatch" /\ ~(request.body = "stream" /\ streamUsed)
              \/ pc = "decide" /\ pc' = "beforeRedirect" /\ reply.location \in Urls \ visited
                               /\ chain < options.maxRedirects
              \/ pc = "shouldRetry" /\ pc' = "beforeRetry" /\ attempt < options.limit + 1
              \/ pc \in {"afterResponse", "stats", "decide", "shouldRetry", "validate"}
                    /\ pc' \in {"stats", "persist", "shouldRetry", "validate", "returned"}
              \/ pc = "errorShouldRetry" /\ pc' = "errorBeforeRetry"
                                         /\ attempt < options.limit + 1
              \/ pc \in {"errorStats", "errorShouldRetry", "beforeError"}
                    /\ pc' \in {"errorShouldRetry", "beforeError", "threw"}
           /\ sawErrorHooks' \in BOOLEAN
           /\ UNCHANGED <<options, hopVars, attempt, reply, error, aborted, streamUsed,
                          jarVersion, sends, bodyVars>>
<1>0. /\ options.limit \in Nat /\ options.maxRedirects \in Nat
      /\ attempt \in Nat /\ chain \in Nat
  BY FetchAssumption DEF TypeOK
<1> USE DEF Continue, TypeOK
<1>1. CASE Build \/ AfterResponse \/ Stats \/ Return \/ NotARedirect \/ RetryDeclined
  BY <1>1 DEF Build, AfterResponse, Stats, Return, NotARedirect, RetryDeclined
<1>2. CASE Redirect
  BY <1>0, <1>2 DEF Redirect, Follows, TooManyRedirects, hopVars
<1>3. CASE RetryAccepted \/ ErrorRetryAccepted
  BY <1>0, <1>3 DEF RetryAccepted, ErrorRetryAccepted, ErrorMayRetry, MayRetry
<1>4. CASE ErrorStats \/ ErrorRetryDeclined \/ BeforeError
  BY <1>4 DEF ErrorStats, ErrorRetryDeclined, BeforeError
<1> QED
  BY <1>1, <1>2, <1>3, <1>4 DEF Moves

(* So does one from one await of the loop to the next. *)
LEMMA MoveStep ==
    ASSUME IInv, Moves
    PROVE  IInv'
<1> USE MoveShape DEF IInv, hopVars, bodyVars
<1>1. TypeOK'
  BY DEF TypeOK, Labels
<1>2. Budget'
  BY DEF Budget, DispatchBudget, Preparing, Retrying
<1>3. Acyclic'
  BY DEF Acyclic, RedirectsAcyclic
<1>4. OwnCredentials' /\ JarCookies'
  BY DEF OwnCredentials, JarCookies
<1>5. StreamFresh'
  BY DEF StreamFresh
<1>6. Bodies'
  BY DEF Bodies, Preparing, Holding, Catching
<1>7. DropsPaid'
  BY DEF DropsPaid, Trying, Preparing, Holding, Catching
<1> QED
  BY <1>1, <1>2, <1>3, <1>4, <1>5, <1>6, <1>7

(* The steps that prepare the request: its URL, method and body stay, and  *)
(* what they add to it is meant for that URL.                              *)
LEMMA PrepareStep ==
    ASSUME IInv, Start \/ LoadCookies \/ BeforeRequest
    PROVE  IInv'
<1> USE DEF IInv, bodyVars
<1>1. /\ \/ pc = "start" /\ pc' = "cookies"
         \/ pc = "cookies" /\ pc' = "beforeRequest"
         \/ pc = "beforeRequest" /\ pc' = "build"
      /\ UNCHANGED <<options, chain, visited, attempt, reply, error, aborted, streamUsed,
                     jarVersion, sends, bodyVars, sawErrorHooks>>
  BY DEF Start, LoadCookies, BeforeRequest
<1>2. request \in Requests /\ OriginOf[request.url] \in Origins /\ jarVersion \in Nat
  BY FetchAssumption DEF TypeOK, Requests
<1> HIDE DEF IInv
<1>3. /\ request' \in Requests
      /\ request'.url = request.url
      /\ OwnCredentials => OwnCredentials'
  <2>1. CASE Start
    <3>1. PICK c \in {NoValue, request.cookie} : request' = [request EXCEPT !.cookie = c]
      BY <2>1 DEF Start
    <3> QED
      BY <1>2, <3>1 DEF Requests, OwnCredentials
  <2>2. CASE LoadCookies
    <3>1. CASE UNCHANGED request
      BY <1>2, <3>1 DEF OwnCredentials
    <3>2. CASE request' = [request EXCEPT
                               !.cookie = [url |-> request.url, version |-> jarVersion]]
      <4>1. PICK c \in Cookies : c = [url |-> request.url, version |-> jarVersion]
        BY <1>2 DEF Requests, Cookies
      <4>2. request' = [request EXCEPT !.cookie = c]
        BY <3>2, <4>1
      <4>3. request' \in Requests /\ request'.url = request.url /\ request'.cookie = c
            /\ request'.authorization = request.authorization
        BY <1>2, <4>2 DEF Requests
      <4> QED
        BY <4>1, <4>3 DEF OwnCredentials
    <3> QED
      BY <2>2, <3>1, <3>2 DEF LoadCookies
  <2>3. CASE BeforeRequest
    BY <1>2, <2>3 DEF BeforeRequest, Requests, OwnCredentials
  <2> QED
    BY <2>1, <2>2, <2>3
<1> USE DEF IInv
<1>4. TypeOK'
  BY <1>1, <1>3 DEF TypeOK, Labels
<1>5. Budget' /\ Acyclic'
  BY <1>1, <1>3 DEF Budget, DispatchBudget, Preparing, Retrying, Acyclic, RedirectsAcyclic
<1>6. OwnCredentials'
  BY <1>3
<1>7. JarCookies'
  BY DEF JarCookies, TypeOK, Requests, Start, LoadCookies, BeforeRequest
<1>8. StreamFresh' /\ Bodies' /\ DropsPaid'
  BY <1>1 DEF StreamFresh, Bodies, DropsPaid, Trying, Preparing, Holding, Catching
<1> QED
  BY <1>4, <1>5, <1>6, <1>7, <1>8

(* The dispatch pays for the request it has been preparing. *)
LEMMA DispatchStep ==
    ASSUME IInv, Dispatch
    PROVE  IInv'
<1> USE DEF IInv, Dispatch, hopVars, bodyVars
<1>1. TypeOK'
  <2>1. streamUsed' \in BOOLEAN
    BY DEF TypeOK
  <2> QED
    BY <2>1 DEF TypeOK, Labels
<1>2. Budget'
  BY DEF Budget, DispatchBudget, TypeOK, Preparing, Retrying
<1>3. Acyclic' /\ OwnCredentials' /\ JarCookies' /\ StreamFresh'
  BY DEF Acyclic, RedirectsAcyclic, OwnCredentials, JarCookies, StreamFresh
<1>4. Bodies' /\ DropsPaid'
  BY DEF Bodies, DropsPaid, Trying, Preparing, Holding, Catching
<1> QED
  BY <1>1, <1>2, <1>3, <1>4

(* A response arrives from the server or from a hook, in place of none or  *)
(* of the one the hook has cancelled.                                      *)
LEMMA ReceiveStep ==
    ASSUME IInv, ShortCircuit \/ Answer \/ AfterResponseReplaces
    PROVE  IInv'
<1> USE DEF IInv, hopVars
<1>1. /\ pc \in {"beforeRequest", "waiting", "afterResponse"}
      /\ pc' \in {"afterResponse", "stats"}
      /\ reply' \in Replies
      /\ nextId' = nextId + 1
      /\ reply'.id = nextId
      /\ open' \in {open \cup {nextId}, (open \ {reply.id}) \cup {nextId}}
      /\ pc = "afterResponse" => open' = (open \ {reply.id}) \cup {nextId}
      /\ cloneAwaited' \in BOOLEAN
      /\ UNCHANGED <<options, hopVars, attempt, error, aborted, streamUsed, jarVersion, sends,
                     dropped, sawErrorHooks>>
  <2>1. CASE ShortCircuit \/ Answer
    BY <2>1 DEF ShortCircuit, Answer, AnyReply, Receive, Replies, TypeOK
  <2>2. CASE AfterResponseReplaces
    BY <2>2, AwaitCloneTyped DEF AfterResponseReplaces, Replies, TypeOK
  <2> QED
    BY <2>1, <2>2
<1>2. TypeOK'
  BY <1>1 DEF TypeOK, Labels
<1>3. Budget' /\ Acyclic'
  BY <1>1 DEF Budget, DispatchBudget, Preparing, Retrying, Acyclic, RedirectsAcyclic
<1>4. OwnCredentials' /\ JarCookies' /\ StreamFresh'
  BY <1>1 DEF OwnCredentials, JarCookies, StreamFresh
<1>5. Bodies'
  <2>1. /\ open' \subseteq dropped \cup {nextId} /\ 0 \notin open'
        /\ error = NoError /\ nextId # 0 /\ nextId \in Nat
    BY <1>1 DEF Bodies, TypeOK, Preparing, Holding
  <2> QED
    BY <1>1, <2>1 DEF Bodies, Preparing, Holding, Catching
<1>6. DropsPaid'
  BY <1>1 DEF DropsPaid, Trying, Preparing, Holding, Catching
<1> QED
  BY <1>2, <1>3, <1>4, <1>5, <1>6

(* The steps that let go of a body, and those that touch neither the       *)
(* request nor any body.                                                   *)
LEMMA ReleaseStep ==
    ASSUME IInv,
           \/ AfterResponseLocks \/ BeforeRetry \/ ErrorBeforeRetry
           \/ Persist \/ CloneFinishes \/ Abort
    PROVE  IInv'
<1> USE DEF IInv, hopVars, bodyVars
<1>1. /\ \/ pc = "afterResponse" /\ pc' = pc
         \/ pc = "beforeRetry" /\ pc' = "backoff" /\ open' = open \ {reply.id}
         \/ pc = "errorBeforeRetry" /\ pc' = "errorBackoff" /\ open' = open \ {error.response}
         \/ pc = "persist" /\ pc' = "decide"
         \/ pc' = pc /\ open' = open
      /\ open' \subseteq open
      /\ jarVersion' \in Nat
      /\ pc \notin {"persist"} => jarVersion' = jarVersion
      /\ aborted' \in BOOLEAN /\ cloneAwaited' \in BOOLEAN
      /\ UNCHANGED <<options, hopVars, attempt, reply, error, streamUsed, sends, nextId,
                     dropped, sawErrorHooks>>
  <2>1. CASE AfterResponseLocks
    BY <2>1 DEF AfterResponseLocks, TypeOK
  <2>2. CASE BeforeRetry \/ ErrorBeforeRetry
    BY <2>2 DEF BeforeRetry, ErrorBeforeRetry, CancelBody, AwaitClone, TypeOK
  <2>3. CASE CloneFinishes
    BY <2>3 DEF CloneFinishes, TypeOK
  <2>4. CASE Persist
    BY <2>4 DEF Persist, TypeOK
  <2>5. CASE Abort
    BY <2>5 DEF Abort, TypeOK
  <2> QED
    BY <2>1, <2>2, <2>3, <2>4, <2>5
<1>2. TypeOK'
  BY <1>1 DEF TypeOK, Labels
<1>3. Budget' /\ Acyclic'
  BY <1>1 DEF Budget, DispatchBudget, Preparing, Retrying, Acyclic, RedirectsAcyclic
<1>4. OwnCredentials' /\ JarCookies' /\ StreamFresh'
  BY <1>1 DEF OwnCredentials, JarCookies, StreamFresh
<1>5. Bodies' /\ DropsPaid'
  BY <1>1 DEF Bodies, DropsPaid, Trying, Preparing, Holding, Catching
<1> QED
  BY <1>2, <1>3, <1>4, <1>5

(* A callback that throws in the catch block drops the error's response.   *)
LEMMA EscapeStep ==
    ASSUME IInv, ErrorCallbackThrows
    PROVE  IInv'
<1> USE DEF IInv, hopVars
<1>1. /\ pc \in Catching \cup {"errorBackoff"}
      /\ pc' = "threw"
      /\ error' = NoError
      /\ dropped' = dropped \cup ({error.response} \ {0})
      /\ UNCHANGED <<options, hopVars, attempt, reply, aborted, streamUsed, jarVersion, sends,
                     nextId, open, cloneAwaited, sawErrorHooks>>
  BY DEF ErrorCallbackThrows, CallbackEscapes, Catching
<1>2. TypeOK'
  <2>1. error' \in Errors /\ dropped' \subseteq Nat
    BY <1>1, NothingTyped DEF TypeOK, Errors
  <2> QED
    BY <1>1, <2>1 DEF TypeOK, Labels
<1>3. Budget' /\ Acyclic'
  BY <1>1 DEF Budget, DispatchBudget, Preparing, Retrying, Acyclic, RedirectsAcyclic
<1>4. OwnCredentials' /\ JarCookies' /\ StreamFresh'
  BY <1>1 DEF OwnCredentials, JarCookies, StreamFresh
<1>5. Bodies'
  BY <1>1 DEF Bodies, Preparing, Holding, Catching
<1>6. DropsPaid'
  <2>1. CASE error.response = 0
    BY <1>1, <2>1 DEF DropsPaid, Trying, Preparing, Holding, Catching
  <2>2. CASE error.response # 0
    <3>1. IsFiniteSet(dropped) /\ Cardinality(dropped) < attempt /\ Cardinality(dropped) \in Nat
      BY <1>1, <2>2, FS_CardinalityType DEF DropsPaid
    <3>2. dropped' = dropped \cup {error.response}
      BY <1>1, <2>2
    <3>3. /\ IsFiniteSet(dropped')
          /\ Cardinality(dropped') = Cardinality(dropped)
                \/ Cardinality(dropped') = Cardinality(dropped) + 1
      BY <3>1, <3>2, FS_AddElement
    <3> QED
      BY <1>1, <3>1, <3>3 DEF DropsPaid, TypeOK, Trying, Preparing, Holding, Catching
  <2> QED
    BY <2>1, <2>2
<1> QED
  BY <1>2, <1>3, <1>4, <1>5, <1>6

(* The redirected request goes to the location, and takes along only what  *)
(* belongs to its origin.                                                  *)
LEMMA RedirectedRequest ==
    ASSUME NEW r \in {Redirected, [Redirected EXCEPT !.authorization = OriginOf[reply.location]]},
           request \in Requests, reply.location \in Urls, OwnCredentials
    PROVE  /\ r \in Requests
           /\ r.url = reply.location
           /\ r.authorization \in {NoValue, OriginOf[r.url]}
           /\ r.cookie # NoValue => OriginOf[r.cookie.url] = OriginOf[r.url]
<1> DEFINE cross == OriginOf[request.url] # OriginOf[reply.location]
           method == IF BodyDropped /\ request.method # "HEAD" THEN "GET" ELSE request.method
           body == IF BodyDropped THEN "none" ELSE request.body
           authorization == IF cross THEN NoValue ELSE request.authorization
           cookie == IF cross \/ options.cookieJar THEN NoValue ELSE request.cookie
<1>1. /\ method \in Methods
      /\ body \in {"none", "bytes", "stream"}
      /\ body # "none" => method = "POST"
      /\ cookie \in Cookies \cup {NoValue}
      /\ OriginOf[reply.location] \in Origins
  BY FetchAssumption DEF Requests, Methods
<1>2. /\ authorization \in {NoValue, OriginOf[reply.location]}
      /\ cookie # NoValue => OriginOf[cookie.url] = OriginOf[reply.location]
  BY DEF OwnCredentials
<1>3. PICK a \in {NoValue, OriginOf[reply.location]} :
         r = [url |-> reply.location, method |-> method, body |-> body, authorization |-> a,
              cookie |-> cookie]
  BY <1>2 DEF Redirected
<1> QED
  BY <1>1, <1>2, <1>3 DEF Requests

(* A redirect that is followed starts the next hop with its own URL and no body. *)
LEMMA FollowStep ==
    ASSUME IInv, FollowRedirect
    PROVE  IInv'
<1> USE DEF IInv, FollowRedirect
<1>1. /\ reply.location \in Urls \ visited
      /\ chain < options.maxRedirects
      /\ chain \in Nat /\ options.maxRedirects \in Nat
      /\ open \subseteq dropped \cup {reply.id}
      /\ error = NoError
  BY FetchAssumption DEF Acyclic, Budget, Bodies, Holding, TypeOK
<1>2. /\ request' \in Requests
      /\ request'.url = reply.location
      /\ OwnCredentials'
  BY <1>1, RedirectedRequest DEF TypeOK, OwnCredentials
<1>3. TypeOK'
  <2>1. cloneAwaited' \in BOOLEAN
    BY AwaitCloneTyped DEF CancelBody
  <2>2. /\ pc' \in Labels /\ reply' \in Replies /\ chain' \in Nat
        /\ visited' \subseteq Urls /\ open' \subseteq Nat
    BY <1>1, NothingTyped DEF TypeOK, Labels, CancelBody
  <2>3. UNCHANGED <<options, attempt, error, aborted, streamUsed, jarVersion, sends, nextId,
                    dropped, sawErrorHooks>>
    BY DEF CancelBody
  <2> QED
    BY <1>2, <2>1, <2>2, <2>3 DEF TypeOK
<1>4. Budget'
  BY <1>1 DEF Budget, DispatchBudget, TypeOK, Preparing, Retrying
<1>5. Acyclic'
  <2>1. IsFiniteSet(visited') /\ Cardinality(visited') = Cardinality(visited) + 1
    BY <1>1, FS_AddElement DEF Acyclic
  <2> QED
    BY <1>2, <2>1 DEF Acyclic, RedirectsAcyclic
<1>6. JarCookies' /\ StreamFresh'
  BY DEF JarCookies, StreamFresh
<1>7. Bodies' /\ DropsPaid'
  BY <1>1 DEF Bodies, DropsPaid, CancelBody, Trying, Preparing, Holding, Catching
<1> QED
  BY <1>2, <1>3, <1>4, <1>5, <1>6, <1>7

(* A retry starts the next attempt of the same request. *)
LEMMA RetryStep ==
    ASSUME IInv, Retry("backoff") \/ Retry("errorBackoff")
    PROVE  IInv'
<1> USE DEF IInv, Retry, hopVars, bodyVars
<1>1. TypeOK'
  <2>1. pc' \in Labels /\ attempt' \in Nat /\ reply' \in Replies /\ error' \in Errors
    BY NothingTyped DEF TypeOK, Labels
  <2>2. UNCHANGED <<options, request, chain, visited, aborted, streamUsed, jarVersion, sends,
                    bodyVars, sawErrorHooks>>
    OBVIOUS
  <2> QED
    BY <2>1, <2>2 DEF TypeOK
<1>2. Budget'
  BY FetchAssumption DEF Budget, DispatchBudget, TypeOK, Preparing, Retrying
<1>3. Acyclic' /\ OwnCredentials' /\ JarCookies' /\ StreamFresh'
  BY DEF Acyclic, RedirectsAcyclic, OwnCredentials, JarCookies, StreamFresh
<1>4. Bodies'
  BY DEF Bodies, Preparing, Holding, Catching
<1>5. DropsPaid'
  BY FS_CardinalityType DEF DropsPaid, TypeOK, Trying, Preparing, Holding, Catching
<1> QED
  BY <1>1, <1>2, <1>3, <1>4, <1>5

(* IInv is inductive. *)
LEMMA InvStep == IInv /\ [Next]_vars => IInv'
<1> SUFFICES ASSUME IInv, [Next]_vars PROVE IInv'
  OBVIOUS
<1>1. CASE UNCHANGED vars
  BY <1>1 DEF vars, hopVars, bodyVars, IInv, TypeOK, Budget, DispatchBudget, Acyclic,
     RedirectsAcyclic, OwnCredentials, JarCookies, StreamFresh, Bodies, DropsPaid
<1>2. CASE Next
  <2>1. \/ Throws \/ Moves
        \/ Start \/ LoadCookies \/ BeforeRequest
        \/ Dispatch
        \/ ShortCircuit \/ Answer \/ AfterResponseReplaces
        \/ AfterResponseLocks \/ BeforeRetry \/ ErrorBeforeRetry
        \/ Persist \/ CloneFinishes \/ Abort
        \/ ErrorCallbackThrows
        \/ FollowRedirect
        \/ Retry("backoff") \/ Retry("errorBackoff")
    BY <1>2 DEF Next, CallStep, TryStep, DecideStep, CatchStep, Throws, Moves
  <2> QED
    BY <2>1, ThrowStep, MoveStep, PrepareStep, DispatchStep, ReceiveStep, ReleaseStep, EscapeStep,
       FollowStep, RetryStep
<1> QED
  BY <1>1, <1>2

-----------------------------------------------------------------------------

(* The strengthened invariant holds at every await of every call. *)
THEOREM Invariance == Spec => []IInv
BY InitInv, InvStep, PTL DEF Spec

(* Types. *)
THEOREM TypeCorrect == Spec => []TypeOK
<1>1. IInv => TypeOK
  BY DEF IInv
<1> QED
  BY Invariance, <1>1, PTL

(* The loop sends at most one native request for each attempt and each     *)
(* redirect, and never more attempts or redirects than the options allow.  *)
THEOREM BudgetKept == Spec => []DispatchBudget
<1>1. IInv => DispatchBudget
  BY DEF IInv, Budget
<1> QED
  BY Invariance, <1>1, PTL

(* The redirects of a call visit no URL twice. *)
THEOREM NoRedirectLoop == Spec => []RedirectsAcyclic
<1>1. IInv => RedirectsAcyclic
  BY DEF IInv, Acyclic
<1> QED
  BY Invariance, <1>1, PTL

(* No credential made for one origin is sent to another. *)
THEOREM CredentialsStay == Spec => []CredentialsStayOnOrigin
<1>1. IInv => CredentialsStayOnOrigin
  BY DEF IInv, OwnCredentials, CredentialsStayOnOrigin
<1> QED
  BY Invariance, <1>1, PTL

(* The Cookie header that goes out is the jar's latest for that URL. *)
THEOREM JarCookieSent == Spec => []JarCookieCurrent
<1>1. IInv => JarCookieCurrent
  BY DEF IInv, JarCookies, JarCookieCurrent
<1> QED
  BY Invariance, <1>1, PTL

(* A body that nobody has cancelled is the one the call hands to its       *)
(* caller, with the response or with the error, or belongs to a response   *)
(* dropped when a callback threw or a Location was invalid; there are no   *)
(* more of these than attempts.                                            *)
THEOREM NoBodyForgotten == Spec => []BodiesReleased
<1>1. IInv => BodiesReleased
  BY DEF IInv, Bodies, DropsPaid, BodiesReleased, Preparing, Holding, Catching
<1> QED
  BY Invariance, <1>1, PTL

(* Nothing is sent once the signal is aborted: of all steps only Dispatch  *)
(* sends.                                                                  *)
LEMMA OnlyDispatchSends ==
    ASSUME TypeOK, [Next]_vars
    PROVE  Dispatch \/ UNCHANGED sends
<1>1. Throws => UNCHANGED sends
  BY ThrowShape
<1>2. Moves => UNCHANGED sends
  BY MoveShape
<1>3. Start \/ LoadCookies \/ BeforeRequest \/ FollowRedirect \/ Retry("backoff")
         \/ Retry("errorBackoff") => UNCHANGED sends
  BY DEF Start, LoadCookies, BeforeRequest, FollowRedirect, Retry
<1>4. ShortCircuit \/ Answer \/ AfterResponseReplaces => UNCHANGED sends
  BY DEF ShortCircuit, Answer, AfterResponseReplaces
<1>5. AfterResponseLocks \/ BeforeRetry \/ ErrorBeforeRetry \/ ErrorCallbackThrows \/ Persist
         \/ CloneFinishes \/ Abort => UNCHANGED sends
  BY DEF AfterResponseLocks, BeforeRetry, ErrorBeforeRetry, ErrorCallbackThrows,
         CallbackEscapes, Persist, CloneFinishes, Abort
<1>6. UNCHANGED vars => UNCHANGED sends
  BY DEF vars
<1> QED
  BY <1>1, <1>2, <1>3, <1>4, <1>5, <1>6
  DEF Next, CallStep, TryStep, DecideStep, CatchStep, Throws, Moves

(* An aborted call sends nothing any more, retries of the abort included. *)
THEOREM AbortedSendsNothing == Spec => NoSendAfterAbort
<1>1. TypeOK /\ [Next]_vars => [aborted => sends' = sends]_vars
  BY OnlyDispatchSends DEF Dispatch
<1> QED
  BY TypeCorrect, <1>1, PTL DEF Spec, NoSendAfterAbort

(* A one-shot stream feeds one native request, whichever retries and       *)
(* redirects follow.                                                       *)
THEOREM StreamFeedsOneRequest == Spec => StreamSentOnce
<1>1. IInv /\ [Next]_vars => [streamUsed /\ request.body = "stream" => sends' = sends]_vars
  BY OnlyDispatchSends DEF Dispatch, IInv, StreamFresh
<1> QED
  BY Invariance, <1>1, PTL DEF Spec, StreamSentOnce
=============================================================================
