# A TLA+ development of node-wreq

node-wreq is an HTTP and WebSocket client for Node.js. TypeScript code on the JS
thread keeps the fetch semantics (hooks, cookies, redirects, retries, bodies, the
WebSocket class); a Rust addon drives the `wreq` library on a tokio runtime. The two
sides share no objects: they exchange numeric handles that index global stores in the
addon, and promises that the addon settles from its own threads. This directory models
the parts of that design that are hard to test, model-checks them with TLC on small
instances, and proves their safety properties with TLAPS for every instance.

Paths below are relative to the repository.

## 1. Inventory

| Component | State | Operations | Interacts through |
|---|---|---|---|
| **Fetch loop** `src/http/fetch.ts`, `src/hooks`, `src/http/pipeline` | the current request and response, `attempt`, `redirectChain`, visited targets | one iteration per attempt or redirect; a catch block that retries or throws | awaits hooks, the cookie jar, the native dispatch; reads the caller's signal |
| **Native dispatch** `src/native/request.ts`, `rust/src/napi/request.rs` | `settled`, the abort listener, the spawned task | start, abort, answer, failure | `REQUEST_STORE` handle, a oneshot cancel channel, a promise settled on the event loop |
| **Response bodies** `src/http/response.ts`, `rust/src/store/body_store.rs` | stream and payload state of a `Response`; `BODY_STORE` | read, read all, cancel, clone, finalizer, `forbidConnectionReuse` | body handles |
| **Request bodies and uploads** `src/http/request.ts`, `src/http/body`, `rust/src/store/upload_store.rs` | one-shot and replayable bodies; `UPLOAD_STORE`, a channel of two chunks | prepare, start (pump), cancel, write, fail, finish | upload handles, the signal |
| **WebSocket** `src/websocket`, `rust/src/napi/websocket.rs`, `rust/src/store/websocket*_store.rs`, `rust/src/transport/websocket.rs` | `#readyState`, `#handle`, `#sendQueue`, `#settled`, ...; two stores; the connection task with a command and an event channel | connect, send, close, read pump, terminate | one OS thread per native call, two handles |
| **Reusable clients** `src/client`, `rust/src/transport/client.rs`, `rust/src/store/client_store.rs` | `#closed`, a finalizer; `CLIENTS` | fetch, websocket, extend, close; look up, build, insert | the client's number and a cache key |
| **Headers** `src/headers` | a map from lower-case names and an ordered list of tuples | get, set, append, delete, copy, merge | plain calls |
| **Options** `src/config`, `src/http/pipeline/options.ts` | none | validation, normalisation, defaults | plain calls |
| **Emulation, conversion, DNS, TLS** `rust/src/emulation`, `rust/src/napi/convert.rs`, `rust/src/transport` | none | translation of options to the library's builders | plain calls |
| **Binding loader, profiles, scripts, CI** | none | start-up, build, release | file system |

What makes this system hard is in the joints. The JS thread is atomic between awaits, but
a native task runs in parallel and what it decided is only seen a turn later. An abort can
come between any two of these steps. Handles outlive what they stand for. User callbacks
run at a dozen points of the fetch loop and may throw, abort, lock a body or answer the
request themselves. Sockets and uploads have two ends that fail separately. `PROJECT.json`
lists these hazards one by one, with the line each bites at and the property that covers it.

What makes each component correct:

* *Fetch loop*: it ends; it sends no more than its budgets allow and nothing after an
  abort; credentials and one-shot bodies never go where they must not; the responses it drops
  without cancelling them are few.
* *Native dispatch*: a cancel reaches its own task only; abort is final; stores, listener
  and upload are cleaned up whoever wins; a body in the store has an owner.
* *Response bodies*: whoever reads a body, by whichever method and however late, gets all of it
  in order or an error; nobody waits for ever; an abandoned body gives its connection back.
* *Request bodies and uploads*: a body is used once or replayed whole, never in part; a source
  that fails never looks like one that ends; every pump ends and frees its handles.
* *Headers and redirects*: hooks see the headers that go to the wire; no redirect carries a
  credential or a Referer further than it may.
* *WebSocket*: states only move forward, one close event, `opened` agrees with it; order on
  the wire, where only a message that was reported is missing; every native handle is released; a lost connection closes the socket.
* *Clients*: no sharing across clients, or across options that a client is built from; one pool per client and options;
  a closed client holds nothing.

## 2. Modules

| Module | What it is |
|---|---|
| `NativeRequest` | concurrent calls of `nativeRequest`, their tasks, three stores, the upload pump |
| `NativeRequest_proofs` | its inductive invariant and seven theorems |
| `FetchPipeline` / `MCFetchPipeline` | one call of `fetchWithNativeClient`; the instance for TLC |
| `FetchPipeline_proofs` | its inductive invariant and eight theorems |
| `SocketLifecycle` | what the owner of a WebSocket may rely on |
| `WebSocketClient` | one WebSocket from the class down to the connection task; implements `SocketLifecycle` |
| `WebSocketClient_proofs` | its inductive invariant and five theorems, the refinement among them |
| `ClientStore` / `MCClientStore` | `WreqClient` objects, their calls and `CLIENTS`; the instance for TLC |
| `ClientStore_proofs` | its inductive invariant, what the key of `ClientOptions` covers, and both together |
| `ClientOptions` | from the options of a call to the key and to the configuration of its native client |
| `BodyDelivery` | what the users of a Response and its clones may rely on |
| `ResponseBody` | a `Response`, its clones, their streams and `BODY_STORE`; implements `BodyDelivery` |
| `ResponseBody_proofs` | its inductive invariant and four theorems, the refinement among them |
| `UploadStream` | one upload: pump, channels of `UPLOAD_STORE`, transport |
| `RequestBody` | `Request` objects that hand bodies on, composed with `UploadStream` |
| `RequestBody_proofs` | the inductive invariant of both and three theorems |
| `Headers` | the `Headers` class and `mergeHeaders` |
| `RedirectHeaders` / `MCRedirectHeaders` | the headers of a call along its redirects; the instance for TLC |
| `RedirectHeaders_proofs` | what the operations of `Headers` compute, the inductive invariant and both properties |
| `SequenceFacts` | lemmas that the proofs share: `Append`, `Tail`, lengths, and induction |

An action is the code between two points where others can run: from one await to the next
on the JS thread, one locked store access or channel operation on a native thread. Operators
marked *Defect* are not part of any specification: each changes one action the way a
plausible bug would, and the property listed with it in `PROJECT.json` must then fail.

### NativeRequest

`call`, `aborted`, `listening`, `held` are what the JS thread knows of a call; `task` is the
position of the spawned task in `rust/src/napi/request.rs` (running in `select!`, selected,
removed from the store, callback queued, callback run) and `outcome` what `select!` chose.
`requestStore` is `REQUEST_STORE` with the task each sender cancels, `cancelSent` the oneshot
channels that hold the cancel. `body`/`bodyStore` and `uploadStore` are the other stores.
`pump` is where `StreamingBody.prepareNativeUpload`'s `start` is suspended: in `reader.read`,
in the native write, in its catch block; its channel is one write that is pending or taken, since
`UploadStream` has the channel itself. `select!` is free to take either branch when both
are ready. `DeliverTaken` merges the addon's callback, the promise reaction and the response
object made from it: no other JS code that matters here runs in between.

The bytes of a request or response and timeouts (a kind of failure) are abstracted.
`BuildOrBindingThrows` stands for a failure of `buildNativeRequest` after the upload was created and
for the option conversion failing; in `Dispatch` the task exists from the moment the binding
returns.

### FetchPipeline

`pc` names the await the call is suspended at. A request is its URL, method, kind of body,
the origin its `Authorization` was made for, and where and when its `Cookie` header comes
from (`version` is the jar's version when it was read). `open` holds the responses whose body
nobody has cancelled; one that a hook has locked leaves it, because it is left to that reader.
When a callback throws or a Location is invalid, the catch block gets an error without the
response: its body stays open, left to the finalizer of `Response`, and the history variable
`dropped` remembers it. The same happens to the response of an error that a callback of the catch
block replaces. `cloneAwaited` says that the call awaits the cancel of a body of which a hook has a
clone: every response has been shown to the afterResponse hooks, so any open body may have one, and
the cancel of a tee's branch settles when the other branch is read or cancelled too. Other users of
a shared cookie jar, which may write between the read of a Cookie header and the dispatch, are left
out. `error` is what the retry policy sees of the error in the catch block. The server answers any status and Location, hooks
answer, lock, replace, authorize or throw, the jar changes, and the signal aborts at any await.
`options` is chosen once: limits, method list, redirect mode, jar, status checks.

A hook list is one hook. Hooks that set a credential set one for the request they are shown. The
Referer header is in `RedirectHeaders`; timings, redirect metadata and what happens before the loop
(init hooks, option errors) are left out.

### WebSocketClient and SocketLifecycle

The upper half is the class: `readyState` (with `#settled`, which changes together with
CLOSED), `opened`, the close events and what they report, `#handle`, `#connectHandle`, the
await `#connect` is in (`connect`), the microtask of `close()` while connecting (`closeTask`),
`#sendQueue` as the sequence of entries not settled yet, and `bufferedAmount` counting each
message as one. The lower half is native: `upgrade` and `connectStored`/`cancelSent` for the
connect thread, `command` for the thread that serves the head of the queue, `read` for the
thread of the pump's read, `stored` for the entry in `WEBSOCKET_STORE`, and the connection
task with its event channel. `SocketHeld` says who keeps the entry's channels open: the store
and every thread that has looked it up.

`SocketLifecycle` has three variables and three actions. TLC checks
`INSTANCE SocketLifecycle` as a property, with the variables of the same names as the
refinement mapping: a `send`, a command, a store access is a stuttering step there.

`ConversionFails` is the conversion of a Blob that cannot be read: no command is sent, the error is
reported, and the next entry of the queue goes on over the same connection. The history variable
`unconverted` holds those messages, so that `WireInOrder` can say that a message missing on the wire
before a later one, or before the close frame, is one of them and no other.

A text and a binary message are one kind; data conversion other than its failure, validation of codes, protocol
negotiation (a wrong subprotocol is `ConnectRefused`) and events other than close are
abstracted. Listeners that call back into the socket are ordinary caller steps, save the one
place where it matters that they run inside a handler (`DeliverReadError`).

### ClientStore

A call is one `fetch` or `websocket` of a `WreqClient`; it asks `#assertOpen` once
(`Fetch`) and then dispatches once per attempt and redirect. `resolve_client` is three steps,
as in the code: `get_client` under the read lock, `build_client` with no lock, `insert_client`
under the write lock. A native client is named by the call and the dispatch that built it.
`KeyOf` says which key a call has and `ConfigsOf` what clients a dispatch of it may ask for: more
than one where the browser is random, since the binding draws it anew each time. `Build` takes any
of them, and a pooled client keeps the draw of the call that built it, which is why `ClientsIsolated`
says that a call gets a client that its own options could have given. The module and its proofs take
any such functions, `MCClientStore` takes those that `ClientOptions` computes.
`CloseClient` and `Collect` both run `remove_clients`. `releases`, `givenAt` and `lateCalls`
are history variables of the properties: no action's guard reads them.

### ClientOptions

`NativeOptions` is what `buildNativeRequest` and the WebSocket class make of a call's options as
far as the native client goes, one operator for each normaliser; `CacheKey` is
`createNativeClientCacheKey`, and `ClientConfig` what the binding's conversions and
`ClientConfig::from` hand to `build_client`, given the browser that a random mode has drawn;
`Drawn` is what the library draws from, and `ClientConfigs` all that the options allow. `Undefined` is an option that is not given, which is
also how `JSON.stringify` leaves it out of the key. Durations are natural numbers of which `Unit`
make a millisecond, so that rounding is visible. Options that are refused with a TypeError are not
inputs; the counts (`poolMaxSize` and the like) are whole; `http1Only` and `http2Only`, which
exclude each other, are one option.

### ResponseBody and BodyDelivery

A `Response` either owns the handle (`source = "none"`), or has passed it to a source stream, which
the finalizer then watches instead. The streams follow the WHATWG rules as far as they decide when
the next native read is made: `srcQueue` and `srcRequest` are the source's queue and its one read
request, `again` its pullAgain flag, `queue` what each tee branch holds. The public stream has a
high-water mark of zero, so it has no queue of its own. `read` and `all` are the native reads of one
chunk and of the whole body, as they wait to be polled, hold the body, or have a result that has not
reached the JS thread. `stored` is the entry in `BODY_STORE`: a chunk read looks it up and clones the
`Arc`, `read_body_all` takes it out, a cancel removes it even while a read holds the body.
`Collect` is the finalizer: it runs when the program has dropped everything and no turn of the event
loop that could still use the handle is due; a request that no pull will answer any more, as two
empty chunks leave it, does not hold it up.

A chunk is its number. Tees of tees are one tee with a queue for each `Response`; one read is under
way at a time for each `Response`; a reader is released only when nothing is pending. Left out are
the flag of `forbidConnectionReuse`, timings, inline payloads (`response.body` as a string), and
Responses that a program builds itself.

`BodyDelivery` knows only what the peer has sent and what each user has got and was told. TLC
checks `INSTANCE BodyDelivery` with the variables of the same names: streams, queues, reads and
handles are stuttering.

### UploadStream and RequestBody

`UploadStream` is one upload of the kind `form`, `blob` or `stream`: the closure of
`prepareNativeUpload` (`cancelled`, the handles in `entries`), the loop of `start` (`pump`, `part`,
`item`), the bounded channels, and the transport that takes chunks in order. A channel ends when
its last sender goes, which is the entry in the store or the clone that a native write holds
(`HasSender`). Where a length was announced a short end breaks the request; where none was, a short
end looks like the end, which is why the order of *error, then drop* matters.

`RequestBody` extends it with the `Request` objects: `content` is what a body is now, `used`,
`drawn` and `locked` are the three flags that the guards of the class read, `src` and `taken` the
stream that a body is drawn from and how far. `Transfer`, `Clone` and `Replace` are `_takeBodyInit`,
`clone()` and `_replace`; a retry is another `Dispatch` of the same Request. `PumpStep` joins a
step of the pump with the stream it draws from.

Uploads follow one another (a retry starts when the pump of the attempt before is over). The
microtasks between `prepareNativeUpload` and `start`, `_replace` with a body of its own, the dropped
body of a 303 and inputs of the platform's own `Request` class are left out.

### Headers and RedirectHeaders

`Headers` keeps the two representations of the class, the Map and the list of tuples, and each
method changes both as the code does. `RedirectHeaders` takes the headers from the merge of client
defaults and call options through edits by the program or its hooks and through redirects. A
credential has the origin it is meant for as its value, a Referer its origin and how much more it
shows. `known` and `due` are history variables: the policy and the Referer by the Referrer Policy
standard, computed with `Discloses` from the definition of each policy and not from the code.
The calls have no cookie jar, whose handling of `Cookie` is `FetchPipeline`'s; a Referer that is the
empty string is no input. The loops of the class are recursive functions on the index, so that the
provers can reason about them.

## 3. Runs

Deadlock checking is off where calls, sockets, bodies and uploads do end; `redirect_headers`
checks it, since a program can always edit headers again.

| Run | Instance | Shows |
|---|---|---|
| `native_request` | 2 calls, both with a signal, one with an upload | four invariants beside the types, `AbortIsFinal` and two liveness properties |
| `native_orphan` | 1 call | finding: an abort can orphan a response body |
| `fetch_pipeline` | 3 URLs of 2 origins, 3 starts, 4 option sets, limit 1, up to 2 redirects | five invariants beside the types, two action properties, `FetchSettles` |
| `fetch_before_error` | the same | finding: errors of callbacks bypass `beforeError` |
| `websocket` | `MaxSends` 3, `MaxMessages` 2 | three invariants beside the types, the refinement, two liveness properties |
| `websocket_clean_close` | 1 send, no message | finding: crossing closes are reported as unclean |
| `client_store` | 2 owners, 4 calls with the keys and configurations of their options, one with 2 dispatches, 2 browsers to draw from | isolation, one pool, who may leave clients behind |
| `response_body` | a Response and a clone, `MaxChunks` 3, `MaxEmpty` 2 | two invariants beside the types, the refinement of `BodyDelivery`, two liveness properties |
| `request_body` | 3 Requests, forms of 2 parts, `Size` 2, `Buffered` 1 | two invariants beside the types and that uploads end |
| `blob_replay` | the same with fewer Requests | finding: a Blob handed on in a Request is a one-shot stream |
| `redirect_headers` | 3 origins, 4 names, `MaxHops` 3, `MaxEntries` 2 | the two representations agree; credentials and Referer |
| `client_left` | the same as `client_store` | finding: a late call re-creates clients of a closed owner |

Why the bounds are enough. Properties of `NativeRequest` relate one call to itself or to one
other call through a handle, so two calls show every interference; the invariants are proved for
any number. In `FetchPipeline` one retry and two redirects give a retry before, between and after
redirects and a redirect that leaves an origin and comes back; the third URL makes loops of two
lengths. Three sends let a message be queued behind one that fails and ahead of a close; two
messages let a read be pending while another event waits. In `ClientStore` three calls of one
owner, two of them on one key and one with a second dispatch, race a close and a finalizer; a second
owner with the same key shows isolation. All ask for a random browser, and two browsers let two builds
for one key draw differently; which is which does not matter, so they are symmetric. The options of
these calls go through the normalisers, and the
two fetches that share a key differ in their timeouts, one of them with a fraction of a millisecond
and one without a limit, while the WebSocket must not share it. In `ResponseBody` three chunks let
one be on its way while one lies in the source's queue and one has been read, and two Responses
make one fast and one slow branch. In `RequestBody` a channel of one chunk is full while another
chunk waits, two chunks let a body break in the middle, and three Requests let a body be handed on
and its new owner be cloned or replaced; `UPLOAD_BUFFERED_CHUNKS` is 2 in the code, and only
matters as a bound that a body can exceed. Three redirects over three origins can leave an origin,
be downgraded and come back; two tuples let a name occur twice, in one spelling or in two.

The named bounds are `MaxSends`, `MaxMessages`, `Dispatches`, `MaxChunks`, `MaxEmpty`, `Parts`,
`Size`, `Buffered`, `MaxHops`, `MaxEntries`, `limit` and `maxRedirects`; the last two are the
program's own. Two properties state what the code does not guarantee by itself. `ReadsSettle`
promises an answer to a read unless two data frames without data come in a row: the source stream
asks again after an empty chunk only once, and the run, with `MaxEmpty` 2, has the reader that is
left waiting. Whether the HTTP library ever hands two of them on is outside the sources, so this is
listed as a hazard and not as a finding. `FetchSettles` promises that the call settles unless it
waits for ever for the clone of a body that it has cancelled: nothing makes a hook read its clone or
cancel it, and without this premise TLC finds the call that hangs.

### Fairness

* `NativeRequest`: the runtime polls a task that a cancel woke, runs its remaining steps, and
  the event loop runs queued callbacks and resumes the pump. Nothing makes the peer answer or a
  source produce a chunk; a cancelled reader does report its end, and a write whose receiver was
  dropped is rejected.
* `FetchPipeline`: every promise the call awaits settles, except the cancel of a body that a hook
  has cloned (`CloneFinishes` is not fair). This is an assumption on hooks, jar and peer (or its
  timeout), and without it a fetch need not settle.
* `WebSocketClient`: microtasks, callbacks, native threads and released or cancelled tasks run.
  The peer is not fair: it need not answer an upgrade, a send or a close frame. So
  `LostConnectionCloses` starts from a lost connection, and nothing says that `close()` alone
  ever closes the socket: the code has no close timeout.
* `ResponseBody`: the event loop and the runtime do what is ready, the garbage collector runs in the
  end, and while a read holds the body the peer sends, ends or is timed out. The user is not fair.
* `RequestBody`: sources produce chunks or fail, the event loop runs the pump, and the transport
  sends or gives up (its timeout). Nothing makes the call settle.

## 4. Proofs

The seven modules about state machines follow one pattern: an inductive invariant `IInv`
that strengthens the invariants of the runs and was itself checked by TLC on the instances of the
runs before it was proved, `Init => IInv`, `IInv /\ [Next]_vars => IInv'` with a lemma or a step per
action or group of actions of one shape, and one theorem for each property. Every safety property of
these modules' runs is proved, and both refinements are, step by step.

| Module | Assumes | Proves |
|---|---|---|
| `NativeRequest` | `Signalled` and `Uploads` are sets of `Requests` | `TypeOK`, `StoreHoldsLiveTasks`, `CancelReachesOwnTask`, `ListenerOnlyWhilePending`, `UploadReleased`, `ResponseOwnsBody`, `AbortIsFinal` |
| `FetchPipeline` | each URL has an origin, the starts and option sets have their types | `TypeOK`, `DispatchBudget`, `RedirectsAcyclic`, `CredentialsStayOnOrigin`, `JarCookieCurrent`, `BodiesReleased`, `NoSendAfterAbort`, `StreamSentOnce` |
| `WebSocketClient` | the bounds are natural numbers | `TypeOK`, `WireInOrder`, `HandlesReleased`, `BufferedMatchesQueue`, `ImplementsLifecycle` |
| `ClientStore` | types of the constants | `TypeOK`, `ClientsIsolated`, `OnePool`, `LeftBehindByLateCalls` |
| `ClientOptions` | `Undefined` and `Off` are no numbers | `CacheKeyCoversConfig`, `DurationsRoundUp`, `IsolationByOptions` |
| `ResponseBody` | the original is a Response, the bounds are natural numbers | `TypeOK`, `HandleGuarded`, `ReadsAheadByOne`, `DeliversBody` |
| `RequestBody` with `UploadStream` | a body has a part, a channel room for a chunk | `TypeOK`, `WholeBodyOrError`, `HandlesFreed` |
| `RedirectHeaders` with `Headers` | no origin is both http and https, `Referer` is a name with the key `referer`, policy lists are lists of strings and client headers lists of tuples | `RepresentationsAgree`, `RedirectsRevealNoMore`, `SwitchFollowsStandard`, `LastPolicyCounts` |

The arguments, and why the invariants of the runs are not inductive alone:

`NativeRequest_proofs`, from `Signalled \subseteq Requests` and `Uploads \subseteq Requests`
only: types, `StoreHoldsLiveTasks`, `CancelReachesOwnTask`, `ListenerOnlyWhilePending`,
`UploadReleased`, `ResponseOwnsBody`, and the action property `AbortIsFinal`. The run's
invariants are not inductive alone. `Progress` ties the phase of a call to that of its task (a
task exists from dispatch on; before it there is no handle, outcome or body), and
`HandlesUnique` says that handles in use lie below the counters and are distinct. With these a
cancel finds at most the entry of its own call, and a stored body has one name.

`FetchPipeline_proofs`: most of what the runs check holds at one await because of what holds at the
awaits before it. `Budget` leaves room for one more attempt where a retry is under way and for one
more hop where a redirect is. `Acyclic` says that a redirect about to be followed leads to an
unvisited URL. `OwnCredentials` extends `CredentialsStayOnOrigin` from the request that is sent to
every request that is prepared. `JarCookies` says that the Cookie header is gone when the jar is
asked and is the jar's answer until the request is answered. `Bodies` is the interesting one: at
every await at most one body is open that was not dropped, and which one is named by the response of
the try block or by the error of the catch block. `DropsPaid` counts the dropped ones: an attempt
that is still in the try block, or whose error names a response, has dropped none, so that there are
never more of them than attempts, and a redirect adds none.

`WebSocketClient_proofs`: `Connects` ties the await of `#connect` to its thread and says in which
part of it the two store entries exist; `Released` says that whatever leads to a closed socket has
taken the handle out of its store, or that the connect will find it when it is over. `QueueInOrder`
says that the queue holds the last messages given to `send()` and a close at most at its end, from
which `BufferedMatchesQueue` follows by counting. `WireFollowsQueue` needs the notion of a
connection that a command can still *reach*: while it can, the wire has the messages that have left
the queue, all but those whose conversion failed; a message whose command failed is missing without
being one of them, but then nothing can be sent any more. The
refinement is one to one, as both modules have the three variables of the lifecycle: `#finalizeClose` is
`Close` the first time and a stutter after that.

`ResponseBody_proofs`: `Positions` accounts for every chunk that came off the connection. It is with
a user, in the queue of a branch, in the queue of the source, or in a read that is about to settle,
and every user who did not cancel has been given the same. Backpressure is a corollary: without
a clone the last two places hold one chunk between them. `HandleOwned` says for each state of the source
who watches over the handle and which native read may be under way. The step simulation of
`BodyDelivery` maps a chunk handed to those who wait, or taken from a queue, to `Deliver`;
`Positions` shows that it is the next one of each of them, and that who is told *whole* has all of it.

`RequestBody_proofs`: the invariant has two halves. `UploadInv` is about one upload and is kept by
each of its steps, for a pump that reads the chunk after the last one: what a part has sent and what
its channel holds are 1, 2, ... up to what the pump wrote, an error is the last entry of a channel,
and while its call is pending the channel of a stream ends only after its last chunk or with an
error. `PoolInv` is about the Requests and is what gives the pump that chunk: of two Requests with
one stream one has given it away, one that gave it away can never draw from it, and so a pump has
the only reader.

`ClientStore_proofs`, from the constants' types only: types (which include that an owner is released
at most once), `ClientsIsolated`, `OnePool`, `LeftBehindByLateCalls`. The strengthening says that a
release is counted for exactly the closed or collected owners, that a call under way on such an
owner is a late call, that a client waiting for insertion was built by the call that inserts it, and
that nothing was given at a release yet to come. `OnePool` is the interesting step: `insert_client`
keeps what is there, so no call that already holds a client is left with another one. `Isolation`
has a premise, `KeyCoversConfig`: calls with the same key may ask for the same configurations. It says of
any key function what makes sharing safe, and `CacheKeyCoversConfig` proves it of this one, for the
options of fetches and WebSockets whose `timeout` is a duration. For a random browser this is an
equality of sets, one configuration for each browser that may be drawn. Its interesting part is that a
fetch's timeout, which is not in its key, is not in its client either, and that a fetch and a
WebSocket never share a key (`KindsHaveTheirKeys`): the key of a WebSocket always has a timeout, by
default or given, and that of a fetch never has. `IsolationByOptions` puts the two together: for
calls whose keys and configurations are those of their options, isolation has no premise left.
`DurationsRoundUp` proves that rounding to milliseconds never shortens a duration and never turns
one into zero, which would mean *none*.

`RedirectHeaders_proofs` is about data of any length, and so begins with induction. The library's
induction theorems take the induction formula as an operator, which the backends cannot instantiate;
`SequenceFacts` therefore states induction for a *set*: one that holds 0 and the successor of each
of its numbers holds all numbers, because the least one missing has a predecessor (well-foundedness
of `<`). From it come induction over sequences (`SeqSetInduction`) and that a recursion defines a
function (`RecursionExists`), with which the recursive functions of `Headers` are unfolded.
`HeadersOf(s)` is the object both of whose representations say the tuples `s`. Each operation is a
homomorphism into such objects: `AppendMakesHeaders`, `DeleteMakesHeaders`, `SetMakesHeaders` (a
`set` is a `delete` and an `append`), `FromTuplesMakesHeaders`, `MergeMakesHeaders`. That every such
object agrees with itself and with its copy is `HeadersAgree`. So `RepresentationsAgree` is
strengthened to *the headers are `HeadersOf` of their own tuples* (`WellSaid`), where every tuple
also has a value that its name may have at this origin; agreement alone is not inductive, since it
does not bound what the tuples are. For the Referer the invariant is `policy = known`, kept because
the code's last known token is the standard's (`LastPolicyCounts`, again by induction), and that a
Referer left by a redirect is what is due. The step is `SwitchFollowsStandard`: for each of the
eight policies the switch writes what the policy's definition discloses. It would fail were an
origin both http and https, hence the assumption.

Only model-checked, and why:

* the liveness properties (`AbortStopsTask`, `AbortStopsUpload`, `FetchSettles`,
  `LostConnectionCloses`, `ClosedSocketDisconnects`, `ReadsSettle`, `AbandonedReleased`,
  `UploadEnds`): fairness is about `ENABLED`, which the prover does not expand;
* the five findings, which are properties that fail.

## 5. Findings

1. **A response body without an owner** (`native_orphan`). The task stores the body and queues
   its callback; the signal aborts; the reaction finds the call settled and returns without
   cancelling `response.bodyHandle`. No `Response` exists, so no finalizer does.
2. **`beforeError` is bypassed** (`fetch_before_error`). `onStats`, `shouldRetry`, `beforeRetry`
   and `backoff` run inside the catch block; their errors are final and no hook sees them.
3. **A clean close reported as unclean** (`websocket_clean_close`). The peer's close frame ends
   the task; `close()`'s command then fails and its handler reports 1006 before the clean close
   event is read.
4. **A closed client that still holds a pool** (`client_left`). A call between look-up and
   insertion, or one that retries or redirects after the close, inserts a client that nothing
   releases.
5. **A Blob that cannot be sent again** (`blob_replay`). Given in the init of `fetch()` a Blob is
   replayed for retries, 307 and 308. Given inside a `Request` it is handed on as a stream, and the
   second upload throws `Request body is already used`.

## 6. Not modelled

* The flag of `forbidConnectionReuse`: what it does to a pooled connection is the HTTP library's.
* Encoding and decoding: multipart text, charsets, JSON, cookies' syntax, query strings, WebSocket
  data and close codes. They keep no state; a test reaches them.
* The values that option validation refuses, and the merging of client defaults other than headers.
* Emulation tables, the translation of TLS and HTTP/2 options to the library's types, name servers
  and happy eyeballs: configuration of the HTTP library.
* The binding loader, generated profiles, type declarations, scripts and CI.

The `wreq` and tokio libraries appear as what the code relies on: `select!` may take any ready
branch, a oneshot send wakes its receiver, a channel whose receivers are gone refuses, one without
senders ends, and locks are exclusive. The platform's streams, `tee()` and `FinalizationRegistry`
appear by their standards.

## 7. Plan

Every safety and action property of the passing runs and both refinements are proved. What is left
is an abstract specification of an upload for `UploadStream` and `RequestBody`, as `BodyDelivery` is
one of a response, with `Counted` as its refinement argument; today `WholeBodyOrError` states what
it would promise.
