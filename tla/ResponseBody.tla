----------------------------- MODULE ResponseBody -----------------------------
(***************************************************************************)
(* The body of a native response (src/http/response.ts) and the store that *)
(* holds its connection (rust/src/store/body_store.rs).                    *)
(*                                                                         *)
(* The Response owns a handle to the stored body.  text(), json(), ... on  *)
(* an untouched Response read everything natively; `body` and clone() move *)
(* the handle to a source stream that reads ahead one chunk; clone() tees  *)
(* that stream.  A finalizer cancels the body of a Response nobody keeps.  *)
(*                                                                         *)
(* Streams follow the WHATWG rules: `again` is the controller's pullAgain  *)
(* flag, a read in flight is its pulling flag, the source's queue holds    *)
(* one chunk, a tee branch pulls until its queue holds one.  Tees of tees  *)
(* are one tee with a queue for each Response.  A chunk is its number.     *)
(***************************************************************************)
EXTENDS Naturals, Sequences

CONSTANTS
    Responses,      \* the Response objects that share the body
    Original,       \* the one fetch() returned; the others are clones
    MaxChunks,      \* bound: the chunks the peer sends
    MaxEmpty        \* bound: empty chunks in a row

ASSUME BodyAssumption ==
    /\ Original \in Responses
    /\ MaxChunks \in Nat
    /\ MaxEmpty \in Nat

VARIABLES
    created,        \* the Responses made so far
    held,           \* those the program still reaches, or their streams
    used,           \* Response.#bodyUsed
    stream,         \* Response.#stream: "none", "free", "locked", or "kept"
                    \*   locked for good by #orphanedStreamReaders
    reader,         \* "idle", or what a user awaits: "read", "text", "bytes"
    got,            \* the chunks a user has been given
    outcome,        \* what a user knows of the whole
    source,         \* the stream that owns the handle, "none" before it
    srcQueue,       \* its queue
    srcRequest,     \* whether it has a read request
    again,          \* its controller's pullAgain
    teed,           \* whether clone() has teed it
    queue,          \* the queue of each tee branch
    registered,     \* whether bodyFinalizer watches over the handle
    stored,         \* whether BODY_STORE has the handle
    read,           \* the native read of one chunk
    all,            \* the native read of the whole body
    sent, ended,    \* what has come off the connection, and how it ended
    empties         \* the empty chunks since the last other one

users == <<created, held, used, stream, reader>>
told == <<got, outcome>>
src == <<source, srcQueue, srcRequest, again, teed, queue>>
native == <<registered, stored, read, all>>
peer == <<sent, ended, empties>>
vars == <<users, told, src, native, peer>>

Waiting(r) == reader[r] \in {"read", "text"}
Unusable(r) == used[r] \/ stream[r] \in {"locked", "kept"}
Live == {r \in created : outcome[r] # "cancelled"}

(* Type invariant: the values the state of a body takes. *)
TypeOK ==
    /\ created \subseteq Responses /\ held \subseteq created
    /\ used \in [Responses -> BOOLEAN]
    /\ stream \in [Responses -> {"none", "free", "locked", "kept"}]
    /\ reader \in [Responses -> {"idle", "read", "text", "bytes"}]
    /\ got \in [Responses -> Seq(1..MaxChunks)]
    /\ outcome \in [Responses -> {"open", "whole", "failed", "cancelled"}]
    /\ source \in {"none", "unstarted", "readable", "closed", "errored", "cancelled"}
    /\ srcQueue \in Seq(1..MaxChunks) /\ Len(srcQueue) <= 1
    /\ queue \in [Responses -> Seq(1..MaxChunks)]
    /\ {srcRequest, again, teed, registered, stored} \subseteq BOOLEAN
    /\ read \in {"none", "spawned", "reading", "chunk", "empty", "end", "failed", "unknown"}
    /\ all \in {"none", "spawned", "reading", "end", "failed", "unknown"}
    /\ sent \in 0..MaxChunks /\ ended \in {"open", "whole", "failed"}
    /\ empties \in 0..MaxEmpty

Init ==
    /\ created = {Original} /\ held = {Original}
    /\ used = [r \in Responses |-> FALSE]
    /\ stream = [r \in Responses |-> "none"]
    /\ reader = [r \in Responses |-> "idle"]
    /\ got = [r \in Responses |-> <<>>]
    /\ outcome = [r \in Responses |-> "open"]
    /\ source = "none" /\ srcQueue = <<>>
    /\ srcRequest = FALSE /\ again = FALSE /\ teed = FALSE
    /\ queue = [r \in Responses |-> <<>>]
    /\ registered = TRUE /\ stored = TRUE /\ read = "none" /\ all = "none"
    /\ sent = 0 /\ ended = "open" /\ empties = 0

-----------------------------------------------------------------------------
(* The program's calls.                                                    *)

\* Defect: the finalizer stays with the Response.
EnsureStreamSourceUnregistered ==
    IF source = "none"
      THEN source' = "unstarted" /\ registered' = FALSE
      ELSE UNCHANGED <<source, registered>>

\* #ensureStreamSource: the handle and the finalizer move to the new stream.
EnsureStreamSource ==
    IF source = "none"
      THEN source' = "unstarted" /\ registered' = TRUE
      ELSE UNCHANGED <<source, registered>>

\* The `body` getter.
Body(r) ==
    /\ r \in held /\ stream[r] = "none"
    /\ stream' = [stream EXCEPT ![r] = "free"]
    /\ EnsureStreamSource
    /\ UNCHANGED <<created, held, used, reader, told, srcQueue, srcRequest, again, teed,
                   queue, stored, read, all, peer>>

GetReader(r) ==
    /\ r \in held /\ stream[r] = "free"
    /\ stream' = [stream EXCEPT ![r] = "locked"]
    /\ UNCHANGED <<created, held, used, reader, told, src, native, peer>>

ReleaseLock(r) ==
    /\ r \in held /\ stream[r] = "locked" /\ reader[r] = "idle"
    /\ stream' = [stream EXCEPT ![r] = "free"]
    /\ UNCHANGED <<created, held, used, reader, told, src, native, peer>>

Read(r) ==
    /\ r \in held /\ stream[r] = "locked" /\ reader[r] = "idle" /\ outcome[r] = "open"
    /\ used' = [used EXCEPT ![r] = TRUE]
    /\ reader' = [reader EXCEPT ![r] = "read"]
    /\ UNCHANGED <<created, held, stream, told, src, native, peer>>

\* #consumeBytes, behind text(), json(), arrayBuffer(), bytes(), blob() and formData().
Consume(r) ==
    /\ r \in held /\ ~Unusable(r)
    /\ used' = [used EXCEPT ![r] = TRUE]
    /\ stream' = [stream EXCEPT ![r] = "kept"]
    /\ \/ /\ source = "none"
          /\ reader' = [reader EXCEPT ![r] = "bytes"]
          /\ source' = "closed"
          /\ registered' = FALSE
          /\ all' = "spawned"
       \/ /\ source # "none"
          /\ reader' = [reader EXCEPT ![r] = "text"]
          /\ UNCHANGED <<source, registered, all>>
    /\ UNCHANGED <<created, held, told, srcQueue, srcRequest, again, teed, queue,
                   stored, read, peer>>

Clone(r, c) ==
    /\ r \in held /\ ~Unusable(r)
    /\ c \notin created
    /\ created' = created \cup {c} /\ held' = held \cup {c}
    /\ stream' = [stream EXCEPT ![r] = "none"]
    /\ queue' = [queue EXCEPT ![c] = queue[r]]
    /\ teed' = TRUE
    /\ EnsureStreamSource
    /\ UNCHANGED <<used, reader, told, srcQueue, srcRequest, again, stored, read, all, peer>>

\* cancel() on the stream or on its reader, and cancelResponseBody(): the source and the
\* native body are cancelled with the last branch.
Cancel(r) ==
    /\ r \in held /\ stream[r] \in {"free", "locked"} /\ outcome[r] = "open"
    /\ used' = [used EXCEPT ![r] = TRUE]
    /\ reader' = [reader EXCEPT ![r] = "idle"]
    /\ outcome' = [outcome EXCEPT ![r] = "cancelled"]
    /\ queue' = [queue EXCEPT ![r] = <<>>]
    /\ IF Live = {r} /\ source \in {"unstarted", "readable"}
         THEN /\ source' = "cancelled" /\ srcQueue' = <<>> /\ srcRequest' = FALSE
              /\ registered' = FALSE /\ stored' = FALSE
         ELSE UNCHANGED <<source, srcQueue, srcRequest, registered, stored>>
    /\ UNCHANGED <<created, held, stream, got, again, teed, read, all, peer>>

\* The program lets go of a Response, its streams and readers.
Drop(r) ==
    /\ r \in held /\ reader[r] = "idle"
    /\ held' = held \ {r}
    /\ UNCHANGED <<created, used, stream, reader, told, src, native, peer>>

-----------------------------------------------------------------------------
(* The streams: turns of the event loop.                                   *)

\* Defect: the stream pulls when nobody reads it.
WantAlways(r) == r \in Live /\ queue[r] = <<>>

Want(r) == r \in Live /\ queue[r] = <<>> /\ (teed \/ Waiting(r))

Spawn == read' = "spawned" /\ again' = FALSE

\* Defect: a branch nobody waits at does not keep the chunk.
DistributeToReaders(chunk) ==
    LET now == {r \in Live : Waiting(r) /\ queue[r] = <<>>} IN
    /\ got' = [r \in Responses |-> IF r \in now THEN Append(got[r], chunk) ELSE got[r]]
    /\ reader' = [r \in Responses |->
                    IF r \in now /\ reader[r] = "read" THEN "idle" ELSE reader[r]]
    /\ UNCHANGED queue

\* A chunk of the source goes to every branch: to the reader that waits, else to the queue.
Distribute(chunk) ==
    LET now == {r \in Live : Waiting(r) /\ queue[r] = <<>>} IN
    /\ got' = [r \in Responses |-> IF r \in now THEN Append(got[r], chunk) ELSE got[r]]
    /\ reader' = [r \in Responses |->
                    IF r \in now /\ reader[r] = "read" THEN "idle" ELSE reader[r]]
    /\ queue' = [r \in Responses |->
                   IF teed /\ r \in Live \ now THEN Append(queue[r], chunk) ELSE queue[r]]

SourceStarts ==
    /\ source = "unstarted"
    /\ source' = "readable"
    /\ Spawn
    /\ UNCHANGED <<users, told, srcQueue, srcRequest, teed, queue, registered, stored, all, peer>>

\* #stream's pull, or the tee's: read the source, which pulls again for what was taken.
Ask ==
    /\ source = "readable" /\ ~srcRequest
    /\ \E r \in Responses : Want(r)
    /\ IF srcQueue # <<>>
         THEN /\ Distribute(Head(srcQueue))
              /\ srcQueue' = <<>>
              /\ UNCHANGED srcRequest
         ELSE /\ srcRequest' = TRUE
              /\ UNCHANGED <<got, reader, queue, srcQueue>>
    /\ IF read = "none"
         THEN Spawn
         ELSE again' = TRUE /\ UNCHANGED read
    /\ UNCHANGED <<created, held, used, stream, outcome, source, teed, registered, stored,
                   all, peer>>

\* The rest of the source's pull, once its native read settles.  After a cancel, enqueue
\* and close throw into a stream that no longer listens.
ReadSettles ==
    /\ read \in {"chunk", "empty", "end", "failed", "unknown"}
    /\ IF read \in {"end", "failed", "unknown"}
         THEN registered' = FALSE ELSE UNCHANGED registered
    /\ \/ /\ source # "readable"
          /\ read' = "none"
          /\ UNCHANGED <<reader, got, source, srcQueue, srcRequest, again, queue>>
       \/ /\ source = "readable" /\ read = "chunk" /\ srcRequest
          /\ Distribute(sent)
          /\ srcRequest' = FALSE
          /\ Spawn
          /\ UNCHANGED <<source, srcQueue>>
       \/ /\ source = "readable" /\ read = "chunk" /\ ~srcRequest
          /\ srcQueue' = <<sent>>
          /\ read' = "none"
          /\ UNCHANGED <<reader, got, source, srcRequest, again, queue>>
       \/ /\ source = "readable" /\ read = "empty"
          /\ IF again THEN Spawn ELSE read' = "none" /\ UNCHANGED again
          /\ UNCHANGED <<reader, got, source, srcQueue, srcRequest, queue>>
       \/ /\ source = "readable" /\ read = "end"
          /\ source' = "closed" /\ srcRequest' = FALSE
          /\ read' = "none"
          /\ UNCHANGED <<reader, got, srcQueue, again, queue>>
       \/ /\ source = "readable" /\ read \in {"failed", "unknown"}
          /\ source' = "errored" /\ srcRequest' = FALSE
          /\ queue' = [r \in Responses |-> <<>>]
          /\ read' = "none"
          /\ UNCHANGED <<reader, got, srcQueue, again>>
    /\ UNCHANGED <<created, held, used, stream, outcome, teed, stored, all, peer>>

Take(r) ==
    /\ Waiting(r) /\ queue[r] # <<>>
    /\ got' = [got EXCEPT ![r] = Append(@, Head(queue[r]))]
    /\ queue' = [queue EXCEPT ![r] = Tail(@)]
    /\ reader' = [reader EXCEPT ![r] = IF @ = "read" THEN "idle" ELSE @]
    /\ UNCHANGED <<created, held, used, stream, outcome, source, srcQueue, srcRequest,
                   again, teed, native, peer>>

\* Defect: the error of the stream does not reach its readers.
ReadStopsAtEnd(r) ==
    /\ Waiting(r) /\ queue[r] = <<>>
    /\ source = "closed"
    /\ outcome' = [outcome EXCEPT ![r] = "whole"]
    /\ reader' = [reader EXCEPT ![r] = "idle"]
    /\ UNCHANGED <<created, held, used, stream, got, src, native, peer>>

\* A reader or a #consumeBytes loop meets the end of the stream, or its error.
ReadStops(r) ==
    /\ Waiting(r) /\ queue[r] = <<>>
    /\ \/ source = "closed" /\ outcome' = [outcome EXCEPT ![r] = "whole"]
       \/ source = "errored" /\ outcome' = [outcome EXCEPT ![r] = "failed"]
    /\ reader' = [reader EXCEPT ![r] = "idle"]
    /\ UNCHANGED <<created, held, used, stream, got, src, native, peer>>

\* nativeReadBodyAll settles; a failure also cancels the handle.
BytesDone(r) ==
    /\ reader[r] = "bytes" /\ all \in {"end", "failed", "unknown"}
    /\ reader' = [reader EXCEPT ![r] = "idle"]
    /\ IF all = "end"
         THEN /\ outcome' = [outcome EXCEPT ![r] = "whole"]
              /\ got' = [got EXCEPT ![r] = [i \in 1..sent |-> i]]
              /\ UNCHANGED stored
         ELSE /\ outcome' = [outcome EXCEPT ![r] = "failed"]
              /\ stored' = FALSE
              /\ UNCHANGED got
    /\ UNCHANGED <<created, held, used, stream, src, registered, read, all, peer>>

\* bodyFinalizer: the Responses, the streams and a pending pull hold each other, so all
\* of them go together, between two turns of the event loop.  A request that no pull will
\* answer any more holds nothing.
Collect ==
    /\ held = {} /\ registered
    /\ read = "none" /\ source # "unstarted"
    /\ source = "readable" => srcRequest \/ \A r \in Responses : ~Want(r)
    /\ registered' = FALSE /\ stored' = FALSE
    /\ UNCHANGED <<users, told, src, read, all, peer>>

-----------------------------------------------------------------------------
(* The native side: tasks of the tokio runtime.                            *)

\* read_body_chunk looks the handle up; read_body_all takes it out.
ReadStarts ==
    \/ /\ read = "spawned"
       /\ read' = IF stored THEN "reading" ELSE "unknown"
       /\ UNCHANGED <<users, told, src, registered, stored, all, peer>>
    \/ /\ all = "spawned"
       /\ all' = IF stored THEN "reading" ELSE "unknown"
       /\ stored' = FALSE
       /\ UNCHANGED <<users, told, src, registered, read, peer>>

Reading == read = "reading" \/ all = "reading"

Chunk ==
    /\ Reading /\ ended = "open" /\ sent < MaxChunks
    /\ sent' = sent + 1 /\ empties' = 0
    /\ read' = IF read = "reading" THEN "chunk" ELSE read
    /\ UNCHANGED <<users, told, src, registered, stored, all, ended>>

EmptyChunk ==
    /\ Reading /\ ended = "open" /\ empties < MaxEmpty
    /\ empties' = empties + 1
    /\ read' = IF read = "reading" THEN "empty" ELSE read
    /\ UNCHANGED <<users, told, src, registered, stored, all, sent, ended>>

\* Defect: the store keeps the handle of a body that has ended.
BodyEndsStored ==
    /\ Reading /\ ended = "open"
    /\ ended' \in {"whole", "failed"}
    /\ LET how == IF ended' = "whole" THEN "end" ELSE "failed" IN
       /\ read' = IF read = "reading" THEN how ELSE read
       /\ all' = IF all = "reading" THEN how ELSE all
    /\ UNCHANGED <<users, told, src, registered, stored, sent, empties>>

\* Defect: the reader is answered with what the connection said.
BodyEndsRaw ==
    /\ Reading /\ ended = "open"
    /\ ended' \in {"whole", "failed"}
    /\ read' = IF read = "reading" THEN ended' ELSE read
    /\ all' = IF all = "reading" THEN ended' ELSE all
    /\ stored' = FALSE
    /\ UNCHANGED <<users, told, src, registered, sent, empties>>

\* The last frame or an error: read_body_chunk removes the handle before it answers.
BodyEnds ==
    /\ Reading /\ ended = "open"
    /\ ended' \in {"whole", "failed"}
    /\ LET how == IF ended' = "whole" THEN "end" ELSE "failed" IN
       /\ read' = IF read = "reading" THEN how ELSE read
       /\ all' = IF all = "reading" THEN how ELSE all
    /\ stored' = FALSE
    /\ UNCHANGED <<users, told, src, registered, sent, empties>>

-----------------------------------------------------------------------------
Peer == Chunk \/ EmptyChunk \/ BodyEnds

Next ==
    \/ \E r \in Responses :
          \/ Body(r) \/ GetReader(r) \/ ReleaseLock(r) \/ Read(r) \/ Consume(r)
          \/ Cancel(r) \/ Drop(r)
          \/ Take(r) \/ ReadStops(r) \/ BytesDone(r)
          \/ \E c \in Responses : Clone(r, c)
    \/ SourceStarts \/ Ask \/ ReadSettles \/ Collect
    \/ ReadStarts \/ Peer

\* The event loop and the runtime run what is ready, the collector runs in the end, and
\* the peer sends, ends or is timed out.  The program may do nothing more.
Fairness ==
    /\ WF_vars(SourceStarts) /\ WF_vars(Ask) /\ WF_vars(ReadSettles) /\ WF_vars(Collect)
    /\ WF_vars(ReadStarts) /\ WF_vars(Peer)
    /\ \A r \in Responses : WF_vars(Take(r) \/ ReadStops(r) \/ BytesDone(r))

Spec == Init /\ [][Next]_vars /\ Fairness

-----------------------------------------------------------------------------
(* The handle is looked after: the store keeps a body only while the finalizer or a read
   that is about to take it will remove it, a Response that still owns the handle finds
   the body there and nobody reading it (or _forbidConnectionReuse would throw), and a
   chunk read misses the handle only after a cancel, when nobody waits for it. *)
HandleGuarded ==
    /\ stored => registered \/ all = "spawned"
    /\ source = "none" /\ held # {} => stored /\ read = "none" /\ all = "none"
    /\ read = "unknown" => source = "cancelled"
    /\ all # "unknown"

(* Backpressure: while nobody has cloned the response, at most one chunk is read off the
   connection beyond those its user has asked for. *)
ReadsAheadByOne ==
    ~teed /\ source \in {"unstarted", "readable"} => sent <= Len(got[Original]) + 1

(* Refinement: every Response and every clone gets the whole body in order or learns that
   it failed, whichever way and however late it reads. *)
Delivery == INSTANCE BodyDelivery
    WITH Responses <- Responses, sent <- sent, ended <- ended, got <- got,
         outcome <- outcome
DeliversBody == Delivery!Spec

(* Liveness: a read(), a text() that waits is answered, whatever the other Responses
   that share the body do, unless two empty chunks come in a row: the stream pulls again
   after one, and after another it leaves its reader waiting. *)
ReadsSettle ==
    \A r \in Responses : reader[r] # "idle" ~> reader[r] = "idle" \/ empties > 1

(* Liveness: once the program has let go of the Response and of its clones, the native
   body is dropped and its connection with it. *)
AbandonedReleased == held = {} ~> ~stored /\ ~Reading
=============================================================================
