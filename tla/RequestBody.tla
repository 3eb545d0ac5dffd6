----------------------------- MODULE RequestBody ------------------------------
(***************************************************************************)
(* The bodies of Request objects (src/http/request.ts) and the uploads     *)
(* fetch() makes of them, one at a time (UploadStream).                    *)
(*                                                                         *)
(* Bytes and forms are kept and can be read again and again; a Blob opens  *)
(* a new stream for every upload; a stream can be drawn once, by whoever   *)
(* comes first.  Requests hand bodies to each other: by transfer (new      *)
(* Request(request), fetch(request)), by clone() and by _replace, which a  *)
(* redirect that keeps the body uses.                                      *)
(***************************************************************************)
EXTENDS UploadStream

CONSTANTS
    Requests,       \* the Request objects
    First           \* the one the program makes

ASSUME RequestAssumption == First \in Requests

VARIABLES
    content,        \* "absent" before the Request exists, then what its body is
    used,           \* Request.#bodyUsed
    drawn,          \* StreamingBody.#used
    locked,         \* whether the body stream has a reader
    src,            \* the stream the body is drawn from, named by its first Request
    taken,          \* how much of that stream has been drawn
    text,           \* text(), json(), ...: what has become of it
    count,          \* the chunks it has
    owner           \* the Request that is uploaded

poolVars == <<content, used, drawn, locked, src, taken, text, count, owner>>
vars == <<uploadVars, poolVars>>

Bodies == {"bytes", "form", "blob", "stream"}
Streaming(q) == content[q] \in {"blob", "stream"}
Present(q) == content[q] # "absent"
Untouched(q) == ~used[q] /\ ~drawn[q] /\ ~locked[q]

(* Type invariant: the values the state of the Requests and of the upload takes. *)
TypeOK ==
    /\ UploadTypeOK
    /\ content \in [Requests -> Bodies \cup {"absent"}]
    /\ {used, drawn, locked} \subseteq [Requests -> BOOLEAN]
    /\ src \in [Requests -> Requests]
    /\ taken \in [Requests -> 0..Size]
    /\ text \in [Requests -> {"none", "reading", "whole", "partial", "failed"}]
    /\ count \in [Requests -> 0..Size]
    /\ owner \in Requests

Init ==
    /\ UploadInit
    /\ \E b \in Bodies : content = [q \in Requests |-> IF q = First THEN b ELSE "absent"]
    /\ used = [q \in Requests |-> FALSE] /\ drawn = used /\ locked = used
    /\ src = [q \in Requests |-> q]
    /\ taken = [q \in Requests |-> 0]
    /\ text = [q \in Requests |-> "none"]
    /\ count = [q \in Requests |-> 0]
    /\ owner = First

-----------------------------------------------------------------------------
(* Bodies change hands.                                                    *)

\* n becomes a Request with body b, drawn from stream s if it is one.
Make(n, b, s) ==
    /\ ~Present(n)
    /\ content' = [content EXCEPT ![n] = b]
    /\ src' = [src EXCEPT ![n] = s]
    /\ UNCHANGED <<uploadVars, taken, text, count, owner>>

\* _takeBodyInit and #setBody, behind new Request(request) and fetch(request): a Blob
\* arrives as the stream its StreamingBody reads it with.
Transfer(q, n) ==
    /\ Present(q) /\ Untouched(q)
    /\ Make(n, IF Streaming(q) THEN "stream" ELSE content[q],
            IF content[q] = "stream" THEN src[q] ELSE n)
    /\ used' = [used EXCEPT ![q] = TRUE]
    /\ locked' = [locked EXCEPT ![q] = TRUE]
    /\ drawn' = [drawn EXCEPT ![q] = Streaming(q)]

\* A stream is teed: q keeps one branch, n gets the other.
Clone(q, n) ==
    /\ Present(q) /\ Untouched(q)
    /\ Make(n, content[q], n)
    /\ UNCHANGED <<used, drawn, locked>>

\* Defect: a stream that has been drawn is sent again.
ReplayableAlways(q) == TRUE

\* A retry dispatches the Request again and a redirect replaces it: both throw for a
\* stream that has been drawn, and do so for nothing else.
Replayable(q) == content[q] = "stream" => ~drawn[q] /\ ~locked[q]

\* _replace without a body of its own.
Replace(q, n) ==
    /\ Present(q) /\ Replayable(q)
    /\ Make(n, content[q], n)
    /\ UNCHANGED <<used, drawn, locked>>

-----------------------------------------------------------------------------
(* The program reads a body.                                               *)

\* A reader of request.body takes a chunk and releases its lock.
ReadSome(q) ==
    /\ Present(q) /\ ~locked[q]
    /\ IF Streaming(q)
         THEN /\ drawn' = [drawn EXCEPT ![q] = TRUE]
              /\ taken' = [taken EXCEPT ![src[q]] = IF @ < Size THEN @ + 1 ELSE @]
              /\ UNCHANGED used
         ELSE used' = [used EXCEPT ![q] = TRUE] /\ UNCHANGED <<drawn, taken>>
    /\ UNCHANGED <<uploadVars, content, locked, src, text, count, owner>>

\* #consumeBytes: bytes and forms are there, a stream is read to its end.
Consume(q) ==
    /\ Present(q) /\ Untouched(q)
    /\ IF Streaming(q)
         THEN /\ drawn' = [drawn EXCEPT ![q] = TRUE]
              /\ locked' = [locked EXCEPT ![q] = TRUE]
              /\ text' = [text EXCEPT ![q] = "reading"]
              /\ UNCHANGED used
         ELSE /\ used' = [used EXCEPT ![q] = TRUE]
              /\ text' = [text EXCEPT ![q] = "whole"]
              /\ UNCHANGED <<drawn, locked>>
    /\ UNCHANGED <<uploadVars, content, src, taken, count, owner>>

ConsumeStep(q) ==
    /\ text[q] = "reading"
    /\ LET s == src[q] IN
       \/ /\ taken[s] < Size
          /\ taken' = [taken EXCEPT ![s] = @ + 1]
          /\ count' = [count EXCEPT ![q] = @ + 1]
          /\ UNCHANGED text
       \/ /\ taken[s] = Size
          /\ text' = [text EXCEPT ![q] = IF count[q] = Size THEN "whole" ELSE "partial"]
          /\ UNCHANGED <<taken, count>>
       \/ text' = [text EXCEPT ![q] = "failed"] /\ UNCHANGED <<taken, count>>
    /\ UNCHANGED <<uploadVars, content, used, drawn, locked, src, owner>>

-----------------------------------------------------------------------------
(* fetch() uploads a body: prepareNativeUpload, then nativeRequest in the  *)
(* same run of microtasks.                                                 *)

Dispatch(q) ==
    /\ content[q] \in {"form", "blob", "stream"}
    /\ Replayable(q)
    /\ owner' = q
    /\ \/ /\ StartUpload(content[q])
          /\ drawn' = [drawn EXCEPT ![q] = Streaming(q)]
          /\ locked' = [locked EXCEPT ![q] = @ \/ content[q] = "stream"]
       \/ RefuseUpload(content[q]) /\ UNCHANGED <<drawn, locked>>
    /\ UNCHANGED <<content, used, src, taken, text, count>>

\* The pump ends: it releases the lock of its reader.
Release ==
    locked' = IF pump' = "over" /\ kind = "stream" THEN [locked EXCEPT ![owner] = FALSE]
                                                   ELSE locked

PumpStep ==
    /\ LET s == src[owner]
           at == IF kind = "stream" THEN taken[s] ELSE item
       IN \/ /\ at < Size
             /\ PumpReads(at + 1)
             /\ taken' = IF kind = "stream" THEN [taken EXCEPT ![s] = @ + 1] ELSE taken
          \/ at = Size /\ PumpReadsEnd /\ UNCHANGED taken
          \/ (PumpReadFails \/ PumpSeesCancel \/ PumpWrites) /\ UNCHANGED taken
    /\ Release
    /\ UNCHANGED <<content, used, drawn, src, text, count, owner>>

Next ==
    \/ \E q \in Requests :
          \/ \E n \in Requests : Transfer(q, n) \/ Clone(q, n) \/ Replace(q, n)
          \/ ReadSome(q) \/ Consume(q) \/ ConsumeStep(q)
          \/ Dispatch(q)
    \/ PumpStep
    \/ (Settle \/ Transport) /\ UNCHANGED poolVars

\* The event loop runs, sources produce, and the transport sends or gives up.
Fairness ==
    /\ WF_vars(PumpStep)
    /\ WF_vars(Transport /\ UNCHANGED poolVars)
    /\ \A q \in Requests : WF_vars(ConsumeStep(q))

Spec == Init /\ [][Next]_vars /\ Fairness

-----------------------------------------------------------------------------
(* Whoever uses a body gets all of it or an error: the upload sends what was given, and a
   text() that succeeds has the whole body, whatever transfers, clones, replays and partial
   reads came before. *)
WholeBodyOrError ==
    /\ SentAsGiven
    /\ \A q \in Requests : text[q] # "partial"

(* Liveness: a pump ends, even when the transport stops taking its chunks or the call is
   settled while a write waits for room. *)
UploadEnds == pump \in {"reading", "writing", "failing"} ~> pump = "over"

(* What README.md says of 307 and 308, that they preserve the body, and a test of Blob
   bodies for retries too: a Request whose body the program gave as a Blob, and nobody but
   the upload has drawn, can be sent again. *)
BlobBodiesReplay ==
    content[First] = "blob" /\ call = "settled" /\ taken[src[owner]] = item
        => Replayable(owner)
=============================================================================
