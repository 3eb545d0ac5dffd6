----------------------------- MODULE UploadStream -----------------------------
(***************************************************************************)
(* One streamed upload: the pump that prepareNativeUpload returns as       *)
(* `start` (src/http/body/bytes.ts, of a raw body or of the file parts of  *)
(* a form), the bounded channels of UPLOAD_STORE                           *)
(* (rust/src/store/upload_store.rs, rust/src/napi/upload.rs) and the       *)
(* transport that sends what it receives.  RequestBody composes it with    *)
(* the Request whose body it sends.                                        *)
(*                                                                         *)
(* A channel ends when its last sender is gone: the one in UPLOAD_STORE or *)
(* the clone a write holds.  That end is the end of the part, so a pump    *)
(* that fails must put its error into the channel first.                   *)
(***************************************************************************)
EXTENDS Naturals, Sequences

CONSTANTS
    Parts,          \* the number of file parts of a form
    Size,           \* the number of chunks of a raw body, and of a part
    Buffered        \* UPLOAD_BUFFERED_CHUNKS

ASSUME UploadAssumption ==
    /\ Parts \in Nat \ {0}
    /\ Size \in Nat
    /\ Buffered \in Nat \ {0}

VARIABLES
    kind,           \* what is uploaded: "form", "blob" or "stream"
    entries,        \* the parts whose handle is in UPLOAD_STORE
    channel,        \* what each channel holds: chunk numbers, or Failure
    receiving,      \* whether the transport still has the receivers
    cancelled,      \* the closure's `cancelled`
    pump,           \* the loop of `start`
    part,           \* the part it is at
    item,           \* the last chunk it read of that part
    call,           \* the native call
    sending,        \* what has become of the body the transport sends
    sendPart,       \* the part the transport is at
    wire            \* the chunks of each part it has sent

uploadVars == <<kind, entries, channel, receiving, cancelled, pump, part, item,
                call, sending, sendPart, wire>>

Failure == 0
PartsOf(k) == IF k = "form" THEN 1..Parts ELSE {1}
LastPart == IF kind = "form" THEN Parts ELSE 1
UpTo(n) == [i \in 1..n |-> i]

UploadTypeOK ==
    /\ kind \in {"form", "blob", "stream"}
    /\ entries \subseteq 1..Parts
    /\ channel \in [1..Parts -> Seq({Failure} \cup 1..Size)]
    /\ \A p \in 1..Parts : Len(channel[p]) <= Buffered
    /\ {receiving, cancelled} \subseteq BOOLEAN
    /\ pump \in {"idle", "reading", "writing", "failing", "over"}
    /\ part \in 1..Parts /\ item \in 0..Size
    /\ call \in {"none", "pending", "settled"}
    /\ sending \in {"no", "yes", "complete", "failed"}
    /\ sendPart \in 1..Parts
    /\ wire \in [1..Parts -> Seq(1..Size)]

UploadInit ==
    /\ kind = "stream"
    /\ channel = [p \in 1..Parts |-> <<>>]
    /\ wire = [p \in 1..Parts |-> <<>>]
    /\ part = 1 /\ item = 0 /\ sendPart = 1
    /\ entries = {} /\ receiving = FALSE /\ cancelled = FALSE
    /\ pump = "idle" /\ call = "none" /\ sending = "no"

Idle == pump \in {"idle", "over"} /\ call # "pending" /\ sending # "yes"

-----------------------------------------------------------------------------
(* nativeRequest.                                                          *)

\* prepareNativeUpload makes a closure and fresh channels.
Prepare(k) ==
    /\ Idle
    /\ kind' = k
    /\ channel' = [p \in 1..Parts |-> <<>>]
    /\ wire' = [p \in 1..Parts |-> <<>>]
    /\ part' = 1 /\ item' = 0 /\ sendPart' = 1

\* The handles exist, the binding takes the receivers, the pump starts.
StartUpload(k) ==
    /\ Prepare(k)
    /\ entries' = PartsOf(k) /\ receiving' = TRUE /\ cancelled' = FALSE
    /\ pump' = "reading" /\ call' = "pending" /\ sending' = "yes"

\* The binding refuses the options, or the signal is aborted: cancel() frees the handles.
RefuseUpload(k) ==
    /\ Prepare(k)
    /\ entries' = {} /\ receiving' = FALSE /\ cancelled' = TRUE
    /\ pump' = "over" /\ call' = "settled" /\ sending' = "failed"

Cancel ==
    /\ cancelled' = TRUE
    /\ entries' = IF cancelled THEN entries ELSE {}

\* The response, an error or an abort settles the call, even while the body is sent.
Settle ==
    /\ call = "pending"
    /\ call' = "settled"
    /\ Cancel
    /\ UNCHANGED <<kind, channel, receiving, pump, part, item, sending, sendPart, wire>>

-----------------------------------------------------------------------------
(* The pump.  Once cancelled, its reader gives it nothing but the end.     *)

Reading == pump = "reading" /\ ~cancelled

PumpSeesCancel ==
    /\ pump = "reading" /\ cancelled
    /\ pump' = "over"
    /\ UNCHANGED <<kind, entries, channel, receiving, cancelled, part, item, call,
                   sending, sendPart, wire>>

PumpReads(c) ==
    /\ Reading
    /\ item' = c
    /\ pump' = "writing"
    /\ UNCHANGED <<kind, entries, channel, receiving, cancelled, part, call, sending,
                   sendPart, wire>>

PumpReadsEnd ==
    /\ Reading
    /\ entries' = entries \ {part}
    /\ IF part < LastPart
         THEN part' = part + 1 /\ item' = 0 /\ UNCHANGED pump
         ELSE pump' = "over" /\ UNCHANGED <<part, item>>
    /\ UNCHANGED <<kind, channel, receiving, cancelled, call, sending, sendPart, wire>>

PumpReadFails ==
    /\ Reading
    /\ pump' = "failing"
    /\ UNCHANGED <<kind, entries, channel, receiving, cancelled, part, item, call,
                   sending, sendPart, wire>>

\* Defect: the channel takes any number of chunks.
RoomAlways == receiving

Room == receiving /\ Len(channel[part]) < Buffered

WriteLands ==
    /\ pump = "writing" /\ Room
    /\ channel' = [channel EXCEPT ![part] = Append(@, item)]
    /\ pump' = IF cancelled THEN "over" ELSE "reading"
    /\ UNCHANGED <<kind, entries, receiving, cancelled, part, item, call, sending,
                   sendPart, wire>>

\* Defect: only the handle of the part that failed is freed.
GiveUpPart ==
    /\ pump' = "over"
    /\ entries' = entries \ {part} /\ UNCHANGED cancelled

\* A form that fails frees the handles of its other parts too.
GiveUp ==
    /\ pump' = "over"
    /\ IF kind = "form" THEN Cancel ELSE entries' = entries \ {part} /\ UNCHANGED cancelled

\* Defect: a write asks for the receiver only while the call is pending.
WriteFailsInCall ==
    /\ pump = "writing" /\ ~receiving /\ call = "pending"
    /\ GiveUp
    /\ UNCHANGED <<kind, channel, receiving, part, item, call, sending, sendPart, wire>>

\* The receiver is gone: the write removes the handle, so failUpload finds none.
WriteFails ==
    /\ pump = "writing" /\ ~receiving
    /\ GiveUp
    /\ UNCHANGED <<kind, channel, receiving, part, item, call, sending, sendPart, wire>>

\* failUpload: the error waits for room, and only then is the handle removed.
FailureLands ==
    /\ pump = "failing" /\ (Room \/ ~receiving)
    /\ channel' = IF receiving THEN [channel EXCEPT ![part] = Append(@, Failure)] ELSE channel
    /\ GiveUp
    /\ UNCHANGED <<kind, receiving, part, item, call, sending, sendPart, wire>>

-----------------------------------------------------------------------------
(* The transport.                                                          *)

HasSender(p) == p \in entries \/ (pump \in {"writing", "failing"} /\ part = p)

Transmit ==
    /\ sending = "yes" /\ channel[sendPart] # <<>>
    /\ LET c == Head(channel[sendPart]) IN
       IF c = Failure
         THEN sending' = "failed" /\ receiving' = FALSE /\ UNCHANGED wire
         ELSE /\ wire' = [wire EXCEPT ![sendPart] = Append(@, c)]
              /\ UNCHANGED <<sending, receiving>>
    /\ channel' = [channel EXCEPT ![sendPart] = Tail(@)]
    /\ UNCHANGED <<kind, entries, cancelled, pump, part, item, call, sendPart>>

\* The channel ends.  A Blob and a form announce their length, so that ending short of it
\* breaks the request; a stream has no length: its end is the end of the body.
PartEnds ==
    /\ sending = "yes" /\ channel[sendPart] = <<>> /\ ~HasSender(sendPart)
    /\ \/ /\ kind # "stream" /\ Len(wire[sendPart]) < Size
          /\ sending' = "failed" /\ receiving' = FALSE
          /\ UNCHANGED sendPart
       \/ /\ kind = "stream" \/ Len(wire[sendPart]) = Size
          /\ IF sendPart < LastPart
               THEN sendPart' = sendPart + 1 /\ UNCHANGED <<sending, receiving>>
               ELSE sending' = "complete" /\ receiving' = FALSE /\ UNCHANGED sendPart
    /\ UNCHANGED <<kind, entries, channel, cancelled, pump, part, item, call, wire>>

\* The connection fails, or the task is aborted, or the server wants no more.
Disconnect ==
    /\ sending = "yes"
    /\ sending' = "failed" /\ receiving' = FALSE
    /\ UNCHANGED <<kind, entries, channel, cancelled, pump, part, item, call, sendPart, wire>>

Transport == Transmit \/ PartEnds \/ Disconnect
PumpWrites == WriteLands \/ WriteFails \/ FailureLands

-----------------------------------------------------------------------------
(* What goes over the wire is the body from its beginning, without a gap or a repetition,
   and the transport ends a short body as if it were whole only when the call had been
   settled: a source that fails never looks like one that ends. *)
SentAsGiven ==
    /\ \A p \in 1..Parts : wire[p] = UpTo(Len(wire[p]))
    /\ sending = "complete" /\ call = "pending" =>
          \A p \in PartsOf(kind) : Len(wire[p]) = Size

(* A pump that is over has left no handle in UPLOAD_STORE, in whichever way it ended. *)
HandlesFreed == pump = "over" => entries = {}
=============================================================================
