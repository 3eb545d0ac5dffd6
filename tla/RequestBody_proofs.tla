-------------------------- MODULE RequestBody_proofs --------------------------
(***************************************************************************)
(* Proofs about RequestBody and the UploadStream it is made of, for any    *)
(* number of Requests, parts, chunks and buffered chunks: its type         *)
(* invariant, WholeBodyOrError and HandlesFreed.                           *)
(*                                                                         *)
(* The inductive invariant has two halves.  UploadInv speaks of one upload *)
(* and is kept by every step of its pump, its call and its transport, for  *)
(* a pump that reads the chunk after the last one.  PoolInv speaks of the  *)
(* Requests, and is what makes a stream give its pump that chunk: nobody   *)
(* else draws from it.                                                     *)
(***************************************************************************)
EXTENDS RequestBody, SequenceFacts, TLAPS

PumpActive == pump \in {"reading", "writing", "failing"}

(* The handles left are those of parts the pump has yet to finish; a       *)
(* cancel frees all of them.                                               *)
HandlesOwned ==
    /\ part \in 1..LastPart /\ sendPart \in 1..LastPart
    /\ \A p \in entries : part <= p /\ p <= LastPart
    /\ cancelled => entries = {}
    /\ pump \in {"idle", "over"} => entries = {}

(* The chunks of its part the pump has put into the channel. *)
Written == IF pump = "writing" THEN item - 1 ELSE item

(* What a part has sent and what its channel holds are 1, 2, ... up to     *)
(* what was written; an error is only ever the last thing in a channel,    *)
(* and parts the pump has not come to are untouched.                       *)
Counted ==
    /\ \A p \in 1..Parts : wire[p] = UpTo(Len(wire[p]))
    /\ \A p \in 1..Parts : \A i \in 1..Len(channel[p]) :
          \/ channel[p][i] = Failure /\ i = Len(channel[p])
          \/ channel[p][i] = Len(wire[p]) + i
    /\ \A p \in 1..Parts : p > part => channel[p] = <<>> /\ wire[p] = <<>>
    /\ PumpActive =>
          /\ Len(wire[part]) + Len(channel[part]) = Written
          /\ \A i \in 1..Len(channel[part]) : channel[part][i] # Failure

(* A body that announces its length leaves no part behind it short. *)
PartsWhole ==
    /\ receiving <=> sending = "yes"
    /\ kind # "stream" =>
          /\ \A p \in 1..Parts : p < sendPart => Len(wire[p]) = Size
          /\ sending = "complete" => sendPart = LastPart /\ Len(wire[sendPart]) = Size

(* The channel of a stream ends while its call is pending only if the      *)
(* pump has read the stream's end, or has left an error in the channel.    *)
StreamWhole ==
    kind = "stream" /\ call = "pending" =>
        /\ pump # "idle"
        /\ PumpActive => 1 \in entries
        /\ sending = "yes" /\ pump = "over" =>
              \/ Len(wire[1]) + Len(channel[1]) = Size
              \/ channel[1] # <<>> /\ channel[1][Len(channel[1])] = Failure
        /\ sending = "complete" => Len(wire[1]) = Size

UploadInv == UploadTypeOK /\ HandlesOwned /\ Counted /\ PartsWhole /\ StreamWhole

(* A Request's stream belongs to a Request there is; one that does not     *)
(* exist yet has drawn nothing; a Blob is drawn from itself.               *)
SourcesKnown ==
    \A q \in Requests :
        /\ Present(q) => Present(src[q])
        /\ ~Present(q) => taken[q] = 0 /\ count[q] = 0 /\ text[q] = "none" /\ ~used[q]
        /\ content[q] = "blob" => src[q] = q

(* A Request whose stream was transferred can never draw from it again. *)
GivenAway ==
    \A q \in Requests :
        Streaming(q) /\ used[q] => drawn[q] /\ locked[q] /\ text[q] # "reading"

(* Of two Requests with the same stream, one has given it away. *)
OneUser ==
    \A q, n \in Requests :
        Streaming(q) /\ Streaming(n) /\ q # n /\ src[q] = src[n] => used[q] \/ used[n]

(* A stream nobody has drawn is whole. *)
Undrawn ==
    \A q \in Requests :
        Streaming(q) /\ ~drawn[q] => taken[src[q]] = 0 /\ count[q] = 0

(* A text() that is under way has all that was drawn. *)
TextWhole ==
    \A q \in Requests :
        /\ text[q] # "partial"
        /\ text[q] = "reading" =>
              /\ Streaming(q) /\ drawn[q] /\ locked[q] /\ ~used[q]
              /\ count[q] = taken[src[q]]

(* The pump of a stream has the only reader, and has all that was drawn. *)
PumpDraws ==
    PumpActive /\ kind = "stream" =>
        /\ content[owner] = "stream" /\ drawn[owner] /\ locked[owner] /\ ~used[owner]
        /\ text[owner] # "reading" /\ taken[src[owner]] = item

(* The type invariant of the Requests. *)
PoolTypeOK ==
    /\ content \in [Requests -> Bodies \cup {"absent"}]
    /\ used \in [Requests -> BOOLEAN]
    /\ drawn \in [Requests -> BOOLEAN]
    /\ locked \in [Requests -> BOOLEAN]
    /\ src \in [Requests -> Requests]
    /\ taken \in [Requests -> 0..Size]
    /\ text \in [Requests -> {"none", "reading", "whole", "partial", "failed"}]
    /\ count \in [Requests -> 0..Size]
    /\ owner \in Requests

PoolInv == SourcesKnown /\ GivenAway /\ OneUser /\ Undrawn /\ TextWhole /\ PumpDraws

(* The inductive invariant. *)
IInv == UploadInv /\ PoolTypeOK /\ PoolInv

-----------------------------------------------------------------------------
(* The upload.                                                             *)

(* The steps of an upload whose pump reads the chunk after the last one,   *)
(* and the end of the body after the last chunk.                           *)
UploadStep ==
    \/ \E k \in {"form", "blob", "stream"} : StartUpload(k) \/ RefuseUpload(k)
    \/ Settle
    \/ PumpSeesCancel \/ PumpReadFails \/ PumpWrites
    \/ item < Size /\ PumpReads(item + 1)
    \/ item = Size /\ PumpReadsEnd
    \/ Transport

(* What the types say of the constants and of the part the pump is at. *)
LEMMA UploadTypes ==
    ASSUME UploadInv
    PROVE  /\ Parts \in Nat /\ Parts >= 1 /\ Size \in Nat /\ Buffered \in Nat /\ Buffered >= 1
           /\ LastPart \in 1..Parts /\ 1 \in 1..Parts
           /\ part \in 1..LastPart /\ part \in 1..Parts /\ part \in Nat
           /\ sendPart \in 1..LastPart /\ sendPart \in 1..Parts /\ sendPart \in Nat
           /\ item \in Nat /\ item <= Size
           /\ \A p \in 1..Parts :
                 /\ channel[p] \in Seq({Failure} \cup 1..Size) /\ wire[p] \in Seq(1..Size)
                 /\ Len(channel[p]) \in Nat /\ Len(wire[p]) \in Nat
                 /\ channel[p] = <<>> <=> Len(channel[p]) = 0
<1>1. /\ Parts \in Nat /\ Parts >= 1 /\ Size \in Nat /\ Buffered \in Nat /\ Buffered >= 1
      /\ LastPart \in 1..Parts /\ 1 \in 1..Parts
  BY UploadAssumption DEF LastPart
<1>2. /\ part \in 1..LastPart /\ part \in 1..Parts /\ part \in Nat
      /\ sendPart \in 1..LastPart /\ sendPart \in 1..Parts /\ sendPart \in Nat
  BY <1>1 DEF UploadInv, HandlesOwned
<1>3. item \in Nat /\ item <= Size
  BY <1>1 DEF UploadInv, UploadTypeOK
<1>4. ASSUME NEW p \in 1..Parts
      PROVE  /\ channel[p] \in Seq({Failure} \cup 1..Size) /\ wire[p] \in Seq(1..Size)
             /\ Len(channel[p]) \in Nat /\ Len(wire[p]) \in Nat
             /\ channel[p] = <<>> <=> Len(channel[p]) = 0
  <2>1. channel[p] \in Seq({Failure} \cup 1..Size) /\ wire[p] \in Seq(1..Size)
    BY DEF UploadInv, UploadTypeOK
  <2> QED
    BY <2>1, EmptyIffNoLength
<1> QED
  BY <1>1, <1>2, <1>3, <1>4

(* A new upload has written and sent nothing. *)
LEMMA FreshUpload ==
    ASSUME channel' = [p \in 1..Parts |-> <<>>], wire' = [p \in 1..Parts |-> <<>>]
    PROVE  /\ channel' \in [1..Parts -> Seq({Failure} \cup 1..Size)]
           /\ wire' \in [1..Parts -> Seq(1..Size)]
           /\ \A p \in 1..Parts : /\ Len(channel'[p]) = 0 /\ Len(wire'[p]) = 0
                                  /\ channel'[p] = <<>> /\ wire'[p] = <<>>
                                  /\ wire'[p] = UpTo(0)
<1>1. <<>> = UpTo(0)
  BY DEF UpTo
<1>2. <<>> \in Seq({Failure} \cup 1..Size) /\ <<>> \in Seq(1..Size) /\ Len(<<>>) = 0
  OBVIOUS
<1> QED
  BY <1>1, <1>2

(* A new upload, and one that is refused, begins with the invariant. *)
LEMMA PrepareKept ==
    ASSUME UploadInv, NEW k \in {"form", "blob", "stream"},
           StartUpload(k) \/ RefuseUpload(k)
    PROVE  UploadInv'
<1>1. /\ kind' = k /\ part' = 1 /\ item' = 0 /\ sendPart' = 1
      /\ channel' = [p \in 1..Parts |-> <<>>] /\ wire' = [p \in 1..Parts |-> <<>>]
      /\ \/ /\ entries' = PartsOf(k) /\ receiving' = TRUE /\ cancelled' = FALSE
            /\ pump' = "reading" /\ call' = "pending" /\ sending' = "yes"
         \/ /\ entries' = {} /\ receiving' = FALSE /\ cancelled' = TRUE
            /\ pump' = "over" /\ call' = "settled" /\ sending' = "failed"
  BY DEF StartUpload, RefuseUpload, Prepare
<1>2. /\ channel' \in [1..Parts -> Seq({Failure} \cup 1..Size)]
      /\ wire' \in [1..Parts -> Seq(1..Size)]
      /\ \A p \in 1..Parts : /\ Len(channel'[p]) = 0 /\ Len(wire'[p]) = 0
                             /\ channel'[p] = <<>> /\ wire'[p] = <<>>
                             /\ wire'[p] = UpTo(0)
  BY <1>1, FreshUpload
<1>3. /\ Parts \in Nat /\ Parts >= 1 /\ Size \in Nat /\ Buffered \in Nat /\ Buffered >= 1
      /\ 1 \in 1..Parts /\ LastPart' \in 1..Parts
  BY <1>1, UploadTypes DEF LastPart
<1>4. /\ entries' \subseteq 1..Parts
      /\ \A p \in entries' : 1 <= p /\ p <= LastPart'
      /\ k = "stream" /\ pump' = "reading" => 1 \in entries'
  BY <1>1, <1>3 DEF PartsOf, LastPart
<1>5. UploadTypeOK'
  <2>1. /\ kind' \in {"form", "blob", "stream"} /\ pump' \in {"reading", "over"}
        /\ call' \in {"pending", "settled"} /\ sending' \in {"yes", "failed"}
        /\ {receiving', cancelled'} \subseteq BOOLEAN
    BY <1>1
  <2>2. part' \in 1..Parts /\ item' \in 0..Size /\ sendPart' \in 1..Parts
    BY <1>1, <1>3
  <2>3. \A p \in 1..Parts : Len(channel'[p]) <= Buffered
    BY <1>2, <1>3
  <2> QED
    BY <2>1, <2>2, <2>3, <1>2, <1>4 DEF UploadTypeOK
<1>6. HandlesOwned'
  BY <1>1, <1>3, <1>4 DEF HandlesOwned
<1>7. Counted'
  BY <1>1, <1>2, <1>3 DEF Counted, PumpActive, Written
<1>8. PartsWhole'
  BY <1>1, <1>3 DEF PartsWhole
<1>9. StreamWhole'
  BY <1>1, <1>4 DEF StreamWhole, PumpActive
<1> QED
  BY <1>5, <1>6, <1>7, <1>8, <1>9 DEF UploadInv

(* Freeing handles after a failure leaves none that the pump has to free. *)
LEMMA CallAndPumpKept ==
    ASSUME UploadInv, Settle \/ PumpSeesCancel \/ PumpReadFails \/ WriteFails
    PROVE  UploadInv'
<1>1. UNCHANGED <<kind, channel, receiving, part, item, sending, sendPart, wire>>
  BY DEF Settle, PumpSeesCancel, PumpReadFails, WriteFails
<1>2. /\ pump' \in {pump, "over", "failing"} /\ call' \in {call, "settled"}
      /\ \/ pump' = pump /\ call' = "settled" /\ cancelled' = TRUE /\ entries' = {}
         \/ pump = "reading" /\ cancelled /\ pump' = "over"
            /\ call' = call /\ cancelled' = cancelled /\ entries' = entries
         \/ pump = "reading" /\ ~cancelled /\ pump' = "failing"
            /\ call' = call /\ cancelled' = cancelled /\ entries' = entries
         \/ pump = "writing" /\ ~receiving /\ pump' = "over" /\ call' = call
            /\ \/ entries' = {} /\ cancelled' = TRUE
               \/ kind # "form" /\ entries' = entries \ {part} /\ cancelled' = cancelled
  <2>0. cancelled \in BOOLEAN /\ (cancelled => entries = {})
    BY DEF UploadInv, HandlesOwned, UploadTypeOK
  <2>1. CASE Settle
    BY <2>0, <2>1 DEF Settle, Cancel
  <2>2. CASE PumpSeesCancel
    BY <2>2 DEF PumpSeesCancel
  <2>3. CASE PumpReadFails
    BY <2>3 DEF PumpReadFails, Reading
  <2>4. CASE WriteFails
    BY <2>0, <2>4 DEF WriteFails, GiveUp, Cancel
  <2> QED
    BY <2>1, <2>2, <2>3, <2>4
<1>3. UploadTypeOK'
  BY <1>1, <1>2 DEF UploadInv, UploadTypeOK
<1>4. HandlesOwned'
  <2>1. entries' \subseteq entries
    BY <1>2
  <2>2. kind # "form" /\ entries' = entries \ {part} => entries' = {}
    BY UploadTypes DEF UploadInv, UploadTypeOK, HandlesOwned, LastPart
  <2>3. cancelled' => entries' = {}
    BY <1>2, <2>2 DEF UploadInv, HandlesOwned
  <2>4. pump' \in {"idle", "over"} => entries' = {}
    BY <1>2, <2>2 DEF UploadInv, HandlesOwned
  <2>5. LastPart' = LastPart
    BY <1>1 DEF LastPart
  <2> QED
    BY <1>1, <2>1, <2>3, <2>4, <2>5 DEF UploadInv, HandlesOwned
<1>5. Counted'
  BY <1>1, <1>2 DEF UploadInv, Counted, PumpActive, Written
<1>6. PartsWhole'
  BY <1>1 DEF UploadInv, PartsWhole, LastPart
<1>7. StreamWhole'
  BY <1>1, <1>2 DEF UploadInv, StreamWhole, PartsWhole, HandlesOwned, PumpActive
<1> QED
  BY <1>3, <1>4, <1>5, <1>6, <1>7 DEF UploadInv

(* The pump reads the next chunk of its part. *)
LEMMA PumpReadsKept ==
    ASSUME UploadInv, item < Size, PumpReads(item + 1)
    PROVE  UploadInv'
<1>1. /\ UNCHANGED <<kind, entries, channel, receiving, cancelled, part, call, sending,
                     sendPart, wire>>
      /\ pump = "reading" /\ ~cancelled /\ pump' = "writing" /\ item' = item + 1
  BY DEF PumpReads, Reading
<1>2. item' \in 0..Size /\ Written' = Written
  <2>1. item \in Nat /\ Size \in Nat /\ item < Size
    BY UploadTypes
  <2>2. item' \in 0..Size /\ item' - 1 = item
    BY <1>1, <2>1
  <2> QED
    BY <1>1, <2>2 DEF Written
<1>3. UploadTypeOK'
  BY <1>1, <1>2 DEF UploadInv, UploadTypeOK
<1>4. HandlesOwned'
  BY <1>1 DEF UploadInv, HandlesOwned, LastPart
<1>5. Counted'
  BY <1>1, <1>2 DEF UploadInv, Counted, PumpActive
<1>6. PartsWhole'
  BY <1>1 DEF UploadInv, PartsWhole, LastPart
<1>7. StreamWhole'
  BY <1>1 DEF UploadInv, StreamWhole, PumpActive
<1> QED
  BY <1>3, <1>4, <1>5, <1>6, <1>7 DEF UploadInv

(* The pump reads the end of its part: it has written the whole part, and  *)
(* goes on with the next one, of which nothing was written.                *)
LEMMA PumpReadsEndKept ==
    ASSUME UploadInv, item = Size, PumpReadsEnd
    PROVE  UploadInv'
<1>1. /\ UNCHANGED <<kind, channel, receiving, cancelled, call, sending, sendPart, wire>>
      /\ pump = "reading" /\ ~cancelled /\ entries' = entries \ {part}
      /\ \/ part < LastPart /\ part' = part + 1 /\ item' = 0 /\ pump' = pump
         \/ ~(part < LastPart) /\ pump' = "over" /\ part' = part /\ item' = item
  BY DEF PumpReadsEnd, Reading
<1>2. LastPart' = LastPart
  BY <1>1 DEF LastPart
<1>3. part' \in 1..LastPart /\ part' \in 1..Parts /\ item' \in 0..Size
  BY <1>1, UploadTypes
<1>4. entries' \subseteq 1..Parts /\ \A p \in entries' : part' <= p /\ p <= LastPart
  BY <1>1, UploadTypes DEF UploadInv, UploadTypeOK, HandlesOwned
<1>5. pump' = "over" => entries' = {}
  BY <1>1, UploadTypes DEF UploadInv, UploadTypeOK, HandlesOwned
<1>6. UploadTypeOK'
  BY <1>1, <1>3, <1>4 DEF UploadInv, UploadTypeOK
<1>7. HandlesOwned'
  BY <1>1, <1>2, <1>3, <1>4, <1>5 DEF UploadInv, HandlesOwned
<1>8. Counted'
  <2>1. ASSUME NEW p \in 1..Parts, p > part'
        PROVE  channel'[p] = <<>> /\ wire'[p] = <<>>
    <3>1. p > part
      BY <1>1, <2>1, UploadTypes
    <3> QED
      BY <1>1, <3>1 DEF UploadInv, Counted
  <2>2. ASSUME PumpActive'
        PROVE  /\ Len(wire'[part']) + Len(channel'[part']) = Written'
               /\ \A i \in 1..Len(channel'[part']) : channel'[part'][i] # Failure
    <3>1. part' > part /\ item' = 0 /\ pump' = "reading"
      BY <1>1, <2>2, UploadTypes DEF PumpActive
    <3>2. channel'[part'] = <<>> /\ wire'[part'] = <<>>
      BY <1>1, <1>3, <3>1 DEF UploadInv, Counted
    <3>3. Len(channel'[part']) = 0 /\ Len(wire'[part']) = 0
      BY <3>2
    <3> QED
      BY <3>1, <3>3 DEF Written
  <2> QED
    BY <1>1, <2>1, <2>2 DEF UploadInv, Counted
<1>9. PartsWhole'
  BY <1>1, <1>2 DEF UploadInv, PartsWhole
<1>10. StreamWhole'
  <2> SUFFICES ASSUME kind = "stream"
               PROVE  StreamWhole'
    BY <1>1 DEF StreamWhole
  <2>1. LastPart = 1 /\ part = 1 /\ pump' = "over"
    BY <1>1, UploadTypes DEF LastPart
  <2>2. Len(wire[1]) + Len(channel[1]) = Size
    BY <1>1, <2>1 DEF UploadInv, Counted, PumpActive, Written
  <2>3. Len(wire'[1]) + Len(channel'[1]) = Size
    BY <1>1, <2>2
  <2> QED
    BY <1>1, <2>1, <2>3 DEF UploadInv, StreamWhole, PumpActive
<1> QED
  BY <1>6, <1>7, <1>8, <1>9, <1>10 DEF UploadInv

(* A chunk goes into the channel. *)
LEMMA WriteLandsKept ==
    ASSUME UploadInv, WriteLands
    PROVE  UploadInv'
<1> DEFINE old == channel[part]
<1>1. /\ UNCHANGED <<kind, entries, receiving, cancelled, part, item, call, sending,
                     sendPart, wire>>
      /\ pump = "writing" /\ receiving /\ Len(old) < Buffered
      /\ channel' = [channel EXCEPT ![part] = Append(old, item)]
      /\ pump' = IF cancelled THEN "over" ELSE "reading"
  BY DEF WriteLands, Room
<1>2. /\ part \in 1..Parts /\ item \in Nat /\ Size \in Nat /\ item <= Size /\ Buffered \in Nat
      /\ old \in Seq({Failure} \cup 1..Size) /\ wire[part] \in Seq(1..Size)
      /\ Len(old) \in Nat /\ Len(wire[part]) \in Nat
  BY UploadTypes
<1>3. /\ Len(wire[part]) + Len(old) = item - 1
      /\ \A i \in 1..Len(old) : old[i] # Failure
  BY <1>1 DEF UploadInv, Counted, PumpActive, Written
<1>4. item \in {Failure} \cup 1..Size /\ item # Failure /\ item = Len(wire[part]) + (Len(old) + 1)
  <2>1. Len(wire[part]) \in Nat /\ Len(old) \in Nat /\ item \in Nat /\ Size \in Nat
        /\ item <= Size /\ Len(wire[part]) + Len(old) = item - 1
    BY <1>2, <1>3
  <2>2. \A a, b, c, d \in Nat :
           c <= d /\ a + b = c - 1 => c = a + (b + 1) /\ c # 0 /\ c \in 1..d
    OBVIOUS
  <2>3. item = Len(wire[part]) + (Len(old) + 1) /\ item # 0 /\ item \in 1..Size
    BY <2>1, <2>2
  <2> QED
    BY <2>3 DEF Failure
<1>5. /\ channel'[part] = Append(old, item)
      /\ \A p \in 1..Parts : p # part => channel'[p] = channel[p]
      /\ Append(old, item) \in Seq({Failure} \cup 1..Size)
      /\ channel' \in [1..Parts -> Seq({Failure} \cup 1..Size)]
  <2>1. Append(old, item) \in Seq({Failure} \cup 1..Size)
    BY <1>2, <1>4, AppendFacts
  <2> QED
    BY <1>1, <1>2, <2>1 DEF UploadInv, UploadTypeOK
<1>6. /\ Len(channel'[part]) = Len(old) + 1
      /\ \A i \in 1..Len(old) : channel'[part][i] = old[i]
      /\ channel'[part][Len(old) + 1] = item
  <2>1. old \in Seq({Failure} \cup 1..Size) /\ item \in {Failure} \cup 1..Size
    BY <1>2, <1>4
  <2>2. /\ Len(Append(old, item)) = Len(old) + 1
        /\ \A i \in 1..Len(old) : Append(old, item)[i] = old[i]
        /\ Append(old, item)[Len(old) + 1] = item
    BY <2>1, AppendFacts
  <2> QED
    BY <1>5, <2>2
<1>7. UploadTypeOK'
  <2>1. \A p \in 1..Parts : Len(channel'[p]) <= Buffered
    <3>1. Len(old) + 1 <= Buffered
      BY <1>1, <1>2
    <3> QED
      BY <1>5, <1>6, <3>1 DEF UploadInv, UploadTypeOK
  <2> QED
    BY <1>1, <1>5, <2>1 DEF UploadInv, UploadTypeOK
<1>8. HandlesOwned'
  BY <1>1 DEF UploadInv, HandlesOwned, LastPart
<1>9. \A i \in 1..Len(channel'[part]) :
         channel'[part][i] # Failure /\ channel'[part][i] = Len(wire[part]) + i
  <2> SUFFICES ASSUME NEW i \in 1..(Len(old) + 1)
               PROVE  channel'[part][i] # Failure /\ channel'[part][i] = Len(wire[part]) + i
    BY <1>6
  <2>1. CASE i \in 1..Len(old)
    BY <1>2, <1>3, <1>6, <2>1 DEF UploadInv, Counted
  <2>2. CASE i = Len(old) + 1
    BY <1>4, <1>6, <2>2
  <2> QED
    BY <1>2, <2>1, <2>2
<1>10. Counted'
  <2>1. Len(wire'[part']) + Len(channel'[part']) = item
    <3>1. Len(channel'[part]) = Len(old) + 1
      BY <1>6
    <3>2. Len(wire[part]) + (Len(old) + 1) = item
      BY <1>4
    <3> QED
      BY <1>1, <3>1, <3>2
  <2>2. PumpActive' => Written' = item
    BY <1>1 DEF PumpActive, Written
  <2>3. \A p \in 1..Parts : p > part => p # part
    BY <1>2
  <2>4. \A p \in 1..Parts : p > part' => channel'[p] = <<>> /\ wire'[p] = <<>>
    BY <1>1, <1>5, <2>3 DEF UploadInv, Counted
  <2>5. \A p \in 1..Parts : \A i \in 1..Len(channel'[p]) :
           \/ channel'[p][i] = Failure /\ i = Len(channel'[p])
           \/ channel'[p][i] = Len(wire'[p]) + i
    BY <1>1, <1>5, <1>9 DEF UploadInv, Counted
  <2>6. \A p \in 1..Parts : wire'[p] = UpTo(Len(wire'[p]))
    BY <1>1 DEF UploadInv, Counted
  <2> QED
    BY <1>1, <1>9, <2>1, <2>2, <2>4, <2>5, <2>6 DEF Counted
<1>11. PartsWhole'
  BY <1>1 DEF UploadInv, PartsWhole, LastPart
<1>12. StreamWhole'
  <2>1. cancelled => entries = {}
    BY DEF UploadInv, HandlesOwned
  <2> QED
    BY <1>1, <2>1 DEF UploadInv, StreamWhole, PartsWhole, PumpActive
<1> QED
  BY <1>7, <1>8, <1>10, <1>11, <1>12 DEF UploadInv

(* The error of a source goes into the channel, behind its chunks. *)
LEMMA FailureLandsKept ==
    ASSUME UploadInv, FailureLands
    PROVE  UploadInv'
<1> DEFINE old == channel[part]
<1>1. /\ UNCHANGED <<kind, receiving, part, item, call, sending, sendPart, wire>>
      /\ pump = "failing" /\ pump' = "over"
      /\ \/ receiving /\ Len(old) < Buffered
            /\ channel' = [channel EXCEPT ![part] = Append(old, Failure)]
         \/ ~receiving /\ channel' = channel
  BY DEF FailureLands, Room, GiveUp
<1>2. /\ part \in 1..Parts /\ Buffered \in Nat
      /\ old \in Seq({Failure} \cup 1..Size) /\ wire[part] \in Seq(1..Size)
      /\ Len(old) \in Nat /\ Len(wire[part]) \in Nat
  BY UploadTypes
<1>3. entries' = {} /\ cancelled' \in BOOLEAN
  <2>1. cancelled \in BOOLEAN /\ (cancelled => entries = {})
    BY DEF UploadInv, HandlesOwned, UploadTypeOK
  <2>2. kind # "form" => entries \ {part} = {}
    BY UploadTypes DEF UploadInv, UploadTypeOK, HandlesOwned, LastPart
  <2> QED
    BY <2>1, <2>2 DEF FailureLands, GiveUp, Cancel
<1>4. HandlesOwned'
  BY <1>1, <1>3 DEF UploadInv, HandlesOwned, LastPart
<1>5. PartsWhole'
  BY <1>1 DEF UploadInv, PartsWhole, LastPart
<1>6. CASE ~receiving
  <2>1. channel' = channel
    BY <1>1, <1>6
  <2>2. UploadTypeOK'
    BY <1>1, <1>3, <2>1 DEF UploadInv, UploadTypeOK
  <2>3. Counted'
    BY <1>1, <2>1 DEF UploadInv, Counted, PumpActive
  <2>4. StreamWhole'
    BY <1>1, <1>6, <2>1 DEF UploadInv, StreamWhole, PartsWhole, PumpActive
  <2> QED
    BY <1>4, <1>5, <2>2, <2>3, <2>4 DEF UploadInv
<1>7. CASE receiving
  <2>1. Append(old, Failure) \in Seq({Failure} \cup 1..Size)
    BY <1>2, AppendFacts
  <2>2. /\ channel'[part] = Append(old, Failure)
        /\ \A p \in 1..Parts : p # part => channel'[p] = channel[p]
        /\ channel' \in [1..Parts -> Seq({Failure} \cup 1..Size)]
    BY <1>1, <1>2, <1>7, <2>1 DEF UploadInv, UploadTypeOK
  <2>3. /\ Len(channel'[part]) = Len(old) + 1
        /\ \A i \in 1..Len(old) : channel'[part][i] = old[i]
        /\ channel'[part][Len(old) + 1] = Failure
        /\ channel'[part] # <<>>
    BY <1>2, <2>2, AppendFacts
  <2>4. \A p \in 1..Parts : Len(channel'[p]) <= Buffered
    <3>1. Len(old) + 1 <= Buffered
      BY <1>1, <1>2, <1>7
    <3> QED
      BY <2>2, <2>3, <3>1 DEF UploadInv, UploadTypeOK
  <2>5. UploadTypeOK'
    BY <1>1, <1>3, <2>2, <2>4 DEF UploadInv, UploadTypeOK
  <2>6. ASSUME NEW i \in 1..Len(channel'[part])
        PROVE  \/ channel'[part][i] = Failure /\ i = Len(channel'[part])
               \/ channel'[part][i] = Len(wire[part]) + i
    <3>1. CASE i \in 1..Len(old)
      <4>1. old[i] # Failure
        BY <1>1, <3>1 DEF UploadInv, Counted, PumpActive
      <4>2. old[i] = Len(wire[part]) + i
        BY <1>2, <3>1, <4>1 DEF UploadInv, Counted
      <4> QED
        BY <2>3, <3>1, <4>2
    <3>2. CASE i = Len(old) + 1
      BY <2>3, <3>2
    <3> QED
      BY <1>2, <2>3, <3>1, <3>2
  <2>7. Counted'
    <3>1. \A p \in 1..Parts : p > part => p # part
      BY <1>2
    <3>2. \A p \in 1..Parts : p > part' => channel'[p] = <<>> /\ wire'[p] = <<>>
      BY <1>1, <2>2, <3>1 DEF UploadInv, Counted
    <3>3. \A p \in 1..Parts : \A i \in 1..Len(channel'[p]) :
             \/ channel'[p][i] = Failure /\ i = Len(channel'[p])
             \/ channel'[p][i] = Len(wire'[p]) + i
      BY <1>1, <2>2, <2>6 DEF UploadInv, Counted
    <3>4. \A p \in 1..Parts : wire'[p] = UpTo(Len(wire'[p]))
      BY <1>1 DEF UploadInv, Counted
    <3> QED
      BY <1>1, <3>2, <3>3, <3>4 DEF Counted, PumpActive
  <2>8. StreamWhole'
    <3>1. kind = "stream" => part = 1
      BY UploadTypes DEF LastPart
    <3>2. receiving => sending = "yes"
      BY DEF UploadInv, PartsWhole
    <3> QED
      BY <1>1, <1>7, <2>3, <3>1, <3>2 DEF StreamWhole, PumpActive
  <2> QED
    BY <1>4, <1>5, <2>5, <2>7, <2>8 DEF UploadInv
<1> QED
  BY <1>6, <1>7

(* The transport sends a chunk, or meets the error behind the chunks. *)
LEMMA TransmitKept ==
    ASSUME UploadInv, Transmit
    PROVE  UploadInv'
<1> DEFINE old == channel[sendPart]
           done == wire[sendPart]
           c == Head(old)
<1>1. /\ UNCHANGED <<kind, entries, cancelled, pump, part, item, call, sendPart>>
      /\ sending = "yes" /\ old # <<>>
      /\ channel' = [channel EXCEPT ![sendPart] = Tail(old)]
      /\ \/ c = Failure /\ sending' = "failed" /\ receiving' = FALSE /\ wire' = wire
         \/ c # Failure /\ wire' = [wire EXCEPT ![sendPart] = Append(done, c)]
            /\ sending' = sending /\ receiving' = receiving
  BY DEF Transmit
<1>2. /\ sendPart \in 1..Parts /\ sendPart \in Nat /\ part \in Nat /\ Size \in Nat
      /\ old \in Seq({Failure} \cup 1..Size) /\ done \in Seq(1..Size)
      /\ Len(old) \in Nat /\ Len(done) \in Nat
  BY UploadTypes
<1>3. /\ c = old[1] /\ c \in {Failure} \cup 1..Size
      /\ Tail(old) \in Seq({Failure} \cup 1..Size)
      /\ Len(old) > 0
      /\ Len(Tail(old)) = Len(old) - 1
      /\ Tail(old) = <<>> <=> Len(old) = 1
      /\ \A i \in 1..Len(Tail(old)) : Tail(old)[i] = old[i + 1]
  <2>1. old \in Seq({Failure} \cup 1..Size) /\ old # <<>>
    BY <1>1, <1>2
  <2> QED
    BY <2>1, TailFacts
<1>4. /\ channel'[sendPart] = Tail(old)
      /\ \A p \in 1..Parts : p # sendPart => channel'[p] = channel[p]
      /\ channel' \in [1..Parts -> Seq({Failure} \cup 1..Size)]
  BY <1>1, <1>2, <1>3 DEF UploadInv, UploadTypeOK
<1>5. \A p \in 1..Parts : Len(channel'[p]) <= Buffered
  <2>1. Len(old) - 1 <= Buffered
    <3>1. Len(old) <= Buffered /\ Buffered \in Nat
      BY <1>2, UploadTypes DEF UploadInv, UploadTypeOK
    <3> QED
      BY <1>2, <3>1
  <2> QED
    BY <1>3, <1>4, <2>1 DEF UploadInv, UploadTypeOK
<1>6. HandlesOwned'
  BY <1>1 DEF UploadInv, HandlesOwned, LastPart
<1>7. /\ (old[1] = Failure /\ 1 = Len(old)) \/ old[1] = Len(done) + 1
      /\ \A i \in 1..Len(Tail(old)) :
            \/ Tail(old)[i] = Failure /\ i = Len(Tail(old))
            \/ Tail(old)[i] = (Len(done) + 1) + i
      /\ done = UpTo(Len(done))
      /\ ~(sendPart > part)
  <2>1. \A i \in 1..Len(old) : (old[i] = Failure /\ i = Len(old)) \/ old[i] = Len(done) + i
    BY <1>2 DEF UploadInv, Counted
  <2>2. 1 \in 1..Len(old) /\ \A i \in 1..Len(Tail(old)) : i + 1 \in 1..Len(old)
    BY <1>2, <1>3
  <2>3. ASSUME NEW i \in 1..Len(Tail(old))
        PROVE  \/ Tail(old)[i] = Failure /\ i = Len(Tail(old))
               \/ Tail(old)[i] = (Len(done) + 1) + i
    <3>1. Tail(old)[i] = old[i + 1]
      BY <1>3
    <3>2. (old[i + 1] = Failure /\ i + 1 = Len(old)) \/ old[i + 1] = Len(done) + (i + 1)
      BY <2>1, <2>2
    <3>3. i \in Nat /\ Len(Tail(old)) = Len(old) - 1
      BY <1>3
    <3>4. Len(done) \in Nat /\ Len(old) \in Nat
      BY <1>2
    <3>5. CASE old[i + 1] = Failure /\ i + 1 = Len(old)
      <4>1. i = Len(Tail(old))
        BY <3>3, <3>4, <3>5
      <4> QED
        BY <3>1, <3>5, <4>1
    <3>6. CASE old[i + 1] = Len(done) + (i + 1)
      <4>1. \A a, b \in Nat : a + (b + 1) = (a + 1) + b
        OBVIOUS
      <4>2. Len(done) + (i + 1) = (Len(done) + 1) + i
        BY <3>3, <3>4, <4>1
      <4> QED
        BY <3>1, <3>6, <4>2
    <3> QED
      BY <3>2, <3>5, <3>6
  <2>4. done = UpTo(Len(done)) /\ ~(sendPart > part)
    BY <1>1, <1>2 DEF UploadInv, Counted
  <2> QED
    BY <2>1, <2>2, <2>3, <2>4
<1>8. \A p \in 1..Parts : p > part' => channel'[p] = <<>> /\ p # sendPart
  BY <1>1, <1>2, <1>4, <1>7 DEF UploadInv, Counted
<1>9. CASE c = Failure
  <2>1. wire' = wire /\ sending' = "failed" /\ receiving' = FALSE
    BY <1>1, <1>9
  <2>2. UploadTypeOK'
    BY <1>1, <1>4, <1>5, <2>1 DEF UploadInv, UploadTypeOK
  <2>3. PumpActive => sendPart # part
    BY <1>2, <1>3, <1>9 DEF UploadInv, Counted
  <2>4. Len(Tail(old)) = 0
    <3>1. Len(done) + 1 # 0
      BY <1>2
    <3> QED
      BY <1>3, <1>7, <1>9, <3>1 DEF Failure
  <2>5. \A p \in 1..Parts : \A i \in 1..Len(channel'[p]) :
           \/ channel'[p][i] = Failure /\ i = Len(channel'[p])
           \/ channel'[p][i] = Len(wire'[p]) + i
    <3> SUFFICES ASSUME NEW p \in 1..Parts, NEW i \in 1..Len(channel'[p])
                 PROVE  \/ channel'[p][i] = Failure /\ i = Len(channel'[p])
                        \/ channel'[p][i] = Len(wire'[p]) + i
      OBVIOUS
    <3>1. Len(channel'[sendPart]) = 0
      BY <1>4, <2>4
    <3>2. p # sendPart
      BY <3>1
    <3>3. channel'[p] = channel[p] /\ wire'[p] = wire[p]
      BY <1>4, <2>1, <3>2
    <3> QED
      BY <3>3 DEF UploadInv, Counted
  <2>6. Counted'
    <3>1. part \in 1..Parts
      BY UploadTypes
    <3> QED
      BY <1>1, <1>4, <1>8, <2>1, <2>3, <2>5, <3>1 DEF UploadInv, Counted, PumpActive, Written
  <2>7. PartsWhole'
    BY <1>1, <2>1 DEF UploadInv, PartsWhole, LastPart
  <2>8. StreamWhole'
    BY <1>1, <2>1 DEF UploadInv, StreamWhole, PumpActive
  <2> QED
    BY <1>6, <2>2, <2>6, <2>7, <2>8 DEF UploadInv
<1>10. CASE c # Failure
  <2>1. /\ wire' = [wire EXCEPT ![sendPart] = Append(done, c)]
        /\ sending' = sending /\ receiving' = receiving
    BY <1>1, <1>10
  <2>2. c = Len(done) + 1 /\ c \in 1..Size
    BY <1>3, <1>7, <1>10
  <2>3. /\ Append(done, c) \in Seq(1..Size)
        /\ Len(Append(done, c)) = Len(done) + 1
        /\ Append(done, c) = UpTo(Len(done) + 1)
    <3>1. done \in Seq(1..Size) /\ c \in 1..Size
      BY <1>2, <2>2
    <3>2. Append(UpTo(Len(done)), Len(done) + 1) = UpTo(Len(done) + 1)
      BY <1>2, CountingOn DEF UpTo
    <3>3. Append(done, c) = UpTo(Len(done) + 1)
      BY <1>7, <2>2, <3>2
    <3> QED
      BY <3>1, <3>3, AppendFacts
  <2>4. /\ wire'[sendPart] = Append(done, c)
        /\ \A p \in 1..Parts : p # sendPart => wire'[p] = wire[p]
        /\ wire' \in [1..Parts -> Seq(1..Size)]
    BY <1>2, <2>1, <2>3 DEF UploadInv, UploadTypeOK
  <2>5. UploadTypeOK'
    BY <1>1, <1>4, <1>5, <2>1, <2>4 DEF UploadInv, UploadTypeOK
  <2>6. \A p \in 1..Parts : wire'[p] = UpTo(Len(wire'[p]))
    BY <2>3, <2>4 DEF UploadInv, Counted
  <2>7. \A p \in 1..Parts : \A i \in 1..Len(channel'[p]) :
           \/ channel'[p][i] = Failure /\ i = Len(channel'[p])
           \/ channel'[p][i] = Len(wire'[p]) + i
    <3>1. \A i \in 1..Len(channel'[sendPart]) :
             \/ channel'[sendPart][i] = Failure /\ i = Len(channel'[sendPart])
             \/ channel'[sendPart][i] = Len(wire'[sendPart]) + i
      BY <1>4, <1>7, <2>3, <2>4
    <3>2. ASSUME NEW p \in 1..Parts, p # sendPart, NEW i \in 1..Len(channel'[p])
          PROVE  \/ channel'[p][i] = Failure /\ i = Len(channel'[p])
                 \/ channel'[p][i] = Len(wire'[p]) + i
      <4>1. channel'[p] = channel[p] /\ wire'[p] = wire[p]
        BY <1>4, <2>4, <3>2
      <4> QED
        BY <3>2, <4>1 DEF UploadInv, Counted
    <3> QED
      BY <3>1, <3>2
  <2>8. Len(wire'[sendPart]) + Len(channel'[sendPart]) = Len(done) + Len(old)
    <3>1. Len(wire'[sendPart]) = Len(done) + 1 /\ Len(channel'[sendPart]) = Len(old) - 1
      BY <1>3, <1>4, <2>3, <2>4
    <3>2. \A a, b \in Nat : (a + 1) + (b - 1) = a + b
      OBVIOUS
    <3>3. Len(done) \in Nat /\ Len(old) \in Nat
      BY <1>2
    <3> QED
      BY <3>1, <3>2, <3>3
  <2>9. ASSUME PumpActive'
        PROVE  /\ Len(wire'[part']) + Len(channel'[part']) = Written'
               /\ \A i \in 1..Len(channel'[part']) : channel'[part'][i] # Failure
    <3>1. /\ Len(wire[part]) + Len(channel[part]) = Written /\ part' = part
          /\ \A i \in 1..Len(channel[part]) : channel[part][i] # Failure
          /\ Written' = Written /\ part \in 1..Parts
      BY <1>1, <2>9, UploadTypes DEF UploadInv, Counted, PumpActive, Written
    <3>2. CASE part # sendPart
      BY <1>4, <2>4, <3>1, <3>2
    <3>3. CASE part = sendPart
      <4>1. \A i \in 1..Len(Tail(old)) : i + 1 \in 1..Len(old)
        BY <1>2, <1>3
      <4>2. \A i \in 1..Len(Tail(old)) : Tail(old)[i] # Failure
        BY <1>3, <3>1, <3>3, <4>1
      <4>3. channel'[part'] = Tail(old)
        BY <1>4, <3>1, <3>3
      <4>4. Len(wire'[part']) + Len(channel'[part']) = Written'
        BY <2>8, <3>1, <3>3
      <4> QED
        BY <4>2, <4>3, <4>4
    <3> QED
      BY <3>2, <3>3
  <2>10. Counted'
    <3>1. \A p \in 1..Parts : p > part' => channel'[p] = <<>> /\ wire'[p] = <<>>
      BY <1>1, <1>8, <2>4 DEF UploadInv, Counted
    <3> QED
      BY <2>6, <2>7, <2>9, <3>1 DEF Counted
  <2>11. PartsWhole'
    <3>1. \A p \in 1..Parts : p < sendPart => p # sendPart
      BY <1>2
    <3> QED
      BY <1>1, <2>1, <2>4, <3>1 DEF UploadInv, PartsWhole, LastPart
  <2>12. StreamWhole'
    <3> SUFFICES ASSUME kind = "stream", call = "pending", pump = "over"
                 PROVE  \/ Len(wire'[1]) + Len(channel'[1]) = Size
                        \/ channel'[1] # <<>> /\ channel'[1][Len(channel'[1])] = Failure
      BY <1>1, <2>1 DEF UploadInv, StreamWhole, PumpActive
    <3>1. sendPart = 1
      BY UploadTypes DEF LastPart
    <3>2. CASE Len(done) + Len(old) = Size
      BY <2>8, <3>1, <3>2
    <3>3. CASE Len(done) + Len(old) # Size
      <4>1. old[Len(old)] = Failure
        BY <1>1, <3>1, <3>3 DEF UploadInv, StreamWhole
      <4>2. Len(old) # 1
        BY <1>3, <1>10, <4>1
      <4>3. Len(Tail(old)) \in 1..Len(Tail(old)) /\ Len(Tail(old)) + 1 = Len(old)
        BY <1>2, <1>3, <4>2
      <4>4. Tail(old)[Len(Tail(old))] = Failure
        BY <1>3, <4>1, <4>3
      <4> QED
        BY <1>3, <1>4, <3>1, <4>2, <4>4
    <3> QED
      BY <3>2, <3>3
  <2> QED
    BY <1>6, <2>5, <2>10, <2>11, <2>12 DEF UploadInv
<1> QED
  BY <1>9, <1>10

(* The end of a part, and the end of the connection. *)
LEMMA SendingEndsKept ==
    ASSUME UploadInv, PartEnds \/ Disconnect
    PROVE  UploadInv'
<1>1. UNCHANGED <<kind, entries, channel, cancelled, pump, part, item, call, wire>>
  BY DEF PartEnds, Disconnect
<1>2. /\ sending = "yes"
      /\ \/ sending' = "failed" /\ receiving' = FALSE /\ sendPart' = sendPart
         \/ /\ channel[sendPart] = <<>> /\ ~HasSender(sendPart)
            /\ kind = "stream" \/ Len(wire[sendPart]) = Size
            /\ \/ sendPart < LastPart /\ sendPart' = sendPart + 1
                  /\ sending' = sending /\ receiving' = receiving
               \/ ~(sendPart < LastPart) /\ sendPart' = sendPart
                  /\ sending' = "complete" /\ receiving' = FALSE
  BY DEF PartEnds, Disconnect
<1>3. LastPart' = LastPart
  BY <1>1 DEF LastPart
<1>4. sendPart' \in 1..LastPart /\ sendPart' \in 1..Parts
  BY <1>2, UploadTypes
<1>5. UploadTypeOK'
  <2>1. receiving' \in BOOLEAN /\ sending' \in {"no", "yes", "complete", "failed"}
    BY <1>2 DEF UploadInv, UploadTypeOK
  <2> QED
    BY <1>1, <1>4, <2>1 DEF UploadInv, UploadTypeOK
<1>6. HandlesOwned'
  BY <1>1, <1>3, <1>4 DEF UploadInv, HandlesOwned
<1>7. Counted'
  BY <1>1 DEF UploadInv, Counted, PumpActive, Written
<1>8. PartsWhole'
  <2>1. receiving' <=> sending' = "yes"
    BY <1>2 DEF UploadInv, PartsWhole
  <2>2. ASSUME kind # "stream", NEW p \in 1..Parts, p < sendPart'
        PROVE  Len(wire[p]) = Size
    <3>1. p \in Nat /\ sendPart \in Nat /\ sendPart' \in {sendPart, sendPart + 1}
      BY <1>2, UploadTypes
    <3>2. \A a, b \in Nat : a < b + 1 => a < b \/ a = b
      OBVIOUS
    <3>3. p < sendPart \/ (p = sendPart /\ sendPart' # sendPart)
      <4>1. CASE sendPart' = sendPart
        BY <2>2, <3>1, <4>1
      <4>2. CASE sendPart' = sendPart + 1
        <5>1. sendPart' # sendPart
          BY <3>1, <4>2
        <5>2. p < sendPart + 1
          BY <2>2, <4>2
        <5> QED
          BY <3>1, <3>2, <5>1, <5>2
      <4> QED
        BY <3>1, <4>1, <4>2
    <3> QED
      BY <1>2, <2>2, <3>3 DEF UploadInv, PartsWhole
  <2>3. kind # "stream" /\ sending' = "complete" =>
           sendPart' = LastPart /\ Len(wire[sendPart']) = Size
    BY <1>2, UploadTypes
  <2> QED
    BY <1>1, <1>3, <2>1, <2>2, <2>3 DEF PartsWhole
<1>9. StreamWhole'
  <2> SUFFICES ASSUME kind = "stream", call = "pending"
               PROVE  StreamWhole'
    BY <1>1 DEF StreamWhole
  <2>1. sendPart = 1 /\ LastPart = 1
    BY UploadTypes DEF LastPart
  <2>2. ASSUME sending' = "complete"
        PROVE  Len(wire[1]) = Size
    <3>1. channel[1] = <<>> /\ ~HasSender(1)
      BY <1>2, <2>1, <2>2
    <3>2. pump = "over"
      BY <3>1 DEF UploadInv, UploadTypeOK, StreamWhole, HasSender, PumpActive
    <3>3. Len(wire[1]) + Len(channel[1]) = Size
      BY <1>2, <3>1, <3>2 DEF UploadInv, StreamWhole
    <3>4. Len(channel[1]) = 0 /\ Len(wire[1]) \in Nat
      BY <3>1, UploadTypes
    <3> QED
      BY <3>3, <3>4
  <2> QED
    BY <1>1, <1>2, <2>1, <2>2 DEF UploadInv, StreamWhole, PumpActive
<1> QED
  BY <1>5, <1>6, <1>7, <1>8, <1>9 DEF UploadInv

(* Every step of the upload keeps its half of the invariant. *)
LEMMA UploadKept ==
    ASSUME UploadInv, UploadStep
    PROVE  UploadInv'
BY PrepareKept, CallAndPumpKept, PumpReadsKept, PumpReadsEndKept, WriteLandsKept,
   FailureLandsKept, TransmitKept, SendingEndsKept
   DEF UploadStep, PumpWrites, Transport

-----------------------------------------------------------------------------
(* The Requests.                                                           *)

(* A new Request takes a body from one there is: a stream that changes     *)
(* hands is given away by the Request that had it.                         *)
LEMMA MakeKept ==
    ASSUME PoolTypeOK, PoolInv, NEW q \in Requests, NEW n \in Requests,
           Transfer(q, n) \/ Clone(q, n) \/ Replace(q, n)
    PROVE  UNCHANGED uploadVars /\ PoolTypeOK' /\ PoolInv'
<1>1. PICK b \in Bodies, s \in Requests :
        /\ content' = [content EXCEPT ![n] = b] /\ src' = [src EXCEPT ![n] = s]
        /\ b = "blob" => s = n
        /\ \/ s = n
           \/ s = src[q] /\ content[q] = "stream" /\ b = "stream" /\ ~used[q] /\ used'[q]
              /\ ~drawn[q]
  <2>1. CASE Transfer(q, n)
    BY <2>1 DEF Transfer, Make, Present, Streaming, Untouched, Bodies, PoolTypeOK
  <2>2. CASE Clone(q, n) \/ Replace(q, n)
    BY <2>2 DEF Clone, Replace, Make, Present, PoolTypeOK
  <2> QED
    BY <2>1, <2>2
<1>2. /\ UNCHANGED <<uploadVars, taken, text, count, owner>>
      /\ ~Present(n) /\ Present(q)
      /\ \/ used' = used /\ drawn' = drawn /\ locked' = locked
         \/ /\ used' = [used EXCEPT ![q] = TRUE] /\ locked' = [locked EXCEPT ![q] = TRUE]
            /\ drawn' = [drawn EXCEPT ![q] = Streaming(q)]
            /\ ~used[q] /\ ~drawn[q] /\ ~locked[q]
  BY DEF Transfer, Clone, Replace, Make, Untouched
<1>3. PoolTypeOK'
  <2>1. Streaming(q) \in BOOLEAN
    BY DEF Streaming
  <2>2. content' \in [Requests -> Bodies \cup {"absent"}] /\ src' \in [Requests -> Requests]
    BY <1>1 DEF PoolTypeOK
  <2>3. /\ used' \in [Requests -> BOOLEAN] /\ drawn' \in [Requests -> BOOLEAN]
        /\ locked' \in [Requests -> BOOLEAN]
    <3>1. CASE used' = used /\ drawn' = drawn /\ locked' = locked
      BY <3>1 DEF PoolTypeOK
    <3>2. ASSUME NEW f \in [Requests -> BOOLEAN], NEW e \in BOOLEAN
          PROVE  [f EXCEPT ![q] = e] \in [Requests -> BOOLEAN]
      OBVIOUS
    <3>3. CASE /\ used' = [used EXCEPT ![q] = TRUE] /\ locked' = [locked EXCEPT ![q] = TRUE]
               /\ drawn' = [drawn EXCEPT ![q] = Streaming(q)]
      BY <2>1, <3>2, <3>3, Zenon DEF PoolTypeOK
    <3> QED
      BY <1>2, <3>1, <3>3
  <2> QED
    BY <1>2, <2>2, <2>3 DEF PoolTypeOK
<1>4. /\ content'[n] = b /\ src'[n] = s
      /\ \A r \in Requests : r # n => content'[r] = content[r] /\ src'[r] = src[r]
      /\ q # n
  BY <1>1, <1>2 DEF PoolTypeOK
<1>5. /\ \A r \in Requests : r # q => used'[r] = used[r] /\ drawn'[r] = drawn[r]
                                      /\ locked'[r] = locked[r]
      /\ \/ used'[q] = used[q] /\ drawn'[q] = drawn[q] /\ locked'[q] = locked[q]
         \/ used'[q] /\ locked'[q] /\ (Streaming(q) => drawn'[q]) /\ ~used[q] /\ ~drawn[q]
            /\ ~locked[q]
  BY <1>2 DEF PoolTypeOK
<1>6. /\ Present(n)' /\ \A r \in Requests : r # n => (Present(r)' <=> Present(r))
      /\ \A r \in Requests : r # n => (Streaming(r)' <=> Streaming(r))
      /\ \A r \in Requests : Streaming(r) => Present(r)
  BY <1>1, <1>4 DEF Present, Streaming, Bodies
<1>7. SourcesKnown'
  <2>1. Present(s)'
    BY <1>1, <1>2, <1>6 DEF PoolInv, SourcesKnown, PoolTypeOK
  <2>2. \A x \in Requests : Present(x) => content'[x] # "absent"
    BY <1>6 DEF Present
  <2>3. \A r \in Requests : Present(r) => content'[src[r]] # "absent"
    BY <2>2 DEF PoolInv, SourcesKnown, PoolTypeOK
  <2>4. \A r \in Requests : Present(r)' => Present(src[r])'
    BY <1>4, <1>6, <2>1, <2>3 DEF Present
  <2> QED
    BY <1>1, <1>2, <1>4, <1>5, <1>6, <2>4 DEF PoolInv, SourcesKnown
<1>8. ~used[n] /\ text[n] = "none" /\ taken[n] = 0 /\ count[n] = 0 /\ ~Streaming(n)
  BY <1>2, <1>6 DEF PoolInv, SourcesKnown
<1>9. GivenAway'
  BY <1>2, <1>4, <1>5, <1>6, <1>8 DEF PoolInv, GivenAway, TextWhole
<1>10. OneUser'
  <2>1. ASSUME NEW r \in Requests, r # n, Streaming(r), src[r] = s
        PROVE  used'[n] \/ used'[r]
    <3>1. s # n
      BY <1>2, <1>6, <2>1 DEF PoolInv, SourcesKnown
    <3>2. s = src[q] /\ Streaming(q) /\ ~used[q] /\ used'[q]
      BY <1>1, <3>1 DEF Streaming
    <3>3. r # q => used[r]
      BY <2>1, <3>2 DEF PoolInv, OneUser
    <3> QED
      BY <1>5, <3>2, <3>3
  <2>2. ASSUME NEW r \in Requests, NEW m \in Requests, r # n, m # n,
               Streaming(r), Streaming(m), r # m, src[r] = src[m]
        PROVE  used'[r] \/ used'[m]
    <3>1. used[r] \/ used[m]
      BY <2>2 DEF PoolInv, OneUser
    <3>2. \A x \in Requests : used[x] => used'[x]
      BY <1>5
    <3> QED
      BY <3>1, <3>2
  <2>3. ASSUME NEW r \in Requests, NEW m \in Requests,
               Streaming(r)', Streaming(m)', r # m, src'[r] = src'[m]
        PROVE  used'[r] \/ used'[m]
    BY <1>4, <1>6, <2>1, <2>2, <2>3
  <2> QED
    BY <2>3 DEF OneUser
<1>11. Undrawn'
  <2>1. taken[s] = 0
    BY <1>1, <1>8 DEF PoolInv, Undrawn, Streaming
  <2> QED
    BY <1>2, <1>4, <1>5, <1>6, <1>8, <2>1 DEF PoolInv, Undrawn
<1>12. TextWhole'
  BY <1>2, <1>4, <1>5, <1>6, <1>8 DEF PoolInv, TextWhole
<1>13. PumpDraws'
  <2> SUFFICES ASSUME PumpActive, kind = "stream"
               PROVE  PumpDraws'
    BY <1>2 DEF PumpDraws, PumpActive, uploadVars
  <2>1. owner # n /\ drawn[owner] /\ locked[owner]
    BY <1>2 DEF PoolInv, PumpDraws, Present
  <2>2. /\ used'[owner] = used[owner] /\ drawn'[owner] = drawn[owner]
        /\ locked'[owner] = locked[owner]
    BY <1>5, <2>1 DEF PoolTypeOK
  <2> QED
    BY <1>2, <1>4, <2>1, <2>2 DEF PoolInv, PumpDraws, PoolTypeOK, uploadVars
<1> QED
  BY <1>2, <1>3, <1>7, <1>9, <1>10, <1>11, <1>12, <1>13 DEF PoolInv

(* Nobody else who may draw has the same stream. *)
LEMMA DrawsAlone ==
    ASSUME PoolTypeOK, PoolInv, NEW q \in Requests, Streaming(q), ~used[q],
           NEW m \in Requests, m # q, Streaming(m), ~used[m]
    PROVE  src[m] # src[q]
BY DEF PoolInv, OneUser

(* A draw that takes a chunk, or meets the end, changes one stream only.   *)
LEMMA DrawType ==
    ASSUME PoolTypeOK, NEW s \in Requests,
           \/ taken' = taken
           \/ taken[s] < Size /\ taken' = [taken EXCEPT ![s] = @ + 1]
    PROVE  /\ taken' \in [Requests -> 0..Size]
           /\ \A r \in Requests : r # s => taken'[r] = taken[r]
<1>1. CASE taken' = taken
  BY <1>1 DEF PoolTypeOK
<1>2. CASE taken[s] < Size /\ taken' = [taken EXCEPT ![s] = @ + 1]
  <2>1. taken[s] + 1 \in 0..Size
    BY <1>2, UploadAssumption DEF PoolTypeOK
  <2> QED
    BY <1>2, <2>1 DEF PoolTypeOK
<1> QED
  BY <1>1, <1>2

(* A step that makes no Request touches none that does not exist. *)
LEMMA SourcesKept ==
    ASSUME SourcesKnown, content' = content, src' = src,
           \A r \in Requests : ~Present(r) =>
               /\ taken'[r] = taken[r] /\ count'[r] = count[r]
               /\ text'[r] = text[r] /\ used'[r] = used[r]
    PROVE  SourcesKnown'
BY DEF SourcesKnown, Present

(* Somebody reads a chunk of a Request's body. *)
LEMMA ReadSomeKept ==
    ASSUME PoolTypeOK, PoolInv, NEW q \in Requests, ReadSome(q)
    PROVE  UNCHANGED uploadVars /\ PoolTypeOK' /\ PoolInv'
<1>1. /\ UNCHANGED <<uploadVars, content, locked, src, text, count, owner>>
      /\ Present(q) /\ ~locked[q]
  BY DEF ReadSome
<1>2. \A r \in Requests : (Present(r)' <=> Present(r)) /\ (Streaming(r)' <=> Streaming(r))
  BY <1>1 DEF Present, Streaming
<1>3. Streaming(q) => ~used[q]
  BY <1>1 DEF PoolInv, GivenAway
<1>4. CASE ~Streaming(q)
  <2>1. used' = [used EXCEPT ![q] = TRUE] /\ drawn' = drawn /\ taken' = taken
    BY <1>4 DEF ReadSome
  <2>2. PoolTypeOK'
    BY <1>1, <2>1 DEF PoolTypeOK
  <2>3. /\ \A r \in Requests : r # q => used'[r] = used[r]
        /\ \A r \in Requests : used[r] => used'[r]
    BY <2>1 DEF PoolTypeOK
  <2>4. SourcesKnown'
    BY <1>1, <2>1, <2>3, SourcesKept DEF PoolInv
  <2>5. GivenAway' /\ OneUser' /\ Undrawn' /\ TextWhole'
    BY <1>1, <1>2, <1>4, <2>1, <2>3
       DEF PoolInv, GivenAway, OneUser, Undrawn, TextWhole
  <2>6. PumpDraws'
    <3> SUFFICES ASSUME PumpActive, kind = "stream"
                 PROVE  PumpDraws'
      BY <1>1 DEF PumpDraws, PumpActive, uploadVars
    <3>1. owner # q /\ owner \in Requests
      BY <1>1 DEF PoolInv, PumpDraws, PoolTypeOK
    <3> QED
      BY <1>1, <2>1, <2>3, <3>1 DEF PoolInv, PumpDraws, uploadVars
  <2> QED
    BY <1>1, <2>2, <2>4, <2>5, <2>6 DEF PoolInv
<1>5. CASE Streaming(q)
  <2>1. /\ used' = used /\ drawn' = [drawn EXCEPT ![q] = TRUE] /\ src[q] \in Requests
        /\ taken' = [taken EXCEPT ![src[q]] = IF @ < Size THEN @ + 1 ELSE @]
    BY <1>5 DEF ReadSome, PoolTypeOK
  <2>2. \/ taken' = taken
        \/ taken[src[q]] < Size /\ taken' = [taken EXCEPT ![src[q]] = @ + 1]
    BY <2>1 DEF PoolTypeOK
  <2>3. /\ taken' \in [Requests -> 0..Size]
        /\ \A r \in Requests : r # src[q] => taken'[r] = taken[r]
    BY <2>1, <2>2, DrawType
  <2>4. PoolTypeOK'
    BY <1>1, <2>1, <2>3 DEF PoolTypeOK
  <2>5. drawn'[q] /\ \A r \in Requests : r # q => drawn'[r] = drawn[r]
    BY <2>1 DEF PoolTypeOK
  <2>6. \A m \in Requests : m # q /\ Streaming(m) /\ ~used[m] => taken'[src[m]] = taken[src[m]]
    BY <1>3, <1>5, <2>3, DrawsAlone DEF PoolTypeOK
  <2>7. SourcesKnown'
    <3>1. Present(src[q])
      BY <1>1 DEF PoolInv, SourcesKnown
    <3> QED
      BY <1>1, <2>1, <2>3, <3>1, SourcesKept DEF PoolInv
  <2>8. GivenAway' /\ OneUser'
    BY <1>1, <1>2, <2>1, <2>5 DEF PoolInv, GivenAway, OneUser
  <2>9. Undrawn'
    <3>1. \A m \in Requests : Streaming(m) /\ ~drawn'[m] => m # q /\ ~used[m] /\ ~drawn[m]
      BY <2>5 DEF PoolInv, GivenAway
    <3> QED
      BY <1>1, <1>2, <2>6, <3>1 DEF PoolInv, Undrawn
  <2>10. TextWhole'
    BY <1>1, <1>2, <2>1, <2>5, <2>6 DEF PoolInv, TextWhole
  <2>11. PumpDraws'
    <3> SUFFICES ASSUME PumpActive, kind = "stream"
                 PROVE  PumpDraws'
      BY <1>1 DEF PumpDraws, PumpActive, uploadVars
    <3>1. owner # q /\ owner \in Requests /\ Streaming(owner) /\ ~used[owner]
      BY <1>1 DEF PoolInv, PumpDraws, PoolTypeOK, Streaming
    <3> QED
      BY <1>1, <2>1, <2>5, <2>6, <3>1 DEF PoolInv, PumpDraws, uploadVars
  <2> QED
    BY <1>1, <2>4, <2>7, <2>8, <2>9, <2>10, <2>11 DEF PoolInv
<1> QED
  BY <1>4, <1>5

(* text() begins on a stream nobody has drawn. *)
LEMMA ConsumeKept ==
    ASSUME PoolTypeOK, PoolInv, NEW q \in Requests, Consume(q)
    PROVE  UNCHANGED uploadVars /\ PoolTypeOK' /\ PoolInv'
<1>1. /\ UNCHANGED <<uploadVars, content, src, taken, count, owner>>
      /\ Present(q) /\ ~used[q] /\ ~drawn[q] /\ ~locked[q]
      /\ \/ /\ Streaming(q) /\ used' = used
            /\ drawn' = [drawn EXCEPT ![q] = TRUE] /\ locked' = [locked EXCEPT ![q] = TRUE]
            /\ text' = [text EXCEPT ![q] = "reading"]
         \/ /\ ~Streaming(q) /\ used' = [used EXCEPT ![q] = TRUE]
            /\ text' = [text EXCEPT ![q] = "whole"]
            /\ drawn' = drawn /\ locked' = locked
  BY DEF Consume, Untouched
<1>2. \A r \in Requests : (Present(r)' <=> Present(r)) /\ (Streaming(r)' <=> Streaming(r))
  BY <1>1 DEF Present, Streaming
<1>3. /\ \A r \in Requests : r # q => /\ used'[r] = used[r] /\ drawn'[r] = drawn[r]
                                      /\ locked'[r] = locked[r] /\ text'[r] = text[r]
      /\ \A r \in Requests : used[r] => used'[r]
      /\ \/ Streaming(q) /\ ~used'[q] /\ drawn'[q] /\ locked'[q] /\ text'[q] = "reading"
         \/ ~Streaming(q) /\ text'[q] = "whole"
  BY <1>1 DEF PoolTypeOK
<1>4. PoolTypeOK'
  BY <1>1 DEF PoolTypeOK
<1>5. SourcesKnown'
  BY <1>1, <1>3, SourcesKept DEF PoolInv
<1>6. GivenAway'
  BY <1>1, <1>2, <1>3 DEF PoolInv, GivenAway
<1>7. OneUser'
  BY <1>1, <1>2, <1>3 DEF PoolInv, OneUser
<1>8. Undrawn'
  BY <1>1, <1>2, <1>3 DEF PoolInv, Undrawn
<1>9. TextWhole'
  BY <1>1, <1>2, <1>3 DEF PoolInv, TextWhole, Undrawn
<1>10. PumpDraws'
  <2> SUFFICES ASSUME PumpActive, kind = "stream"
               PROVE  PumpDraws'
    BY <1>1 DEF PumpDraws, PumpActive, uploadVars
  <2>1. owner # q /\ owner \in Requests
    BY <1>1 DEF PoolInv, PumpDraws, PoolTypeOK
  <2> QED
    BY <1>1, <1>3, <2>1 DEF PoolInv, PumpDraws, uploadVars
<1> QED
  BY <1>1, <1>4, <1>5, <1>6, <1>7, <1>8, <1>9, <1>10 DEF PoolInv

(* text() takes the next chunk, or meets the end with all of them. *)
LEMMA ConsumeStepKept ==
    ASSUME PoolTypeOK, PoolInv, NEW q \in Requests, ConsumeStep(q)
    PROVE  UNCHANGED uploadVars /\ PoolTypeOK' /\ PoolInv'
<1> DEFINE s == src[q]
<1>1. /\ UNCHANGED <<uploadVars, content, used, drawn, locked, src, owner>>
      /\ text[q] = "reading" /\ s \in Requests
      /\ Streaming(q) /\ drawn[q] /\ locked[q] /\ ~used[q] /\ count[q] = taken[s]
  BY DEF ConsumeStep, PoolInv, TextWhole, PoolTypeOK
<1>2. \A r \in Requests : (Present(r)' <=> Present(r)) /\ (Streaming(r)' <=> Streaming(r))
  BY <1>1 DEF Present, Streaming
<1>3. Present(q) /\ Present(s)
  BY <1>1 DEF Present, Streaming, PoolInv, SourcesKnown
<1>4. \/ /\ taken[s] < Size /\ taken' = [taken EXCEPT ![s] = @ + 1]
         /\ count' = [count EXCEPT ![q] = @ + 1] /\ text' = text
      \/ /\ taken' = taken /\ count' = count
         /\ \E t \in {"whole", "failed"} : text' = [text EXCEPT ![q] = t]
  BY <1>1 DEF ConsumeStep
<1>5. /\ taken' \in [Requests -> 0..Size]
      /\ \A r \in Requests : r # s => taken'[r] = taken[r]
  BY <1>1, <1>4, DrawType
<1>6. /\ text' \in [Requests -> {"none", "reading", "whole", "partial", "failed"}]
      /\ \A r \in Requests : r # q => text'[r] = text[r]
      /\ text'[q] \in {"reading", "whole", "failed"}
  BY <1>1, <1>4 DEF PoolTypeOK
<1>7. /\ count' \in [Requests -> 0..Size]
      /\ \A r \in Requests : r # q => count'[r] = count[r]
      /\ text'[q] = "reading" => count'[q] = taken'[s]
  <2>1. CASE /\ taken[s] < Size /\ taken' = [taken EXCEPT ![s] = @ + 1]
             /\ count' = [count EXCEPT ![q] = @ + 1]
    <3>1. count[q] + 1 \in 0..Size
      BY <1>1, <2>1, UploadAssumption DEF PoolTypeOK
    <3> QED
      BY <1>1, <2>1, <3>1 DEF PoolTypeOK
  <2>2. CASE /\ taken' = taken /\ count' = count
    BY <1>1, <2>2 DEF PoolTypeOK
  <2> QED
    BY <1>4, <2>1, <2>2
<1>8. PoolTypeOK'
  BY <1>1, <1>5, <1>6, <1>7 DEF PoolTypeOK
<1>9. \A m \in Requests : m # q /\ Streaming(m) /\ ~used[m] => taken'[src[m]] = taken[src[m]]
  BY <1>1, <1>5, DrawsAlone DEF PoolTypeOK
<1>10. SourcesKnown'
  BY <1>1, <1>3, <1>5, <1>6, <1>7, SourcesKept DEF PoolInv
<1>11. GivenAway' /\ OneUser'
  BY <1>1, <1>2, <1>6 DEF PoolInv, GivenAway, OneUser
<1>12. Undrawn'
  <2>1. \A m \in Requests : Streaming(m) /\ ~drawn[m] => m # q /\ ~used[m]
    BY <1>1 DEF PoolInv, GivenAway
  <2> QED
    BY <1>1, <1>2, <1>7, <1>9, <2>1 DEF PoolInv, Undrawn
<1>13. TextWhole'
  BY <1>1, <1>2, <1>6, <1>7, <1>9 DEF PoolInv, TextWhole
<1>14. PumpDraws'
  <2> SUFFICES ASSUME PumpActive, kind = "stream"
               PROVE  PumpDraws'
    BY <1>1 DEF PumpDraws, PumpActive, uploadVars
  <2>1. owner # q /\ owner \in Requests /\ Streaming(owner) /\ ~used[owner]
    BY <1>1 DEF PoolInv, PumpDraws, PoolTypeOK, Streaming
  <2> QED
    BY <1>1, <1>6, <1>9, <2>1 DEF PoolInv, PumpDraws, uploadVars
<1> QED
  BY <1>1, <1>8, <1>10, <1>11, <1>12, <1>13, <1>14 DEF PoolInv

(* An upload begins at the beginning of its body. *)
LEMMA DispatchKept ==
    ASSUME PoolTypeOK, PoolInv, NEW q \in Requests, Dispatch(q)
    PROVE  UploadStep /\ PoolTypeOK' /\ PoolInv'
<1>1. /\ UNCHANGED <<content, used, src, taken, text, count>>
      /\ owner' = q /\ content[q] \in {"form", "blob", "stream"}
      /\ content[q] = "stream" => ~drawn[q] /\ ~locked[q]
      /\ kind' = content[q] /\ item' = 0
      /\ \/ /\ StartUpload(content[q]) /\ pump' = "reading"
            /\ drawn' = [drawn EXCEPT ![q] = Streaming(q)]
            /\ locked' = [locked EXCEPT ![q] = @ \/ content[q] = "stream"]
         \/ RefuseUpload(content[q]) /\ pump' = "over" /\ drawn' = drawn /\ locked' = locked
  BY DEF Dispatch, Replayable, StartUpload, RefuseUpload, Prepare
<1>2. UploadStep
  BY <1>1 DEF UploadStep
<1>3. \A r \in Requests : (Present(r)' <=> Present(r)) /\ (Streaming(r)' <=> Streaming(r))
  BY <1>1 DEF Present, Streaming
<1>4. /\ drawn' \in [Requests -> BOOLEAN] /\ locked' \in [Requests -> BOOLEAN]
      /\ \A r \in Requests : r # q => drawn'[r] = drawn[r] /\ locked'[r] = locked[r]
      /\ locked[q] => locked'[q]
      /\ pump' = "over" \/ (Streaming(q) => drawn'[q])
      /\ pump' = "over" \/ (content[q] = "stream" => locked'[q])
      /\ Streaming(q) /\ drawn[q] => drawn'[q]
  <2>1. CASE drawn' = drawn /\ locked' = locked /\ pump' = "over"
    BY <2>1 DEF PoolTypeOK
  <2>2. CASE /\ drawn' = [drawn EXCEPT ![q] = Streaming(q)]
             /\ locked' = [locked EXCEPT ![q] = @ \/ content[q] = "stream"]
    <3>1. /\ Streaming(q) \in BOOLEAN
          /\ (locked[q] \/ content[q] = "stream") \in BOOLEAN
      BY DEF Streaming
    <3>2. ASSUME NEW f \in [Requests -> BOOLEAN], NEW e \in BOOLEAN
          PROVE  /\ [f EXCEPT ![q] = e] \in [Requests -> BOOLEAN]
                 /\ [f EXCEPT ![q] = e][q] = e
                 /\ \A r \in Requests : r # q => [f EXCEPT ![q] = e][r] = f[r]
      OBVIOUS
    <3>3. /\ drawn' \in [Requests -> BOOLEAN] /\ drawn'[q] = Streaming(q)
          /\ \A r \in Requests : r # q => drawn'[r] = drawn[r]
      BY <2>2, <3>1, <3>2, Zenon DEF PoolTypeOK
    <3>4. /\ locked' \in [Requests -> BOOLEAN]
          /\ locked'[q] = (locked[q] \/ content[q] = "stream")
          /\ \A r \in Requests : r # q => locked'[r] = locked[r]
      BY <2>2, <3>1, <3>2, Zenon DEF PoolTypeOK
    <3> QED
      BY <3>3, <3>4
  <2> QED
    BY <1>1, <2>1, <2>2
<1>5. PoolTypeOK'
  BY <1>1, <1>4 DEF PoolTypeOK
<1>6. SourcesKnown' /\ OneUser'
  BY <1>1, <1>3, SourcesKept DEF PoolInv, OneUser
<1>7. GivenAway'
  BY <1>1, <1>3, <1>4 DEF PoolInv, GivenAway
<1>8. Undrawn'
  BY <1>1, <1>3, <1>4 DEF PoolInv, Undrawn
<1>9. TextWhole'
  BY <1>1, <1>3, <1>4 DEF PoolInv, TextWhole
<1>10. PumpDraws'
  <2> SUFFICES ASSUME content[q] = "stream", pump' # "over"
               PROVE  PumpDraws'
    BY <1>1 DEF PumpDraws, PumpActive
  <2>1. Streaming(q) /\ ~drawn[q]
    BY <1>1 DEF Streaming
  <2>2. ~used[q] /\ text[q] # "reading" /\ taken[src[q]] = 0
    BY <2>1 DEF PoolInv, GivenAway, TextWhole, Undrawn
  <2> QED
    BY <1>1, <1>4, <2>1, <2>2 DEF PumpDraws
<1> QED
  BY <1>2, <1>5, <1>6, <1>7, <1>8, <1>9, <1>10 DEF PoolInv

(* The pump reads the chunk after the last one from its source, and gives  *)
(* the stream back only when it is over.                                   *)
LEMMA PumpStepKept ==
    ASSUME UploadInv, PoolTypeOK, PoolInv, PumpStep
    PROVE  UploadStep /\ PoolTypeOK' /\ PoolInv'
<1> DEFINE s == src[owner]
           at == IF kind = "stream" THEN taken[s] ELSE item
<1>1. /\ UNCHANGED <<content, used, src, text, count, owner>> /\ kind' = kind
      /\ PumpActive
      /\ locked' = IF pump' = "over" /\ kind = "stream" THEN [locked EXCEPT ![owner] = FALSE]
                                                        ELSE locked
      /\ drawn' = drawn
  BY DEF PumpStep, Release, PumpReads, PumpReadsEnd, PumpReadFails, PumpSeesCancel,
         PumpWrites, WriteLands, WriteFails, FailureLands, Reading, PumpActive
<1>2. \/ /\ at < Size /\ PumpReads(at + 1)
         /\ taken' = IF kind = "stream" THEN [taken EXCEPT ![s] = @ + 1] ELSE taken
      \/ at = Size /\ PumpReadsEnd /\ taken' = taken
      \/ (PumpReadFails \/ PumpSeesCancel \/ PumpWrites) /\ taken' = taken
  BY DEF PumpStep
<1>3. kind = "stream" =>
        /\ content[owner] = "stream" /\ drawn[owner] /\ locked[owner] /\ ~used[owner]
        /\ text[owner] # "reading" /\ taken[s] = item
  BY <1>1 DEF PoolInv, PumpDraws
<1>4. at = item
  BY <1>3
<1>5. UploadStep
  BY <1>2, <1>4 DEF UploadStep
<1>6. owner \in Requests /\ s \in Requests
  BY DEF PoolTypeOK
<1>7. \/ taken' = taken
      \/ taken[s] < Size /\ taken' = [taken EXCEPT ![s] = @ + 1]
  BY <1>2
<1>8. /\ taken' \in [Requests -> 0..Size]
      /\ \A r \in Requests : r # s => taken'[r] = taken[r]
      /\ kind # "stream" => taken' = taken
  BY <1>2, <1>6, <1>7, DrawType
<1>9. /\ locked' \in [Requests -> BOOLEAN]
      /\ \A r \in Requests : r # owner => locked'[r] = locked[r]
      /\ kind # "stream" \/ pump' # "over" => locked' = locked
  BY <1>1, <1>6 DEF PoolTypeOK
<1>10. PoolTypeOK'
  BY <1>1, <1>8, <1>9 DEF PoolTypeOK
<1>11. \A r \in Requests : (Present(r)' <=> Present(r)) /\ (Streaming(r)' <=> Streaming(r))
  BY <1>1 DEF Present, Streaming
<1>12. \A m \in Requests :
          (kind # "stream" \/ m # owner) /\ Streaming(m) /\ ~used[m] =>
              taken'[src[m]] = taken[src[m]]
  <2> SUFFICES ASSUME kind = "stream", NEW m \in Requests, m # owner, Streaming(m), ~used[m]
               PROVE  taken'[src[m]] = taken[src[m]]
    BY <1>8
  <2>1. src[m] # s
    BY <1>3, <1>6, DrawsAlone DEF Streaming
  <2> QED
    BY <1>8, <2>1 DEF PoolTypeOK
<1>13. SourcesKnown'
  <2>1. kind = "stream" => Present(s)
    BY <1>3, <1>6 DEF PoolInv, SourcesKnown, Present
  <2>2. \A r \in Requests : ~Present(r) => taken'[r] = taken[r]
    BY <1>8, <2>1
  <2> QED
    BY <1>1, <2>2, SourcesKept DEF PoolInv
<1>14. OneUser'
  BY <1>1, <1>11 DEF PoolInv, OneUser
<1>15. GivenAway'
  BY <1>1, <1>3, <1>9, <1>11 DEF PoolInv, GivenAway
<1>16. Undrawn'
  <2>1. \A m \in Requests : Streaming(m) /\ ~drawn[m] =>
           (kind # "stream" \/ m # owner) /\ ~used[m]
    BY <1>3 DEF PoolInv, GivenAway
  <2> QED
    BY <1>1, <1>11, <1>12, <2>1 DEF PoolInv, Undrawn
<1>17. TextWhole'
  <2>1. \A m \in Requests : text[m] = "reading" => (kind # "stream" \/ m # owner)
    BY <1>3
  <2> QED
    BY <1>1, <1>9, <1>11, <1>12, <2>1 DEF PoolInv, TextWhole
<1>18. PumpDraws'
  <2> SUFFICES ASSUME kind = "stream", PumpActive'
               PROVE  taken'[s] = item'
    BY <1>1, <1>3, <1>9 DEF PumpDraws, PumpActive
  <2>1. CASE PumpReads(at + 1) /\ taken' = [taken EXCEPT ![s] = @ + 1]
    BY <1>3, <1>4, <1>6, <2>1 DEF PumpReads, PoolTypeOK
  <2>2. CASE PumpReadsEnd /\ taken' = taken
    <3>1. LastPart = 1 /\ ~(part < 1)
      BY UploadTypes DEF LastPart
    <3>2. pump' = "over"
      BY <2>2, <3>1 DEF PumpReadsEnd
    <3> QED
      BY <3>2 DEF PumpActive
  <2>3. CASE (PumpReadFails \/ PumpSeesCancel \/ PumpWrites) /\ taken' = taken
    BY <1>3, <2>3 DEF PumpReadFails, PumpSeesCancel, PumpWrites, WriteLands, WriteFails,
                      FailureLands
  <2> QED
    BY <1>2, <2>1, <2>2, <2>3
<1> QED
  BY <1>5, <1>10, <1>13, <1>14, <1>15, <1>16, <1>17, <1>18 DEF PoolInv

-----------------------------------------------------------------------------
(* The initial states satisfy the invariant. *)
LEMMA InitInv ==
    ASSUME Init
    PROVE  IInv
<1>1. UploadInv
  <2>1. /\ Parts \in Nat /\ Parts >= 1 /\ Size \in Nat /\ Buffered \in Nat /\ 1 \in 1..Parts
        /\ LastPart = 1
    BY UploadAssumption DEF Init, UploadInit, LastPart
  <2>2. <<>> = UpTo(0)
    BY DEF UpTo
  <2>3. <<>> \in Seq({Failure} \cup 1..Size) /\ <<>> \in Seq(1..Size) /\ Len(<<>>) = 0
    OBVIOUS
  <2>4. /\ channel \in [1..Parts -> Seq({Failure} \cup 1..Size)]
        /\ wire \in [1..Parts -> Seq(1..Size)]
        /\ \A p \in 1..Parts : Len(channel[p]) = 0 /\ channel[p] = <<>> /\ wire[p] = <<>>
    BY <2>3 DEF Init, UploadInit
  <2>5. UploadTypeOK
    <3>1. \A p \in 1..Parts : Len(channel[p]) <= Buffered
      BY <2>1, <2>4
    <3>2. item \in 0..Size /\ part \in 1..Parts /\ sendPart \in 1..Parts
      BY <2>1 DEF Init, UploadInit
    <3> QED
      BY <2>4, <3>1, <3>2 DEF Init, UploadInit, UploadTypeOK
  <2>6. HandlesOwned
    BY <2>1 DEF Init, UploadInit, HandlesOwned
  <2>7. Counted
    BY <2>2, <2>3, <2>4 DEF Init, UploadInit, Counted, PumpActive
  <2>8. PartsWhole /\ StreamWhole
    BY DEF Init, UploadInit, PartsWhole, StreamWhole
  <2> QED
    BY <2>5, <2>6, <2>7, <2>8 DEF UploadInv
<1>2. PoolTypeOK
  <2>1. 0 \in 0..Size /\ First \in Requests
    BY UploadAssumption, RequestAssumption
  <2> QED
    BY <2>1 DEF Init, PoolTypeOK
<1>3. PoolInv
  <2>1. /\ \A q \in Requests : src[q] = q /\ taken[q] = 0 /\ count[q] = 0
                               /\ text[q] = "none" /\ ~used[q]
        /\ ~PumpActive
    BY DEF Init, UploadInit, PumpActive
  <2> QED
    BY <2>1 DEF PoolInv, SourcesKnown, GivenAway, OneUser, Undrawn, TextWhole, PumpDraws
<1> QED
  BY <1>1, <1>2, <1>3 DEF IInv

(* Every step keeps the invariant. *)
LEMMA NextInv ==
    ASSUME IInv, [Next]_vars
    PROVE  IInv'
<1> USE DEF IInv
<1>1. CASE UNCHANGED vars
  <2>1. UploadInv'
    BY <1>1 DEF vars, uploadVars, UploadInv, UploadTypeOK, HandlesOwned, Counted, PartsWhole,
                StreamWhole, PumpActive, Written, LastPart
  <2>2. PoolTypeOK' /\ PoolInv'
    BY <1>1 DEF vars, uploadVars, poolVars, PoolTypeOK, PoolInv, SourcesKnown, GivenAway,
                OneUser, Undrawn, TextWhole, PumpDraws, PumpActive, Present, Streaming
  <2> QED
    BY <2>1, <2>2
<1>2. ASSUME UNCHANGED uploadVars
      PROVE  UploadInv'
  BY <1>2 DEF uploadVars, UploadInv, UploadTypeOK, HandlesOwned, Counted, PartsWhole,
              StreamWhole, PumpActive, Written, LastPart
<1>3. CASE \E q, n \in Requests : Transfer(q, n) \/ Clone(q, n) \/ Replace(q, n)
  BY <1>2, <1>3, MakeKept
<1>4. CASE \E q \in Requests : ReadSome(q) \/ Consume(q) \/ ConsumeStep(q)
  BY <1>2, <1>4, ReadSomeKept, ConsumeKept, ConsumeStepKept
<1>5. CASE (\E q \in Requests : Dispatch(q)) \/ PumpStep
  BY <1>5, DispatchKept, PumpStepKept, UploadKept
<1>6. CASE (Settle \/ Transport) /\ UNCHANGED poolVars
  <2>1. UploadInv'
    BY <1>6, UploadKept DEF UploadStep
  <2>2. kind' = kind /\ item' = item /\ pump' = pump
    BY <1>6 DEF Settle, Transport, Transmit, PartEnds, Disconnect
  <2>3. PoolTypeOK' /\ PoolInv'
    BY <1>6, <2>2 DEF poolVars, PoolTypeOK, PoolInv, SourcesKnown, GivenAway, OneUser,
                      Undrawn, TextWhole, PumpDraws, PumpActive, Present, Streaming
  <2> QED
    BY <2>1, <2>3
<1> QED
  BY <1>1, <1>3, <1>4, <1>5, <1>6 DEF Next

(* The invariant holds in every state of every behavior. *)
THEOREM Invariance == Spec => []IInv
<1>1. Init => IInv
  BY InitInv
<1>2. IInv /\ [Next]_vars => IInv'
  BY NextInv
<1> QED
  BY <1>1, <1>2, PTL DEF Spec

(* The invariant contains the properties. *)
LEMMA InvImplies ==
    ASSUME IInv
    PROVE  TypeOK /\ WholeBodyOrError /\ HandlesFreed
<1>1. TypeOK
  BY DEF IInv, UploadInv, PoolTypeOK, TypeOK
<1>2. HandlesFreed
  BY DEF IInv, UploadInv, HandlesOwned, HandlesFreed
<1>3. SentAsGiven
  <2>1. \A p \in 1..Parts : wire[p] = UpTo(Len(wire[p]))
    BY DEF IInv, UploadInv, Counted
  <2>2. ASSUME sending = "complete", call = "pending", NEW p \in PartsOf(kind)
        PROVE  Len(wire[p]) = Size
    <3>1. CASE kind = "stream"
      BY <2>2, <3>1 DEF IInv, UploadInv, StreamWhole, PartsOf
    <3>2. CASE kind # "stream"
      <4>1. p \in 1..Parts /\ p \in 1..LastPart
        BY UploadAssumption DEF PartsOf, LastPart
      <4>2. p < LastPart \/ p = LastPart
        <5>1. LastPart \in Nat
          BY UploadAssumption DEF LastPart
        <5> QED
          BY <4>1, <5>1
      <4> QED
        BY <2>2, <3>2, <4>1, <4>2 DEF IInv, UploadInv, PartsWhole
    <3> QED
      BY <3>1, <3>2
  <2> QED
    BY <2>1, <2>2 DEF SentAsGiven
<1>4. WholeBodyOrError
  BY <1>3 DEF WholeBodyOrError, IInv, PoolInv, TextWhole
<1> QED
  BY <1>1, <1>2, <1>4

(* The state of the Requests and of the upload always has the values of    *)
(* its type: no channel of UPLOAD_STORE holds more than                    *)
(* UPLOAD_BUFFERED_CHUNKS.                                                 *)
THEOREM TypeCorrect == Spec => []TypeOK
BY Invariance, InvImplies, PTL

(* Whatever transfers, clones, replays, partial reads and failures there   *)
(* are, the transport sends the body from its beginning without a gap and  *)
(* takes a short one for whole only after the call was settled, and text() *)
(* succeeds only with the whole body (src/http/request.ts,                 *)
(* src/http/body/bytes.ts).                                                *)
THEOREM BodiesWhole == Spec => []WholeBodyOrError
BY Invariance, InvImplies, PTL

(* A pump that is over, in whichever way, leaves no handle of its upload   *)
(* in UPLOAD_STORE.                                                        *)
THEOREM NoHandleLeft == Spec => []HandlesFreed
BY Invariance, InvImplies, PTL
=============================================================================
