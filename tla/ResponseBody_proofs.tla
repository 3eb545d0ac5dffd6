-------------------------- MODULE ResponseBody_proofs -------------------------
(***************************************************************************)
(* Proofs about ResponseBody for any number of Responses that share a      *)
(* body, of chunks and of empty chunks: its type invariant, HandleGuarded, *)
(* ReadsAheadByOne and the refinement of BodyDelivery.                     *)
(*                                                                         *)
(* The inductive invariant says where every chunk that came off the        *)
(* connection is: with a user, in the queue of its branch, in the queue of *)
(* the source or in a read that is about to settle.                        *)
(***************************************************************************)
EXTENDS ResponseBody, SequenceFacts, TLAPS

UpTo(n) == [i \in 1..n |-> i]

(* What a user has not used yet is as it was made, and only one who keeps  *)
(* a Response waits at it, for a body it has heard nothing more of.        *)
UsersAgree ==
    \A r \in Responses :
        /\ r \notin created => ~used[r] /\ queue[r] = <<>>
        /\ ~used[r] => reader[r] = "idle" /\ outcome[r] = "open" /\ got[r] = <<>>
        /\ reader[r] # "idle" => r \in held /\ outcome[r] = "open"
        /\ reader[r] = "bytes" => all # "none"

(* Before `body`, clone() or a read of the whole body nothing has happened. *)
NothingYet ==
    source = "none" =>
        /\ \A r \in Responses : stream[r] = "none" /\ ~used[r]
        /\ ~teed /\ ~srcRequest /\ srcQueue = <<>> /\ sent = 0
        /\ read = "none" /\ all = "none"
        /\ (registered /\ stored) \/ held = {}

(* Without a clone there is one user, the source keeps no queue for it,    *)
(* and asks for a chunk only while it waits.                               *)
OneUser ==
    ~teed =>
        /\ created = {Original} /\ \A r \in Responses : queue[r] = <<>>
        /\ source \in {"unstarted", "readable"} =>
              outcome[Original] = "open" /\ (srcRequest => Waiting(Original))

(* Nobody is left to ask for a chunk, or it was asked for in vain. *)
Gone == held = {} /\ read = "none" /\ (srcRequest \/ \A r \in Responses : ~Want(r))

(* While the source lives the finalizer watches over its handle, and the   *)
(* store has it until the body ends; afterwards nothing of it is read.     *)
HandleOwned ==
    /\ read \in {"end", "failed", "unknown"} => ~stored
    /\ source = "unstarted" => registered /\ stored /\ read = "none"
    /\ source = "readable" =>
          \/ registered /\ (stored \/ read \in {"end", "failed"})
          \/ ~registered /\ ~stored /\ Gone
    /\ source \in {"closed", "errored"} => read = "none"
    /\ source = "cancelled" => ~stored /\ Live = {}
    /\ all = "spawned" => stored
    /\ all # "none" =>
          /\ source = "closed" /\ ~teed /\ ~registered
          /\ stream[Original] = "kept" /\ used[Original] /\ ~Waiting(Original)

(* The streams know how the body ended. *)
EndsKnown ==
    /\ read = "end" \/ all = "end" => ended = "whole"
    /\ read = "failed" \/ all = "failed" => ended = "failed"
    /\ source = "closed" /\ all = "none" => ended = "whole"
    /\ source = "errored" => ended = "failed"

(* What the source has given to a user of the body. *)
Given(r) == Len(got[r]) + Len(queue[r])

(* What came off the connection for a read that has yet to settle. *)
Settling == IF read = "chunk" THEN 1 ELSE 0

(* What a user has and what its queue holds are the chunks 1, 2, ..., and  *)
(* every user who did not cancel is given the same of them: all but what   *)
(* the queue of the source and a read that is about to settle hold.        *)
Positions ==
    /\ \A r \in Responses :
          /\ got[r] = UpTo(Len(got[r]))
          /\ \A i \in 1..Len(queue[r]) : queue[r][i] = Len(got[r]) + i
          /\ Given(r) <= sent
    /\ source \in {"unstarted", "readable"} =>
          /\ \A r \in Live : Given(r) + Len(srcQueue) + Settling = sent
          /\ \A i \in 1..Len(srcQueue) : srcQueue[i] = sent
          /\ srcRequest \/ read # "none" \/ source = "unstarted" => srcQueue = <<>>
    /\ read = "chunk" => sent # 0
    /\ source = "closed" /\ all = "none" => \A r \in Live : Given(r) = sent
    /\ source = "errored" => \A r \in Responses : queue[r] = <<>>

(* The inductive invariant. *)
IInv ==
    /\ TypeOK /\ UsersAgree /\ NothingYet /\ OneUser /\ HandleGuarded /\ HandleOwned
    /\ EndsKnown /\ Positions

-----------------------------------------------------------------------------
(* What the types say, element by element. *)
LEMMA Types ==
    ASSUME TypeOK
    PROVE  /\ MaxChunks \in Nat /\ MaxEmpty \in Nat /\ Original \in Responses
           /\ sent \in Nat /\ sent <= MaxChunks /\ empties \in Nat
           /\ created \subseteq Responses /\ held \subseteq created /\ Live \subseteq created
           /\ srcQueue \in Seq(1..MaxChunks) /\ Len(srcQueue) \in Nat /\ Len(srcQueue) <= 1
           /\ srcQueue = <<>> <=> Len(srcQueue) = 0
           /\ \A r \in Responses :
                 /\ got[r] \in Seq(1..MaxChunks) /\ queue[r] \in Seq(1..MaxChunks)
                 /\ Len(got[r]) \in Nat /\ Len(queue[r]) \in Nat
                 /\ queue[r] = <<>> <=> Len(queue[r]) = 0
                 /\ got[r] = <<>> <=> Len(got[r]) = 0
<1>1. /\ MaxChunks \in Nat /\ MaxEmpty \in Nat /\ Original \in Responses
      /\ created \subseteq Responses /\ held \subseteq created /\ Live \subseteq created
      /\ srcQueue \in Seq(1..MaxChunks) /\ Len(srcQueue) <= 1
  BY BodyAssumption DEF TypeOK, Live
<1>2. sent \in Nat /\ sent <= MaxChunks /\ empties \in Nat
  BY BodyAssumption DEF TypeOK
<1>3. Len(srcQueue) \in Nat /\ (srcQueue = <<>> <=> Len(srcQueue) = 0)
  BY <1>1, EmptyIffNoLength
<1>4. ASSUME NEW r \in Responses
      PROVE  /\ got[r] \in Seq(1..MaxChunks) /\ queue[r] \in Seq(1..MaxChunks)
             /\ Len(got[r]) \in Nat /\ Len(queue[r]) \in Nat
             /\ queue[r] = <<>> <=> Len(queue[r]) = 0
             /\ got[r] = <<>> <=> Len(got[r]) = 0
  <2>1. got[r] \in Seq(1..MaxChunks) /\ queue[r] \in Seq(1..MaxChunks)
    BY DEF TypeOK
  <2> QED
    BY <2>1, EmptyIffNoLength
<1> QED
  BY <1>1, <1>2, <1>3, <1>4

(* A user is given a number of chunks. *)
LEMMA GivenCounts ==
    ASSUME TypeOK, NEW r \in Responses
    PROVE  Given(r) \in Nat
<1>1. Len(got[r]) \in Nat /\ Len(queue[r]) \in Nat
  BY Types
<1>2. \A a, b \in Nat : a + b \in Nat
  OBVIOUS
<1> QED
  BY <1>1, <1>2 DEF Given

(* The positions depend on the chunks, and on who is owed them. *)
LEMMA PositionsKept ==
    ASSUME Positions,
           UNCHANGED <<got, queue, sent, source, srcQueue, srcRequest, read, all, created,
                       outcome>>
    PROVE  Positions'
BY DEF Positions, Given, Settling, Live

(* What a user does while the Response is held: the source is not gone. *)
LEMMA HeldSource ==
    ASSUME IInv, held # {}
    PROVE  /\ source \in {"none", "unstarted"} => registered /\ stored
           /\ source = "readable" => registered /\ (stored \/ read \in {"end", "failed"})
BY DEF IInv, HandleOwned, NothingYet, Gone

(* Readers are got, used and released, and Responses dropped. *)
LEMMA ReaderKept ==
    ASSUME IInv, NEW r \in Responses,
           GetReader(r) \/ ReleaseLock(r) \/ Read(r) \/ Drop(r)
    PROVE  IInv'
<1>1. /\ UNCHANGED <<created, told, src, native, peer>> /\ r \in held
      /\ reader[r] = "idle" \/ reader' = reader
  BY DEF GetReader, ReleaseLock, Read, Drop
<1>2. /\ stream' \in [Responses -> {"none", "free", "locked", "kept"}]
      /\ used' \in [Responses -> BOOLEAN]
      /\ reader' \in [Responses -> {"idle", "read", "text", "bytes"}]
      /\ \A x \in Responses : x # r =>
            stream'[x] = stream[x] /\ used'[x] = used[x] /\ reader'[x] = reader[x]
      /\ held' \subseteq held /\ (reader'[r] # "idle" => held' = held)
      /\ \A x \in Responses : x # r /\ x \in held => x \in held'
      /\ used[r] => used'[r]
      /\ \/ used'[r] = used[r] /\ reader'[r] = reader[r]
         \/ used'[r] /\ reader'[r] = "read" /\ outcome[r] = "open" /\ stream[r] = "locked"
      /\ stream[r] = "kept" => stream'[r] = "kept"
      /\ stream[r] = "none" => stream'[r] = "none" /\ used'[r] = used[r]
  <2>1. CASE GetReader(r) \/ ReleaseLock(r)
    BY <2>1 DEF GetReader, ReleaseLock, IInv, TypeOK
  <2>2. CASE Read(r)
    BY <2>2 DEF Read, IInv, TypeOK
  <2>3. CASE Drop(r)
    BY <2>3 DEF Drop, IInv, TypeOK
  <2> QED
    BY <2>1, <2>2, <2>3
<1>3. TypeOK'
  BY <1>1, <1>2 DEF IInv, TypeOK, told, src, native, peer
<1>4. UsersAgree'
  BY <1>1, <1>2 DEF IInv, TypeOK, UsersAgree, told, src, native
<1>5. NothingYet'
  BY <1>1, <1>2 DEF IInv, TypeOK, NothingYet, src, native, peer
<1>6. \A x \in Responses : Waiting(x) => Waiting(x)'
  BY <1>1, <1>2 DEF Waiting
<1>7. OneUser'
  BY <1>1, <1>6, Types DEF IInv, OneUser, src, told
<1>8. HandleGuarded'
  BY <1>1, <1>2 DEF IInv, HandleGuarded, src, native
<1>9. HandleOwned'
  <2>1. Live' = Live /\ held # {}
    BY <1>1 DEF Live, told
  <2>2. all # "none" => r = Original
    BY <1>1 DEF IInv, TypeOK, HandleOwned, OneUser
  <2>3. all # "none" => stream'[Original] = "kept" /\ used'[Original] /\ ~Waiting(Original)'
    BY <1>2, <2>2 DEF IInv, HandleOwned, Waiting
  <2>4. source = "readable" => registered /\ (stored \/ read \in {"end", "failed"})
    BY <2>1, HeldSource
  <2> QED
    BY <1>1, <2>1, <2>3, <2>4 DEF IInv, HandleOwned, src, native
<1>10. EndsKnown'
  BY <1>1 DEF IInv, EndsKnown, src, native, peer
<1>11. Positions'
  BY <1>1, PositionsKept DEF IInv, told, src, native, peer
<1> QED
  BY <1>3, <1>4, <1>5, <1>7, <1>8, <1>9, <1>10, <1>11 DEF IInv

(* `body` and clone() make the source stream. *)
LEMMA SourceMade ==
    ASSUME IInv, held # {}, EnsureStreamSource
    PROVE  /\ source' = IF source = "none" THEN "unstarted" ELSE source
           /\ source' = "unstarted" => registered' /\ stored /\ read = "none" /\ all = "none"
           /\ source # "none" => registered' = registered
           /\ registered' \in BOOLEAN
           /\ registered => registered'
<1>1. source' = IF source = "none" THEN "unstarted" ELSE source
  BY DEF EnsureStreamSource
<1>2. source = "unstarted" => all = "none"
  BY DEF IInv, HandleOwned
<1> QED
  BY <1>1, <1>2, HeldSource DEF EnsureStreamSource, IInv, HandleOwned, NothingYet, TypeOK

(* The `body` getter. *)
LEMMA BodyKept ==
    ASSUME IInv, NEW r \in Responses, Body(r)
    PROVE  IInv'
<1>1. /\ r \in held /\ stream[r] = "none" /\ stream' = [stream EXCEPT ![r] = "free"]
      /\ EnsureStreamSource
      /\ UNCHANGED <<created, held, used, reader, got, outcome, srcQueue, srcRequest, again,
                     teed, queue, stored, read, all, sent, ended, empties>>
  BY DEF Body, told, peer
<1>2. /\ source' = IF source = "none" THEN "unstarted" ELSE source
      /\ source' = "unstarted" => registered' /\ stored /\ read = "none" /\ all = "none"
      /\ source # "none" => registered' = registered
      /\ registered' \in BOOLEAN
      /\ registered => registered'
  BY <1>1, SourceMade
<1>3. TypeOK'
  <2>1. source' \in {"none", "unstarted", "readable", "closed", "errored", "cancelled"}
    BY <1>2 DEF IInv, TypeOK
  <2> QED
    BY <1>1, <1>2, <2>1 DEF IInv, TypeOK
<1>4. UsersAgree'
  BY <1>1 DEF IInv, UsersAgree
<1>5. NothingYet'
  BY <1>2 DEF NothingYet
<1>6. OneUser'
  <2>1. source = "none" => outcome[Original] = "open" /\ ~srcRequest
    BY Types DEF IInv, NothingYet, UsersAgree
  <2> QED
    BY <1>1, <1>2, <2>1 DEF IInv, OneUser, Waiting
<1>7. HandleGuarded'
  BY <1>1, <1>2 DEF IInv, HandleGuarded
<1>8. HandleOwned'
  <2>1. Live' = Live
    BY <1>1 DEF Live
  <2>2. all # "none" => r = Original /\ FALSE
    BY <1>1 DEF IInv, TypeOK, HandleOwned, OneUser
  <2>3. source = "readable" => registered /\ (stored \/ read \in {"end", "failed"})
    BY <1>1, HeldSource
  <2> QED
    BY <1>1, <1>2, <2>1, <2>2, <2>3 DEF IInv, HandleOwned
<1>9. EndsKnown'
  BY <1>1, <1>2 DEF IInv, EndsKnown
<1>10. Positions'
  <2>1. CASE source # "none"
    BY <1>1, <1>2, <2>1, PositionsKept DEF IInv
  <2>2. CASE source = "none"
    <3>1. \A x \in Responses : Given(x) = 0
      <4>1. \A x \in Responses : got[x] = <<>> /\ queue[x] = <<>>
        BY <2>2 DEF IInv, NothingYet, UsersAgree, OneUser
      <4>2. \A x \in Responses : Len(got[x]) = 0 /\ Len(queue[x]) = 0
        BY <4>1, Types DEF IInv
      <4>3. ASSUME NEW x \in Responses
            PROVE  Given(x) = 0
        <5>1. Given(x) = Len(got[x]) + Len(queue[x])
          BY DEF Given
        <5>2. 0 + 0 = 0
          OBVIOUS
        <5> QED
          BY <4>2, <5>1, <5>2, Zenon
      <4> QED
        BY <4>3
    <3>2. sent = 0 /\ Len(srcQueue) = 0 /\ srcQueue = <<>> /\ Settling = 0
      BY <2>2, Types DEF IInv, NothingYet, Settling
    <3>3. Live' \subseteq Responses /\ Settling' = Settling
      BY <1>1, Types DEF IInv, Live, Settling
    <3>4. \A x \in Responses : Given(x)' = 0
      BY <1>1, <3>1 DEF Given
    <3> QED
      BY <1>1, <1>2, <2>2, <3>2, <3>3, <3>4 DEF IInv, Positions
  <2> QED
    BY <2>1, <2>2
<1> QED
  BY <1>3, <1>4, <1>5, <1>6, <1>7, <1>8, <1>9, <1>10 DEF IInv

(* text() and the like: of an untouched Response natively, else by its stream. *)
LEMMA ConsumeKept ==
    ASSUME IInv, NEW r \in Responses, Consume(r)
    PROVE  IInv'
<1>1. /\ r \in held /\ ~used[r] /\ stream[r] \notin {"locked", "kept"}
      /\ used' = [used EXCEPT ![r] = TRUE] /\ stream' = [stream EXCEPT ![r] = "kept"]
      /\ UNCHANGED <<created, held, got, outcome, srcQueue, srcRequest, again, teed, queue,
                     stored, read, sent, ended, empties>>
      /\ \/ /\ source = "none" /\ reader' = [reader EXCEPT ![r] = "bytes"]
            /\ source' = "closed" /\ registered' = FALSE /\ all' = "spawned"
         \/ /\ source # "none" /\ reader' = [reader EXCEPT ![r] = "text"]
            /\ source' = source /\ registered' = registered /\ all' = all
  BY DEF Consume, Unusable, told, peer
<1>2. outcome[r] = "open" /\ reader[r] = "idle"
  BY <1>1 DEF IInv, UsersAgree
<1>3. /\ \A x \in Responses : x # r =>
            stream'[x] = stream[x] /\ used'[x] = used[x] /\ reader'[x] = reader[x]
      /\ used'[r] /\ stream'[r] = "kept"
      /\ \/ source = "none" /\ reader'[r] = "bytes"
         \/ source # "none" /\ reader'[r] = "text"
  BY <1>1 DEF IInv, TypeOK
<1>4. TypeOK'
  <2>1. /\ stream' \in [Responses -> {"none", "free", "locked", "kept"}]
        /\ used' \in [Responses -> BOOLEAN]
        /\ reader' \in [Responses -> {"idle", "read", "text", "bytes"}]
    BY <1>1 DEF IInv, TypeOK
  <2>2. /\ source' \in {"none", "unstarted", "readable", "closed", "errored", "cancelled"}
        /\ all' \in {"none", "spawned", "reading", "end", "failed", "unknown"}
        /\ registered' \in BOOLEAN
    BY <1>1 DEF IInv, TypeOK
  <2> QED
    BY <1>1, <2>1, <2>2 DEF IInv, TypeOK
<1>5. UsersAgree'
  <2>1. \A x \in Responses : x # r =>
           /\ x \notin created => ~used[x] /\ queue[x] = <<>>
           /\ ~used[x] => reader[x] = "idle" /\ outcome[x] = "open" /\ got[x] = <<>>
           /\ reader[x] # "idle" => x \in held /\ outcome[x] = "open"
           /\ reader[x] = "bytes" => all' # "none"
    BY <1>1 DEF IInv, UsersAgree
  <2>2. r \in created
    BY <1>1, Types DEF IInv
  <2> QED
    BY <1>1, <1>2, <1>3, <2>1, <2>2 DEF UsersAgree
<1>6. NothingYet'
  BY <1>1 DEF NothingYet
<1>7. OneUser'
  BY <1>1, <1>3, Types DEF IInv, OneUser, Waiting
<1>8. HandleGuarded'
  BY <1>1 DEF IInv, HandleGuarded, NothingYet
<1>9. HandleOwned'
  <2>1. Live' = Live /\ held # {}
    BY <1>1 DEF Live
  <2>2. all = "none"
    BY <1>1 DEF IInv, TypeOK, HandleOwned, OneUser
  <2>3. source = "none" => stored /\ read = "none" /\ ~teed /\ r = Original
    BY <1>1, <2>1, HeldSource DEF IInv, NothingYet, OneUser, TypeOK
  <2>4. source = "readable" => registered /\ (stored \/ read \in {"end", "failed"})
    BY <2>1, HeldSource
  <2> QED
    BY <1>1, <1>3, <2>1, <2>2, <2>3, <2>4 DEF IInv, HandleOwned, Waiting
<1>10. EndsKnown'
  BY <1>1 DEF IInv, EndsKnown, NothingYet
<1>11. Positions'
  <2>1. CASE source # "none"
    BY <1>1, <2>1, PositionsKept DEF IInv
  <2>2. CASE source = "none"
    BY <1>1, <2>2 DEF IInv, Positions, Given
  <2> QED
    BY <2>1, <2>2
<1> QED
  BY <1>4, <1>5, <1>6, <1>7, <1>8, <1>9, <1>10, <1>11 DEF IInv

(* A clone is given what its Response still has to read. *)
LEMMA CloneKept ==
    ASSUME IInv, NEW r \in Responses, NEW c \in Responses, Clone(r, c)
    PROVE  IInv'
<1>1. /\ r \in held /\ ~used[r] /\ stream[r] \notin {"locked", "kept"} /\ c \notin created
      /\ created' = created \cup {c} /\ held' = held \cup {c}
      /\ stream' = [stream EXCEPT ![r] = "none"]
      /\ queue' = [queue EXCEPT ![c] = queue[r]]
      /\ teed' = TRUE
      /\ EnsureStreamSource
      /\ UNCHANGED <<used, reader, got, outcome, srcQueue, srcRequest, again, stored, read,
                     all, sent, ended, empties>>
  BY DEF Clone, Unusable, told, peer
<1>2. /\ source' = IF source = "none" THEN "unstarted" ELSE source
      /\ source' = "unstarted" => registered' /\ stored /\ read = "none" /\ all = "none"
      /\ source # "none" => registered' = registered
      /\ registered' \in BOOLEAN
      /\ registered => registered'
  BY <1>1, SourceMade
<1>3. /\ outcome[r] = "open" /\ reader[r] = "idle" /\ got[r] = <<>> /\ r \in Live
      /\ ~used[c] /\ outcome[c] = "open" /\ reader[c] = "idle" /\ got[c] = <<>>
      /\ r # c /\ r \in created /\ held # {}
  BY <1>1, Types DEF IInv, UsersAgree, Live
<1>4. /\ queue'[c] = queue[r] /\ \A x \in Responses : x # c => queue'[x] = queue[x]
      /\ queue' \in [Responses -> Seq(1..MaxChunks)]
      /\ Live' = Live \cup {c}
  BY <1>1, <1>3 DEF IInv, TypeOK, Live
<1>5. TypeOK'
  <2>1. source' \in {"none", "unstarted", "readable", "closed", "errored", "cancelled"}
    BY <1>2 DEF IInv, TypeOK
  <2>2. stream' \in [Responses -> {"none", "free", "locked", "kept"}]
    BY <1>1 DEF IInv, TypeOK
  <2>3. created' \subseteq Responses /\ held' \subseteq created'
    BY <1>1 DEF IInv, TypeOK
  <2> QED
    BY <1>1, <1>2, <1>4, <2>1, <2>2, <2>3 DEF IInv, TypeOK
<1>6. UsersAgree'
  BY <1>1, <1>3, <1>4 DEF IInv, UsersAgree
<1>7. NothingYet' /\ OneUser'
  BY <1>1, <1>2 DEF NothingYet, OneUser
<1>8. HandleGuarded'
  BY <1>1, <1>2 DEF IInv, HandleGuarded
<1>9. all = "none" /\ source # "cancelled"
  BY <1>1, <1>3 DEF IInv, HandleOwned, OneUser
<1>10. HandleOwned'
  <2>1. source = "readable" => registered /\ (stored \/ read \in {"end", "failed"})
    BY <1>3, HeldSource
  <2> QED
    BY <1>1, <1>2, <1>9, <2>1 DEF IInv, HandleOwned
<1>11. EndsKnown'
  BY <1>1, <1>2 DEF IInv, EndsKnown
<1>12. Positions'
  <2>1. /\ \A x \in Responses : x # c => Given(x)' = Given(x)
        /\ Given(c)' = Given(r)
    BY <1>1, <1>3, <1>4 DEF Given
  <2>2. \A i \in 1..Len(queue[r]) : queue[r][i] = Len(got[c]) + i
    BY <1>3 DEF IInv, Positions
  <2>3. \A x \in Responses :
           /\ got'[x] = UpTo(Len(got'[x]))
           /\ \A i \in 1..Len(queue'[x]) : queue'[x][i] = Len(got'[x]) + i
           /\ Given(x)' <= sent'
    BY <1>1, <1>4, <2>1, <2>2 DEF IInv, Positions
  <2>4. Settling' = Settling /\ \A x \in Live' : x \in Responses
    BY <1>1, <1>4, Types DEF IInv, Settling
  <2>5. CASE source # "none"
    BY <1>1, <1>2, <1>3, <1>4, <1>9, <2>1, <2>3, <2>4, <2>5 DEF IInv, Positions
  <2>6. CASE source = "none"
    <3>1. \A x \in Responses : Given(x) = 0
      <4>1. \A x \in Responses : got[x] = <<>> /\ queue[x] = <<>>
        BY <2>6 DEF IInv, NothingYet, UsersAgree, OneUser
      <4>2. \A x \in Responses : Len(got[x]) = 0 /\ Len(queue[x]) = 0
        BY <4>1, Types DEF IInv
      <4>3. ASSUME NEW x \in Responses
            PROVE  Given(x) = 0
        <5>1. Given(x) = Len(got[x]) + Len(queue[x])
          BY DEF Given
        <5>2. 0 + 0 = 0
          OBVIOUS
        <5> QED
          BY <4>2, <5>1, <5>2, Zenon
      <4> QED
        BY <4>3
    <3>2. sent = 0 /\ Len(srcQueue) = 0 /\ srcQueue = <<>> /\ Settling = 0
      BY <2>6, Types DEF IInv, NothingYet, Settling
    <3>3. \A x \in Responses : Given(x)' = 0
      BY <2>1, <3>1
    <3> QED
      BY <1>1, <1>2, <2>3, <2>4, <2>6, <3>2, <3>3 DEF Positions
  <2> QED
    BY <2>5, <2>6
<1> QED
  BY <1>5, <1>6, <1>7, <1>8, <1>10, <1>11, <1>12 DEF IInv

(* A cancel takes its branch, and the last one the source and the handle. *)
LEMMA CancelKept ==
    ASSUME IInv, NEW r \in Responses, Cancel(r)
    PROVE  IInv'
<1>1. /\ r \in held /\ stream[r] \in {"free", "locked"} /\ outcome[r] = "open"
      /\ used' = [used EXCEPT ![r] = TRUE]
      /\ reader' = [reader EXCEPT ![r] = "idle"]
      /\ outcome' = [outcome EXCEPT ![r] = "cancelled"]
      /\ queue' = [queue EXCEPT ![r] = <<>>]
      /\ UNCHANGED <<created, held, stream, got, again, teed, read, all, sent, ended, empties>>
      /\ \/ /\ Live = {r} /\ source \in {"unstarted", "readable"}
            /\ source' = "cancelled" /\ srcQueue' = <<>> /\ srcRequest' = FALSE
            /\ registered' = FALSE /\ stored' = FALSE
         \/ /\ ~(Live = {r} /\ source \in {"unstarted", "readable"})
            /\ UNCHANGED <<source, srcQueue, srcRequest, registered, stored>>
  BY DEF Cancel, peer
<1>2. r \in created /\ r \in Live /\ source # "none" /\ held # {}
  BY <1>1, Types DEF IInv, Live, NothingYet
<1>3. /\ \A x \in Responses : x # r => /\ used'[x] = used[x] /\ reader'[x] = reader[x]
                                       /\ outcome'[x] = outcome[x] /\ queue'[x] = queue[x]
      /\ used'[r] /\ reader'[r] = "idle" /\ outcome'[r] = "cancelled" /\ queue'[r] = <<>>
      /\ Live' = Live \ {r}
  BY <1>1 DEF IInv, TypeOK, Live
<1>4. TypeOK'
  <2>1. /\ used' \in [Responses -> BOOLEAN]
        /\ reader' \in [Responses -> {"idle", "read", "text", "bytes"}]
        /\ outcome' \in [Responses -> {"open", "whole", "failed", "cancelled"}]
        /\ queue' \in [Responses -> Seq(1..MaxChunks)]
    BY <1>1 DEF IInv, TypeOK
  <2>2. /\ source' \in {"none", "unstarted", "readable", "closed", "errored", "cancelled"}
        /\ {srcRequest', registered', stored'} \subseteq BOOLEAN
    BY <1>1 DEF IInv, TypeOK
  <2>3. srcQueue' \in Seq(1..MaxChunks) /\ Len(srcQueue') <= 1
    <3>1. <<>> \in Seq(1..MaxChunks) /\ Len(<<>>) <= 1
      OBVIOUS
    <3> QED
      BY <1>1, <3>1 DEF IInv, TypeOK
  <2> QED
    BY <1>1, <2>1, <2>2, <2>3 DEF IInv, TypeOK
<1>5. UsersAgree'
  BY <1>1, <1>2, <1>3 DEF IInv, UsersAgree
<1>6. NothingYet'
  BY <1>1, <1>2 DEF NothingYet
<1>7. ~teed => source' \notin {"unstarted", "readable"} /\ r = Original
  BY <1>1, <1>2 DEF IInv, OneUser, Live
<1>8. OneUser'
  BY <1>1, <1>3, <1>7 DEF IInv, OneUser
<1>9. all = "none"
  BY <1>1, <1>7 DEF IInv, HandleOwned
<1>10. HandleGuarded'
  BY <1>1, <1>2, <1>9 DEF IInv, HandleGuarded
<1>11. HandleOwned'
  <2>1. source = "readable" => registered /\ (stored \/ read \in {"end", "failed"})
    BY <1>2, HeldSource
  <2> QED
    BY <1>1, <1>2, <1>3, <1>9, <2>1 DEF IInv, HandleOwned
<1>12. EndsKnown'
  BY <1>1 DEF IInv, EndsKnown
<1>13. Positions'
  <2>1. \A x \in Responses : x # r => Given(x)' = Given(x)
    BY <1>1, <1>3 DEF Given
  <2>2. Len(queue'[r]) = 0 /\ Len(got'[r]) = Len(got[r]) /\ Given(r)' <= sent'
    <3>1. Len(queue'[r]) = 0 /\ Len(got'[r]) = Len(got[r])
      BY <1>1, <1>3
    <3>2. Len(got[r]) + Len(queue[r]) <= sent /\ sent' = sent
      BY <1>1 DEF IInv, Positions, Given
    <3> QED
      <4>1. \A a, b, n \in Nat : a + b <= n => a + 0 <= n
        OBVIOUS
      <4>2. Len(got[r]) \in Nat /\ Len(queue[r]) \in Nat /\ sent \in Nat
        BY Types DEF IInv
      <4>3. Len(got[r]) + 0 <= sent
        BY <3>2, <4>1, <4>2
      <4> QED
        BY <3>1, <3>2, <4>3 DEF Given
  <2>3. \A x \in Responses :
           /\ got'[x] = UpTo(Len(got'[x]))
           /\ \A i \in 1..Len(queue'[x]) : queue'[x][i] = Len(got'[x]) + i
           /\ Given(x)' <= sent'
    BY <1>1, <1>3, <2>1, <2>2 DEF IInv, Positions
  <2>4. Settling' = Settling /\ \A x \in Live' : x \in Responses /\ x # r /\ x \in Live
    BY <1>1, <1>3, Types DEF IInv, Settling
  <2> QED
    BY <1>1, <1>2, <1>3, <1>9, <2>1, <2>3, <2>4 DEF IInv, Positions
<1> QED
  BY <1>4, <1>5, <1>6, <1>8, <1>10, <1>11, <1>12, <1>13 DEF IInv

-----------------------------------------------------------------------------
(* The source starts with its first read. *)
LEMMA SourceStartsKept ==
    ASSUME IInv, SourceStarts
    PROVE  IInv'
<1>1. /\ source = "unstarted" /\ source' = "readable" /\ read' = "spawned" /\ again' = FALSE
      /\ UNCHANGED <<created, held, used, stream, reader, got, outcome, srcQueue, srcRequest,
                     teed, queue, registered, stored, all, sent, ended, empties>>
  BY DEF SourceStarts, Spawn, users, told, peer
<1>2. registered /\ stored /\ read = "none" /\ all = "none"
  BY <1>1 DEF IInv, HandleOwned
<1>3. TypeOK'
  BY <1>1 DEF IInv, TypeOK
<1>4. UsersAgree' /\ NothingYet' /\ OneUser'
  BY <1>1 DEF IInv, UsersAgree, NothingYet, OneUser, Waiting
<1>5. HandleGuarded' /\ HandleOwned' /\ EndsKnown'
  BY <1>1, <1>2 DEF IInv, HandleGuarded, HandleOwned, EndsKnown
<1>6. Positions'
  <2>1. Settling' = Settling /\ Live' = Live /\ \A x \in Responses : Given(x)' = Given(x)
    BY <1>1, <1>2 DEF Settling, Live, Given
  <2> QED
    BY <1>1, <1>2, <2>1, Types DEF IInv, Positions
<1> QED
  BY <1>3, <1>4, <1>5, <1>6 DEF IInv

(* The finalizer of a body that nobody keeps, and that nobody asks for. *)
LEMMA CollectKept ==
    ASSUME IInv, Collect
    PROVE  IInv'
<1>1. /\ held = {} /\ registered /\ read = "none" /\ source # "unstarted"
      /\ source = "readable" => srcRequest \/ \A r \in Responses : ~Want(r)
      /\ registered' = FALSE /\ stored' = FALSE
      /\ UNCHANGED <<created, held, used, stream, reader, got, outcome, source, srcQueue,
                     srcRequest, again, teed, queue, read, all, sent, ended, empties>>
  BY DEF Collect, users, told, src, peer
<1>2. TypeOK'
  BY <1>1 DEF IInv, TypeOK
<1>3. UsersAgree' /\ NothingYet' /\ OneUser'
  BY <1>1 DEF IInv, UsersAgree, NothingYet, OneUser, Waiting
<1>4. all = "none"
  BY <1>1 DEF IInv, HandleOwned
<1>5. source' = "readable" => Gone'
  BY <1>1 DEF Gone, Want, Live, Waiting
<1>6. HandleGuarded'
  BY <1>1, <1>4 DEF IInv, HandleGuarded
<1>7. HandleOwned'
  BY <1>1, <1>4, <1>5 DEF IInv, HandleOwned, Live
<1>8. EndsKnown'
  BY <1>1 DEF IInv, EndsKnown
<1>9. Positions'
  BY <1>1, PositionsKept DEF IInv
<1> QED
  BY <1>2, <1>3, <1>6, <1>7, <1>8, <1>9 DEF IInv

(* A native read looks its handle up: it finds it unless it was cancelled. *)
LEMMA ReadStartsKept ==
    ASSUME IInv, ReadStarts
    PROVE  IInv'
<1>1. /\ UNCHANGED <<created, held, used, stream, reader, got, outcome, source, srcQueue,
                     srcRequest, again, teed, queue, registered, sent, ended, empties>>
      /\ \/ /\ read = "spawned" /\ read' = (IF stored THEN "reading" ELSE "unknown")
            /\ stored' = stored /\ all' = all
         \/ /\ all = "spawned" /\ all' = (IF stored THEN "reading" ELSE "unknown")
            /\ stored' = FALSE /\ read' = read
  BY DEF ReadStarts, users, told, src, peer
<1>2. CASE read = "spawned" /\ read' = (IF stored THEN "reading" ELSE "unknown")
           /\ stored' = stored /\ all' = all
  <2>1. TypeOK'
    BY <1>1, <1>2 DEF IInv, TypeOK
  <2>2. source \in {"readable", "cancelled"} /\ all = "none"
    BY <1>2 DEF IInv, TypeOK, HandleOwned, NothingYet
  <2>3. source = "readable" => stored /\ registered
    BY <1>2 DEF IInv, HandleOwned, Gone
  <2>4. UsersAgree' /\ NothingYet' /\ OneUser'
    BY <1>1, <1>2, <2>2 DEF IInv, UsersAgree, NothingYet, OneUser, Waiting
  <2>5. HandleGuarded'
    BY <1>1, <1>2, <2>2, <2>3 DEF IInv, HandleGuarded
  <2>6. HandleOwned'
    BY <1>1, <1>2, <2>2, <2>3 DEF IInv, HandleOwned, Live
  <2>7. EndsKnown'
    BY <1>1, <1>2 DEF IInv, EndsKnown
  <2>8. Positions'
    <3>1. Settling' = Settling /\ Live' = Live /\ \A x \in Responses : Given(x)' = Given(x)
      BY <1>1, <1>2 DEF Settling, Live, Given
    <3> QED
      BY <1>1, <1>2, <2>2, <3>1, Types DEF IInv, Positions
  <2> QED
    BY <2>1, <2>4, <2>5, <2>6, <2>7, <2>8 DEF IInv
<1>3. CASE all = "spawned" /\ all' = (IF stored THEN "reading" ELSE "unknown")
           /\ stored' = FALSE /\ read' = read
  <2>1. stored /\ all' = "reading" /\ source = "closed" /\ read = "none" /\ ~registered
    BY <1>3 DEF IInv, HandleOwned
  <2>2. TypeOK'
    BY <1>1, <1>3, <2>1 DEF IInv, TypeOK
  <2>3. UsersAgree' /\ NothingYet' /\ OneUser'
    BY <1>1, <1>3, <2>1 DEF IInv, UsersAgree, NothingYet, OneUser, Waiting
  <2>4. HandleGuarded' /\ HandleOwned' /\ EndsKnown'
    BY <1>1, <1>3, <2>1
       DEF IInv, HandleGuarded, HandleOwned, EndsKnown, Live, Waiting
  <2>5. Positions'
    <3>1. Live' = Live /\ \A x \in Responses : Given(x)' = Given(x)
      BY <1>1 DEF Live, Given
    <3> QED
      BY <1>1, <2>1, <3>1 DEF IInv, Positions
  <2> QED
    BY <2>2, <2>3, <2>4, <2>5 DEF IInv
<1> QED
  BY <1>1, <1>2, <1>3

(* Only one of the two reads is under way. *)
LEMMA OneRead ==
    ASSUME IInv, Reading
    PROVE  \/ read = "reading" /\ all = "none" /\ source \in {"readable", "cancelled"}
           \/ all = "reading" /\ read = "none" /\ source = "closed" /\ ~teed /\ ~registered
BY DEF Reading, IInv, TypeOK, HandleOwned, NothingYet

(* A chunk comes off the connection. *)
LEMMA ChunkKept ==
    ASSUME IInv, Chunk
    PROVE  IInv'
<1>1. /\ Reading /\ ended = "open" /\ sent < MaxChunks /\ sent' = sent + 1 /\ empties' = 0
      /\ read' = (IF read = "reading" THEN "chunk" ELSE read)
      /\ UNCHANGED <<created, held, used, stream, reader, got, outcome, source, srcQueue,
                     srcRequest, again, teed, queue, registered, stored, all, ended>>
  BY DEF Chunk, users, told, src
<1>2. sent' \in 0..MaxChunks /\ empties' \in 0..MaxEmpty
  BY <1>1, Types DEF IInv
<1>3. TypeOK'
  BY <1>1, <1>2 DEF IInv, TypeOK
<1>4. \/ read = "reading" /\ all = "none" /\ source \in {"readable", "cancelled"}
      \/ all = "reading" /\ read = "none" /\ source = "closed" /\ ~teed /\ ~registered
  BY <1>1, OneRead
<1>5. UsersAgree' /\ NothingYet' /\ OneUser'
  BY <1>1, <1>4 DEF IInv, UsersAgree, NothingYet, OneUser, Waiting
<1>6. HandleGuarded' /\ EndsKnown'
  BY <1>1, <1>4 DEF IInv, HandleGuarded, EndsKnown
<1>7. HandleOwned'
  BY <1>1, <1>4 DEF IInv, HandleOwned, Gone, Live, Waiting
<1>8. Positions'
  <2>1. Live' = Live /\ \A x \in Responses : Given(x)' = Given(x)
    BY <1>1 DEF Live, Given
  <2>2. \A x \in Responses : Given(x)' <= sent'
    <3>1. \A x \in Responses : Given(x) \in Nat
      BY GivenCounts DEF IInv
    <3>2. \A x \in Responses : Given(x) <= sent /\ sent \in Nat
      BY Types DEF IInv, Positions
    <3>3. \A a, b \in Nat : a <= b => a <= b + 1
      OBVIOUS
    <3> QED
      BY <1>1, <2>1, <3>1, <3>2, <3>3
  <2>3. ASSUME source = "readable"
        PROVE  /\ \A r \in Live : Given(r)' + Len(srcQueue') + Settling' = sent'
               /\ srcQueue = <<>>
    <3>1. srcQueue = <<>> /\ Len(srcQueue) = 0 /\ read = "reading" /\ read' = "chunk"
      BY <1>1, <1>4, <2>3, Types DEF IInv, Positions
    <3>2. Settling = 0 /\ Settling' = 1
      BY <3>1 DEF Settling
    <3>3. \A r \in Live : r \in Responses /\ Given(r) + 0 + 0 = sent
      BY <2>3, <3>1, <3>2, Types DEF IInv, Positions
    <3>4. \A a, b \in Nat : a + 0 + 0 = b => a + 0 + 1 = b + 1
      OBVIOUS
    <3>5. \A r \in Responses : Given(r) \in Nat /\ sent \in Nat
      BY Types, GivenCounts DEF IInv
    <3>6. \A r \in Live : Given(r) + 0 + 1 = sent + 1
      BY <3>3, <3>4, <3>5
    <3>7. \A r \in Live : Given(r)' = Given(r)
      BY <2>1, <3>3
    <3> QED
      BY <1>1, <3>1, <3>2, <3>6, <3>7
  <2>4. source = "readable" => \A i \in 1..Len(srcQueue) : FALSE
    BY <2>3, Types DEF IInv
  <2>5. sent' # 0
    BY <1>1, Types DEF IInv
  <2> QED
    BY <1>1, <1>4, <2>1, <2>2, <2>3, <2>4, <2>5 DEF IInv, Positions
<1> QED
  BY <1>3, <1>5, <1>6, <1>7, <1>8 DEF IInv

(* An empty chunk, or the end of the body. *)
LEMMA EmptyOrEndKept ==
    ASSUME IInv, EmptyChunk \/ BodyEnds
    PROVE  IInv'
<1>1. /\ Reading /\ ended = "open"
      /\ UNCHANGED <<created, held, used, stream, reader, got, outcome, source, srcQueue,
                     srcRequest, again, teed, queue, registered, sent>>
      /\ \/ /\ empties < MaxEmpty /\ empties' = empties + 1
            /\ read' = (IF read = "reading" THEN "empty" ELSE read)
            /\ all' = all /\ stored' = stored /\ ended' = ended
         \/ /\ ended' \in {"whole", "failed"}
            /\ read' = (IF read = "reading" THEN IF ended' = "whole" THEN "end" ELSE "failed"
                                            ELSE read)
            /\ all' = (IF all = "reading" THEN IF ended' = "whole" THEN "end" ELSE "failed"
                                          ELSE all)
            /\ stored' = FALSE /\ empties' = empties
  BY DEF EmptyChunk, BodyEnds, users, told, src
<1>2. \/ read = "reading" /\ all = "none" /\ source \in {"readable", "cancelled"}
      \/ all = "reading" /\ read = "none" /\ source = "closed" /\ ~teed /\ ~registered
  BY <1>1, OneRead
<1>3. empties' \in 0..MaxEmpty
  BY <1>1, Types DEF IInv, TypeOK
<1>4. TypeOK'
  <2>1. /\ read' \in {"none", "spawned", "reading", "chunk", "empty", "end", "failed", "unknown"}
        /\ all' \in {"none", "spawned", "reading", "end", "failed", "unknown"}
        /\ stored' \in BOOLEAN /\ ended' \in {"open", "whole", "failed"}
    BY <1>1 DEF IInv, TypeOK
  <2> QED
    BY <1>1, <1>3, <2>1 DEF IInv, TypeOK
<1>5. UsersAgree' /\ NothingYet' /\ OneUser'
  BY <1>1, <1>2 DEF IInv, UsersAgree, NothingYet, OneUser, Waiting
<1>6. HandleGuarded'
  BY <1>1, <1>2 DEF IInv, HandleGuarded
<1>7. HandleOwned'
  BY <1>1, <1>2 DEF IInv, HandleOwned, Gone, Live, Waiting
<1>8. EndsKnown'
  BY <1>1, <1>2 DEF IInv, EndsKnown
<1>9. Positions'
  <2>1. Live' = Live /\ \A x \in Responses : Given(x)' = Given(x)
    BY <1>1 DEF Live, Given
  <2>2. Settling' = Settling
    BY <1>1, <1>2 DEF Settling
  <2> QED
    BY <1>1, <1>2, <2>1, <2>2, Types DEF IInv, Positions
<1> QED
  BY <1>4, <1>5, <1>6, <1>7, <1>8, <1>9 DEF IInv

-----------------------------------------------------------------------------
(* The next chunk of the source: everyone who has not cancelled gets it    *)
(* once, with a read that waits or in a queue.                             *)
LEMMA DistributeFacts ==
    ASSUME TypeOK, Positions, UsersAgree, NEW chunk \in 1..MaxChunks, Distribute(chunk),
           \A r \in Live : Given(r) + 1 = chunk,
           ~teed => \A r \in Live : Waiting(r) /\ queue[r] = <<>>
    PROVE  /\ got' \in [Responses -> Seq(1..MaxChunks)]
           /\ queue' \in [Responses -> Seq(1..MaxChunks)]
           /\ reader' \in [Responses -> {"idle", "read", "text", "bytes"}]
           /\ \A r \in Responses :
                 /\ got'[r] = UpTo(Len(got'[r]))
                 /\ \A i \in 1..Len(queue'[r]) : queue'[r][i] = Len(got'[r]) + i
                 /\ r \in Live => Len(got'[r]) + Len(queue'[r]) = chunk
                 /\ r \notin Live => got'[r] = got[r] /\ queue'[r] = queue[r]
                 /\ ~teed => queue'[r] = queue[r]
                 /\ got'[r] # got[r] => reader[r] # "idle"
                 /\ reader'[r] \in {reader[r], "idle"}
                 /\ reader[r] = "bytes" => reader'[r] = "bytes"
<1> DEFINE now == {r \in Live : Waiting(r) /\ queue[r] = <<>>}
<1>1. /\ got' = [r \in Responses |-> IF r \in now THEN Append(got[r], chunk) ELSE got[r]]
      /\ reader' = [r \in Responses |->
                      IF r \in now /\ reader[r] = "read" THEN "idle" ELSE reader[r]]
      /\ queue' = [r \in Responses |->
                     IF teed /\ r \in Live \ now THEN Append(queue[r], chunk) ELSE queue[r]]
  BY DEF Distribute
<1>2. reader' \in [Responses -> {"idle", "read", "text", "bytes"}]
  BY <1>1 DEF TypeOK
<1>3. ASSUME NEW r \in Responses
      PROVE  /\ got'[r] \in Seq(1..MaxChunks) /\ queue'[r] \in Seq(1..MaxChunks)
             /\ got'[r] = UpTo(Len(got'[r]))
             /\ \A i \in 1..Len(queue'[r]) : queue'[r][i] = Len(got'[r]) + i
             /\ r \in Live => Len(got'[r]) + Len(queue'[r]) = chunk
             /\ r \notin Live => got'[r] = got[r] /\ queue'[r] = queue[r]
             /\ ~teed => queue'[r] = queue[r]
             /\ got'[r] # got[r] => reader[r] # "idle"
  <2>1. /\ got[r] \in Seq(1..MaxChunks) /\ queue[r] \in Seq(1..MaxChunks)
        /\ Len(got[r]) \in Nat /\ Len(queue[r]) \in Nat
        /\ queue[r] = <<>> <=> Len(queue[r]) = 0
    BY Types
  <2>2. /\ got[r] = UpTo(Len(got[r]))
        /\ \A i \in 1..Len(queue[r]) : queue[r][i] = Len(got[r]) + i
    BY DEF Positions
  <2>3. r \in Live => Len(got[r]) + Len(queue[r]) + 1 = chunk
    BY DEF Given
  <2>4. CASE r \in now
    <3>1. /\ got'[r] = Append(got[r], chunk) /\ queue'[r] = queue[r]
          /\ queue[r] = <<>> /\ Len(queue[r]) = 0 /\ r \in Live /\ reader[r] # "idle"
      BY <1>1, <2>1, <2>4 DEF Waiting
    <3>2. chunk = Len(got[r]) + 1
      <4>1. \A a, n \in Nat : a + 0 + 1 = n => n = a + 1
        OBVIOUS
      <4>2. Len(got[r]) + 0 + 1 = chunk /\ chunk \in Nat
        BY <2>3, <3>1
      <4> QED
        BY <2>1, <4>1, <4>2
    <3>3. Append(got[r], chunk) = UpTo(Len(got[r]) + 1)
      BY <2>1, <2>2, <3>2, CountingOn DEF UpTo
    <3>4. Append(got[r], chunk) \in Seq(1..MaxChunks)
          /\ Len(Append(got[r], chunk)) = Len(got[r]) + 1
      BY <2>1, AppendFacts
    <3>5. Len(got'[r]) = chunk
      BY <3>1, <3>2, <3>4
    <3>6. Len(got'[r]) + Len(queue'[r]) = chunk
      BY <3>1, <3>5
    <3>7. \A i \in 1..Len(queue'[r]) : FALSE
      BY <3>1
    <3> QED
      BY <2>1, <3>1, <3>3, <3>4, <3>6, <3>7
  <2>5. CASE r \in Live \ now
    <3>1. teed
      BY <2>5
    <3>2. got'[r] = got[r] /\ queue'[r] = Append(queue[r], chunk)
      BY <1>1, <2>5, <3>1
    <3>3. /\ Append(queue[r], chunk) \in Seq(1..MaxChunks)
          /\ Len(Append(queue[r], chunk)) = Len(queue[r]) + 1
          /\ \A i \in 1..Len(queue[r]) : Append(queue[r], chunk)[i] = queue[r][i]
          /\ Append(queue[r], chunk)[Len(queue[r]) + 1] = chunk
      BY <2>1, AppendFacts
    <3>4. Len(got[r]) + (Len(queue[r]) + 1) = chunk
      <4>1. \A a, b \in Nat : a + b + 1 = a + (b + 1)
        OBVIOUS
      <4>2. r \in Live
        BY <2>5
      <4>3. Len(got[r]) + Len(queue[r]) + 1 = chunk
        BY <2>3, <4>2
      <4>4. Len(got[r]) + Len(queue[r]) + 1 = Len(got[r]) + (Len(queue[r]) + 1)
        BY <2>1, <4>1
      <4> QED
        BY <4>3, <4>4
    <3>5. ASSUME NEW i \in 1..(Len(queue[r]) + 1)
          PROVE  Append(queue[r], chunk)[i] = Len(got[r]) + i
      <4>1. i \in 1..Len(queue[r]) \/ i = Len(queue[r]) + 1
        BY <2>1
      <4> QED
        BY <2>2, <3>3, <3>4, <4>1
    <3> QED
      BY <2>1, <2>2, <2>5, <3>1, <3>2, <3>3, <3>4, <3>5
  <2>6. CASE r \notin Live
    BY <1>1, <2>1, <2>2, <2>6
  <2> QED
    BY <2>4, <2>5, <2>6
<1>4. /\ got' \in [Responses -> Seq(1..MaxChunks)]
      /\ queue' \in [Responses -> Seq(1..MaxChunks)]
  BY <1>1, <1>3
<1>5. \A r \in Responses : /\ reader'[r] \in {reader[r], "idle"}
                           /\ reader[r] = "bytes" => reader'[r] = "bytes"
  BY <1>1 DEF TypeOK
<1> QED
  BY <1>2, <1>3, <1>4, <1>5

(* The source is asked for a chunk: one that waits in its queue is handed  *)
(* out, else a read is requested.                                          *)
LEMMA AskKept ==
    ASSUME IInv, Ask
    PROVE  IInv'
<1>1. /\ source = "readable" /\ ~srcRequest /\ \E r \in Responses : Want(r)
      /\ UNCHANGED <<created, held, used, stream, outcome, source, teed, registered, stored,
                     all, sent, ended, empties>>
      /\ \/ /\ srcQueue # <<>> /\ Distribute(Head(srcQueue)) /\ srcQueue' = <<>>
            /\ srcRequest' = srcRequest
         \/ /\ srcQueue = <<>> /\ srcRequest' = TRUE
            /\ UNCHANGED <<got, reader, queue, srcQueue>>
      /\ \/ read = "none" /\ read' = "spawned" /\ again' = FALSE
         \/ read # "none" /\ read' = read /\ again' = TRUE
  BY DEF Ask, Spawn, peer
<1>2. all = "none" /\ registered /\ (stored \/ read \in {"end", "failed"})
  BY <1>1 DEF IInv, HandleOwned, Gone
<1>3. Live' = Live /\ \A r \in Live : r \in Responses
  BY <1>1, Types DEF IInv, Live
<1>4. ~teed => Live = {Original} /\ Waiting(Original) /\ queue[Original] = <<>>
  BY <1>1 DEF IInv, OneUser, Want, Live
<1>5. read' \in {"none", "spawned", "reading", "chunk", "empty", "end", "failed", "unknown"}
      /\ again' \in BOOLEAN
  BY <1>1 DEF IInv, TypeOK
<1>6. HandleGuarded'
  BY <1>1 DEF IInv, HandleGuarded
<1>7. EndsKnown' /\ NothingYet'
  BY <1>1 DEF IInv, EndsKnown, NothingYet
<1>8. HandleOwned'
  BY <1>1, <1>2, <1>3 DEF IInv, HandleOwned
<1>9. CASE srcQueue = <<>>
  <2>1. srcRequest' = TRUE /\ UNCHANGED <<got, reader, queue, srcQueue>>
    BY <1>1, <1>9
  <2>2. TypeOK'
    BY <1>1, <1>5, <2>1 DEF IInv, TypeOK
  <2>3. UsersAgree'
    BY <1>1, <2>1 DEF IInv, UsersAgree
  <2>4. OneUser'
    BY <1>1, <1>4, <2>1 DEF IInv, OneUser, Waiting
  <2>5. Positions'
    <3>1. Settling' = Settling /\ \A x \in Responses : Given(x)' = Given(x)
      BY <1>1, <2>1 DEF Settling, Given
    <3> QED
      BY <1>1, <1>3, <1>9, <2>1, <3>1 DEF IInv, Positions
  <2> QED
    BY <1>6, <1>7, <1>8, <2>2, <2>3, <2>4, <2>5 DEF IInv
<1>10. CASE srcQueue # <<>>
  <2>1. Distribute(Head(srcQueue)) /\ srcQueue' = <<>> /\ srcRequest' = FALSE
    BY <1>1, <1>10 DEF IInv, TypeOK
  <2>2. /\ Len(srcQueue) = 1 /\ Head(srcQueue) = sent /\ sent \in 1..MaxChunks
        /\ read = "none" /\ read' = "spawned"
    <3>1. Len(srcQueue) = 1
      <4>1. Len(srcQueue) \in Nat /\ Len(srcQueue) <= 1 /\ Len(srcQueue) # 0
        BY <1>10, Types DEF IInv
      <4>2. \A n \in Nat : n <= 1 /\ n # 0 => n = 1
        OBVIOUS
      <4> QED
        BY <4>1, <4>2
    <3>2. Head(srcQueue) = srcQueue[1] /\ Head(srcQueue) \in 1..MaxChunks
      BY <1>10, TailFacts, Types DEF IInv
    <3>3. srcQueue[1] = sent
      BY <1>1, <3>1 DEF IInv, Positions
    <3> QED
      BY <1>1, <1>10, <3>1, <3>2, <3>3 DEF IInv, Positions
  <2>3. ASSUME NEW r \in Live
        PROVE  Given(r) + 1 = sent
    <3>1. Given(r) + 1 + 0 = sent
      BY <1>1, <2>2 DEF IInv, Positions, Settling
    <3>2. \A a, b \in Nat : a + 1 + 0 = b => a + 1 = b
      OBVIOUS
    <3>3. Given(r) \in Nat /\ sent \in Nat
      BY <1>3, GivenCounts, Types DEF IInv
    <3> QED
      BY <3>1, <3>2, <3>3
  <2>4. /\ got' \in [Responses -> Seq(1..MaxChunks)]
        /\ queue' \in [Responses -> Seq(1..MaxChunks)]
        /\ reader' \in [Responses -> {"idle", "read", "text", "bytes"}]
        /\ \A r \in Responses :
              /\ got'[r] = UpTo(Len(got'[r]))
              /\ \A i \in 1..Len(queue'[r]) : queue'[r][i] = Len(got'[r]) + i
              /\ r \in Live => Len(got'[r]) + Len(queue'[r]) = sent
              /\ r \notin Live => got'[r] = got[r] /\ queue'[r] = queue[r]
              /\ ~teed => queue'[r] = queue[r]
              /\ got'[r] # got[r] => reader[r] # "idle"
              /\ reader'[r] \in {reader[r], "idle"}
              /\ reader[r] = "bytes" => reader'[r] = "bytes"
    <3>1. ~teed => \A r \in Live : Waiting(r) /\ queue[r] = <<>>
      BY <1>4
    <3> QED
      BY <2>1, <2>2, <2>3, <3>1, DistributeFacts DEF IInv
  <2>5. TypeOK'
    <3>0. <<>> \in Seq(1..MaxChunks) /\ Len(<<>>) <= 1
      OBVIOUS
    <3>1. srcQueue' \in Seq(1..MaxChunks) /\ Len(srcQueue') <= 1 /\ srcRequest' \in BOOLEAN
      BY <2>1, <3>0
    <3> QED
      BY <1>1, <1>5, <2>4, <3>1 DEF IInv, TypeOK
  <2>6. UsersAgree'
    BY <1>1, <1>3, <2>4 DEF IInv, UsersAgree, Live
  <2>7. OneUser'
    BY <1>1, <2>1, <2>4 DEF IInv, OneUser
  <2>8. Positions'
    <3>1. Len(srcQueue') = 0 /\ Settling' = 0
      BY <2>1, <2>2 DEF Settling
    <3>2. \A r \in Live : Given(r)' = sent
      BY <1>3, <2>4 DEF Given
    <3>3. \A r \in Responses : r \notin Live => Given(r)' = Given(r)
      BY <2>4 DEF Given
    <3>4. \A r \in Responses : Given(r)' <= sent'
      <4>1. sent' = sent /\ sent <= sent
        BY <1>1, Types DEF IInv
      <4>2. \A r \in Responses : Given(r) <= sent
        BY DEF IInv, Positions
      <4> QED
        BY <3>2, <3>3, <4>1, <4>2
    <3>5. \A r \in Live' : Given(r)' + Len(srcQueue') + Settling' = sent'
      <4>1. sent + 0 + 0 = sent
        BY Types DEF IInv
      <4> QED
        BY <1>1, <1>3, <3>1, <3>2, <4>1
    <3> QED
      BY <1>1, <2>1, <2>2, <2>4, <3>1, <3>4, <3>5 DEF Positions
  <2> QED
    BY <1>6, <1>7, <1>8, <2>5, <2>6, <2>7, <2>8 DEF IInv
<1> QED
  BY <1>9, <1>10

(* The native read of a chunk settles: its chunk goes to those who asked   *)
(* or waits in the queue of the source, or the body has ended.             *)
LEMMA ReadSettlesKept ==
    ASSUME IInv, ReadSettles
    PROVE  IInv'
<1>1. /\ read \in {"chunk", "empty", "end", "failed", "unknown"}
      /\ registered' = (IF read \in {"end", "failed", "unknown"} THEN FALSE ELSE registered)
      /\ UNCHANGED <<created, held, used, stream, outcome, teed, stored, all, sent, ended,
                     empties>>
  BY DEF ReadSettles, peer
<1>2. source \notin {"none", "unstarted", "closed", "errored"} /\ all = "none"
      /\ source \in {"readable", "cancelled"}
  BY <1>1 DEF IInv, TypeOK, NothingYet, HandleOwned
<1>3. Live' = Live /\ \A r \in Live : r \in Responses
  BY <1>1, Types DEF IInv, Live
<1>4. source = "readable" =>
        /\ registered /\ (stored \/ read \in {"end", "failed"}) /\ read # "unknown"
        /\ srcQueue = <<>> /\ Len(srcQueue) = 0
  BY <1>1, Types DEF IInv, HandleOwned, HandleGuarded, Positions, Gone
<1>5. registered' \in BOOLEAN
  BY <1>1 DEF IInv, TypeOK
<1>6. CASE source # "readable"
  <2>1. /\ read' = "none" /\ source' = source
        /\ UNCHANGED <<reader, got, srcQueue, srcRequest, again, queue>>
    BY <1>6 DEF ReadSettles
  <2>2. source = "cancelled" /\ ~stored
    BY <1>2, <1>6 DEF IInv, HandleOwned
  <2>3. TypeOK'
    BY <1>1, <1>5, <2>1 DEF IInv, TypeOK
  <2>4. UsersAgree' /\ NothingYet' /\ OneUser'
    BY <1>1, <2>1, <2>2 DEF IInv, UsersAgree, NothingYet, OneUser, Waiting
  <2>5. HandleGuarded' /\ EndsKnown'
    BY <1>1, <1>2, <2>1, <2>2 DEF IInv, HandleGuarded, EndsKnown
  <2>6. HandleOwned'
    BY <1>1, <1>2, <1>3, <2>1, <2>2 DEF IInv, HandleOwned
  <2>7. Positions'
    <3>1. \A x \in Responses : Given(x)' = Given(x)
      BY <2>1 DEF Given
    <3> QED
      BY <1>1, <2>1, <2>2, <3>1 DEF IInv, Positions
  <2> QED
    BY <2>3, <2>4, <2>5, <2>6, <2>7 DEF IInv
<1>7. CASE source = "readable" /\ read = "chunk" /\ srcRequest
  <2>1. /\ Distribute(sent) /\ srcRequest' = FALSE /\ read' = "spawned" /\ again' = FALSE
        /\ source' = source /\ srcQueue' = srcQueue /\ registered' = registered
    BY <1>1, <1>7 DEF ReadSettles, Spawn
  <2>2. ASSUME NEW r \in Live
        PROVE  Given(r) + 1 = sent
    <3>1. Given(r) + 0 + 1 = sent
      BY <1>4, <1>7 DEF IInv, Positions, Settling
    <3>2. \A a, b \in Nat : a + 0 + 1 = b => a + 1 = b
      OBVIOUS
    <3>3. Given(r) \in Nat /\ sent \in Nat
      BY <1>3, GivenCounts, Types DEF IInv
    <3> QED
      BY <3>1, <3>2, <3>3
  <2>3. sent \in 1..MaxChunks
    <3>1. \A b, m \in Nat : b # 0 /\ b <= m => b \in 1..m
      OBVIOUS
    <3>2. sent \in Nat /\ MaxChunks \in Nat /\ sent # 0 /\ sent <= MaxChunks
      BY <1>7, Types DEF IInv, Positions
    <3> QED
      BY <3>1, <3>2
  <2>4. /\ got' \in [Responses -> Seq(1..MaxChunks)]
        /\ queue' \in [Responses -> Seq(1..MaxChunks)]
        /\ reader' \in [Responses -> {"idle", "read", "text", "bytes"}]
        /\ \A r \in Responses :
              /\ got'[r] = UpTo(Len(got'[r]))
              /\ \A i \in 1..Len(queue'[r]) : queue'[r][i] = Len(got'[r]) + i
              /\ r \in Live => Len(got'[r]) + Len(queue'[r]) = sent
              /\ r \notin Live => got'[r] = got[r] /\ queue'[r] = queue[r]
              /\ ~teed => queue'[r] = queue[r]
              /\ got'[r] # got[r] => reader[r] # "idle"
              /\ reader'[r] \in {reader[r], "idle"}
              /\ reader[r] = "bytes" => reader'[r] = "bytes"
    <3>1. ~teed => \A r \in Live : Waiting(r) /\ queue[r] = <<>>
      BY <1>7, Types DEF IInv, OneUser, Live
    <3> QED
      BY <2>1, <2>2, <2>3, <3>1, DistributeFacts DEF IInv
  <2>5. TypeOK'
    BY <1>1, <1>5, <2>1, <2>4 DEF IInv, TypeOK
  <2>6. UsersAgree'
    BY <1>1, <1>3, <2>4 DEF IInv, UsersAgree, Live
  <2>7. OneUser' /\ NothingYet'
    BY <1>1, <1>7, <2>1, <2>4 DEF IInv, OneUser, NothingYet
  <2>8. HandleGuarded' /\ EndsKnown'
    BY <1>1, <1>2, <1>7, <2>1 DEF IInv, HandleGuarded, EndsKnown
  <2>9. HandleOwned'
    BY <1>1, <1>2, <1>3, <1>4, <1>7, <2>1 DEF IInv, HandleOwned
  <2>10. Positions'
    <3>1. Len(srcQueue') = 0 /\ Settling' = 0 /\ srcQueue' = <<>>
      BY <1>4, <1>7, <2>1 DEF Settling
    <3>2. \A r \in Live : Given(r)' = sent
      BY <1>3, <2>4 DEF Given
    <3>3. \A r \in Responses : r \notin Live => Given(r)' = Given(r)
      BY <2>4 DEF Given
    <3>4. \A r \in Responses : Given(r)' <= sent'
      <4>1. sent' = sent /\ sent <= sent
        BY <1>1, Types DEF IInv
      <4>2. \A r \in Responses : Given(r) <= sent
        BY DEF IInv, Positions
      <4> QED
        BY <3>2, <3>3, <4>1, <4>2
    <3>5. \A r \in Live' : Given(r)' + Len(srcQueue') + Settling' = sent'
      <4>1. sent + 0 + 0 = sent
        BY Types DEF IInv
      <4> QED
        BY <1>1, <1>3, <3>1, <3>2, <4>1
    <3> QED
      BY <1>1, <1>7, <2>1, <2>4, <3>1, <3>4, <3>5 DEF Positions
  <2> QED
    BY <2>5, <2>6, <2>7, <2>8, <2>9, <2>10 DEF IInv
<1>8. CASE source = "readable" /\ read = "chunk" /\ ~srcRequest
  <2>1. /\ srcQueue' = <<sent>> /\ read' = "none" /\ source' = source
        /\ UNCHANGED <<reader, got, srcRequest, again, queue, registered>>
    BY <1>1, <1>8 DEF ReadSettles
  <2>2. srcQueue' \in Seq(1..MaxChunks) /\ Len(srcQueue') = 1 /\ srcQueue'[1] = sent
    <3>1. \A b, m \in Nat : b # 0 /\ b <= m => b \in 1..m
      OBVIOUS
    <3>2. sent \in Nat /\ MaxChunks \in Nat /\ sent # 0 /\ sent <= MaxChunks
      BY <1>8, Types DEF IInv, Positions
    <3>3. sent \in 1..MaxChunks
      BY <3>1, <3>2
    <3> QED
      BY <2>1, <3>3
  <2>3. TypeOK'
    <3>1. Len(srcQueue') <= 1
      BY <2>2
    <3>2. srcQueue' \in Seq(1..MaxChunks)
      BY <2>2
    <3>3. /\ read' = "none" /\ source' = source
          /\ UNCHANGED <<reader, got, srcRequest, again, queue>>
      BY <2>1
    <3> QED
      BY <1>1, <1>5, <3>1, <3>2, <3>3 DEF IInv, TypeOK
  <2>4. UsersAgree' /\ NothingYet' /\ OneUser'
    BY <1>1, <1>8, <2>1 DEF IInv, UsersAgree, NothingYet, OneUser
  <2>5. HandleGuarded' /\ EndsKnown'
    BY <1>1, <1>2, <1>8, <2>1 DEF IInv, HandleGuarded, EndsKnown
  <2>6. HandleOwned'
    BY <1>1, <1>2, <1>3, <1>4, <1>8, <2>1 DEF IInv, HandleOwned
  <2>7. Positions'
    <3>1. /\ \A x \in Responses : Given(x)' = Given(x)
          /\ Settling = 1 /\ Settling' = 0
      BY <1>8, <2>1 DEF Given, Settling
    <3>2. ASSUME NEW r \in Live
          PROVE  Given(r)' + Len(srcQueue') + Settling' = sent'
      <4>1. Given(r) + 0 + 1 = sent /\ Given(r)' = Given(r)
        BY <1>3, <1>4, <1>8, <3>1 DEF IInv, Positions
      <4>2. \A a \in Nat : a + 0 + 1 = a + 1 + 0
        OBVIOUS
      <4>3. Given(r) \in Nat
        BY <1>3, GivenCounts DEF IInv
      <4>4. Given(r) + 1 + 0 = sent
        BY <4>1, <4>2, <4>3
      <4> QED
        BY <1>1, <2>2, <3>1, <4>1, <4>4
    <3>3. \A i \in 1..Len(srcQueue') : srcQueue'[i] = sent'
      BY <1>1, <2>2
    <3> QED
      BY <1>1, <1>3, <1>8, <2>1, <3>1, <3>2, <3>3 DEF IInv, Positions
  <2> QED
    BY <2>3, <2>4, <2>5, <2>6, <2>7 DEF IInv
<1>9. CASE source = "readable" /\ read = "empty"
  <2>1. /\ read' \in {"none", "spawned"} /\ again' \in BOOLEAN /\ source' = source
        /\ UNCHANGED <<reader, got, srcQueue, srcRequest, queue, registered>>
    BY <1>1, <1>9 DEF ReadSettles, Spawn, IInv, TypeOK
  <2>2. TypeOK'
    BY <1>1, <1>5, <2>1 DEF IInv, TypeOK
  <2>3. UsersAgree' /\ NothingYet' /\ OneUser'
    BY <1>1, <1>9, <2>1 DEF IInv, UsersAgree, NothingYet, OneUser, Waiting
  <2>4. HandleGuarded' /\ EndsKnown'
    BY <1>1, <1>2, <1>9, <2>1 DEF IInv, HandleGuarded, EndsKnown
  <2>5. HandleOwned'
    BY <1>1, <1>2, <1>3, <1>4, <1>9, <2>1 DEF IInv, HandleOwned
  <2>6. Positions'
    <3>1. /\ \A x \in Responses : Given(x)' = Given(x)
          /\ Settling = 0 /\ Settling' = 0
      BY <1>9, <2>1 DEF Given, Settling
    <3> QED
      BY <1>1, <1>3, <1>4, <1>9, <2>1, <3>1 DEF IInv, Positions
  <2> QED
    BY <2>2, <2>3, <2>4, <2>5, <2>6 DEF IInv
<1>10. CASE source = "readable" /\ read \in {"end", "failed"}
  <2>1. /\ read' = "none" /\ srcRequest' = FALSE /\ registered' = FALSE
        /\ UNCHANGED <<reader, got, srcQueue, again>>
        /\ \/ read = "end" /\ source' = "closed" /\ queue' = queue
           \/ read = "failed" /\ source' = "errored" /\ queue' = [r \in Responses |-> <<>>]
    BY <1>1, <1>10 DEF ReadSettles
  <2>2. ~stored
    BY <1>10 DEF IInv, HandleOwned
  <2>3. /\ queue' \in [Responses -> Seq(1..MaxChunks)]
        /\ \A r \in Responses : queue'[r] = queue[r] \/ queue'[r] = <<>>
    <3>1. <<>> \in Seq(1..MaxChunks)
      OBVIOUS
    <3> QED
      BY <2>1, <3>1 DEF IInv, TypeOK
  <2>4. TypeOK'
    BY <1>1, <1>5, <2>1, <2>3 DEF IInv, TypeOK
  <2>5. UsersAgree' /\ NothingYet' /\ OneUser'
    BY <1>1, <2>1, <2>3 DEF IInv, UsersAgree, NothingYet, OneUser
  <2>6. HandleGuarded' /\ EndsKnown'
    BY <1>1, <1>2, <1>10, <2>1, <2>2 DEF IInv, HandleGuarded, EndsKnown
  <2>7. HandleOwned'
    BY <1>1, <1>2, <1>3, <2>1, <2>2 DEF IInv, HandleOwned
  <2>8. Positions'
    <3>1. CASE read = "end"
      <4>1. \A x \in Responses : Given(x)' = Given(x)
        BY <2>1, <3>1 DEF Given
      <4>2. \A r \in Live : Given(r) = sent
        <5>1. \A r \in Live : Given(r) + 0 + 0 = sent
          BY <1>4, <1>10, <3>1 DEF IInv, Positions, Settling
        <5>2. \A a \in Nat : a + 0 + 0 = a
          OBVIOUS
        <5>3. \A r \in Live : Given(r) \in Nat
          BY <1>3, GivenCounts DEF IInv
        <5> QED
          BY <5>1, <5>2, <5>3
      <4> QED
        BY <1>1, <1>3, <2>1, <3>1, <4>1, <4>2 DEF IInv, Positions
    <3>2. CASE read = "failed"
      <4>1. \A r \in Responses : queue'[r] = <<>> /\ Len(queue'[r]) = 0 /\ got'[r] = got[r]
        BY <2>1, <3>2
      <4>2. ASSUME NEW r \in Responses
            PROVE  Given(r)' <= sent'
        <5>1. \A a, b, n \in Nat : a + b <= n => a + 0 <= n
          OBVIOUS
        <5>2. Len(got[r]) \in Nat /\ Len(queue[r]) \in Nat /\ sent \in Nat
          BY Types DEF IInv
        <5>3. Len(got[r]) + Len(queue[r]) <= sent
          BY DEF IInv, Positions, Given
        <5>4. Len(got[r]) + 0 <= sent
          BY <5>1, <5>2, <5>3
        <5> QED
          BY <1>1, <4>1, <5>4 DEF Given
      <4> QED
        BY <1>1, <2>1, <3>2, <4>1, <4>2 DEF IInv, Positions
    <3> QED
      BY <1>10, <3>1, <3>2
  <2> QED
    BY <2>4, <2>5, <2>6, <2>7, <2>8 DEF IInv
<1> QED
  BY <1>1, <1>4, <1>6, <1>7, <1>8, <1>9, <1>10

(* A reader that waits is given the head of its queue. *)
LEMMA TakeKept ==
    ASSUME IInv, NEW r \in Responses, Take(r)
    PROVE  IInv'
<1>1. /\ Waiting(r) /\ queue[r] # <<>>
      /\ got' = [got EXCEPT ![r] = Append(got[r], Head(queue[r]))]
      /\ queue' = [queue EXCEPT ![r] = Tail(queue[r])]
      /\ reader' = [reader EXCEPT ![r] = IF reader[r] = "read" THEN "idle" ELSE reader[r]]
      /\ UNCHANGED <<created, held, used, stream, outcome, source, srcQueue, srcRequest,
                     again, teed, registered, stored, read, all, sent, ended, empties>>
  BY DEF Take, native, peer
<1>2. reader[r] \in {"read", "text"} /\ r \in held /\ outcome[r] = "open" /\ used[r]
  BY <1>1 DEF IInv, UsersAgree, Waiting
<1>3. teed /\ held # {} /\ Live' = Live /\ \A x \in Live : x \in Responses
  BY <1>1, <1>2, Types DEF IInv, OneUser, Live
<1>4. /\ got[r] \in Seq(1..MaxChunks) /\ queue[r] \in Seq(1..MaxChunks)
      /\ Len(got[r]) \in Nat /\ Len(queue[r]) \in Nat
  BY Types DEF IInv
<1>5. /\ Head(queue[r]) = queue[r][1] /\ Head(queue[r]) \in 1..MaxChunks
      /\ Tail(queue[r]) \in Seq(1..MaxChunks) /\ Len(queue[r]) > 0
      /\ Len(Tail(queue[r])) = Len(queue[r]) - 1
      /\ \A i \in 1..Len(Tail(queue[r])) : Tail(queue[r])[i] = queue[r][i + 1]
  BY <1>1, <1>4, TailFacts
<1>6. Head(queue[r]) = Len(got[r]) + 1
  <2>1. 1 \in 1..Len(queue[r])
    BY <1>4, <1>5
  <2>2. queue[r][1] = Len(got[r]) + 1
    BY <2>1 DEF IInv, Positions
  <2> QED
    BY <1>5, <2>2
<1>7. /\ Append(got[r], Head(queue[r])) \in Seq(1..MaxChunks)
      /\ Len(Append(got[r], Head(queue[r]))) = Len(got[r]) + 1
  BY <1>4, <1>5, AppendFacts
<1>8. Append(got[r], Head(queue[r])) = UpTo(Len(got[r]) + 1)
  <2>1. got[r] = UpTo(Len(got[r]))
    BY DEF IInv, Positions
  <2> QED
    BY <1>4, <1>6, <2>1, CountingOn DEF UpTo
<1>9. /\ got' \in [Responses -> Seq(1..MaxChunks)]
      /\ queue' \in [Responses -> Seq(1..MaxChunks)]
      /\ reader' \in [Responses -> {"idle", "read", "text", "bytes"}]
  <2>1. got \in [Responses -> Seq(1..MaxChunks)] /\ queue \in [Responses -> Seq(1..MaxChunks)]
    BY DEF IInv, TypeOK
  <2> QED
    BY <1>1, <1>5, <1>7, <2>1 DEF IInv, TypeOK
<1>10. /\ \A x \in Responses : x # r => /\ got'[x] = got[x] /\ queue'[x] = queue[x]
                                        /\ reader'[x] = reader[x]
       /\ got'[r] = Append(got[r], Head(queue[r])) /\ queue'[r] = Tail(queue[r])
       /\ reader'[r] \in {"idle", "text"}
  BY <1>1, <1>2 DEF IInv, TypeOK
<1>11. TypeOK'
  BY <1>1, <1>9 DEF IInv, TypeOK
<1>12. UsersAgree'
  BY <1>1, <1>2, <1>10, Types DEF IInv, UsersAgree
<1>13. NothingYet' /\ OneUser'
  BY <1>1, <1>2, <1>3 DEF IInv, NothingYet, OneUser
<1>14. HandleGuarded' /\ EndsKnown'
  BY <1>1 DEF IInv, HandleGuarded, EndsKnown
<1>15. all = "none"
  BY <1>3 DEF IInv, HandleOwned
<1>16. HandleOwned'
  <2>1. source = "readable" => registered /\ (stored \/ read \in {"end", "failed"})
    BY <1>3, HeldSource
  <2> QED
    BY <1>1, <1>3, <1>15, <2>1 DEF IInv, HandleOwned
<1>17. Positions'
  <2>1. \A x \in Responses : Given(x)' = Given(x)
    <3>1. Len(got'[r]) + Len(queue'[r]) = Len(got[r]) + Len(queue[r])
      <4>1. \A a, b \in Nat : (a + 1) + (b - 1) = a + b
        OBVIOUS
      <4>2. Len(got'[r]) = Len(got[r]) + 1 /\ Len(queue'[r]) = Len(queue[r]) - 1
        BY <1>5, <1>7, <1>10
      <4>3. (Len(got[r]) + 1) + (Len(queue[r]) - 1) = Len(got[r]) + Len(queue[r])
        BY <1>4, <4>1
      <4> QED
        BY <4>2, <4>3, Zenon
    <3> QED
      BY <1>10, <3>1 DEF Given
  <2>2. got'[r] = UpTo(Len(got'[r]))
    BY <1>7, <1>8, <1>10
  <2>3. ASSUME NEW i \in 1..Len(queue'[r])
        PROVE  queue'[r][i] = Len(got'[r]) + i
    <3>1. i + 1 \in 1..Len(queue[r])
      BY <1>4, <1>5, <1>10
    <3>2. queue[r][i + 1] = Len(got[r]) + (i + 1)
      BY <3>1 DEF IInv, Positions
    <3>3. queue'[r][i] = queue[r][i + 1] /\ Len(got'[r]) = Len(got[r]) + 1
      BY <1>5, <1>7, <1>10
    <3>4. \A a, n \in Nat : a + (n + 1) = (a + 1) + n
      OBVIOUS
    <3>5. Len(got[r]) + (i + 1) = (Len(got[r]) + 1) + i
      <4>1. i \in Nat
        BY <1>4, <1>5, <1>10
      <4> QED
        BY <1>4, <3>4, <4>1
    <3> QED
      BY <3>2, <3>3, <3>5, Zenon
  <2>4. \A x \in Responses :
           /\ got'[x] = UpTo(Len(got'[x]))
           /\ \A i \in 1..Len(queue'[x]) : queue'[x][i] = Len(got'[x]) + i
           /\ Given(x)' <= sent'
    BY <1>1, <1>10, <2>1, <2>2, <2>3 DEF IInv, Positions
  <2>5. Settling' = Settling
    BY <1>1 DEF Settling
  <2>6. source # "errored"
    BY <1>1 DEF IInv, Positions
  <2> QED
    BY <1>1, <1>3, <2>1, <2>4, <2>5, <2>6 DEF IInv, Positions
<1> QED
  BY <1>11, <1>12, <1>13, <1>14, <1>16, <1>17 DEF IInv

(* A reader that waits meets the end of the stream, or its error. *)
LEMMA ReadStopsKept ==
    ASSUME IInv, NEW r \in Responses, ReadStops(r)
    PROVE  IInv'
<1>1. /\ Waiting(r) /\ queue[r] = <<>> /\ source \in {"closed", "errored"}
      /\ outcome' = [outcome EXCEPT ![r] = IF source = "closed" THEN "whole" ELSE "failed"]
      /\ reader' = [reader EXCEPT ![r] = "idle"]
      /\ UNCHANGED <<created, held, used, stream, got, source, srcQueue, srcRequest, again,
                     teed, queue, registered, stored, read, all, sent, ended, empties>>
  BY DEF ReadStops, src, native, peer
<1>2. outcome[r] = "open" /\ used[r]
  BY <1>1 DEF IInv, UsersAgree, Waiting
<1>3. /\ \A x \in Responses : x # r => reader'[x] = reader[x] /\ outcome'[x] = outcome[x]
      /\ reader'[r] = "idle" /\ outcome'[r] \in {"whole", "failed"} /\ Live' = Live
  BY <1>1, <1>2 DEF IInv, TypeOK, Live
<1>4. TypeOK'
  <2>1. /\ reader' \in [Responses -> {"idle", "read", "text", "bytes"}]
        /\ outcome' \in [Responses -> {"open", "whole", "failed", "cancelled"}]
    BY <1>1 DEF IInv, TypeOK
  <2> QED
    BY <1>1, <2>1 DEF IInv, TypeOK
<1>5. UsersAgree'
  BY <1>1, <1>2, <1>3 DEF IInv, UsersAgree
<1>6. NothingYet' /\ OneUser'
  BY <1>1 DEF IInv, NothingYet, OneUser
<1>7. HandleGuarded' /\ EndsKnown'
  BY <1>1 DEF IInv, HandleGuarded, EndsKnown
<1>8. HandleOwned'
  BY <1>1, <1>3, Types DEF IInv, HandleOwned, Waiting
<1>9. Positions'
  <2>1. \A x \in Responses : Given(x)' = Given(x)
    BY <1>1 DEF Given
  <2>2. Settling' = Settling /\ \A x \in Live : x \in Responses
    BY <1>1, Types DEF IInv, Settling
  <2> QED
    BY <1>1, <1>3, <2>1, <2>2 DEF IInv, Positions
<1> QED
  BY <1>4, <1>5, <1>6, <1>7, <1>8, <1>9 DEF IInv

(* The native read of the whole body settles. *)
LEMMA BytesDoneKept ==
    ASSUME IInv, NEW r \in Responses, BytesDone(r)
    PROVE  IInv'
<1>1. /\ reader[r] = "bytes" /\ all \in {"end", "failed"}
      /\ reader' = [reader EXCEPT ![r] = "idle"]
      /\ \/ /\ all = "end" /\ outcome' = [outcome EXCEPT ![r] = "whole"]
            /\ got' = [got EXCEPT ![r] = UpTo(sent)] /\ stored' = stored
         \/ /\ all = "failed" /\ outcome' = [outcome EXCEPT ![r] = "failed"]
            /\ got' = got /\ stored' = FALSE
      /\ UNCHANGED <<created, held, used, stream, source, srcQueue, srcRequest, again, teed,
                     queue, registered, read, all, sent, ended, empties>>
  BY DEF BytesDone, src, peer, UpTo, IInv, HandleGuarded
<1>2. /\ source = "closed" /\ ~teed /\ ~registered /\ read = "none"
      /\ outcome[r] = "open" /\ used[r] /\ r \in held /\ ~stored
      /\ \A x \in Responses : queue[x] = <<>> /\ Len(queue[x]) = 0
  BY <1>1, Types DEF IInv, UsersAgree, HandleOwned, OneUser, HandleGuarded
<1>3. UpTo(sent) \in Seq(1..MaxChunks) /\ Len(UpTo(sent)) = sent
  <2>1. sent \in Nat /\ MaxChunks \in Nat /\ sent <= MaxChunks
    BY Types DEF IInv
  <2> QED
    BY <2>1 DEF UpTo
<1>4. /\ \A x \in Responses : x # r =>
            reader'[x] = reader[x] /\ outcome'[x] = outcome[x] /\ got'[x] = got[x]
      /\ reader'[r] = "idle" /\ outcome'[r] \in {"whole", "failed"} /\ Live' = Live
      /\ stored' = FALSE
  BY <1>1, <1>2 DEF IInv, TypeOK, Live
<1>5. TypeOK'
  <2>1. /\ reader' \in [Responses -> {"idle", "read", "text", "bytes"}]
        /\ outcome' \in [Responses -> {"open", "whole", "failed", "cancelled"}]
        /\ got' \in [Responses -> Seq(1..MaxChunks)]
    BY <1>1, <1>3 DEF IInv, TypeOK
  <2> QED
    BY <1>1, <1>4, <2>1 DEF IInv, TypeOK
<1>6. UsersAgree'
  BY <1>1, <1>2, <1>4 DEF IInv, UsersAgree
<1>7. NothingYet' /\ OneUser'
  BY <1>1, <1>2 DEF IInv, NothingYet, OneUser
<1>8. HandleGuarded' /\ EndsKnown'
  BY <1>1, <1>2, <1>4 DEF IInv, HandleGuarded, EndsKnown
<1>9. HandleOwned'
  <2>1. Original \in Responses /\ ~Waiting(Original)'
    BY <1>1, <1>4, Types DEF IInv, HandleOwned, Waiting
  <2> QED
    BY <1>1, <1>2, <1>4, <2>1 DEF IInv, HandleOwned
<1>10. Positions'
  <2>1. got'[r] = UpTo(sent) \/ got'[r] = got[r]
    BY <1>1 DEF IInv, TypeOK
  <2>2. got'[r] = UpTo(Len(got'[r])) /\ Given(r)' <= sent'
    <3>1. CASE got'[r] = UpTo(sent)
      <4>1. \A n \in Nat : n + 0 <= n
        OBVIOUS
      <4>2. sent + 0 <= sent
        BY <4>1, Types DEF IInv
      <4>3. Len(got'[r]) = sent /\ Len(queue'[r]) = 0 /\ sent' = sent
        BY <1>1, <1>2, <1>3, <3>1
      <4> QED
        BY <1>3, <3>1, <4>2, <4>3 DEF Given
    <3>2. CASE got'[r] = got[r]
      BY <1>1, <3>2 DEF IInv, Positions, Given
    <3> QED
      BY <2>1, <3>1, <3>2
  <2>3. \A x \in Responses : x # r => Given(x)' = Given(x)
    BY <1>1, <1>4 DEF Given
  <2>4. \A x \in Responses : \A i \in 1..Len(queue'[x]) : FALSE
    BY <1>1, <1>2
  <2>5. \A x \in Responses : got'[x] = UpTo(Len(got'[x])) /\ Given(x)' <= sent'
    BY <1>1, <1>4, <2>2, <2>3 DEF IInv, Positions
  <2> QED
    BY <1>1, <1>2, <2>4, <2>5 DEF Positions
<1> QED
  BY <1>5, <1>6, <1>7, <1>8, <1>9, <1>10 DEF IInv

-----------------------------------------------------------------------------
(* The invariant holds when fetch() returns the Response. *)
LEMMA InitInv == Init => IInv
<1> SUFFICES ASSUME Init PROVE IInv
  OBVIOUS
<1>1. TypeOK
  <2>1. <<>> \in Seq(1..MaxChunks) /\ Len(<<>>) = 0
    OBVIOUS
  <2>2. 0 \in 0..MaxChunks /\ 0 \in 0..MaxEmpty /\ Original \in Responses
    BY BodyAssumption
  <2>3. /\ created \subseteq Responses /\ held \subseteq created
        /\ used \in [Responses -> BOOLEAN]
        /\ stream \in [Responses -> {"none", "free", "locked", "kept"}]
        /\ reader \in [Responses -> {"idle", "read", "text", "bytes"}]
        /\ outcome \in [Responses -> {"open", "whole", "failed", "cancelled"}]
    BY <2>2 DEF Init
  <2>4. /\ got \in [Responses -> Seq(1..MaxChunks)] /\ queue \in [Responses -> Seq(1..MaxChunks)]
        /\ srcQueue \in Seq(1..MaxChunks) /\ Len(srcQueue) <= 1
    BY <2>1 DEF Init
  <2>5. /\ {srcRequest, again, teed, registered, stored} \subseteq BOOLEAN
        /\ source = "none" /\ read = "none" /\ all = "none" /\ ended = "open"
        /\ sent \in 0..MaxChunks /\ empties \in 0..MaxEmpty
    BY <2>2 DEF Init
  <2> QED
    BY <2>3, <2>4, <2>5 DEF TypeOK
<1>2. UsersAgree /\ NothingYet /\ OneUser
  BY DEF Init, UsersAgree, NothingYet, OneUser
<1>3. HandleGuarded /\ HandleOwned /\ EndsKnown
  BY DEF Init, HandleGuarded, HandleOwned, EndsKnown
<1>4. Positions
  <2>1. \A r \in Responses : got[r] = <<>> /\ queue[r] = <<>>
    BY DEF Init
  <2>2. Len(<<>>) = 0 /\ 0 + 0 <= 0 /\ <<>> = UpTo(0)
    BY DEF UpTo
  <2>3. \A r \in Responses : Len(got[r]) = 0 /\ Len(queue[r]) = 0 /\ Given(r) <= 0
    BY <2>1, <2>2 DEF Given
  <2>4. \A r \in Responses : got[r] = UpTo(Len(got[r]))
    BY <2>1, <2>2
  <2>5. source = "none" /\ sent = 0 /\ read = "none"
    BY DEF Init
  <2> QED
    BY <2>3, <2>4, <2>5 DEF Positions
<1> QED
  BY <1>1, <1>2, <1>3, <1>4 DEF IInv

(* Every step keeps the invariant. *)
LEMMA NextInv == IInv /\ [Next]_vars => IInv'
<1> SUFFICES ASSUME IInv, [Next]_vars PROVE IInv'
  OBVIOUS
<1>1. ASSUME NEW r \in Responses,
             \/ Body(r) \/ GetReader(r) \/ ReleaseLock(r) \/ Read(r) \/ Consume(r)
             \/ Cancel(r) \/ Drop(r) \/ Take(r) \/ ReadStops(r) \/ BytesDone(r)
             \/ \E c \in Responses : Clone(r, c)
      PROVE  IInv'
  BY <1>1, BodyKept, ReaderKept, ConsumeKept, CancelKept, TakeKept, ReadStopsKept,
     BytesDoneKept, CloneKept
<1>2. CASE SourceStarts \/ Ask \/ ReadSettles \/ Collect \/ ReadStarts \/ Peer
  BY <1>2, SourceStartsKept, AskKept, ReadSettlesKept, CollectKept, ReadStartsKept, ChunkKept,
     EmptyOrEndKept DEF Peer
<1>3. CASE UNCHANGED vars
  <2>1. UNCHANGED <<created, held, used, stream, reader, got, outcome, source, srcQueue,
                    srcRequest, again, teed, queue, registered, stored, read, all, sent,
                    ended, empties>>
    BY <1>3 DEF vars, users, told, src, native, peer
  <2>2. TypeOK' /\ UsersAgree' /\ NothingYet' /\ OneUser'
    BY <2>1 DEF IInv, TypeOK, UsersAgree, NothingYet, OneUser, Waiting
  <2>3. HandleGuarded' /\ HandleOwned' /\ EndsKnown'
    BY <2>1 DEF IInv, HandleGuarded, HandleOwned, EndsKnown, Gone, Want, Live, Waiting
  <2>4. Positions'
    BY <2>1, PositionsKept DEF IInv
  <2> QED
    BY <2>2, <2>3, <2>4 DEF IInv
<1> QED
  BY <1>1, <1>2, <1>3 DEF Next

(* The inductive invariant holds in every reachable state of a body, for   *)
(* any number of Responses, of chunks and of empty chunks.                 *)
THEOREM Invariance == Spec => []IInv
<1>1. Spec => Init /\ [][Next]_vars
  BY DEF Spec
<1> QED
  BY <1>1, InitInv, NextInv, PTL

(* The state of the Response, its streams and the stored body stays in its type. *)
THEOREM TypeCorrect == Spec => []TypeOK
<1>1. IInv => TypeOK
  BY DEF IInv
<1> QED
  BY <1>1, Invariance, PTL

(* The stored body always has a finalizer or a read that will remove it, a *)
(* Response that owns the handle finds the body there, and a chunk read    *)
(* misses it only after a cancel (bodyFinalizer and body_store.rs).        *)
THEOREM HandleLookedAfter == Spec => []HandleGuarded
<1>1. IInv => HandleGuarded
  BY DEF IInv
<1> QED
  BY <1>1, Invariance, PTL

(* What a lone user has not been given is in the queue of the source or in *)
(* a read that settles, and never in both.                                 *)
LEMMA OneAhead ==
    ASSUME IInv
    PROVE  ReadsAheadByOne
<1> SUFFICES ASSUME ~teed, source \in {"unstarted", "readable"}
             PROVE  sent <= Len(got[Original]) + 1
  BY DEF ReadsAheadByOne
<1>1. Original \in Live /\ Original \in Responses /\ queue[Original] = <<>>
  BY Types DEF IInv, OneUser, Live
<1>2. Len(got[Original]) \in Nat /\ Len(queue[Original]) = 0 /\ sent \in Nat
      /\ Len(srcQueue) \in Nat /\ Len(srcQueue) <= 1
  BY <1>1, Types DEF IInv
<1>3. Len(got[Original]) + 0 + Len(srcQueue) + Settling = sent
  <2>1. Given(Original) = Len(got[Original]) + 0
    BY <1>2 DEF Given
  <2>2. Given(Original) + Len(srcQueue) + Settling = sent
    BY <1>1 DEF IInv, Positions
  <2> QED
    BY <2>1, <2>2
<1>4. Settling \in {0, 1} /\ (Settling = 1 => Len(srcQueue) = 0)
  BY Types DEF IInv, Settling, Positions
<1>5. \A a, b, c, n \in Nat : a + 0 + b + c = n /\ b + c <= 1 => n <= a + 1
  OBVIOUS
<1>6. Settling \in Nat /\ Len(srcQueue) + Settling <= 1
  BY <1>2, <1>4
<1> QED
  BY <1>2, <1>3, <1>5, <1>6

(* While nobody has cloned the response, at most one chunk is read off the *)
(* connection beyond those its user has asked for (#ensureStreamSource).   *)
THEOREM ReadAheadBounded == Spec => []ReadsAheadByOne
<1> QED
  BY OneAhead, Invariance, PTL

-----------------------------------------------------------------------------
(* The steps of a body, and what they are to those who wait for it.        *)

(* A chunk goes to some of the users, who had all that came before it. *)
LEMMA DistributeDelivers ==
    ASSUME IInv, NEW chunk \in 1..MaxChunks, Distribute(chunk), chunk = sent,
           \A r \in Live : Given(r) + 1 = chunk,
           UNCHANGED <<sent, ended, outcome>>
    PROVE  \E R \in SUBSET Responses : Delivery!Deliver(R)
<1> DEFINE now == {r \in Live : Waiting(r) /\ queue[r] = <<>>}
<1>1. got' = [r \in Responses |-> IF r \in now THEN Append(got[r], chunk) ELSE got[r]]
  BY DEF Distribute
<1>2. now \in SUBSET Responses
  BY Types DEF IInv
<1>3. ASSUME NEW r \in now
      PROVE  outcome[r] = "open" /\ Len(got[r]) < sent /\ chunk = Len(got[r]) + 1
  <2>1. r \in Responses /\ r \in Live /\ Waiting(r) /\ queue[r] = <<>>
    BY <1>2
  <2>2. outcome[r] = "open"
    BY <2>1 DEF IInv, UsersAgree, Waiting
  <2>3. Len(got[r]) \in Nat /\ Len(queue[r]) = 0 /\ sent \in Nat
    BY <2>1, Types DEF IInv
  <2>4. Len(got[r]) + 0 + 1 = chunk
    BY <2>1, <2>3 DEF Given
  <2>5. \A a, n \in Nat : a + 0 + 1 = n => a < n /\ n = a + 1
    OBVIOUS
  <2> QED
    BY <2>2, <2>3, <2>4, <2>5
<1>4. got' = [r \in Responses |->
                IF r \in now THEN Append(got[r], Len(got[r]) + 1) ELSE got[r]]
  BY <1>1, <1>3
<1>5. Delivery!Deliver(now)
  BY <1>3, <1>4 DEF Delivery!Deliver
<1> HIDE DEF now
<1> QED
  BY <1>2, <1>5

(* A branch hands on the head of its queue. *)
LEMMA TakeDelivers ==
    ASSUME IInv, NEW r \in Responses, Take(r)
    PROVE  Delivery!Deliver({r})
<1>1. /\ Waiting(r) /\ queue[r] # <<>>
      /\ got' = [got EXCEPT ![r] = Append(got[r], Head(queue[r]))]
      /\ UNCHANGED <<sent, ended, outcome>>
  BY DEF Take, peer
<1>2. outcome[r] = "open"
  BY <1>1 DEF IInv, UsersAgree, Waiting
<1>3. /\ queue[r] \in Seq(1..MaxChunks) /\ Len(got[r]) \in Nat /\ Len(queue[r]) \in Nat
      /\ Len(queue[r]) # 0 /\ sent \in Nat
  BY <1>1, Types DEF IInv
<1>4. Head(queue[r]) = Len(got[r]) + 1
  <2>1. 1 \in 1..Len(queue[r])
    BY <1>3
  <2>2. queue[r][1] = Len(got[r]) + 1
    BY <2>1 DEF IInv, Positions
  <2> QED
    BY <1>1, <1>3, <2>2, TailFacts
<1>5. Len(got[r]) < sent
  <2>1. \A a, b, n \in Nat : a + b <= n /\ b # 0 => a < n
    OBVIOUS
  <2>2. Len(got[r]) + Len(queue[r]) <= sent
    BY DEF IInv, Positions, Given
  <2> QED
    BY <1>3, <2>1, <2>2
<1>6. got' = [x \in Responses |->
                IF x \in {r} THEN Append(got[x], Len(got[x]) + 1) ELSE got[x]]
  BY <1>1, <1>4 DEF IInv, TypeOK
<1> QED
  BY <1>1, <1>2, <1>5, <1>6 DEF Delivery!Deliver

(* Who is told that the body is whole has all of it. *)
LEMMA StopsDelivers ==
    ASSUME IInv, NEW r \in Responses, ReadStops(r) \/ BytesDone(r)
    PROVE  Delivery!Finish(r) \/ Delivery!Fail(r)
<1>1. reader[r] # "idle" /\ UNCHANGED <<sent, ended>>
  BY DEF ReadStops, BytesDone, Waiting, peer
<1>2. outcome[r] = "open" /\ r \in created /\ r \in Live
  BY <1>1, Types DEF IInv, UsersAgree, Live
<1>3. CASE ReadStops(r) /\ source = "closed"
  <2>1. queue[r] = <<>> /\ Waiting(r) /\ got' = got
        /\ outcome' = [outcome EXCEPT ![r] = "whole"]
    BY <1>3 DEF ReadStops
  <2>2. all = "none"
    <3>1. all # "none" => created = {Original} /\ ~Waiting(Original)
      BY DEF IInv, HandleOwned, OneUser
    <3> QED
      BY <1>2, <2>1, <3>1
  <2>3. ended = "whole"
    BY <1>3, <2>2 DEF IInv, EndsKnown
  <2>4. Len(got[r]) = sent
    <3>1. Given(r) = sent /\ Len(queue[r]) = 0 /\ Len(got[r]) \in Nat
      BY <1>2, <1>3, <2>1, <2>2, Types DEF IInv, Positions
    <3>2. \A a \in Nat : a + 0 = a
      OBVIOUS
    <3>3. Len(got[r]) + 0 = sent
      BY <3>1 DEF Given
    <3> QED
      BY <3>1, <3>2, <3>3
  <2>5. got[r] = [i \in 1..sent |-> i]
    BY <2>4 DEF IInv, Positions, UpTo
  <2>6. got' = [got EXCEPT ![r] = [i \in 1..sent |-> i]]
    BY <2>1, <2>5 DEF IInv, TypeOK
  <2> QED
    BY <1>1, <1>2, <2>1, <2>3, <2>6 DEF Delivery!Finish, Delivery!UpTo
<1>4. CASE ReadStops(r) /\ source = "errored"
  BY <1>1, <1>2, <1>4 DEF ReadStops, IInv, EndsKnown, Delivery!Fail
<1>5. CASE BytesDone(r)
  BY <1>1, <1>2, <1>5
     DEF BytesDone, IInv, EndsKnown, HandleGuarded, Delivery!Finish, Delivery!Fail,
         Delivery!UpTo
<1> QED
  BY <1>3, <1>4, <1>5 DEF ReadStops

(* Ask and ReadSettles hand a chunk to those who wait, or keep it. *)
LEMMA StreamDelivers ==
    ASSUME IInv, Ask \/ ReadSettles
    PROVE  \/ \E R \in SUBSET Responses : Delivery!Deliver(R)
           \/ UNCHANGED Delivery!bodyVars
<1>1. UNCHANGED <<sent, ended, outcome>>
  BY DEF Ask, ReadSettles, peer
<1>2. CASE UNCHANGED got
  BY <1>1, <1>2 DEF Delivery!bodyVars
<1>3. CASE Ask /\ srcQueue # <<>>
  <2>1. Distribute(Head(srcQueue)) /\ source = "readable" /\ ~srcRequest
    BY <1>3 DEF Ask
  <2>2. Len(srcQueue) = 1 /\ Head(srcQueue) = srcQueue[1] /\ Head(srcQueue) \in 1..MaxChunks
    <3>1. Len(srcQueue) \in Nat /\ Len(srcQueue) <= 1 /\ Len(srcQueue) # 0
      BY <1>3, Types DEF IInv
    <3>2. \A n \in Nat : n <= 1 /\ n # 0 => n = 1
      OBVIOUS
    <3> QED
      BY <1>3, <3>1, <3>2, TailFacts, Types DEF IInv
  <2>3. Head(srcQueue) = sent /\ Settling = 0
    BY <1>3, <2>1, <2>2 DEF IInv, Positions, Settling
  <2>4. ASSUME NEW r \in Live
        PROVE  Given(r) + 1 = sent
    <3>1. Given(r) + 1 + 0 = sent
      BY <2>1, <2>2, <2>3 DEF IInv, Positions
    <3>2. \A a, b \in Nat : a + 1 + 0 = b => a + 1 = b
      OBVIOUS
    <3>3. Given(r) \in Nat /\ sent \in Nat
      BY GivenCounts, Types DEF IInv
    <3> QED
      BY <3>1, <3>2, <3>3
  <2> QED
    BY <1>1, <2>1, <2>2, <2>3, <2>4, DistributeDelivers
<1>4. CASE ReadSettles /\ source = "readable" /\ read = "chunk" /\ srcRequest
  <2>1. Distribute(sent) /\ srcQueue = <<>> /\ Len(srcQueue) = 0 /\ Settling = 1
    BY <1>4, Types DEF ReadSettles, IInv, Positions, Settling
  <2>2. sent \in 1..MaxChunks
    <3>1. \A b, m \in Nat : b # 0 /\ b <= m => b \in 1..m
      OBVIOUS
    <3>2. sent \in Nat /\ MaxChunks \in Nat /\ sent # 0 /\ sent <= MaxChunks
      BY <1>4, Types DEF IInv, Positions
    <3> QED
      BY <3>1, <3>2
  <2>3. ASSUME NEW r \in Live
        PROVE  Given(r) + 1 = sent
    <3>1. Given(r) + 0 + 1 = sent
      BY <1>4, <2>1 DEF IInv, Positions
    <3>2. \A a, b \in Nat : a + 0 + 1 = b => a + 1 = b
      OBVIOUS
    <3>3. Given(r) \in Nat /\ sent \in Nat
      BY GivenCounts, Types DEF IInv
    <3> QED
      BY <3>1, <3>2, <3>3
  <2> QED
    BY <1>1, <2>1, <2>2, <2>3, DistributeDelivers
<1> QED
  BY <1>2, <1>3, <1>4 DEF Ask, ReadSettles

(* Every step of the body is a step of BodyDelivery or changes nothing of it. *)
LEMMA StepDelivers ==
    ASSUME IInv, [Next]_vars
    PROVE  [Delivery!Next]_(Delivery!bodyVars)
<1>1. ASSUME NEW r \in Responses,
             \/ Body(r) \/ GetReader(r) \/ ReleaseLock(r) \/ Read(r) \/ Consume(r)
             \/ Drop(r) \/ \E c \in Responses : Clone(r, c)
      PROVE  UNCHANGED Delivery!bodyVars
  BY <1>1 DEF Body, GetReader, ReleaseLock, Read, Consume, Drop, Clone, told, peer,
              Delivery!bodyVars
<1>2. ASSUME NEW r \in Responses, Cancel(r)
      PROVE  Delivery!Cancel(r)
  BY <1>2 DEF Cancel, Delivery!Cancel, peer
<1>3. CASE SourceStarts \/ Collect \/ ReadStarts \/ EmptyChunk
  BY <1>3 DEF SourceStarts, Collect, ReadStarts, EmptyChunk, told, peer, Delivery!bodyVars
<1>4. CASE Chunk
  BY <1>4 DEF Chunk, told, Delivery!Send, Delivery!Next
<1>5. CASE BodyEnds
  BY <1>5 DEF BodyEnds, told, Delivery!End, Delivery!Next
<1>6. ASSUME NEW r \in Responses, Take(r)
      PROVE  Delivery!Next
  <2>1. {r} \in SUBSET Responses
    OBVIOUS
  <2> QED
    BY <1>6, <2>1, TakeDelivers DEF Delivery!Next
<1>7. ASSUME NEW r \in Responses, ReadStops(r) \/ BytesDone(r)
      PROVE  Delivery!Next
  BY <1>7, StopsDelivers DEF Delivery!Next
<1>8. CASE Ask \/ ReadSettles
  BY <1>8, StreamDelivers DEF Delivery!Next
<1>9. CASE UNCHANGED vars
  BY <1>9 DEF vars, told, peer, Delivery!bodyVars
<1> QED
  BY <1>1, <1>2, <1>3, <1>4, <1>5, <1>6, <1>7, <1>8, <1>9 DEF Next, Peer, Delivery!Next

(* The Response and its clones implement BodyDelivery: whichever way and   *)
(* however late each of them reads, it gets the whole body in order or     *)
(* learns that it failed.                                                  *)
THEOREM DeliveryImplemented == Spec => DeliversBody
<1>1. Init => Delivery!Init
  BY DEF Init, Delivery!Init
<1>2. Spec => Init /\ [][Next]_vars
  BY DEF Spec
<1> QED
  BY <1>1, <1>2, StepDelivers, Invariance, PTL DEF DeliversBody, Delivery!Spec
=============================================================================
