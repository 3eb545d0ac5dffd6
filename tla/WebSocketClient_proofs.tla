------------------------ MODULE WebSocketClient_proofs ------------------------
(***************************************************************************)
(* Proofs about WebSocketClient for any number of sends and of messages:   *)
(* its safety invariants and the refinement of SocketLifecycle.  IInv adds *)
(* to the invariants what relates the socket's state, its connect, its     *)
(* queue and the native side at every step.                                *)
(***************************************************************************)
EXTENDS WebSocketClient, SequenceFacts, FiniteSetTheorems, TLAPS

(* The promise `opened` is settled as soon as the socket is not connecting *)
(* any more, and resolved while it is open.                                *)
OpenedAgrees ==
    /\ readyState = "connecting" => opened = "pending"
    /\ readyState = "open" => opened = "resolved"
    /\ readyState \in {"closing", "closed"} => opened # "pending"

(* The await of #connect and the connect thread go together, and the       *)
(* connection and both store entries exist only in their part of it.       *)
Connects ==
    /\ connect = "cookies" => upgrade = "none"
    /\ connect = "native" => upgrade \in {"running", "finished", "settled"}
    /\ connect = "done" => upgrade \in {"none", "delivered"}
    /\ connectStored => upgrade \in {"running", "finished"}
    /\ upgrade \in {"none", "running"} => task = "none"
    /\ task = "none" => ~stored
    /\ readyState = "connecting" => connect # "done"
    /\ readyState = "open" => upgrade = "delivered"

(* Before the connection is delivered nothing is queued, sent or read.     *)
NothingBeforeOpen ==
    upgrade # "delivered" =>
        queue = <<>> /\ sent = 0 /\ wire = <<>> /\ read = "none" /\ ~closeEnqueued

(* Whatever leads to a closed socket has taken the handle out of its store *)
(* before, or will find it there when the connect is over.                 *)
Released ==
    /\ read \in {"clean", "unclean", "error"} => ~stored
    /\ command = "failed" => ~stored
    /\ closeTask => readyState \in {"closing", "closed"} /\ (connect = "done" => ~stored)
    /\ HandlesReleased

(* The messages among the entries of the queue: all but a close at its end. *)
Messages ==
    IF queue # <<>> /\ queue[Len(queue)] = Close THEN Len(queue) - 1 ELSE Len(queue)

(* The queue holds the last messages given to send(), in order, then the   *)
(* close, if there is one; the close ends the sends.                       *)
QueueInOrder ==
    /\ Messages <= sent
    /\ \A i \in 1..Messages : queue[i] = sent - Messages + i
    /\ ~closeEnqueued => Messages = Len(queue)
    /\ readyState \in {"connecting", "open"} => ~closeEnqueued
    /\ bufferedAmount = discarded + Messages

(* A command can still reach the connection. *)
Reachable == task = "running" /\ (stored \/ command = "queued")

(* The close frame is out, and the queue has nothing after it. *)
CloseSent ==
    closeEnqueued /\ (queue = <<>> \/ (command = "ok" /\ Len(queue) = 1 /\ Messages = 0))

(* The messages that have left the queue, and that of a head whose send    *)
(* has succeeded.                                                          *)
Passed == sent - Messages + (IF command = "ok" THEN 1 ELSE 0)

(* The wire has messages that send() was given, and a close only if one    *)
(* was queued.                                                             *)
WireOfQueue ==
    \A i \in DOMAIN wire : wire[i] <= sent /\ (wire[i] = Close => closeEnqueued)

(* While commands can reach the connection the wire has no other messages  *)
(* than those that have passed, and all of them but the unconverted ones.  *)
(* A message whose send failed is missing, but then nothing can be sent    *)
(* any more.                                                               *)
WireFollowsQueue ==
    /\ WireInOrder
    /\ WireOfQueue
    /\ command = "nacked" => task = "ended"
    /\ Reachable =>
          \/ CloseSent
          \/ /\ \A i \in DOMAIN wire : wire[i] \in 1..Passed
             /\ \A m \in 1..Passed : SentOrReported(m)
             /\ command = "ok" => Messages > 0

IInv ==
    /\ TypeOK
    /\ OpenedAgrees
    /\ Connects
    /\ NothingBeforeOpen
    /\ Released
    /\ QueueInOrder
    /\ WireFollowsQueue

-----------------------------------------------------------------------------
(* The queue. *)

(* All entries of the queue are messages, or all but the last. *)
LEMMA MessagesType ==
    ASSUME TypeOK
    PROVE  /\ Messages \in Nat /\ Len(queue) \in Nat
           /\ Messages = Len(queue) \/ Messages = Len(queue) - 1
           /\ queue = <<>> => Messages = 0
BY EmptyIffNoLength DEF TypeOK, Messages

(* What is at the head of the queue. *)
LEMMA HeadOfQueue ==
    ASSUME TypeOK, QueueInOrder, queue # <<>>
    PROVE  /\ Head(queue) = Close => Messages = 0 /\ Len(queue) = 1
           /\ Head(queue) # Close => Messages > 0 /\ Head(queue) = sent - Messages + 1
           /\ Messages = 0 => Len(queue) = 1 /\ closeEnqueued
           /\ Tail(queue) = <<>> <=> Len(queue) = 1
<1>1. Messages \in Nat /\ Len(queue) \in Nat \ {0} /\ sent \in Nat /\ Head(queue) = queue[1]
  BY MessagesType, TailFacts DEF TypeOK
<1>2. Messages > 0 => queue[1] = sent - Messages + 1 /\ queue[1] # Close
  BY <1>1 DEF QueueInOrder, Close
<1>3. Messages = 0 => Len(queue) = 1 /\ queue[1] = Close /\ closeEnqueued
  BY <1>1, MessagesType DEF QueueInOrder, Messages
<1>4. Tail(queue) = <<>> <=> Len(queue) = 1
  BY TailFacts DEF TypeOK
<1> QED
  BY <1>1, <1>2, <1>3, <1>4

(* A message that leaves the queue is the first of its messages. *)
LEMMA TailOfQueue ==
    ASSUME TypeOK, QueueInOrder, queue # <<>>, queue' = Tail(queue)
    PROVE  /\ queue' \in Seq(0..MaxSends)
           /\ Head(queue) # Close => Messages' = Messages - 1
           /\ Head(queue) = Close => Messages' = 0 /\ queue' = <<>>
           /\ Messages' = Len(queue') \/ Messages # Len(queue)
           /\ \A i \in 1..Messages' : queue'[i] = sent - Messages' + i
<1>1. /\ Len(queue) \in Nat \ {0} /\ sent \in Nat
      /\ queue' \in Seq(0..MaxSends)
      /\ Len(queue') = Len(queue) - 1
      /\ \A i \in 1..Len(queue') : queue'[i] = queue[i + 1]
      /\ queue' = <<>> <=> Len(queue) = 1
  BY TailFacts DEF TypeOK
<1>2. CASE Len(queue) = 1
  <2>1. queue' = <<>> /\ Messages' = 0
    BY <1>1, <1>2 DEF Messages
  <2> QED
    BY <1>1, <1>2, <2>1, MessagesType, HeadOfQueue
<1>3. CASE Len(queue) > 1
  <2>1. queue' # <<>> /\ queue'[Len(queue')] = queue[Len(queue)]
    BY <1>1, <1>3
  <2>2. /\ Messages' = Messages - 1
        /\ Messages \in Nat \ {0}
        /\ Head(queue) # Close
    BY <1>1, <1>3, <2>1, MessagesType, HeadOfQueue DEF Messages
  <2>3. \A i \in 1..Messages' : queue'[i] = sent - Messages' + i
    <3> TAKE i \in 1..Messages'
    <3>1. i \in 1..Len(queue') /\ i + 1 \in 1..Messages
      <4>1. Messages <= Len(queue) /\ Messages \in Nat
        BY MessagesType
      <4>2. i \in Nat /\ 1 <= i /\ i <= Messages - 1
        BY <2>2
      <4> QED
        BY <1>1, <4>1, <4>2
    <3>2. queue[i + 1] = sent - Messages + (i + 1)
      BY <3>1 DEF QueueInOrder
    <3> QED
      BY <1>1, <2>2, <3>1, <3>2
  <2> QED
    BY <1>1, <2>2, <2>3, MessagesType
<1>4. Len(queue) = 1 \/ Len(queue) > 1
  BY <1>1
<1> QED
  BY <1>1, <1>2, <1>3, <1>4

(* A message that enters the queue is the last of its messages. *)
LEMMA AppendMessage ==
    ASSUME TypeOK, QueueInOrder, ~closeEnqueued, sent < MaxSends,
           sent' = sent + 1, queue' = Append(queue, sent')
    PROVE  /\ queue' \in Seq(0..MaxSends)
           /\ queue' # <<>>
           /\ Messages' = Messages + 1
           /\ Messages' = Len(queue')
           /\ \A i \in 1..Messages' : queue'[i] = sent' - Messages' + i
<1>1. /\ Len(queue) \in Nat /\ sent \in Nat
      /\ Messages = Len(queue)
      /\ sent' \in 0..MaxSends /\ sent' # Close
  BY WebSocketAssumption DEF TypeOK, QueueInOrder, Close
<1>2. /\ queue' \in Seq(0..MaxSends)
      /\ Len(queue') = Len(queue) + 1
      /\ queue' # <<>>
      /\ queue'[Len(queue')] = sent'
      /\ \A i \in 1..Len(queue) : queue'[i] = queue[i]
  BY <1>1, AppendFacts DEF TypeOK
<1>3. Messages' = Len(queue')
  BY <1>1, <1>2 DEF Messages
<1> QED
  BY <1>1, <1>2, <1>3 DEF QueueInOrder

(* The close goes behind the messages. *)
LEMMA AppendClose ==
    ASSUME TypeOK, QueueInOrder, ~closeEnqueued, EnqueueClose, sent' = sent
    PROVE  /\ queue' \in Seq(0..MaxSends)
           /\ queue' # <<>>
           /\ Messages' = Messages
           /\ closeEnqueued'
           /\ \A i \in 1..Messages' : queue'[i] = sent' - Messages' + i
<1>1. /\ Len(queue) \in Nat /\ sent \in Nat
      /\ Messages = Len(queue)
      /\ Close \in 0..MaxSends
      /\ queue' = Append(queue, Close)
      /\ closeEnqueued'
  BY WebSocketAssumption DEF TypeOK, QueueInOrder, Close, EnqueueClose
<1>2. /\ queue' \in Seq(0..MaxSends)
      /\ Len(queue') = Len(queue) + 1
      /\ queue' # <<>>
      /\ queue'[Len(queue')] = Close
      /\ \A i \in 1..Len(queue) : queue'[i] = queue[i]
  BY <1>1, AppendFacts DEF TypeOK
<1>3. Messages' = Len(queue)
  BY <1>1, <1>2 DEF Messages
<1> QED
  BY <1>1, <1>2, <1>3 DEF QueueInOrder

-----------------------------------------------------------------------------

(* The invariant holds when the socket is made. *)
LEMMA InitInv == Init => IInv
<1> SUFFICES ASSUME Init PROVE IInv
  OBVIOUS
<1> USE WebSocketAssumption DEF Init
<1>0. TypeOK
  <2>1. queue \in Seq(0..MaxSends) /\ wire \in Seq(0..MaxSends)
        /\ events \in Seq({"text", "clean", "unclean"})
    BY EmptySeq
  <2>2. /\ sent \in 0..MaxSends /\ discarded \in 0..MaxSends /\ received \in 0..MaxMessages
        /\ unconverted \subseteq 1..MaxSends
        /\ bufferedAmount \in Nat /\ closeEvents \in Nat
    OBVIOUS
  <2> HIDE WebSocketAssumption
  <2> QED
    BY <2>1, <2>2 DEF TypeOK
<1>1. OpenedAgrees /\ Connects /\ NothingBeforeOpen
  BY DEF OpenedAgrees, Connects, NothingBeforeOpen
<1>2. Released
  BY DEF Released, HandlesReleased, Settled
<1>3. QueueInOrder
  BY DEF QueueInOrder, Messages
<1>4. WireFollowsQueue
  BY DEF WireFollowsQueue, WireInOrder, WireOfQueue, Reachable
<1> QED
  BY <1>0, <1>1, <1>2, <1>3, <1>4 DEF IInv

(* What a step that leaves the queue alone has to show of it. *)
LEMMA QueueKept ==
    ASSUME QueueInOrder,
           UNCHANGED <<queue, sent, discarded, bufferedAmount, closeEnqueued>>,
           readyState' \in {"connecting", "open"} => readyState \in {"connecting", "open"}
    PROVE  QueueInOrder' /\ Messages' = Messages
BY DEF QueueInOrder, Messages

(* What is on the wire stays in order while messages and the close are     *)
(* queued or given up.                                                     *)
LEMMA OrderKept ==
    ASSUME TypeOK, WireInOrder, WireOfQueue, wire' = wire,
           unconverted \subseteq unconverted',
           closeEnqueued => closeEnqueued',
           sent' = sent \/ (~closeEnqueued /\ sent' = sent + 1)
    PROVE  /\ WireInOrder' /\ WireOfQueue'
           /\ \A m : SentOrReported(m) => SentOrReported(m)'
<1>1. sent \in Nat /\ \A i \in DOMAIN wire : wire[i] \in Nat
  <2>1. wire \in Seq(0..MaxSends) /\ sent \in Nat
    BY DEF TypeOK
  <2>2. DOMAIN wire = 1..Len(wire) /\ \A i \in 1..Len(wire) : wire[i] \in 0..MaxSends
    BY <2>1, EmptyIffNoLength
  <2> QED
    BY <2>1, <2>2
<1>2. ASSUME NEW m, SentOrReported(m) PROVE SentOrReported(m)'
  BY <1>2 DEF SentOrReported
<1>3. WireOfQueue'
  BY <1>1 DEF WireOfQueue
<1>4. ASSUME NEW i \in DOMAIN wire, NEW m \in 1..sent', wire[i] = Close \/ m < wire[i]
      PROVE  SentOrReported(m)'
  <2>1. m \in 1..sent
    BY <1>1, <1>4 DEF WireOfQueue
  <2> QED
    BY <1>2, <1>4, <2>1 DEF WireInOrder
<1>5. WireInOrder'
  BY <1>4 DEF WireInOrder
<1> QED
  BY <1>2, <1>3, <1>5

(* A step that adds nothing to the wire and makes no command reachable     *)
(* that was not.                                                           *)
LEMMA WireKept ==
    ASSUME TypeOK, WireFollowsQueue,
           UNCHANGED <<queue, sent, unconverted, closeEnqueued, command, wire>>,
           task = "ended" => task' = "ended",
           Reachable' => Reachable
    PROVE  WireFollowsQueue'
<1>1. Messages' = Messages /\ (CloseSent' <=> CloseSent) /\ Passed' = Passed
  BY DEF Messages, CloseSent, Passed
<1>2. /\ WireInOrder' /\ WireOfQueue'
      /\ \A m : SentOrReported(m) => SentOrReported(m)'
  BY OrderKept DEF WireFollowsQueue
<1> QED
  BY <1>1, <1>2 DEF WireFollowsQueue

(* #finalizeClose, as a caller sees it who does not know whether the       *)
(* socket was closed already.                                              *)
Closes ==
    /\ readyState' = "closed"
    /\ opened' = IF opened = "pending" THEN "rejected" ELSE opened
    /\ closeEvents' = IF readyState = "closed" THEN closeEvents ELSE closeEvents + 1
    /\ closeReport' \in {"none", "clean", "unclean"}
    /\ handle' \in BOOLEAN

(* #finalizeClose closes the socket. *)
LEMMA FinalizeCloses ==
    ASSUME TypeOK, NEW report \in {"clean", "unclean"}, FinalizeClose(report)
    PROVE  Closes
BY DEF TypeOK, FinalizeClose, Settled, Closes

(* So does a caller of it that first asks whether the socket is settled. *)
LEMMA GuardedFinalizeCloses ==
    ASSUME TypeOK, OpenedAgrees, IF Settled THEN UNCHANGED stateVars ELSE FailConnection
    PROVE  Closes
<1>1. CASE Settled
  BY <1>1 DEF TypeOK, OpenedAgrees, Settled, stateVars, Closes
<1>2. CASE ~Settled
  BY <1>2, FinalizeCloses DEF FailConnection
<1> QED
  BY <1>1, <1>2

(* The connect and its thread, before the outcome is delivered. *)
LEMMA ConnectingStep ==
    ASSUME IInv,
           \/ ConnectGivesUp \/ ConnectStarts
           \/ UpgradeSucceeds \/ UpgradeFails \/ UpgradeCancelled \/ UpgradeSettles
    PROVE  IInv'
<1> USE DEF IInv
<1>1. /\ UNCHANGED <<readyState, opened, closeEvents, closeReport, handle, closeTask, queue, sent,
                     discarded, unconverted, bufferedAmount, closeEnqueued, command, read, events,
                     received, peerClosed, wire, cancelSent>>
      /\ connectHandle' \in BOOLEAN
      /\ \/ /\ connect = "cookies" /\ readyState # "connecting" /\ connect' = "done"
            /\ UNCHANGED <<upgrade, connectStored, task, stored>>
         \/ /\ connect = "cookies" /\ connect' = "native"
            /\ upgrade' = "running" /\ connectStored' = TRUE
            /\ UNCHANGED <<task, stored>>
         \/ /\ upgrade = "running" /\ upgrade' = "finished"
            /\ task' = "running" /\ stored' = TRUE
            /\ UNCHANGED <<connect, connectStored>>
         \/ /\ upgrade = "running" /\ upgrade' = "finished"
            /\ UNCHANGED <<connect, connectStored, task, stored>>
         \/ /\ upgrade = "finished" /\ upgrade' = "settled" /\ connectStored' = FALSE
            /\ UNCHANGED <<connect, task, stored>>
  <2> USE DEF TypeOK, stateVars, connectVars, queueVars, nativeConnectVars, taskVars
  <2>1. CASE ConnectGivesUp
    BY <2>1 DEF ConnectGivesUp
  <2>2. CASE ConnectStarts
    BY <2>2 DEF ConnectStarts
  <2>3. CASE UpgradeSucceeds
    BY <2>3 DEF UpgradeSucceeds
  <2>4. CASE UpgradeFails \/ UpgradeCancelled
    BY <2>4 DEF UpgradeFails, UpgradeCancelled
  <2>5. CASE UpgradeSettles
    BY <2>5 DEF UpgradeSettles
  <2> QED
    BY <2>1, <2>2, <2>3, <2>4, <2>5
<1>2. TypeOK'
  <2>1. /\ connect' \in {"cookies", "native", "done"}
        /\ upgrade' \in {"none", "running", "finished", "settled", "delivered"}
        /\ task' \in {"none", "running", "ended"}
        /\ connectStored' \in BOOLEAN /\ stored' \in BOOLEAN
    BY <1>1 DEF TypeOK
  <2>2. /\ connectHandle' \in BOOLEAN
        /\ UNCHANGED <<readyState, opened, closeEvents, closeReport, handle, closeTask, queue,
                       sent, discarded, unconverted, bufferedAmount, closeEnqueued, command, read,
                       events, received, peerClosed, wire, cancelSent>>
    BY <1>1
  <2> QED
    BY <2>1, <2>2 DEF TypeOK
<1>3. OpenedAgrees' /\ NothingBeforeOpen'
  <2>1. upgrade # "delivered"
    BY <1>1 DEF Connects
  <2> QED
    BY <1>1, <2>1 DEF OpenedAgrees, NothingBeforeOpen
<1>4. Connects'
  BY <1>1 DEF Connects
<1>5. Released'
  <2>1. upgrade # "delivered" /\ command = "none" /\ read = "none"
    BY <1>1 DEF Connects, NothingBeforeOpen, TypeOK
  <2> QED
    BY <1>1, <2>1 DEF Connects, Released, HandlesReleased, Settled
<1>6. QueueInOrder'
  BY <1>1, QueueKept
<1>7. WireFollowsQueue'
  <2>1. CASE UNCHANGED <<task, stored>>
    BY <1>1, <2>1, WireKept DEF Reachable
  <2>2. CASE upgrade = "running"
    <3>1. queue = <<>> /\ sent = 0 /\ wire = <<>> /\ command = "none" /\ Messages = 0
      BY <2>2 DEF NothingBeforeOpen, TypeOK, Messages
    <3>2. queue' = <<>> /\ sent' = 0 /\ wire' = <<>> /\ command' = "none" /\ Messages' = 0
      BY <1>1, <3>1, QueueKept
    <3> QED
      BY <3>2 DEF WireFollowsQueue, WireInOrder, WireOfQueue, Passed
  <2> QED
    BY <1>1, <2>1, <2>2
<1> QED
  BY <1>2, <1>3, <1>4, <1>5, <1>6, <1>7

(* The steps that settle the connect or close the socket before it is open. *)
LEMMA DeliveryStep ==
    ASSUME IInv,
           \/ ConnectThrows \/ ConnectFails \/ ConnectTooLate \/ ConnectRefused \/ Open
           \/ CloseConnecting \/ CloseMicrotask
    PROVE  IInv'
<1> USE DEF IInv
<1>1. /\ UNCHANGED <<queue, sent, discarded, unconverted, bufferedAmount, closeEnqueued, command,
                     task, events, received, peerClosed, wire>>
      /\ connectHandle' \in BOOLEAN /\ cancelSent' \in BOOLEAN
      /\ \/ /\ connect = "cookies" /\ connect' = "done" /\ Closes
            /\ UNCHANGED <<upgrade, connectStored, stored, read, closeTask>>
         \/ /\ connect = "native" /\ connect' = "done"
            /\ upgrade = "settled" /\ upgrade' = "delivered"
            /\ UNCHANGED <<closeTask, connectStored>>
            /\ \/ task = "none" /\ Closes /\ UNCHANGED <<read, stored>>
               \/ /\ readyState # "connecting" /\ stored' = FALSE
                  /\ UNCHANGED <<readyState, opened, closeEvents, closeReport, handle, read>>
               \/ readyState = "connecting" /\ stored' = FALSE /\ Closes /\ UNCHANGED read
               \/ /\ readyState = "connecting" /\ readyState' = "open"
                  /\ opened' = "resolved" /\ handle' = TRUE /\ read' = "started"
                  /\ UNCHANGED <<closeEvents, closeReport, stored>>
         \/ /\ readyState = "connecting" /\ readyState' = "closing"
            /\ opened' = "rejected" /\ closeTask' = TRUE
            /\ connectStored' \in BOOLEAN /\ (connectStored' => connectStored)
            /\ UNCHANGED <<closeEvents, closeReport, handle, connect, read, upgrade, stored>>
         \/ /\ closeTask /\ closeTask' = FALSE /\ Closes
            /\ UNCHANGED <<connect, read, upgrade, connectStored, stored>>
  <2> USE GuardedFinalizeCloses
      DEF connectVars, queueVars, nativeConnectVars, taskVars
  <2>1. CASE ConnectThrows
    BY <2>1 DEF ConnectThrows, TypeOK
  <2>2. CASE ConnectFails
    BY <2>2 DEF ConnectFails, Delivered, TypeOK
  <2>3. CASE ConnectTooLate
    BY <2>3 DEF ConnectTooLate, Delivered, TypeOK, stateVars
  <2>4. CASE ConnectRefused
    BY <2>4, FinalizeCloses DEF ConnectRefused, Delivered, TypeOK, FailConnection
  <2>5. CASE Open
    BY <2>5 DEF Open, Delivered, TypeOK, OpenedAgrees
  <2>6. CASE CloseConnecting
    BY <2>6 DEF CloseConnecting, TypeOK
  <2>7. CASE CloseMicrotask
    BY <2>7 DEF CloseMicrotask, TypeOK
  <2> QED
    BY <2>1, <2>2, <2>3, <2>4, <2>5, <2>6, <2>7
<1>2. TypeOK'
  <2>1. /\ readyState' \in {"connecting", "open", "closing", "closed"}
        /\ opened' \in {"pending", "resolved", "rejected"}
        /\ closeReport' \in {"none", "clean", "unclean"}
    BY <1>1 DEF TypeOK, Closes
  <2>4. handle' \in BOOLEAN
    BY <1>1 DEF TypeOK, Closes
  <2>5. closeEvents' \in Nat
    BY <1>1 DEF TypeOK, Closes
  <2>2. /\ connect' \in {"cookies", "native", "done"}
        /\ read' \in {"none", "started", "waiting", "text", "clean", "unclean", "error"}
        /\ upgrade' \in {"none", "running", "finished", "settled", "delivered"}
        /\ connectStored' \in BOOLEAN /\ stored' \in BOOLEAN /\ closeTask' \in BOOLEAN
    BY <1>1 DEF TypeOK
  <2>3. /\ connectHandle' \in BOOLEAN /\ cancelSent' \in BOOLEAN
        /\ UNCHANGED <<queue, sent, discarded, unconverted, bufferedAmount, closeEnqueued,
                       command, task, events, received, peerClosed, wire>>
    BY <1>1
  <2> QED
    BY <2>1, <2>2, <2>3, <2>4, <2>5 DEF TypeOK
<1>3. OpenedAgrees'
  BY <1>1 DEF OpenedAgrees, TypeOK, Closes
<1>4. Connects'
  BY <1>1 DEF Connects, TypeOK, Closes
<1>5. NothingBeforeOpen'
  BY <1>1 DEF NothingBeforeOpen
<1>6. Released'
  <2>1. read' \in {"clean", "unclean", "error"} => ~stored'
    BY <1>1 DEF Released
  <2>2. command' = "failed" => ~stored'
    BY <1>1 DEF Released, Connects, NothingBeforeOpen, TypeOK
  <2>3. closeTask' => readyState' \in {"closing", "closed"} /\ (connect' = "done" => ~stored')
    BY <1>1 DEF Released, Connects, Closes
  <2>4. HandlesReleased'
    BY <1>1, <1>4 DEF Released, HandlesReleased, Settled, Connects, Closes
  <2> QED
    BY <2>1, <2>2, <2>3, <2>4 DEF Released
<1>7. QueueInOrder'
  BY <1>1, QueueKept DEF Closes, TypeOK
<1>8. WireFollowsQueue'
  BY <1>1, WireKept DEF Reachable
<1> QED
  BY <1>2, <1>3, <1>4, <1>5, <1>6, <1>7, <1>8

(* send() and close(), while there is a connection or after it. *)
LEMMA CallerStepInv ==
    ASSUME IInv, Send \/ SendIgnored \/ CloseOpen
    PROVE  IInv'
<1> USE DEF IInv
<1>1. UNCHANGED <<opened, closeEvents, closeReport, handle, connect, connectHandle, closeTask,
                  unconverted, command, read, upgrade, connectStored, cancelSent, stored, task,
                  events, received, peerClosed, wire>>
  BY DEF Send, SendIgnored, CloseOpen, stateVars, connectVars, nativeConnectVars, taskVars
<1>2. /\ MaxSends \in Nat /\ sent \in Nat /\ discarded \in Nat /\ bufferedAmount \in Nat
      /\ Messages \in Nat
  BY WebSocketAssumption, MessagesType DEF TypeOK
<1>3. CASE Send
  <2>1. /\ readyState = "open" /\ readyState' = readyState
        /\ sent < MaxSends /\ sent' = sent + 1
        /\ queue' = Append(queue, sent')
        /\ bufferedAmount' = bufferedAmount + 1
        /\ UNCHANGED <<discarded, closeEnqueued>>
    BY <1>2, <1>3 DEF Send, stateVars
  <2>2. ~closeEnqueued /\ upgrade = "delivered"
    BY <2>1 DEF QueueInOrder, Connects
  <2>3. /\ queue' \in Seq(0..MaxSends)
        /\ queue' # <<>>
        /\ Messages' = Messages + 1
        /\ Messages' = Len(queue')
        /\ \A i \in 1..Messages' : queue'[i] = sent' - Messages' + i
    BY <2>1, <2>2, AppendMessage
  <2>4. TypeOK'
    <3>1. sent' \in 0..MaxSends /\ bufferedAmount' \in Nat
      BY <1>2, <2>1
    <3> QED
      BY <1>1, <2>1, <2>3, <3>1 DEF TypeOK
  <2>5. OpenedAgrees' /\ Connects' /\ NothingBeforeOpen' /\ Released'
    BY <1>1, <2>1, <2>2 DEF OpenedAgrees, Connects, NothingBeforeOpen, Released,
                            HandlesReleased, Settled
  <2>6. QueueInOrder'
    BY <1>2, <2>1, <2>2, <2>3 DEF QueueInOrder
  <2>7. WireFollowsQueue'
    <3>1. ~CloseSent
      BY <2>2 DEF CloseSent
    <3>2. Passed' = Passed /\ (Messages > 0 => Messages' > 0)
      <4>1. sent' - Messages' = sent - Messages /\ (Messages > 0 => Messages' > 0)
        BY <1>2, <2>1, <2>3
      <4> QED
        BY <1>1, <4>1 DEF Passed
    <3>3. /\ WireInOrder' /\ WireOfQueue'
          /\ \A m : SentOrReported(m) => SentOrReported(m)'
      BY <1>1, <2>1, <2>2, OrderKept DEF WireFollowsQueue
    <3> QED
      BY <1>1, <3>1, <3>2, <3>3 DEF WireFollowsQueue, Reachable
  <2> QED
    BY <2>4, <2>5, <2>6, <2>7
<1>4. CASE SendIgnored
  <2>1. /\ UNCHANGED <<readyState, queue, sent, closeEnqueued>>
        /\ discarded' = discarded + 1
        /\ discarded' \in 0..MaxSends
        /\ bufferedAmount' = bufferedAmount + 1
    BY <1>2, <1>4 DEF SendIgnored, stateVars
  <2>2. TypeOK'
    <3>1. bufferedAmount' \in Nat
      BY <1>2, <2>1
    <3> QED
      BY <1>1, <2>1, <3>1 DEF TypeOK
  <2>3. OpenedAgrees' /\ Connects' /\ NothingBeforeOpen' /\ Released'
    BY <1>1, <2>1 DEF OpenedAgrees, Connects, NothingBeforeOpen, Released, HandlesReleased,
                      Settled
  <2>4. QueueInOrder'
    <3>1. Messages' = Messages
      BY <2>1 DEF Messages
    <3> QED
      BY <1>2, <2>1, <3>1 DEF QueueInOrder
  <2>5. WireFollowsQueue'
    BY <1>1, <2>1, WireKept DEF Reachable
  <2> QED
    BY <2>2, <2>3, <2>4, <2>5
<1>5. CASE CloseOpen
  <2>1. /\ readyState = "open" /\ readyState' = "closing"
        /\ EnqueueClose
        /\ UNCHANGED <<sent, discarded, unconverted, bufferedAmount>>
    BY <1>5 DEF CloseOpen
  <2>2. ~closeEnqueued /\ upgrade = "delivered" /\ opened = "resolved"
    BY <2>1 DEF QueueInOrder, Connects, OpenedAgrees
  <2>3. /\ queue' \in Seq(0..MaxSends)
        /\ queue' # <<>>
        /\ Messages' = Messages
        /\ closeEnqueued'
        /\ \A i \in 1..Messages' : queue'[i] = sent' - Messages' + i
    BY <2>1, <2>2, AppendClose
  <2>4. closeEnqueued' \in BOOLEAN
    BY <2>1 DEF EnqueueClose
  <2>5. TypeOK'
    BY <1>1, <2>1, <2>3, <2>4 DEF TypeOK
  <2>6. OpenedAgrees' /\ Connects' /\ NothingBeforeOpen'
    BY <1>1, <2>1, <2>2 DEF OpenedAgrees, Connects, NothingBeforeOpen
  <2>7. Released'
    BY <1>1, <2>1 DEF Released, HandlesReleased, Settled
  <2>8. QueueInOrder'
    BY <1>2, <2>1, <2>3 DEF QueueInOrder
  <2>9. WireFollowsQueue'
    <3>1. ~CloseSent
      BY <2>2 DEF CloseSent
    <3>2. Passed' = Passed
      BY <1>1, <2>1, <2>3 DEF Passed
    <3>3. /\ WireInOrder' /\ WireOfQueue'
          /\ \A m : SentOrReported(m) => SentOrReported(m)'
      BY <1>1, <2>1, <2>2, OrderKept DEF WireFollowsQueue
    <3> QED
      BY <1>1, <2>3, <3>1, <3>2, <3>3 DEF WireFollowsQueue, Reachable
  <2> QED
    BY <2>5, <2>6, <2>7, <2>8, <2>9
<1> QED
  BY <1>3, <1>4, <1>5

(* The thread of the command at the head of the queue. *)
LEMMA CommandStepInv ==
    ASSUME IInv,
           \/ QueueStarts \/ CommandUnknown \/ CommandQueued \/ CommandFails
           \/ TaskSends \/ TaskSendFails
    PROVE  IInv'
<1> USE DEF IInv
<1>1. /\ UNCHANGED <<readyState, opened, closeEvents, closeReport, handle, connect, connectHandle,
                     closeTask, queue, sent, discarded, unconverted, bufferedAmount,
                     closeEnqueued, read, upgrade, connectStored, cancelSent, received,
                     peerClosed>>
      /\ queue # <<>>
      /\ \/ /\ command = "none" /\ command' = "started"
            /\ UNCHANGED <<stored, task, events, wire>>
         \/ /\ command = "started" /\ command' = "failed" /\ ~stored
            /\ UNCHANGED <<stored, task, events, wire>>
         \/ /\ command = "started" /\ command' = "queued" /\ stored /\ task = "running"
            /\ UNCHANGED <<stored, task, events, wire>>
         \/ /\ command' = "failed" /\ stored' = FALSE
            /\ UNCHANGED <<task, events, wire>>
         \/ /\ command = "queued" /\ command' = "ok" /\ task = "running"
            /\ wire' = Append(wire, Head(queue))
            /\ UNCHANGED <<stored, task, events>>
         \/ /\ command = "queued" /\ command' = "nacked" /\ task = "running" /\ task' = "ended"
            /\ events' = Append(events, "unclean")
            /\ UNCHANGED <<stored, wire>>
  <2> USE DEF CommandStep, stateVars, connectVars, nativeConnectVars, taskVars, TypeOK
  <2>1. CASE QueueStarts
    BY <2>1 DEF QueueStarts
  <2>2. CASE CommandUnknown
    BY <2>2 DEF CommandUnknown
  <2>3. CASE CommandQueued
    BY <2>3 DEF CommandQueued
  <2>4. CASE CommandFails
    BY <2>4 DEF CommandFails
  <2>5. CASE TaskSends
    BY <2>5 DEF TaskSends
  <2>6. CASE TaskSendFails
    BY <2>6 DEF TaskSendFails
  <2> QED
    BY <2>1, <2>2, <2>3, <2>4, <2>5, <2>6
<1>2. upgrade = "delivered" /\ (stored' => stored)
  BY <1>1 DEF NothingBeforeOpen, TypeOK
<1>3. TypeOK'
  <2>1. Head(queue) \in 0..MaxSends
    BY <1>1, TailFacts DEF TypeOK
  <2>2. wire' \in Seq(0..MaxSends)
    <3>1. wire \in Seq(0..MaxSends)
      BY DEF TypeOK
    <3>2. Append(wire, Head(queue)) \in Seq(0..MaxSends)
      BY <2>1, <3>1, AppendFacts
    <3> QED
      BY <1>1, <3>1, <3>2
  <2>3. events' \in Seq({"text", "clean", "unclean"})
    BY <1>1, AppendFacts DEF TypeOK
  <2>4. /\ command' \in {"none", "started", "queued", "nacked", "ok", "failed"}
        /\ task' \in {"none", "running", "ended"}
    BY <1>1 DEF TypeOK
  <2>5. stored' \in BOOLEAN
    BY <1>1 DEF TypeOK
  <2>6. /\ queue' # <<>>
        /\ UNCHANGED <<readyState, opened, closeEvents, closeReport, handle, connect,
                       connectHandle, closeTask, queue, sent, discarded, unconverted,
                       bufferedAmount, closeEnqueued, read, upgrade, connectStored, cancelSent,
                       received, peerClosed>>
    BY <1>1
  <2> QED
    BY <2>2, <2>3, <2>4, <2>5, <2>6 DEF TypeOK
<1>4. OpenedAgrees' /\ NothingBeforeOpen'
  BY <1>1, <1>2 DEF OpenedAgrees, NothingBeforeOpen
<1>5. Connects'
  BY <1>1, <1>2 DEF Connects
<1>6. Released'
  BY <1>1, <1>2 DEF Released, HandlesReleased, Settled
<1>7. QueueInOrder' /\ Messages' = Messages
  BY <1>1, QueueKept
<1>8. WireFollowsQueue'
  <2>1. CASE command' # "ok"
    <3>1. /\ WireInOrder' /\ WireOfQueue'
          /\ \A m : SentOrReported(m) => SentOrReported(m)'
      BY <1>1, <2>1, OrderKept DEF WireFollowsQueue
    <3>2. CASE command' = "failed" \/ command' = "nacked"
      <4>1. ~Reachable' /\ (command' = "nacked" => task' = "ended")
        BY <1>1, <3>2 DEF Reachable
      <4> QED
        BY <3>1, <4>1 DEF WireFollowsQueue
    <3>3. CASE command' = "started" \/ command' = "queued"
      <4>1. /\ (Reachable' => Reachable) /\ Passed' = Passed /\ (CloseSent <=> CloseSent')
            /\ wire' = wire
        BY <1>1, <1>7, <3>3 DEF Reachable, Passed, CloseSent, TypeOK
      <4> QED
        BY <1>7, <3>1, <3>3, <4>1 DEF WireFollowsQueue
    <3> QED
      BY <1>1, <2>1, <3>2, <3>3
  <2>2. CASE command' = "ok"
    <3>1. /\ task = "running" /\ wire' = Append(wire, Head(queue)) /\ command = "queued"
      BY <1>1, <2>2
    <3>2. /\ Len(wire) \in Nat /\ sent \in Nat /\ Messages \in Nat /\ Messages <= sent
          /\ DOMAIN wire = 1..Len(wire)
          /\ DOMAIN wire' = 1..(Len(wire) + 1)
          /\ wire'[Len(wire) + 1] = Head(queue)
          /\ \A i \in 1..Len(wire) : wire'[i] = wire[i]
      <4>1. Head(queue) \in 0..MaxSends
        BY <1>1, TailFacts DEF TypeOK
      <4>2. wire' \in Seq(0..MaxSends)
        BY <3>1, <4>1, AppendFacts DEF TypeOK
      <4> QED
        BY <3>1, <4>1, <4>2, EmptyIffNoLength, AppendFacts, MessagesType DEF TypeOK, QueueInOrder
    <3>3. /\ \A i \in 1..Len(wire) : wire[i] \in 1..(sent - Messages)
          /\ \A m \in 1..(sent - Messages) : SentOrReported(m)
      <4>1. Passed = sent - Messages
        BY <3>1, <3>2 DEF Passed
      <4>2. Reachable /\ ~CloseSent
        BY <1>1, <3>1 DEF Reachable, CloseSent
      <4> QED
        BY <3>2, <4>1, <4>2 DEF WireFollowsQueue
    <3>4. /\ \A m : SentOrReported(m) => SentOrReported(m)'
          /\ \A m : m = Head(queue) => SentOrReported(m)'
      BY <1>1, <3>2 DEF SentOrReported
    <3>5. CASE Head(queue) = Close
      <4>1. Messages = 0 /\ Len(queue) = 1 /\ closeEnqueued
        BY <1>1, <3>5, HeadOfQueue
      <4>2. CloseSent'
        BY <1>1, <1>7, <2>2, <4>1 DEF CloseSent
      <4>3. \A m \in 1..sent' : SentOrReported(m)'
        BY <1>1, <3>2, <3>3, <3>4, <4>1
      <4>4. WireInOrder'
        <5>1. ASSUME NEW i \in DOMAIN wire', NEW j \in DOMAIN wire', i < j
              PROVE  wire'[i] # Close /\ (wire'[j] = Close \/ wire'[i] < wire'[j])
          <6>1. i \in 1..Len(wire) /\ wire'[i] = wire[i] /\ wire[i] # Close
            BY <3>2, <3>3, <5>1 DEF Close
          <6>2. CASE j = Len(wire) + 1
            BY <3>2, <3>5, <6>1, <6>2
          <6>3. CASE j \in 1..Len(wire)
            BY <3>2, <5>1, <6>1, <6>3 DEF WireFollowsQueue, WireInOrder
          <6> QED
            BY <3>2, <6>1, <6>2, <6>3
        <5> QED
          BY <4>3, <5>1 DEF WireInOrder
      <4>5. WireOfQueue'
        BY <1>1, <3>2, <3>5, <4>1 DEF WireFollowsQueue, WireOfQueue, Close
      <4> QED
        BY <2>2, <4>2, <4>4, <4>5 DEF WireFollowsQueue
    <3>6. CASE Head(queue) # Close
      <4> DEFINE n == sent - Messages + 1
      <4>1. Messages > 0 /\ Head(queue) = n /\ n \in Nat \ {0} /\ n <= sent
        BY <1>1, <3>2, <3>6, HeadOfQueue
      <4>2. Passed' = n
        BY <1>1, <1>7, <2>2 DEF Passed
      <4>3. \A i \in 1..Len(wire) : wire[i] \in Nat /\ wire[i] < n /\ wire[i] # Close
        BY <3>2, <3>3 DEF Close
      <4>4. \A m \in 1..n : SentOrReported(m)'
        <5> TAKE m \in 1..n
        <5>1. m = Head(queue) \/ m \in 1..(sent - Messages)
          BY <3>2, <4>1
        <5> QED
          BY <3>3, <3>4, <5>1
      <4> HIDE DEF n
      <4>5. \A i \in DOMAIN wire' : wire'[i] \in 1..n
        <5> TAKE i \in DOMAIN wire'
        <5>1. CASE i \in 1..Len(wire)
          BY <3>2, <4>1, <4>3, <5>1 DEF Close
        <5>2. CASE i = Len(wire) + 1
          BY <3>2, <4>1, <5>2
        <5> QED
          BY <3>2, <5>1, <5>2
      <4>6. WireInOrder'
        <5>1. ASSUME NEW i \in DOMAIN wire', NEW j \in DOMAIN wire', i < j
              PROVE  wire'[i] # Close /\ (wire'[j] = Close \/ wire'[i] < wire'[j])
          <6>1. i \in 1..Len(wire) /\ wire'[i] = wire[i] /\ wire[i] # Close /\ wire[i] < n
            BY <3>2, <4>3, <5>1
          <6>2. CASE j = Len(wire) + 1
            BY <3>2, <4>1, <6>1, <6>2
          <6>3. CASE j \in 1..Len(wire)
            BY <3>2, <5>1, <6>1, <6>3 DEF WireFollowsQueue, WireInOrder
          <6> QED
            BY <3>2, <6>1, <6>2, <6>3
        <5>2. ASSUME NEW i \in DOMAIN wire', NEW m \in 1..sent',
                     wire'[i] = Close \/ m < wire'[i]
              PROVE  SentOrReported(m)'
          <6>1. m \in 1..n
            BY <1>1, <3>2, <4>1, <4>5, <5>2 DEF Close
          <6> QED
            BY <4>4, <6>1
        <5> QED
          BY <5>1, <5>2 DEF WireInOrder
      <4>7. WireOfQueue'
        BY <1>1, <3>2, <4>1, <4>5 DEF WireOfQueue, Close
      <4> QED
        BY <1>7, <2>2, <4>1, <4>2, <4>4, <4>5, <4>6, <4>7 DEF WireFollowsQueue
    <3> QED
      BY <3>5, <3>6
  <2> QED
    BY <2>1, <2>2
<1> QED
  BY <1>3, <1>4, <1>5, <1>6, <1>7, <1>8

(* The head of the queue has its result, or cannot be converted, and       *)
(* leaves the queue.                                                       *)
LEMMA HeadDoneStep ==
    ASSUME IInv,
           SendDone \/ SendRejected \/ CloseDone \/ CloseRejected \/ ConversionFails
    PROVE  IInv'
<1> USE DEF IInv
<1>1. /\ UNCHANGED <<connect, connectHandle, closeTask, sent, discarded, closeEnqueued, read,
                     upgrade, connectStored, cancelSent, stored, task, events, received,
                     peerClosed, wire>>
      /\ queue # <<>> /\ queue' = Tail(queue) /\ command' = "none"
      /\ \/ /\ command \in {"ok", "failed"} /\ Head(queue) # Close
            /\ bufferedAmount' = bufferedAmount - 1
            /\ UNCHANGED <<readyState, opened, closeEvents, closeReport, handle, unconverted>>
         \/ /\ command = "none" /\ Head(queue) # Close
            /\ bufferedAmount' = bufferedAmount - 1
            /\ unconverted' = unconverted \cup {Head(queue)}
            /\ UNCHANGED <<readyState, opened, closeEvents, closeReport, handle>>
         \/ /\ command = "ok" /\ Head(queue) = Close
            /\ UNCHANGED <<readyState, opened, closeEvents, closeReport, handle, bufferedAmount,
                           unconverted>>
         \/ /\ command = "failed" /\ Head(queue) = Close
            /\ Closes
            /\ UNCHANGED <<bufferedAmount, unconverted>>
  <2> USE DEF HeadDone, stateVars, connectVars, nativeConnectVars, taskVars, TypeOK
  <2>1. CASE SendDone
    BY <2>1 DEF SendDone
  <2>2. CASE SendRejected
    BY <2>2 DEF SendRejected
  <2>3. CASE CloseDone
    BY <2>3 DEF CloseDone
  <2>4. CASE CloseRejected
    BY <2>4, FinalizeCloses DEF CloseRejected, FailConnection
  <2>5. CASE ConversionFails
    BY <2>5 DEF ConversionFails
  <2> QED
    BY <2>1, <2>2, <2>3, <2>4, <2>5
<1>2. queue # <<>> /\ upgrade = "delivered"
  BY <1>1 DEF TypeOK, NothingBeforeOpen
<1>3. /\ queue' \in Seq(0..MaxSends)
      /\ Head(queue) # Close => Messages' = Messages - 1
      /\ Head(queue) = Close => Messages' = 0 /\ queue' = <<>>
      /\ Messages' = Len(queue') \/ Messages # Len(queue)
      /\ \A i \in 1..Messages' : queue'[i] = sent - Messages' + i
  BY <1>1, <1>2, TailOfQueue
<1>4. /\ Head(queue) = Close => Messages = 0 /\ Len(queue) = 1
      /\ Head(queue) # Close => Messages > 0 /\ Head(queue) = sent - Messages + 1
      /\ Messages \in Nat /\ sent \in Nat /\ discarded \in Nat
      /\ Head(queue) # Close => Head(queue) \in 1..MaxSends
  <2>1. Head(queue) \in 0..MaxSends
    BY <1>2, TailFacts DEF TypeOK
  <2> QED
    BY <1>2, <2>1, HeadOfQueue, MessagesType DEF TypeOK, Close
<1>5. TypeOK'
  <2>1. bufferedAmount' \in Nat
    BY <1>1, <1>4 DEF QueueInOrder, TypeOK
  <2>2. /\ readyState' \in {"connecting", "open", "closing", "closed"}
        /\ opened' \in {"pending", "resolved", "rejected"}
        /\ closeReport' \in {"none", "clean", "unclean"}
    BY <1>1 DEF TypeOK, Closes
  <2>3. closeEvents' \in Nat
    BY <1>1 DEF TypeOK, Closes
  <2>4. handle' \in BOOLEAN
    BY <1>1 DEF TypeOK, Closes
  <2>5. unconverted' \subseteq 1..MaxSends
    <3>1. unconverted \subseteq 1..MaxSends
      BY DEF TypeOK
    <3> QED
      BY <1>1, <1>4, <3>1
  <2> QED
    BY <1>1, <1>3, <2>1, <2>2, <2>3, <2>4, <2>5 DEF TypeOK
<1>6. OpenedAgrees'
  BY <1>1 DEF OpenedAgrees, TypeOK, Closes
<1>7. Connects' /\ NothingBeforeOpen'
  BY <1>1, <1>2 DEF Connects, NothingBeforeOpen, Closes
<1>8. Released'
  <2>1. ~connectStored' /\ (command = "failed" => ~stored)
    BY <1>1, <1>2 DEF Connects, Released
  <2> QED
    BY <1>1, <2>1 DEF Released, HandlesReleased, Settled, Closes
<1>9. QueueInOrder'
  <2>1. readyState' \in {"connecting", "open"} => readyState' = readyState
    BY <1>1 DEF Closes
  <2>2. ~closeEnqueued => Messages = Len(queue)
    BY DEF QueueInOrder
  <2>3. Messages' <= sent /\ bufferedAmount' = discarded + Messages'
    <3>1. Messages <= sent /\ bufferedAmount = discarded + Messages
      BY DEF QueueInOrder
    <3> QED
      BY <1>1, <1>3, <1>4, <3>1
  <2> QED
    BY <1>1, <1>3, <2>1, <2>2, <2>3 DEF QueueInOrder
<1>10. WireFollowsQueue'
  <2>0. /\ WireInOrder' /\ WireOfQueue'
        /\ \A m : SentOrReported(m) => SentOrReported(m)'
    BY <1>1, OrderKept DEF WireFollowsQueue
  <2>1. Reachable' => Reachable /\ command \in {"ok", "none"}
    BY <1>1 DEF Reachable, Released, TypeOK
  <2>2. CASE Head(queue) = Close /\ Reachable'
    <3>1. closeEnqueued
      BY <1>4, <2>2 DEF QueueInOrder
    <3>2. CloseSent'
      BY <1>1, <1>3, <2>2, <3>1 DEF CloseSent
    <3> QED
      BY <1>1, <2>0, <3>2 DEF WireFollowsQueue
  <2>3. CASE Head(queue) # Close /\ Reachable'
    <3>1. ~CloseSent
      BY <1>2, <1>4, <2>3 DEF CloseSent
    <3>2. /\ \A i \in DOMAIN wire : wire[i] \in 1..Passed
          /\ \A m \in 1..Passed : SentOrReported(m)
      BY <2>1, <2>3, <3>1 DEF WireFollowsQueue
    <3>3. Passed' = sent - Messages + 1 /\ command' = "none"
      BY <1>1, <1>3, <1>4, <2>3 DEF Passed
    <3>4. CASE command = "ok"
      <4>1. Passed' = Passed
        BY <3>3, <3>4 DEF Passed
      <4> QED
        BY <1>1, <2>0, <3>2, <3>3, <4>1 DEF WireFollowsQueue
    <3>5. CASE command = "none"
      <4>1. Passed' = Passed + 1 /\ Passed \in Nat /\ Head(queue) = Passed'
        BY <1>4, <2>3, <3>3, <3>5 DEF Passed, QueueInOrder
      <4>2. \A m : m = Head(queue) => SentOrReported(m)'
        BY <1>1, <2>3, <3>5 DEF SentOrReported
      <4>3. \A m \in 1..Passed' : SentOrReported(m)'
        <5> TAKE m \in 1..Passed'
        <5>1. m = Passed' \/ m \in 1..Passed
          BY <4>1
        <5> QED
          BY <2>0, <3>2, <4>1, <4>2, <5>1
      <4>4. \A i \in DOMAIN wire' : wire'[i] \in 1..Passed'
        BY <1>1, <3>2, <4>1
      <4> QED
        BY <2>0, <3>3, <4>3, <4>4 DEF WireFollowsQueue
    <3> QED
      BY <2>1, <2>3, <3>4, <3>5
  <2>4. CASE ~Reachable'
    BY <1>1, <2>0, <2>4 DEF WireFollowsQueue
  <2> QED
    BY <2>2, <2>3, <2>4
<1> QED
  BY <1>5, <1>6, <1>7, <1>8, <1>9, <1>10

(* The connection receives, ends, or is given up. *)
LEMMA TaskStepInv ==
    ASSUME IInv, TaskReceives \/ TaskEnds("clean") \/ TaskEnds("unclean") \/ TaskReleased
    PROVE  IInv'
<1> USE DEF IInv
<1>1. /\ UNCHANGED <<readyState, opened, closeEvents, closeReport, handle, connect, connectHandle,
                     closeTask, queue, sent, discarded, unconverted, bufferedAmount,
                     closeEnqueued, command, read, upgrade, connectStored, cancelSent, stored,
                     wire>>
      /\ task = "running" /\ task' \in {"running", "ended"}
      /\ received' \in 0..MaxMessages /\ peerClosed' \in BOOLEAN
      /\ events' \in {events, Append(events, "text"), Append(events, "clean"),
                      Append(events, "unclean")}
  <2> USE DEF stateVars, connectVars, queueVars, nativeConnectVars, TypeOK
  <2>1. CASE TaskReceives
    BY <2>1, WebSocketAssumption DEF TaskReceives
  <2>2. CASE TaskEnds("clean") \/ TaskEnds("unclean")
    BY <2>2 DEF TaskEnds
  <2>3. CASE TaskReleased
    BY <2>3 DEF TaskReleased
  <2> QED
    BY <2>1, <2>2, <2>3
<1>2. TypeOK'
  <2>1. events' \in Seq({"text", "clean", "unclean"})
    <3>1. events \in Seq({"text", "clean", "unclean"})
      BY DEF TypeOK
    <3>2. \A e \in {"text", "clean", "unclean"} :
             Append(events, e) \in Seq({"text", "clean", "unclean"})
      BY <3>1, AppendFacts
    <3> QED
      BY <1>1, <3>1, <3>2
  <2> QED
    BY <1>1, <2>1 DEF TypeOK
<1>3. OpenedAgrees' /\ Connects' /\ NothingBeforeOpen' /\ Released'
  BY <1>1 DEF OpenedAgrees, Connects, NothingBeforeOpen, Released, HandlesReleased, Settled
<1>4. QueueInOrder'
  BY <1>1, QueueKept
<1>5. WireFollowsQueue'
  BY <1>1, WireKept DEF Reachable
<1> QED
  BY <1>2, <1>3, <1>4, <1>5

(* The thread of a read, and what #pumpMessages makes of its result. *)
LEMMA ReadStepInv ==
    ASSUME IInv,
           ReadStarts \/ ReadFails \/ ReadEvent \/ DeliverMessage \/ DeliverClose
    PROVE  IInv'
<1> USE DEF IInv
<1>1. /\ UNCHANGED <<connect, connectHandle, closeTask, queue, sent, discarded, unconverted,
                     bufferedAmount, closeEnqueued, command, upgrade, connectStored, cancelSent,
                     task, received, peerClosed, wire>>
      /\ read # "none"
      /\ \/ /\ read' = "waiting"
            /\ UNCHANGED <<readyState, opened, closeEvents, closeReport, handle, stored, events>>
         \/ /\ read' = "error" /\ stored' = FALSE
            /\ UNCHANGED <<readyState, opened, closeEvents, closeReport, handle, events>>
         \/ /\ read' \in {"text", "clean", "unclean"} /\ events' = Tail(events) /\ events # <<>>
            /\ stored' \in BOOLEAN /\ (stored' => stored /\ read' = "text")
            /\ UNCHANGED <<readyState, opened, closeEvents, closeReport, handle>>
         \/ /\ read' \in {"started", "none"}
            /\ UNCHANGED <<readyState, opened, closeEvents, closeReport, handle, stored, events>>
         \/ /\ read \in {"clean", "unclean"} /\ read' = "none" /\ Closes
            /\ UNCHANGED <<stored, events>>
  <2> USE DEF ReadStep, stateVars, connectVars, nativeConnectVars
  <2>1. CASE ReadStarts
    BY <2>1 DEF ReadStarts
  <2>2. CASE ReadFails
    BY <2>2 DEF ReadFails, NothingToRead
  <2>3. CASE ReadEvent
    <3>1. Head(events) \in {"text", "clean", "unclean"}
      BY <2>3, TailFacts DEF ReadEvent, TypeOK
    <3>2. stored' \in BOOLEAN /\ (stored' => stored /\ Head(events) = "text")
      BY <2>3 DEF ReadEvent
    <3> QED
      BY <2>3, <3>1, <3>2 DEF ReadEvent
  <2>4. CASE DeliverMessage
    BY <2>4 DEF DeliverMessage
  <2>5. CASE DeliverClose
    BY <2>5, FinalizeCloses DEF DeliverClose
  <2> QED
    BY <2>1, <2>2, <2>3, <2>4, <2>5
<1>2. upgrade = "delivered" /\ (stored' => stored)
  BY <1>1 DEF NothingBeforeOpen
<1>3. TypeOK'
  <2>1. /\ readyState' \in {"connecting", "open", "closing", "closed"}
        /\ opened' \in {"pending", "resolved", "rejected"}
        /\ closeReport' \in {"none", "clean", "unclean"}
    BY <1>1 DEF TypeOK, Closes
  <2>2. closeEvents' \in Nat
    BY <1>1 DEF TypeOK, Closes
  <2>3. handle' \in BOOLEAN
    BY <1>1 DEF TypeOK, Closes
  <2>4. events' \in Seq({"text", "clean", "unclean"})
    BY <1>1, TailFacts DEF TypeOK
  <2>5. stored' \in BOOLEAN
    BY <1>1 DEF TypeOK
  <2>6. read' \in {"none", "started", "waiting", "text", "clean", "unclean", "error"}
    BY <1>1
  <2> QED
    BY <1>1, <2>1, <2>2, <2>3, <2>4, <2>5, <2>6 DEF TypeOK
<1>4. OpenedAgrees'
  BY <1>1 DEF OpenedAgrees, TypeOK, Closes
<1>5. Connects' /\ NothingBeforeOpen'
  BY <1>1, <1>2 DEF Connects, NothingBeforeOpen, Closes
<1>6. Released'
  <2>1. ~connectStored' /\ (read \in {"clean", "unclean"} => ~stored)
    BY <1>1, <1>2 DEF Connects, Released
  <2>2. read' \in {"clean", "unclean", "error"} => ~stored'
    BY <1>1
  <2>3. readyState' = "closed" => ~stored'
    BY <1>1, <1>2, <2>1 DEF Released, HandlesReleased, Settled, Connects, TypeOK
  <2> QED
    BY <1>1, <1>2, <2>1, <2>2, <2>3 DEF Released, HandlesReleased, Settled, Closes
<1>7. QueueInOrder'
  BY <1>1, QueueKept DEF Closes, TypeOK
<1>8. WireFollowsQueue'
  BY <1>1, <1>2, WireKept DEF Reachable
<1> QED
  BY <1>3, <1>4, <1>5, <1>6, <1>7, <1>8

(* A failed read closes the socket; a listener may have queued a close.    *)
LEMMA ReadErrorStep ==
    ASSUME IInv, DeliverReadError
    PROVE  IInv'
<1> USE DEF IInv
<1>1. /\ UNCHANGED <<connect, connectHandle, closeTask, sent, discarded, unconverted,
                     bufferedAmount, command, upgrade, connectStored, cancelSent, stored, task,
                     events, received, peerClosed, wire>>
      /\ read = "error" /\ read' = "none"
      /\ Closes
      /\ UNCHANGED <<queue, closeEnqueued>> \/ (readyState = "open" /\ EnqueueClose)
  BY FinalizeCloses
  DEF DeliverReadError, FailConnection, ReadStep, connectVars, nativeConnectVars
<1>2. upgrade = "delivered" /\ ~stored /\ ~connectStored /\ connect # "native"
  BY <1>1 DEF NothingBeforeOpen, Released, Connects
<1>3. \/ UNCHANGED <<queue, closeEnqueued>> /\ QueueInOrder' /\ Messages' = Messages
      \/ /\ ~closeEnqueued
         /\ queue' \in Seq(0..MaxSends)
         /\ queue' # <<>>
         /\ Messages' = Messages
         /\ closeEnqueued' = TRUE
         /\ QueueInOrder'
  <2>1. CASE UNCHANGED <<queue, closeEnqueued>>
    BY <1>1, <2>1, QueueKept DEF Closes
  <2>2. CASE readyState = "open" /\ EnqueueClose
    <3>1. ~closeEnqueued
      BY <2>2 DEF QueueInOrder
    <3>2. /\ queue' \in Seq(0..MaxSends)
          /\ queue' # <<>>
          /\ Messages' = Messages
          /\ closeEnqueued' = TRUE
          /\ \A i \in 1..Messages' : queue'[i] = sent' - Messages' + i
      BY <1>1, <2>2, <3>1, AppendClose DEF EnqueueClose
    <3>3. QueueInOrder'
      BY <1>1, <3>2 DEF QueueInOrder, Closes
    <3> QED
      BY <3>1, <3>2, <3>3
  <2> QED
    BY <1>1, <2>1, <2>2
<1>4. TypeOK'
  <2>1. /\ readyState' \in {"connecting", "open", "closing", "closed"}
        /\ opened' \in {"pending", "resolved", "rejected"}
        /\ closeReport' \in {"none", "clean", "unclean"}
    BY <1>1 DEF TypeOK, Closes
  <2>2. closeEvents' \in Nat
    BY <1>1 DEF TypeOK, Closes
  <2>3. handle' \in BOOLEAN /\ closeEnqueued' \in BOOLEAN
    BY <1>1, <1>3 DEF TypeOK, Closes
  <2>4. queue' \in Seq(0..MaxSends) /\ (queue' = <<>> => command = "none")
    BY <1>3 DEF TypeOK
  <2> QED
    BY <1>1, <2>1, <2>2, <2>3, <2>4 DEF TypeOK
<1>5. OpenedAgrees'
  BY <1>1 DEF OpenedAgrees, TypeOK, Closes
<1>6. Connects' /\ NothingBeforeOpen'
  BY <1>1, <1>2 DEF Connects, NothingBeforeOpen, Closes
<1>7. Released'
  BY <1>1, <1>2 DEF Released, HandlesReleased, Settled, Closes
<1>8. WireFollowsQueue'
  <2>0. /\ WireInOrder' /\ WireOfQueue'
        /\ \A m : SentOrReported(m) => SentOrReported(m)'
    BY <1>1, <1>3, OrderKept DEF WireFollowsQueue
  <2>1. command \notin {"queued"} => ~Reachable'
    BY <1>1, <1>2 DEF Reachable
  <2>2. CASE Reachable'
    <3>1. Reachable /\ command = "queued" /\ queue # <<>>
      BY <1>1, <2>1, <2>2 DEF Reachable, TypeOK
    <3>2. ~CloseSent
      BY <3>1 DEF CloseSent
    <3>3. Passed' = Passed
      BY <1>1, <1>3 DEF Passed
    <3> QED
      BY <1>1, <1>3, <2>0, <3>1, <3>2, <3>3 DEF WireFollowsQueue
  <2>3. CASE ~Reachable'
    BY <1>1, <2>0, <2>3 DEF WireFollowsQueue
  <2> QED
    BY <2>2, <2>3
<1> QED
  BY <1>3, <1>4, <1>5, <1>6, <1>7, <1>8

(* IInv is inductive. *)
LEMMA InvStep == IInv /\ [Next]_vars => IInv'
<1> SUFFICES ASSUME IInv, [Next]_vars PROVE IInv'
  OBVIOUS
<1>1. CASE UNCHANGED vars
  <2>1. UNCHANGED <<readyState, opened, closeEvents, closeReport, handle, connect, connectHandle,
                    closeTask, queue, sent, discarded, unconverted, bufferedAmount, closeEnqueued,
                    command, read, upgrade, connectStored, cancelSent, stored, task, events,
                    received, peerClosed, wire>>
    BY <1>1 DEF vars, stateVars, connectVars, queueVars, nativeConnectVars, taskVars
  <2>2. QueueInOrder' /\ WireFollowsQueue'
    BY <2>1, QueueKept, WireKept DEF IInv, Reachable
  <2>3. TypeOK' /\ OpenedAgrees' /\ Connects' /\ NothingBeforeOpen' /\ Released'
    BY <2>1 DEF IInv, TypeOK, OpenedAgrees, Connects, NothingBeforeOpen, Released,
                HandlesReleased, Settled
  <2> QED
    BY <2>2, <2>3 DEF IInv
<1>2. CASE Next
  BY <1>2, ConnectingStep, DeliveryStep, CallerStepInv, CommandStepInv, HeadDoneStep, TaskStepInv,
     ReadStepInv, ReadErrorStep
  DEF Next, JsStep, CallerStep, ThreadStep, PeerStep
<1> QED
  BY <1>1, <1>2

-----------------------------------------------------------------------------

(* The strengthened invariant holds throughout the life of every socket. *)
THEOREM Invariance == Spec => []IInv
BY InitInv, InvStep, PTL DEF Spec

(* Types. *)
THEOREM TypeCorrect == Spec => []TypeOK
<1>1. IInv => TypeOK
  BY DEF IInv
<1> QED
  BY Invariance, <1>1, PTL

(* The connection gets the messages in the order of send() and nothing     *)
(* after the close frame; none is passed over but those that were reported *)
(* as errors because their data could not be converted.                    *)
THEOREM MessagesInOrder == Spec => []WireInOrder
<1>1. IInv => WireInOrder
  BY DEF IInv, WireFollowsQueue
<1> QED
  BY Invariance, <1>1, PTL

(* A closed socket whose connect is over has no entry in either store. *)
THEOREM NoHandleLeft == Spec => []HandlesReleased
<1>1. IInv => HandlesReleased
  BY DEF IInv, Released
<1> QED
  BY Invariance, <1>1, PTL

(* The messages are the entries of the queue that are no close. *)
LEMMA MessagesCounted ==
    ASSUME IInv
    PROVE  BufferedMatchesQueue
<1>1. /\ Messages \in Nat /\ Len(queue) \in Nat /\ sent \in Nat
      /\ Messages = Len(queue) \/ Messages = Len(queue) - 1
      /\ Messages <= sent
  BY MessagesType DEF IInv, TypeOK, QueueInOrder
<1>2. ASSUME NEW i \in 1..Messages PROVE queue[i] # Close
  <2>1. queue[i] = sent - Messages + i
    BY DEF IInv, QueueInOrder
  <2> QED
    BY <1>1, <2>1 DEF Close
<1>3. Messages # Len(queue) => queue[Len(queue)] = Close /\ Messages + 1 = Len(queue)
  BY <1>1 DEF Messages
<1>4. ASSUME NEW i \in 1..Len(queue) PROVE i \in 1..Messages <=> queue[i] # Close
  BY <1>1, <1>2, <1>3
<1>5. {i \in DOMAIN queue : queue[i] # Close} = 1..Messages
  <2>1. DOMAIN queue = 1..Len(queue)
    BY EmptyIffNoLength DEF IInv, TypeOK
  <2>2. \A i \in 1..Messages : i \in 1..Len(queue)
    BY <1>1
  <2> QED
    BY <1>4, <2>1, <2>2
<1>6. Cardinality(1..Messages) = Messages
  <2>1. 0 \in Int /\ 1 \in Int /\ Messages \in Int
    BY <1>1
  <2>2. Cardinality(1..Messages) = IF 1 > Messages THEN 0 ELSE Messages - 1 + 1
    BY <2>1, FS_Interval
  <2> QED
    BY <1>1, <2>2
<1> QED
  BY <1>5, <1>6 DEF IInv, QueueInOrder, BufferedMatchesQueue

(* bufferedAmount counts the queued messages and the discarded ones. *)
THEOREM BufferedAmountExact == Spec => []BufferedMatchesQueue
BY Invariance, MessagesCounted, PTL

-----------------------------------------------------------------------------
(* The socket implements SocketLifecycle: the variables are the same, so   *)
(* each step has to be a step of the lifecycle or leave the three alone.   *)

(* #finalizeClose is the lifecycle's Close the first time and nothing at   *)
(* all after that.                                                         *)
LEMMA ClosesIsLifecycleStep ==
    ASSUME TypeOK, OpenedAgrees, Closes
    PROVE  Lifecycle!Close \/ UNCHANGED <<readyState, opened, closeEvents>>
BY DEF TypeOK, OpenedAgrees, Closes, Lifecycle!Close

(* Every step is one of the lifecycle or leaves its three variables alone. *)
LEMMA LifecycleStep ==
    ASSUME IInv, [Next]_vars
    PROVE  [Lifecycle!Next]_(Lifecycle!lifecycleVars)
<1> USE DEF IInv
<1> DEFINE Same == UNCHANGED <<readyState, opened, closeEvents>>
<1>1. Closes => Lifecycle!Close \/ Same
  BY ClosesIsLifecycleStep
<1>2. \A report \in {"clean", "unclean"} : FinalizeClose(report) => Lifecycle!Close \/ Same
  BY <1>1, FinalizeCloses
<1>3. ConnectThrows \/ ConnectFails \/ CloseMicrotask => Lifecycle!Close \/ Same
  <2>1. ConnectThrows \/ ConnectFails \/ CloseMicrotask => Closes
    BY GuardedFinalizeCloses DEF ConnectThrows, ConnectFails, CloseMicrotask
  <2> QED
    BY <1>1, <2>1
<1>4. ConnectRefused \/ CloseRejected \/ DeliverClose \/ DeliverReadError
         => Lifecycle!Close \/ Same
  BY <1>2 DEF ConnectRefused, CloseRejected, DeliverClose, DeliverReadError, FailConnection
<1>5. Open => Lifecycle!Open
  BY DEF Open, OpenedAgrees, Lifecycle!Open
<1>6. CloseConnecting \/ CloseOpen => Lifecycle!StartClosing
  BY DEF CloseConnecting, CloseOpen, OpenedAgrees, Lifecycle!StartClosing
<1>7. ConnectGivesUp \/ ConnectStarts \/ ConnectTooLate \/ UpgradeSucceeds \/ UpgradeFails
         \/ UpgradeCancelled \/ UpgradeSettles => Same
  BY DEF ConnectGivesUp, ConnectStarts, ConnectTooLate, UpgradeSucceeds, UpgradeFails,
         UpgradeCancelled, UpgradeSettles, stateVars
<1>8. Send \/ SendIgnored \/ QueueStarts \/ SendDone \/ SendRejected \/ CloseDone
         \/ ConversionFails => Same
  BY DEF Send, SendIgnored, QueueStarts, CommandStep, SendDone, SendRejected, CloseDone,
         ConversionFails, stateVars
<1>9. CommandUnknown \/ CommandQueued \/ CommandFails \/ TaskSends \/ TaskSendFails => Same
  BY DEF CommandUnknown, CommandQueued, CommandFails, TaskSends, TaskSendFails, CommandStep,
         stateVars
<1>10. TaskReceives \/ TaskEnds("clean") \/ TaskEnds("unclean") \/ TaskReleased => Same
  BY DEF TaskReceives, TaskEnds, TaskReleased, stateVars
<1>11. ReadStarts \/ ReadFails \/ ReadEvent \/ DeliverMessage => Same
  BY DEF ReadStarts, ReadFails, ReadEvent, DeliverMessage, stateVars
<1>12. UNCHANGED vars => Same
  BY DEF vars, stateVars
<1>13. Next => Lifecycle!Next \/ Same
  BY <1>3, <1>4, <1>5, <1>6, <1>7, <1>8, <1>9, <1>10, <1>11
  DEF Next, JsStep, CallerStep, ThreadStep, PeerStep, Lifecycle!Next
<1> QED
  BY <1>12, <1>13 DEF Lifecycle!lifecycleVars

(* Whatever the connection, the calls and the failures, the socket's owner *)
(* sees a lifecycle: states only forward, `opened` settled once and in     *)
(* agreement with them, one close event.                                   *)
THEOREM LifecycleImplemented == Spec => ImplementsLifecycle
<1>1. Init => Lifecycle!Init
  BY DEF Init, Lifecycle!Init
<1>2. IInv /\ [Next]_vars => [Lifecycle!Next]_(Lifecycle!lifecycleVars)
  BY LifecycleStep
<1> QED
  BY Invariance, <1>1, <1>2, PTL DEF Spec, ImplementsLifecycle, Lifecycle!Spec
=============================================================================
