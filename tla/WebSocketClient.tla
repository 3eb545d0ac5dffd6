--------------------------- MODULE WebSocketClient ---------------------------
(***************************************************************************)
(* One WebSocket: the class in src/websocket/index.ts on the JS thread,    *)
(* the threads rust/src/napi/websocket.rs spawns for a connect, a read and *)
(* a send or close, the entries of WEBSOCKET_CONNECT_STORE and             *)
(* WEBSOCKET_STORE, and the task of rust/src/transport/websocket.rs that   *)
(* owns the connection.                                                    *)
(*                                                                         *)
(* #settled is TRUE exactly when readyState is CLOSED: #finalizeClose sets *)
(* both.  An entry of #sendQueue is the number of a message, or Close.     *)
(***************************************************************************)
EXTENDS Naturals, Sequences, FiniteSets

CONSTANTS
    MaxSends,      \* calls of send()
    MaxMessages    \* messages of the peer

ASSUME WebSocketAssumption == MaxSends \in Nat /\ MaxMessages \in Nat

Close == 0         \* the entry of #sendQueue made by #enqueueClose

VARIABLES
    readyState,
    opened,          \* the promise `opened`
    closeEvents,     \* close events dispatched
    closeReport,     \* wasClean of the close event
    handle,          \* #handle is defined
    connect,         \* the await #connect is suspended at
    connectHandle,   \* #connectHandle is defined
    closeTask,       \* the microtask of close() while connecting is queued
    closeEnqueued,
    queue,           \* #sendQueue: the entries not settled yet
    sent,            \* messages put into #sendQueue
    discarded,       \* messages given to send() when the socket is not open
    unconverted,     \* history: messages that normalizeSendData has rejected
    bufferedAmount,  \* in messages, each counted as one byte
    command,         \* the native call for the head of the queue
    read,            \* the native read of #pumpMessages
    upgrade,         \* the connect thread
    connectStored,   \* the entry of WEBSOCKET_CONNECT_STORE
    cancelSent,      \* the connect thread's oneshot channel holds the cancel
    stored,          \* the entry of WEBSOCKET_STORE
    task,            \* run_websocket_task
    events,          \* its events channel
    received,        \* messages the peer has sent
    peerClosed,      \* the task has read the peer's close frame
    wire             \* what the task has sent

stateVars   == <<readyState, opened, closeEvents, closeReport, handle>>
connectVars == <<connect, connectHandle, closeTask>>
queueVars   == <<queue, sent, discarded, unconverted, bufferedAmount, closeEnqueued, command>>
nativeConnectVars == <<upgrade, connectStored, cancelSent>>
taskVars    == <<task, events, received, peerClosed, wire>>
vars        == <<stateVars, connectVars, queueVars, read, nativeConnectVars, stored, taskVars>>

TypeOK ==
    /\ readyState \in {"connecting", "open", "closing", "closed"}
    /\ opened \in {"pending", "resolved", "rejected"}
    /\ closeEvents \in Nat
    /\ closeReport \in {"none", "clean", "unclean"}
    /\ connect \in {"cookies", "native", "done"}
    /\ handle \in BOOLEAN /\ connectHandle \in BOOLEAN
    /\ closeTask \in BOOLEAN /\ closeEnqueued \in BOOLEAN
    /\ queue \in Seq(0..MaxSends)
    /\ sent \in 0..MaxSends /\ discarded \in 0..MaxSends
    /\ unconverted \subseteq 1..MaxSends
    /\ bufferedAmount \in Nat
    /\ command \in {"none", "started", "queued", "nacked", "ok", "failed"}
    /\ queue = <<>> => command = "none"
    /\ read \in {"none", "started", "waiting", "text", "clean", "unclean", "error"}
    /\ upgrade \in {"none", "running", "finished", "settled", "delivered"}
    /\ connectStored \in BOOLEAN /\ cancelSent \in BOOLEAN /\ stored \in BOOLEAN
    /\ task \in {"none", "running", "ended"}
    /\ events \in Seq({"text", "clean", "unclean"})
    /\ received \in 0..MaxMessages
    /\ peerClosed \in BOOLEAN
    /\ wire \in Seq(0..MaxSends)

Init ==
    /\ readyState = "connecting"
    /\ opened = "pending"
    /\ closeEvents = 0
    /\ closeReport = "none"
    /\ handle = FALSE
    /\ connect = "cookies"
    /\ connectHandle = FALSE
    /\ closeTask = FALSE
    /\ closeEnqueued = FALSE
    /\ queue = <<>>
    /\ sent = 0 /\ discarded = 0 /\ unconverted = {} /\ bufferedAmount = 0
    /\ command = "none"
    /\ read = "none"
    /\ upgrade = "none"
    /\ connectStored = FALSE /\ cancelSent = FALSE
    /\ stored = FALSE
    /\ task = "none"
    /\ events = <<>>
    /\ received = 0
    /\ peerClosed = FALSE
    /\ wire = <<>>

-----------------------------------------------------------------------------
(* The private methods of the class. *)

Settled == readyState = "closed"

(* #finalizeClose *)
FinalizeClose(report) ==
    /\ readyState' = "closed"
    /\ opened' = IF opened = "pending" THEN "rejected" ELSE opened
    /\ handle' = FALSE
    /\ IF Settled
       THEN UNCHANGED <<closeEvents, closeReport>>
       ELSE closeEvents' = closeEvents + 1 /\ closeReport' = report

(* #handleError, #handle = undefined and #finalizeClose with 1006. *)
FailConnection == FinalizeClose("unclean")

(* Defect: the close entry jumps the queue. *)
EnqueueCloseFirst ==
    /\ closeEnqueued' = TRUE
    /\ queue' = IF closeEnqueued THEN queue ELSE <<Close>> \o queue

(* #enqueueClose: once. *)
EnqueueClose ==
    /\ closeEnqueued' = TRUE
    /\ queue' = IF closeEnqueued THEN queue ELSE Append(queue, Close)

-----------------------------------------------------------------------------
(* Connecting. *)

(* #connect has its cookies and finds the socket closed, or starts the     *)
(* native connect.                                                         *)
ConnectGivesUp ==
    /\ connect = "cookies"
    /\ readyState # "connecting"
    /\ connect' = "done"
    /\ UNCHANGED <<stateVars, connectHandle, closeTask, queueVars, read, nativeConnectVars, stored,
                   taskVars>>

ConnectStarts ==
    /\ connect = "cookies"
    /\ readyState = "connecting"
    /\ connect' = "native"
    /\ connectHandle' = TRUE
    /\ upgrade' = "running"
    /\ connectStored' = TRUE
    /\ UNCHANGED <<stateVars, closeTask, queueVars, read, cancelSent, stored, taskVars>>

(* The cookie jar or an option throws: the catch block. *)
ConnectThrows ==
    /\ connect = "cookies"
    /\ connect' = "done"
    /\ IF Settled THEN UNCHANGED stateVars ELSE FailConnection
    /\ UNCHANGED <<connectHandle, closeTask, queueVars, read, nativeConnectVars, stored, taskVars>>

(* make_websocket: the task is spawned and the handle stored. *)
UpgradeSucceeds ==
    /\ upgrade = "running"
    /\ upgrade' = "finished"
    /\ task' = "running"
    /\ stored' = TRUE
    /\ UNCHANGED <<stateVars, connectVars, queueVars, read, connectStored, cancelSent, events,
                   received, peerClosed, wire>>

UpgradeFails ==
    /\ upgrade = "running"
    /\ upgrade' = "finished"
    /\ UNCHANGED <<stateVars, connectVars, queueVars, read, connectStored, cancelSent, stored,
                   taskVars>>

UpgradeCancelled == cancelSent /\ UpgradeFails

(* remove_websocket_connect, then settle_with. *)
UpgradeSettles ==
    /\ upgrade = "finished"
    /\ upgrade' = "settled"
    /\ connectStored' = FALSE
    /\ UNCHANGED <<stateVars, connectVars, queueVars, read, cancelSent, stored, taskVars>>

Delivered ==
    /\ connect = "native"
    /\ upgrade = "settled"
    /\ connect' = "done"
    /\ connectHandle' = FALSE
    /\ upgrade' = "delivered"
    /\ UNCHANGED <<closeTask, queueVars, connectStored, cancelSent, taskVars>>

ConnectFails ==
    /\ Delivered
    /\ task = "none"
    /\ IF Settled THEN UNCHANGED stateVars ELSE FailConnection
    /\ UNCHANGED <<read, stored>>

(* Defect: the connection that came too late is forgotten. *)
ConnectTooLateKeepingSocket ==
    /\ Delivered
    /\ task # "none"
    /\ readyState # "connecting"
    /\ UNCHANGED <<stateVars, read, stored>>

(* Closed in the meantime: nativeWebSocketTerminate. *)
ConnectTooLate ==
    /\ Delivered
    /\ task # "none"
    /\ readyState # "connecting"
    /\ stored' = FALSE
    /\ UNCHANGED <<stateVars, read>>

(* A subprotocol nobody asked for: the catch block terminates the socket. *)
ConnectRefused ==
    /\ Delivered
    /\ task # "none"
    /\ readyState = "connecting"
    /\ stored' = FALSE
    /\ FailConnection
    /\ UNCHANGED read

Open ==
    /\ Delivered
    /\ task # "none"
    /\ readyState = "connecting"
    /\ readyState' = "open"
    /\ opened' = IF opened = "pending" THEN "resolved" ELSE opened
    /\ handle' = TRUE
    /\ read' = "started"
    /\ UNCHANGED <<closeEvents, closeReport, stored>>

-----------------------------------------------------------------------------
(* The caller. *)

(* Defect: the native connect is not cancelled. *)
CloseConnectingWithoutCancel ==
    /\ readyState = "connecting"
    /\ readyState' = "closing"
    /\ opened' = "rejected"
    /\ closeTask' = TRUE
    /\ connectHandle' = FALSE
    /\ UNCHANGED <<closeEvents, closeReport, handle, connect, queueVars, read, nativeConnectVars,
                   stored, taskVars>>

(* close() while connecting; the cancel only works while the entry is there. *)
CloseConnecting ==
    /\ readyState = "connecting"
    /\ readyState' = "closing"
    /\ opened' = "rejected"
    /\ closeTask' = TRUE
    /\ connectHandle' = FALSE
    /\ cancelSent' = (connectHandle /\ connectStored)
    /\ connectStored' = (connectStored /\ ~connectHandle)
    /\ UNCHANGED <<closeEvents, closeReport, handle, connect, queueVars, read, upgrade, stored,
                   taskVars>>

(* Defect: the microtask does not look at #settled. *)
CloseMicrotaskAlways ==
    /\ closeTask
    /\ closeTask' = FALSE
    /\ readyState' = "closed"
    /\ closeEvents' = closeEvents + 1
    /\ closeReport' = "unclean"
    /\ UNCHANGED <<opened, handle, connect, connectHandle, queueVars, read, nativeConnectVars,
                   stored, taskVars>>

CloseMicrotask ==
    /\ closeTask
    /\ closeTask' = FALSE
    /\ IF Settled THEN UNCHANGED stateVars ELSE FailConnection
    /\ UNCHANGED <<connect, connectHandle, queueVars, read, nativeConnectVars, stored, taskVars>>

CloseOpen ==
    /\ readyState = "open"
    /\ readyState' = "closing"
    /\ EnqueueClose
    /\ UNCHANGED <<opened, closeEvents, closeReport, handle, connectVars, sent, discarded,
                   unconverted, bufferedAmount, command, read, nativeConnectVars, stored,
                   taskVars>>

Send ==
    /\ readyState = "open"
    /\ sent + discarded < MaxSends
    /\ sent' = sent + 1
    /\ queue' = Append(queue, sent')
    /\ bufferedAmount' = bufferedAmount + 1
    /\ UNCHANGED <<stateVars, connectVars, discarded, unconverted, closeEnqueued, command, read,
                   nativeConnectVars, stored, taskVars>>

(* On a socket that is closing or closed, send() only counts the bytes. *)
SendIgnored ==
    /\ readyState \in {"closing", "closed"}
    /\ sent + discarded < MaxSends
    /\ discarded' = discarded + 1
    /\ bufferedAmount' = bufferedAmount + 1
    /\ UNCHANGED <<stateVars, connectVars, queue, sent, unconverted, closeEnqueued, command, read,
                   nativeConnectVars, stored, taskVars>>

-----------------------------------------------------------------------------
(* #sendQueue and the thread of its head. *)

CommandStep(from, to) ==
    /\ command = from
    /\ command' = to
    /\ UNCHANGED <<stateVars, connectVars, queue, sent, discarded, unconverted, bufferedAmount,
                   closeEnqueued, read, nativeConnectVars>>

(* The data of a message is converted, and the native call made. *)
QueueStarts ==
    /\ queue # <<>>
    /\ CommandStep("none", "started")
    /\ UNCHANGED <<stored, taskVars>>

(* send_websocket_command: an unknown handle, *)
CommandUnknown ==
    /\ ~stored
    /\ CommandStep("started", "failed")
    /\ UNCHANGED <<stored, taskVars>>

(* a command in the channel of a running task, *)
CommandQueued ==
    /\ stored
    /\ task = "running"
    /\ CommandStep("started", "queued")
    /\ UNCHANGED <<stored, taskVars>>

(* or a receiver that is gone, before or after the command went in, and a  *)
(* negative acknowledgement: the handle is removed.                        *)
CommandFails ==
    /\ \/ stored /\ task = "ended" /\ CommandStep("started", "failed")
       \/ task = "ended" /\ CommandStep("queued", "failed")
       \/ CommandStep("nacked", "failed")
    /\ stored' = FALSE
    /\ UNCHANGED taskVars

(* Defect: the result of a call is taken for that of the next one. *)
HeadDoneKeepingResult ==
    /\ queue' = Tail(queue)
    /\ UNCHANGED <<command, connectVars, sent, discarded, closeEnqueued, read, nativeConnectVars,
                   stored, taskVars>>

HeadDone ==
    /\ queue' = Tail(queue)
    /\ command' = "none"
    /\ UNCHANGED <<connectVars, sent, discarded, closeEnqueued, read, nativeConnectVars, stored,
                   taskVars>>

(* Defect: the bytes of a failed message stay counted. *)
SendRejectedKeepingBytes ==
    /\ command = "failed"
    /\ Head(queue) # Close
    /\ HeadDone
    /\ UNCHANGED <<stateVars, bufferedAmount, unconverted>>

(* The rejection of a message reports the error; the socket stays open     *)
(* until its read ends.                                                    *)
SendRejected ==
    /\ command = "failed"
    /\ Head(queue) # Close
    /\ HeadDone
    /\ bufferedAmount' = bufferedAmount - 1
    /\ UNCHANGED <<stateVars, unconverted>>

SendDone ==
    /\ command = "ok"
    /\ Head(queue) # Close
    /\ HeadDone
    /\ bufferedAmount' = bufferedAmount - 1
    /\ UNCHANGED <<stateVars, unconverted>>

CloseDone ==
    /\ command = "ok"
    /\ Head(queue) = Close
    /\ HeadDone
    /\ UNCHANGED <<stateVars, bufferedAmount, unconverted>>

CloseRejected ==
    /\ command = "failed"
    /\ Head(queue) = Close
    /\ HeadDone
    /\ FailConnection
    /\ UNCHANGED <<bufferedAmount, unconverted>>

(* normalizeSendData rejects: arrayBuffer() of a Blob has failed.  No      *)
(* command is sent; the catch block reports the error and the connection   *)
(* goes on with the next entry.                                            *)
ConversionFails ==
    /\ queue # <<>>
    /\ command = "none"
    /\ Head(queue) # Close
    /\ HeadDone
    /\ unconverted' = unconverted \cup {Head(queue)}
    /\ bufferedAmount' = bufferedAmount - 1
    /\ UNCHANGED stateVars

-----------------------------------------------------------------------------
(* The task that owns the connection. *)

(* The Arc of the store entry is held by the store and by the threads that *)
(* looked it up; it keeps both channels open.                              *)
SocketHeld == stored \/ read = "waiting" \/ command \in {"queued", "nacked"}

TaskSends ==
    /\ task = "running"
    /\ CommandStep("queued", "ok")
    /\ wire' = Append(wire, Head(queue))
    /\ UNCHANGED <<stored, task, events, received, peerClosed>>

TaskSendFails ==
    /\ task = "running"
    /\ CommandStep("queued", "nacked")
    /\ task' = "ended"
    /\ events' = Append(events, "unclean")
    /\ UNCHANGED <<stored, received, peerClosed, wire>>

TaskReceives ==
    /\ task = "running"
    /\ received < MaxMessages
    /\ received' = received + 1
    /\ IF SocketHeld
       THEN events' = Append(events, "text") /\ UNCHANGED task
       ELSE task' = "ended" /\ UNCHANGED events
    /\ UNCHANGED <<stateVars, connectVars, queueVars, read, nativeConnectVars, stored, peerClosed,
                   wire>>

(* The peer's close frame, or the end of the connection without one. *)
TaskEnds(report) ==
    /\ task = "running"
    /\ task' = "ended"
    /\ events' = Append(events, report)
    /\ peerClosed' = (report = "clean")
    /\ UNCHANGED <<stateVars, connectVars, queueVars, read, nativeConnectVars, stored, received,
                   wire>>

(* All senders of the command channel are gone. *)
TaskReleased ==
    /\ task = "running"
    /\ ~SocketHeld
    /\ task' = "ended"
    /\ UNCHANGED <<stateVars, connectVars, queueVars, read, nativeConnectVars, stored, events,
                   received, peerClosed, wire>>

-----------------------------------------------------------------------------
(* #pumpMessages and the thread of its read. *)

ReadStep(from, to) ==
    /\ read = from
    /\ read' = to
    /\ UNCHANGED <<connectVars, sent, discarded, unconverted, bufferedAmount, command,
                   nativeConnectVars, task, received, peerClosed, wire>>

ReadStarts ==
    /\ stored
    /\ ReadStep("started", "waiting")
    /\ UNCHANGED <<stateVars, queue, closeEnqueued, stored, events>>

(* An unknown handle, or an event channel whose task is gone. *)
NothingToRead ==
    \/ read = "started" /\ ~stored
    \/ read = "waiting" /\ events = <<>> /\ task = "ended"

ReadFails ==
    /\ NothingToRead
    /\ ReadStep(read, "error")
    /\ stored' = FALSE
    /\ UNCHANGED <<stateVars, queue, closeEnqueued, events>>

ReadEvent ==
    /\ events # <<>>
    /\ ReadStep("waiting", Head(events))
    /\ events' = Tail(events)
    /\ stored' = (stored /\ Head(events) = "text")
    /\ UNCHANGED <<stateVars, queue, closeEnqueued>>

(* The message event, then the next read unless the socket has closed. *)
DeliverMessage ==
    /\ ReadStep("text", IF ~Settled /\ handle THEN "started" ELSE "none")
    /\ UNCHANGED <<stateVars, queue, closeEnqueued, stored, events>>

DeliverClose ==
    /\ read \in {"clean", "unclean"}
    /\ ReadStep(read, "none")
    /\ FinalizeClose(read)
    /\ UNCHANGED <<queue, closeEnqueued, stored, events>>

(* Defect: the catch block reports the error and leaves the socket open. *)
DeliverReadErrorStayingOpen ==
    /\ ReadStep("error", "none")
    /\ UNCHANGED <<stateVars, queue, closeEnqueued, stored, events>>

(* The catch block; a listener of the error event may call close() while   *)
(* the socket is still open.                                               *)
DeliverReadError ==
    /\ ReadStep("error", "none")
    /\ \/ UNCHANGED <<queue, closeEnqueued>>
       \/ readyState = "open" /\ EnqueueClose
    /\ FailConnection
    /\ UNCHANGED <<stored, events>>

-----------------------------------------------------------------------------

JsStep ==
    \/ ConnectGivesUp \/ ConnectStarts \/ ConnectThrows
    \/ ConnectFails \/ ConnectTooLate \/ ConnectRefused \/ Open
    \/ CloseMicrotask
    \/ QueueStarts \/ ConversionFails
    \/ SendDone \/ SendRejected \/ CloseDone \/ CloseRejected
    \/ DeliverMessage \/ DeliverClose \/ DeliverReadError

CallerStep == CloseConnecting \/ CloseOpen \/ Send \/ SendIgnored

ThreadStep ==
    \/ UpgradeSettles
    \/ CommandUnknown \/ CommandQueued \/ CommandFails
    \/ ReadStarts \/ ReadFails \/ ReadEvent

PeerStep ==
    \/ UpgradeSucceeds \/ UpgradeFails
    \/ TaskSends \/ TaskSendFails
    \/ TaskReceives
    \/ TaskEnds("clean") \/ TaskEnds("unclean")

Next == JsStep \/ CallerStep \/ ThreadStep \/ PeerStep \/ UpgradeCancelled \/ TaskReleased

Spec == Init /\ [][Next]_vars

(***************************************************************************)
(* Fairness: the event loop runs queued callbacks and microtasks, the OS   *)
(* runs the native threads, and the runtime polls a task or a connect that *)
(* was released or cancelled, and reading a Blob ends.  Nothing makes the  *)
(* peer answer a connect, a close frame or a send, and nothing makes the   *)
(* caller call.                                                            *)
(***************************************************************************)
Fairness ==
    /\ WF_vars(CloseMicrotask)
    /\ WF_vars(ConnectFails \/ ConnectTooLate \/ ConnectRefused \/ Open)
    /\ WF_vars(QueueStarts \/ ConversionFails
                  \/ SendDone \/ SendRejected \/ CloseDone \/ CloseRejected)
    /\ WF_vars(DeliverMessage \/ DeliverClose \/ DeliverReadError)
    /\ WF_vars(UpgradeSettles)
    /\ WF_vars(UpgradeCancelled)
    /\ WF_vars(CommandUnknown \/ CommandQueued \/ CommandFails)
    /\ WF_vars(ReadStarts \/ ReadFails \/ ReadEvent)
    /\ WF_vars(TaskReleased)

FairSpec == Spec /\ Fairness

-----------------------------------------------------------------------------
(* Properties. *)

(* What has become of a message that is not in the queue any more. *)
SentOrReported(m) == (\E i \in DOMAIN wire : wire[i] = m) \/ m \in unconverted

(* Messages go out in the order of send(), each once, and nothing follows  *)
(* the close frame.  Before a later message or the close frame no message  *)
(* is left out, unless its data could not be converted: a send that failed *)
(* otherwise ends what goes out.                                           *)
WireInOrder ==
    /\ \A i, j \in DOMAIN wire :
          i < j => wire[i] # Close /\ (wire[j] = Close \/ wire[i] < wire[j])
    /\ \A i \in DOMAIN wire, m \in 1..sent :
          wire[i] = Close \/ m < wire[i] => SentOrReported(m)

(* Once the socket is closed and its connect is over, the native side has  *)
(* forgotten it: no handle is left in either store, whoever failed first.  *)
HandlesReleased ==
    Settled /\ connect = "done" => ~stored /\ ~connectStored

(* bufferedAmount is the messages in #sendQueue and those that never will  *)
(* be sent, whether the sends succeed, fail or are overtaken by a close.   *)
BufferedMatchesQueue ==
    bufferedAmount = discarded + Cardinality({i \in DOMAIN queue : queue[i] # Close})

(* The socket behaves as its owner may expect: SocketLifecycle. *)
Lifecycle == INSTANCE SocketLifecycle
    WITH readyState <- readyState, opened <- opened, closeEvents <- closeEvents

ImplementsLifecycle == Lifecycle!Spec

(* When the connection is gone the socket closes, whatever is queued and   *)
(* whatever the caller does.                                               *)
LostConnectionCloses == (task = "ended") ~> Settled

(* A closed socket has no connection left behind it. *)
ClosedSocketDisconnects == Settled ~> (task # "running" /\ upgrade # "running")

(* The close event's promise in src/websocket/close-event.ts: wasClean     *)
(* says whether the close handshake completed cleanly.                     *)
CleanCloseReported ==
    opened = "resolved" /\ peerClosed /\ Settled => closeReport = "clean"
=============================================================================
