---------------------------- MODULE NativeRequest ----------------------------
(***************************************************************************)
(* One native dispatch of the HTTP client, end to end: nativeRequest in    *)
(* src/native/request.ts on the JS thread, the task that                   *)
(* rust/src/napi/request.rs spawns on the tokio runtime, REQUEST_STORE,    *)
(* BODY_STORE and UPLOAD_STORE, and the pump that streams a request body   *)
(* into the task.                                                          *)
(*                                                                         *)
(* Every element of Requests is one call.  Actions of the JS thread are    *)
(* atomic up to the next await; the native task runs in parallel, so each  *)
(* of its locked store accesses is a step of its own.                      *)
(***************************************************************************)
EXTENDS Naturals, FiniteSets

CONSTANTS
    Requests,      \* the calls of nativeRequest
    Signalled,     \* those given an AbortSignal
    Uploads        \* those whose body is streamed through an upload handle

ASSUME NativeRequestAssumption ==
    /\ Signalled \subseteq Requests
    /\ Uploads \subseteq Requests

VARIABLES
    call,             \* the promise nativeRequest returned
    aborted,          \* signal.aborted
    listening,        \* onAbort is registered on the signal
    handle,           \* task.handle; 0 before the task exists
    nextHandle,       \* NEXT_REQUEST_HANDLE
    requestStore,     \* REQUEST_STORE: a handle and the task its sender cancels
    cancelSent,       \* the calls whose oneshot channel holds the cancel
    task,             \* the spawned native task
    outcome,          \* what the task's select! produced
    body,             \* Response.body_handle of an "ok" outcome; 0 for none
    nextBody,         \* NEXT_BODY_HANDLE
    bodyStore,        \* the handles in BODY_STORE
    held,             \* a JS Response holds the body handle
    uploadStore,      \* the calls whose upload handle is in UPLOAD_STORE
    uploadCancelled,  \* the upload's `cancelled` flag
    pump              \* upload.start: the loop that feeds the upload handle

jsVars     == <<call, aborted, listening, held>>
taskVars   == <<task, outcome, cancelSent>>
handleVars == <<handle, nextHandle, requestStore>>
bodyVars   == <<body, nextBody, bodyStore>>
uploadVars == <<uploadStore, uploadCancelled, pump>>
vars       == <<jsVars, taskVars, handleVars, bodyVars, uploadVars>>

-----------------------------------------------------------------------------

Settled(r) == call[r] \in {"resolved", "rejected"}

TypeOK ==
    /\ call \in [Requests -> {"idle", "built", "pending", "resolved", "rejected"}]
    /\ aborted \in [Requests -> BOOLEAN]
    /\ listening \in [Requests -> BOOLEAN]
    /\ held \in [Requests -> BOOLEAN]
    /\ handle \in [Requests -> Nat]
    /\ nextHandle \in Nat \ {0}
    /\ requestStore \subseteq [handle : Nat, owner : Requests]
    /\ task \in [Requests -> {"none", "running", "selected", "removed", "queued", "delivered"}]
    /\ outcome \in [Requests -> {"none", "ok", "error", "cancelled"}]
    /\ cancelSent \subseteq Requests
    /\ body \in [Requests -> Nat]
    /\ nextBody \in Nat \ {0}
    /\ bodyStore \subseteq Nat
    /\ uploadStore \subseteq Uploads
    /\ uploadCancelled \in [Requests -> BOOLEAN]
    /\ pump \in [Requests -> {"none", "reading", "writing", "failed", "failing", "ended"}]

Init ==
    /\ call = [r \in Requests |-> "idle"]
    /\ aborted = [r \in Requests |-> FALSE]
    /\ listening = [r \in Requests |-> FALSE]
    /\ held = [r \in Requests |-> FALSE]
    /\ handle = [r \in Requests |-> 0]
    /\ nextHandle = 1
    /\ requestStore = {}
    /\ task = [r \in Requests |-> "none"]
    /\ outcome = [r \in Requests |-> "none"]
    /\ cancelSent = {}
    /\ body = [r \in Requests |-> 0]
    /\ nextBody = 1
    /\ bodyStore = {}
    /\ uploadStore = {}
    /\ uploadCancelled = [r \in Requests |-> FALSE]
    /\ pump = [r \in Requests |-> "none"]

-----------------------------------------------------------------------------
(* The stores. *)

(* Defect: the handle counter is read but not advanced. *)
InsertRequestReusingHandle(r) ==
    /\ handle' = [handle EXCEPT ![r] = nextHandle]
    /\ UNCHANGED nextHandle
    /\ requestStore' = {e \in requestStore : e.handle # nextHandle}
                         \cup {[handle |-> nextHandle, owner |-> r]}

(* insert_request: a fresh handle, then the sender under that handle. *)
InsertRequest(r) ==
    /\ handle' = [handle EXCEPT ![r] = nextHandle]
    /\ nextHandle' = nextHandle + 1
    /\ requestStore' = {e \in requestStore : e.handle # nextHandle}
                         \cup {[handle |-> nextHandle, owner |-> r]}

(* remove_request: what is left of REQUEST_STORE. *)
WithoutHandle(h) == {e \in requestStore : e.handle # h}

(* cancel_request: take the sender out of the store and send. *)
CancelRequest(h) ==
    /\ cancelSent' = cancelSent
         \cup {t \in Requests : [handle |-> h, owner |-> t] \in requestStore}
    /\ requestStore' = WithoutHandle(h)

(* Defect: cancel() finishes the upload but leaves the reader alone. *)
CancelUploadKeepingReader(r) ==
    /\ uploadStore' = uploadStore \ {r}
    /\ UNCHANGED uploadCancelled

(* upload.cancel: idempotent, drops the sender kept under the upload handle. *)
CancelUpload(r) ==
    /\ uploadStore' = IF uploadCancelled[r] THEN uploadStore ELSE uploadStore \ {r}
    /\ uploadCancelled' = [uploadCancelled EXCEPT ![r] = r \in Uploads]

-----------------------------------------------------------------------------
(* The JS thread. *)

(* Defect: an upload handle for every body. *)
BuildAlwaysUploading(r) ==
    /\ call[r] = "idle"
    /\ call' = [call EXCEPT ![r] = "built"]
    /\ uploadStore' = uploadStore \cup {r}
    /\ UNCHANGED <<aborted, listening, held, taskVars, handleVars, bodyVars, uploadCancelled, pump>>

(* buildNativeRequest: a streamed body gets its upload handle. *)
Build(r) ==
    /\ call[r] = "idle"
    /\ call' = [call EXCEPT ![r] = "built"]
    /\ uploadStore' = uploadStore \cup ({r} \cap Uploads)
    /\ UNCHANGED <<aborted, listening, held, taskVars, handleVars, bodyVars, uploadCancelled, pump>>

(* Defect: the early return on an aborted signal forgets the upload. *)
RejectAbortedKeepingUpload(r) ==
    /\ call[r] = "built"
    /\ aborted[r]
    /\ call' = [call EXCEPT ![r] = "rejected"]
    /\ UNCHANGED <<aborted, listening, held, taskVars, handleVars, bodyVars, uploadVars>>

(* nativeRequest on a signal that is already aborted. *)
RejectAborted(r) ==
    /\ call[r] = "built"
    /\ aborted[r]
    /\ call' = [call EXCEPT ![r] = "rejected"]
    /\ CancelUpload(r)
    /\ UNCHANGED <<aborted, listening, held, taskVars, handleVars, bodyVars, pump>>

(* buildNativeRequest fails once the upload exists, whatever the signal    *)
(* says, or the binding's request throws while it converts the options.    *)
BuildOrBindingThrows(r) ==
    /\ call[r] = "built"
    /\ call' = [call EXCEPT ![r] = "rejected"]
    /\ CancelUpload(r)
    /\ UNCHANGED <<aborted, listening, held, taskVars, handleVars, bodyVars, pump>>

(* Defect: the signal is not looked at before the dispatch. *)
DispatchIgnoringAbort(r) ==
    /\ call[r] = "built"
    /\ InsertRequest(r)
    /\ call' = [call EXCEPT ![r] = "pending"]
    /\ task' = [task EXCEPT ![r] = "running"]
    /\ listening' = [listening EXCEPT ![r] = r \in Signalled]
    /\ pump' = [pump EXCEPT ![r] = IF r \in Uploads THEN "reading" ELSE "none"]
    /\ UNCHANGED <<aborted, held, outcome, cancelSent, bodyVars, uploadStore, uploadCancelled>>

(* The binding registers the request and spawns the task; the upload pump  *)
(* starts and onAbort is registered in the same turn.                      *)
Dispatch(r) ==
    /\ call[r] = "built"
    /\ ~aborted[r]
    /\ InsertRequest(r)
    /\ call' = [call EXCEPT ![r] = "pending"]
    /\ task' = [task EXCEPT ![r] = "running"]
    /\ listening' = [listening EXCEPT ![r] = r \in Signalled]
    /\ pump' = [pump EXCEPT ![r] = IF r \in Uploads THEN "reading" ELSE "none"]
    /\ UNCHANGED <<aborted, held, outcome, cancelSent, bodyVars, uploadStore, uploadCancelled>>

(* Defect: onAbort rejects without cancelling the native request. *)
OnAbortWithoutCancel(r) ==
    /\ call' = [call EXCEPT ![r] = "rejected"]
    /\ listening' = [listening EXCEPT ![r] = FALSE]
    /\ CancelUpload(r)
    /\ UNCHANGED <<cancelSent, requestStore>>

(* The caller aborts: onAbort runs if it is registered. *)
OnAbort(r) ==
    /\ call' = [call EXCEPT ![r] = "rejected"]
    /\ listening' = [listening EXCEPT ![r] = FALSE]
    /\ CancelUpload(r)
    /\ CancelRequest(handle[r])

Abort(r) ==
    /\ r \in Signalled
    /\ ~aborted[r]
    /\ aborted' = [aborted EXCEPT ![r] = TRUE]
    /\ IF listening[r]
       THEN /\ OnAbort(r)
            /\ UNCHANGED <<held, handle, nextHandle, task, outcome, bodyVars, pump>>
       ELSE UNCHANGED <<call, listening, held, taskVars, handleVars, bodyVars, uploadVars>>

(* settle_with's callback and the reaction of nativeRequest, one turn of   *)
(* the event loop: a call that is settled already ignores the outcome.     *)
DeliverIgnored(r) ==
    /\ task[r] = "queued"
    /\ Settled(r)
    /\ task' = [task EXCEPT ![r] = "delivered"]
    /\ UNCHANGED <<jsVars, outcome, cancelSent, handleVars, bodyVars, uploadVars>>

(* Defect: an answer does not unregister onAbort. *)
DeliverTakenKeepingListener(r) ==
    /\ task[r] = "queued"
    /\ ~Settled(r)
    /\ task' = [task EXCEPT ![r] = "delivered"]
    /\ call' = [call EXCEPT ![r] = IF outcome[r] = "ok" THEN "resolved" ELSE "rejected"]
    /\ held' = [held EXCEPT ![r] = outcome[r] = "ok"]
    /\ CancelUpload(r)
    /\ UNCHANGED <<aborted, listening, outcome, cancelSent, handleVars, bodyVars, pump>>

DeliverTaken(r) ==
    /\ task[r] = "queued"
    /\ ~Settled(r)
    /\ task' = [task EXCEPT ![r] = "delivered"]
    /\ call' = [call EXCEPT ![r] = IF outcome[r] = "ok" THEN "resolved" ELSE "rejected"]
    /\ held' = [held EXCEPT ![r] = outcome[r] = "ok"]
    /\ listening' = [listening EXCEPT ![r] = FALSE]
    /\ CancelUpload(r)
    /\ UNCHANGED <<aborted, outcome, cancelSent, handleVars, bodyVars, pump>>

(* The Response reads its body to the end, cancels it or is collected. *)
ReleaseBody(r) ==
    /\ held[r]
    /\ held' = [held EXCEPT ![r] = FALSE]
    /\ bodyStore' = bodyStore \ {body[r]}
    /\ UNCHANGED <<call, aborted, listening, taskVars, handleVars, body, nextBody, uploadVars>>

-----------------------------------------------------------------------------
(* The native task. *)

(* Defect: the body handle counter is read but not advanced. *)
TaskSucceedsReusingHandle(r) ==
    /\ task[r] = "running"
    /\ task' = [task EXCEPT ![r] = "selected"]
    /\ outcome' = [outcome EXCEPT ![r] = "ok"]
    /\ body' = [body EXCEPT ![r] = nextBody]
    /\ bodyStore' = bodyStore \cup {nextBody}
    /\ UNCHANGED <<jsVars, cancelSent, handleVars, nextBody, uploadVars>>

(* make_request succeeds: store_body runs in the poll that wins select!. *)
TaskSucceeds(r) ==
    /\ task[r] = "running"
    /\ task' = [task EXCEPT ![r] = "selected"]
    /\ outcome' = [outcome EXCEPT ![r] = "ok"]
    /\ body' = [body EXCEPT ![r] = nextBody]
    /\ bodyStore' = bodyStore \cup {nextBody}
    /\ nextBody' = nextBody + 1
    /\ UNCHANGED <<jsVars, cancelSent, handleVars, uploadVars>>

TaskFails(r) ==
    /\ task[r] = "running"
    /\ task' = [task EXCEPT ![r] = "selected"]
    /\ outcome' = [outcome EXCEPT ![r] = "error"]
    /\ UNCHANGED <<jsVars, cancelSent, handleVars, bodyVars, uploadVars>>

(* select! takes the cancel branch and drops make_request with what it owns. *)
TaskCancelled(r) ==
    /\ task[r] = "running"
    /\ r \in cancelSent
    /\ task' = [task EXCEPT ![r] = "selected"]
    /\ outcome' = [outcome EXCEPT ![r] = "cancelled"]
    /\ UNCHANGED <<jsVars, cancelSent, handleVars, bodyVars, uploadVars>>

TaskRemovesRequest(r) ==
    /\ task[r] = "selected"
    /\ task' = [task EXCEPT ![r] = "removed"]
    /\ requestStore' = WithoutHandle(handle[r])
    /\ UNCHANGED <<jsVars, outcome, cancelSent, handle, nextHandle, bodyVars, uploadVars>>

(* deferred.settle_with queues the callback on the JS thread. *)
TaskSettles(r) ==
    /\ task[r] = "removed"
    /\ task' = [task EXCEPT ![r] = "queued"]
    /\ UNCHANGED <<jsVars, outcome, cancelSent, handleVars, bodyVars, uploadVars>>

-----------------------------------------------------------------------------
(* The upload pump. *)

PumpStep(r, from, to) ==
    /\ pump[r] = from
    /\ pump' = [pump EXCEPT ![r] = to]
    /\ UNCHANGED <<jsVars, taskVars, handleVars, bodyVars>>

(* reader.read produced a chunk; writeUploadChunk needs the sender. *)
PumpChunk(r) ==
    /\ PumpStep(r, "reading", IF r \in uploadStore THEN "writing" ELSE "failed")
    /\ UNCHANGED <<uploadStore, uploadCancelled>>

(* The source ended, or cancel() closed the reader. *)
PumpDone(r) ==
    /\ PumpStep(r, "reading", "ended")
    /\ uploadStore' = uploadStore \ {r}
    /\ UNCHANGED uploadCancelled

(* The source threw. *)
PumpSourceError(r) ==
    /\ PumpStep(r, "reading", "failed")
    /\ UNCHANGED <<uploadStore, uploadCancelled>>

(* The chunk is in the channel; the loop looks at cancelled and the signal. *)
PumpWritten(r) ==
    /\ PumpStep(r, "writing", IF uploadCancelled[r] \/ aborted[r] THEN "ended" ELSE "reading")
    /\ IF uploadCancelled[r] \/ aborted[r]
       THEN CancelUpload(r)
       ELSE UNCHANGED <<uploadStore, uploadCancelled>>

(* The receiver is gone, because the HTTP library dropped the body or the  *)
(* task ended: the native write removes the entry and rejects.             *)
PumpClosed(r) ==
    /\ PumpStep(r, "writing", "failed")
    /\ uploadStore' = uploadStore \ {r}
    /\ UNCHANGED uploadCancelled

(* The catch block: nothing when cancelled, otherwise failUpload, which    *)
(* throws when the entry is gone.                                          *)
PumpCatch(r) ==
    /\ PumpStep(r, "failed",
                IF ~uploadCancelled[r] /\ r \in uploadStore THEN "failing" ELSE "ended")
    /\ UNCHANGED <<uploadStore, uploadCancelled>>

(* fail_upload: the error is sent, or the receiver is gone; finish_upload. *)
PumpFails(r) ==
    /\ PumpStep(r, "failing", "ended")
    /\ uploadStore' = uploadStore \ {r}
    /\ UNCHANGED uploadCancelled

-----------------------------------------------------------------------------

JsStep(r) ==
    \/ Build(r)
    \/ RejectAborted(r)
    \/ BuildOrBindingThrows(r)
    \/ Dispatch(r)
    \/ Abort(r)
    \/ DeliverIgnored(r)
    \/ DeliverTaken(r)
    \/ ReleaseBody(r)

TaskStep(r) ==
    \/ TaskSucceeds(r)
    \/ TaskFails(r)
    \/ TaskCancelled(r)
    \/ TaskRemovesRequest(r)
    \/ TaskSettles(r)

UploadStep(r) ==
    \/ PumpChunk(r)
    \/ PumpDone(r)
    \/ PumpSourceError(r)
    \/ PumpWritten(r)
    \/ PumpClosed(r)
    \/ PumpCatch(r)
    \/ PumpFails(r)

Next == \E r \in Requests : JsStep(r) \/ TaskStep(r) \/ UploadStep(r)

Spec == Init /\ [][Next]_vars

(***************************************************************************)
(* Fairness.  The runtime polls a task that was woken (a cancel wakes it), *)
(* runs the rest of the task, and the event loop runs queued callbacks and *)
(* resumes the pump.  Nothing makes the network answer, so TaskSucceeds    *)
(* and TaskFails are not fair; nothing makes a source produce a chunk, but *)
(* a cancelled reader reports its end.  A write whose receiver was dropped *)
(* with a failed or cancelled make_request is rejected.                    *)
(***************************************************************************)
Fairness ==
    \A r \in Requests :
        /\ WF_vars(TaskCancelled(r))
        /\ WF_vars(TaskRemovesRequest(r))
        /\ WF_vars(TaskSettles(r))
        /\ WF_vars(DeliverIgnored(r) \/ DeliverTaken(r))
        /\ WF_vars(uploadCancelled[r] /\ PumpDone(r))
        /\ WF_vars(outcome[r] \in {"error", "cancelled"} /\ PumpClosed(r))
        /\ WF_vars(PumpCatch(r))
        /\ WF_vars(outcome[r] \in {"error", "cancelled"} /\ PumpFails(r))

FairSpec == Spec /\ Fairness

-----------------------------------------------------------------------------
(* Properties. *)

(* REQUEST_STORE holds a handle only for a pending call whose task has not *)
(* passed remove_request, and under that call's own handle: an abort, an   *)
(* answer and a failure each take the entry out, whichever comes first.    *)
StoreHoldsLiveTasks ==
    \A e \in requestStore :
        /\ handle[e.owner] = e.handle
        /\ call[e.owner] = "pending"
        /\ task[e.owner] \in {"running", "selected"}

(* cancelRequest reaches the task of the call that was aborted and no other *)
(* one: handles are never reused while an old one can still be cancelled.   *)
CancelReachesOwnTask ==
    \A r \in Requests :
        r \in cancelSent \/ outcome[r] = "cancelled" => r \in Signalled /\ aborted[r]

(* The abort listener never outlives its call, so a signal shared by many  *)
(* calls does not collect listeners.                                       *)
ListenerOnlyWhilePending ==
    \A r \in Requests : listening[r] => call[r] = "pending" /\ ~aborted[r]

(* However a call settles and however the pump stops, the upload handle    *)
(* has left UPLOAD_STORE: the native side sees the end of the body.        *)
UploadReleased ==
    \A r \in Requests :
        Settled(r) \/ pump[r] = "ended" => r \notin uploadStore

(* A Response the caller holds has its body in BODY_STORE, under a handle  *)
(* no other response was given.                                            *)
ResponseOwnsBody ==
    \A r \in Requests :
        held[r] => /\ body[r] \in bodyStore
                   /\ \A q \in Requests : body[q] = body[r] => q = r

(* Once the signal is aborted a call that has not resolved never resolves, *)
(* whatever the native task does later.                                    *)
AbortIsFinal ==
    [][\A r \in Requests :
          aborted[r] /\ call[r] # "resolved" => call'[r] # "resolved"]_vars

(* An abort stops the native task: it is cancelled or ends on its own, its *)
(* REQUEST_STORE entry goes and its callback runs.                         *)
AbortStopsTask ==
    \A r \in Requests :
        (aborted[r] /\ task[r] = "running") ~> (task[r] = "delivered")

(* An abort stops the upload too: the pump of an aborted pending call ends *)
(* unless the answer had won already.                                      *)
AbortStopsUpload ==
    \A r \in Requests :
        (aborted[r] /\ task[r] = "running") ~> (pump[r] \in {"none", "ended"} \/ outcome[r] = "ok")

(* Every body in BODY_STORE has someone who will release it: the task that *)
(* is still bringing it to the JS thread, or the Response that holds it.   *)
EveryBodyHasAnOwner ==
    \A b \in bodyStore :
        \E r \in Requests :
            /\ body[r] = b
            /\ held[r] \/ task[r] \in {"selected", "removed", "queued"}
=============================================================================
