------------------------ MODULE NativeRequest_proofs ------------------------
(***************************************************************************)
(* Proofs about NativeRequest for any set of calls.  The invariants of the *)
(* runs are not inductive one by one; IInv is the strengthening that is.   *)
(***************************************************************************)
EXTENDS NativeRequest, TLAPS

(* A call has a task exactly from its dispatch on, and onAbort stays       *)
(* registered on the signal of a call for as long as the call is pending.  *)
Progress ==
    \A r \in Requests :
        /\ aborted[r] => r \in Signalled
        /\ call[r] \in {"idle", "built"} => task[r] = "none" /\ ~listening[r]
        /\ call[r] = "pending" => /\ handle[r] # 0
                                  /\ r \in Signalled => listening[r]
        /\ listening[r] => call[r] = "pending" /\ ~aborted[r]

(* Handles come from a counter, so no two calls share one. *)
HandlesUnique ==
    /\ \A r \in Requests : handle[r] < nextHandle
    /\ \A r, q \in Requests : handle[r] = handle[q] /\ handle[r] # 0 => r = q

(* The upload's flag tells that its entry is gone. *)
UploadInv ==
    \A r \in Requests :
        /\ uploadCancelled[r] => r \notin uploadStore
        /\ call[r] \in {"idle", "built"} => pump[r] = "none"
        /\ call[r] = "idle" => ~uploadCancelled[r]
        /\ Settled(r) \/ pump[r] = "ended" => r \notin uploadStore

(* A stored body belongs to one task, and stays until its Response, which  *)
(* exists only after the delivery, lets go of it.                          *)
BodyInv ==
    /\ \A r \in Requests : body[r] < nextBody
    /\ \A r, q \in Requests : body[r] = body[q] /\ body[r] # 0 => r = q
    /\ \A r \in Requests :
          /\ held[r] => task[r] = "delivered" /\ body[r] # 0 /\ body[r] \in bodyStore
          /\ task[r] \in {"selected", "removed", "queued"} /\ outcome[r] = "ok"
                => body[r] # 0 /\ body[r] \in bodyStore

IInv ==
    /\ TypeOK
    /\ Progress
    /\ HandlesUnique
    /\ StoreHoldsLiveTasks
    /\ CancelReachesOwnTask
    /\ UploadInv
    /\ BodyInv

-----------------------------------------------------------------------------

(* The upload's cancel keeps the types of what it writes. *)
LEMMA CancelUploadType ==
    ASSUME TypeOK, NEW r \in Requests, CancelUpload(r)
    PROVE  /\ uploadStore' \subseteq Uploads
           /\ uploadCancelled' \in [Requests -> BOOLEAN]
<1>1. uploadStore' \subseteq Uploads
  BY DEF TypeOK, CancelUpload
<1>2. (r \in Uploads) \in BOOLEAN
  OBVIOUS
<1>3. uploadCancelled' \in [Requests -> BOOLEAN]
  BY <1>2 DEF TypeOK, CancelUpload
<1> QED
  BY <1>1, <1>3

(* Every step keeps the types. *)
LEMMA TypeStep ==
    ASSUME TypeOK,
           [Next]_vars
    PROVE  TypeOK'
<1> USE NativeRequestAssumption DEF TypeOK,
           jsVars, taskVars, handleVars, bodyVars, uploadVars
<1>1. ASSUME NEW r \in Requests, Build(r) PROVE TypeOK'
  BY <1>1 DEF Build
<1>2. ASSUME NEW r \in Requests, RejectAborted(r) PROVE TypeOK'
  BY <1>2 DEF RejectAborted, CancelUpload
<1>3. ASSUME NEW r \in Requests, BuildOrBindingThrows(r) PROVE TypeOK'
  BY <1>3 DEF BuildOrBindingThrows, CancelUpload
<1>4. ASSUME NEW r \in Requests, Dispatch(r) PROVE TypeOK'
  BY <1>4 DEF Dispatch, InsertRequest
<1>5. ASSUME NEW r \in Requests, Abort(r) PROVE TypeOK'
  <2>1. CASE listening[r]
    <3>1. /\ uploadStore' \subseteq Uploads
          /\ uploadCancelled' \in [Requests -> BOOLEAN]
      BY <1>5, <2>1, CancelUploadType DEF Abort, OnAbort
    <3>2. requestStore' \subseteq [handle : Nat, owner : Requests]
      BY <1>5, <2>1 DEF Abort, OnAbort, CancelRequest, WithoutHandle
    <3>3. cancelSent' \subseteq Requests
      BY <1>5, <2>1 DEF Abort, OnAbort, CancelRequest
    <3> QED
      BY <1>5, <2>1, <3>1, <3>2, <3>3 DEF Abort, OnAbort
  <2>2. CASE ~listening[r]
    BY <1>5, <2>2 DEF Abort
  <2> QED
    BY <2>1, <2>2
<1>6. ASSUME NEW r \in Requests, DeliverIgnored(r) PROVE TypeOK'
  BY <1>6 DEF DeliverIgnored, Settled
<1>7. ASSUME NEW r \in Requests, DeliverTaken(r) PROVE TypeOK'
  BY <1>7 DEF DeliverTaken, CancelUpload, Settled
<1>8. ASSUME NEW r \in Requests, ReleaseBody(r) PROVE TypeOK'
  BY <1>8 DEF ReleaseBody
<1>9. ASSUME NEW r \in Requests, TaskSucceeds(r) PROVE TypeOK'
  BY <1>9 DEF TaskSucceeds
<1>10. ASSUME NEW r \in Requests, TaskFails(r) PROVE TypeOK'
  BY <1>10 DEF TaskFails
<1>11. ASSUME NEW r \in Requests, TaskCancelled(r) PROVE TypeOK'
  BY <1>11 DEF TaskCancelled
<1>12. ASSUME NEW r \in Requests, TaskRemovesRequest(r) PROVE TypeOK'
  BY <1>12 DEF TaskRemovesRequest, WithoutHandle
<1>13. ASSUME NEW r \in Requests, TaskSettles(r) PROVE TypeOK'
  BY <1>13 DEF TaskSettles
<1>14. ASSUME NEW r \in Requests, PumpChunk(r) PROVE TypeOK'
  BY <1>14 DEF PumpChunk, PumpStep
<1>15. ASSUME NEW r \in Requests, PumpDone(r) PROVE TypeOK'
  BY <1>15 DEF PumpDone, PumpStep
<1>16. ASSUME NEW r \in Requests, PumpSourceError(r) PROVE TypeOK'
  BY <1>16 DEF PumpSourceError, PumpStep
<1>17. ASSUME NEW r \in Requests, PumpWritten(r) PROVE TypeOK'
  <2>1. /\ uploadStore' \subseteq Uploads
        /\ uploadCancelled' \in [Requests -> BOOLEAN]
    BY <1>17, CancelUploadType DEF PumpWritten
  <2> QED
    BY <1>17, <2>1 DEF PumpWritten, PumpStep
<1>18. ASSUME NEW r \in Requests, PumpClosed(r) PROVE TypeOK'
  BY <1>18 DEF PumpClosed, PumpStep
<1>19. ASSUME NEW r \in Requests, PumpCatch(r) PROVE TypeOK'
  BY <1>19 DEF PumpCatch, PumpStep
<1>20. ASSUME NEW r \in Requests, PumpFails(r) PROVE TypeOK'
  BY <1>20 DEF PumpFails, PumpStep
<1>21. CASE UNCHANGED vars
  BY <1>21 DEF vars
<1> QED
  BY <1>1, <1>2, <1>3, <1>4, <1>5, <1>6, <1>7, <1>8, <1>9, <1>10, <1>11,
     <1>12, <1>13, <1>14, <1>15, <1>16, <1>17, <1>18, <1>19, <1>20, <1>21
  DEF Next, JsStep, TaskStep, UploadStep

(* Only a dispatch starts a task, and a call stops listening as it settles. *)
LEMMA ProgressStep ==
    ASSUME TypeOK, Progress,
           [Next]_vars
    PROVE  Progress'
<1> USE NativeRequestAssumption DEF TypeOK, Progress,
           jsVars, taskVars, handleVars, bodyVars, uploadVars
<1>1. ASSUME NEW r \in Requests, Build(r) PROVE Progress'
  BY <1>1 DEF Build
<1>2. ASSUME NEW r \in Requests, RejectAborted(r) PROVE Progress'
  BY <1>2 DEF RejectAborted, CancelUpload
<1>3. ASSUME NEW r \in Requests, BuildOrBindingThrows(r) PROVE Progress'
  BY <1>3 DEF BuildOrBindingThrows, CancelUpload
<1>4. ASSUME NEW r \in Requests, Dispatch(r) PROVE Progress'
  BY <1>4 DEF Dispatch, InsertRequest
<1>5. ASSUME NEW r \in Requests, Abort(r) PROVE Progress'
  BY <1>5 DEF Abort, OnAbort, CancelUpload, CancelRequest, WithoutHandle
<1>6. ASSUME NEW r \in Requests, DeliverIgnored(r) PROVE Progress'
  BY <1>6 DEF DeliverIgnored, Settled
<1>7. ASSUME NEW r \in Requests, DeliverTaken(r) PROVE Progress'
  BY <1>7 DEF DeliverTaken, CancelUpload, Settled
<1>8. ASSUME NEW r \in Requests, ReleaseBody(r) PROVE Progress'
  BY <1>8 DEF ReleaseBody
<1>9. ASSUME NEW r \in Requests, TaskSucceeds(r) PROVE Progress'
  BY <1>9 DEF TaskSucceeds
<1>10. ASSUME NEW r \in Requests, TaskFails(r) PROVE Progress'
  BY <1>10 DEF TaskFails
<1>11. ASSUME NEW r \in Requests, TaskCancelled(r) PROVE Progress'
  BY <1>11 DEF TaskCancelled
<1>12. ASSUME NEW r \in Requests, TaskRemovesRequest(r) PROVE Progress'
  BY <1>12 DEF TaskRemovesRequest, WithoutHandle
<1>13. ASSUME NEW r \in Requests, TaskSettles(r) PROVE Progress'
  BY <1>13 DEF TaskSettles
<1>14. ASSUME NEW r \in Requests, PumpChunk(r) PROVE Progress'
  BY <1>14 DEF PumpChunk, PumpStep
<1>15. ASSUME NEW r \in Requests, PumpDone(r) PROVE Progress'
  BY <1>15 DEF PumpDone, PumpStep
<1>16. ASSUME NEW r \in Requests, PumpSourceError(r) PROVE Progress'
  BY <1>16 DEF PumpSourceError, PumpStep
<1>17. ASSUME NEW r \in Requests, PumpWritten(r) PROVE Progress'
  BY <1>17 DEF PumpWritten, PumpStep, CancelUpload
<1>18. ASSUME NEW r \in Requests, PumpClosed(r) PROVE Progress'
  BY <1>18 DEF PumpClosed, PumpStep
<1>19. ASSUME NEW r \in Requests, PumpCatch(r) PROVE Progress'
  BY <1>19 DEF PumpCatch, PumpStep
<1>20. ASSUME NEW r \in Requests, PumpFails(r) PROVE Progress'
  BY <1>20 DEF PumpFails, PumpStep
<1>21. CASE UNCHANGED vars
  BY <1>21 DEF vars
<1> QED
  BY <1>1, <1>2, <1>3, <1>4, <1>5, <1>6, <1>7, <1>8, <1>9, <1>10, <1>11,
     <1>12, <1>13, <1>14, <1>15, <1>16, <1>17, <1>18, <1>19, <1>20, <1>21
  DEF Next, JsStep, TaskStep, UploadStep

(* insert_request alone hands out handles, each one once. *)
LEMMA HandlesStep ==
    ASSUME TypeOK, HandlesUnique,
           [Next]_vars
    PROVE  HandlesUnique'
<1> USE NativeRequestAssumption DEF TypeOK, HandlesUnique,
           jsVars, taskVars, handleVars, bodyVars, uploadVars
<1>1. ASSUME NEW r \in Requests, Build(r) PROVE HandlesUnique'
  BY <1>1 DEF Build
<1>2. ASSUME NEW r \in Requests, RejectAborted(r) PROVE HandlesUnique'
  BY <1>2 DEF RejectAborted, CancelUpload
<1>3. ASSUME NEW r \in Requests, BuildOrBindingThrows(r) PROVE HandlesUnique'
  BY <1>3 DEF BuildOrBindingThrows, CancelUpload
<1>4. ASSUME NEW r \in Requests, Dispatch(r) PROVE HandlesUnique'
  BY <1>4 DEF Dispatch, InsertRequest
<1>5. ASSUME NEW r \in Requests, Abort(r) PROVE HandlesUnique'
  BY <1>5 DEF Abort, OnAbort, CancelUpload, CancelRequest, WithoutHandle
<1>6. ASSUME NEW r \in Requests, DeliverIgnored(r) PROVE HandlesUnique'
  BY <1>6 DEF DeliverIgnored, Settled
<1>7. ASSUME NEW r \in Requests, DeliverTaken(r) PROVE HandlesUnique'
  BY <1>7 DEF DeliverTaken, CancelUpload, Settled
<1>8. ASSUME NEW r \in Requests, ReleaseBody(r) PROVE HandlesUnique'
  BY <1>8 DEF ReleaseBody
<1>9. ASSUME NEW r \in Requests, TaskSucceeds(r) PROVE HandlesUnique'
  BY <1>9 DEF TaskSucceeds
<1>10. ASSUME NEW r \in Requests, TaskFails(r) PROVE HandlesUnique'
  BY <1>10 DEF TaskFails
<1>11. ASSUME NEW r \in Requests, TaskCancelled(r) PROVE HandlesUnique'
  BY <1>11 DEF TaskCancelled
<1>12. ASSUME NEW r \in Requests, TaskRemovesRequest(r) PROVE HandlesUnique'
  BY <1>12 DEF TaskRemovesRequest, WithoutHandle
<1>13. ASSUME NEW r \in Requests, TaskSettles(r) PROVE HandlesUnique'
  BY <1>13 DEF TaskSettles
<1>14. ASSUME NEW r \in Requests, PumpChunk(r) PROVE HandlesUnique'
  BY <1>14 DEF PumpChunk, PumpStep
<1>15. ASSUME NEW r \in Requests, PumpDone(r) PROVE HandlesUnique'
  BY <1>15 DEF PumpDone, PumpStep
<1>16. ASSUME NEW r \in Requests, PumpSourceError(r) PROVE HandlesUnique'
  BY <1>16 DEF PumpSourceError, PumpStep
<1>17. ASSUME NEW r \in Requests, PumpWritten(r) PROVE HandlesUnique'
  BY <1>17 DEF PumpWritten, PumpStep, CancelUpload
<1>18. ASSUME NEW r \in Requests, PumpClosed(r) PROVE HandlesUnique'
  BY <1>18 DEF PumpClosed, PumpStep
<1>19. ASSUME NEW r \in Requests, PumpCatch(r) PROVE HandlesUnique'
  BY <1>19 DEF PumpCatch, PumpStep
<1>20. ASSUME NEW r \in Requests, PumpFails(r) PROVE HandlesUnique'
  BY <1>20 DEF PumpFails, PumpStep
<1>21. CASE UNCHANGED vars
  BY <1>21 DEF vars
<1> QED
  BY <1>1, <1>2, <1>3, <1>4, <1>5, <1>6, <1>7, <1>8, <1>9, <1>10, <1>11,
     <1>12, <1>13, <1>14, <1>15, <1>16, <1>17, <1>18, <1>19, <1>20, <1>21
  DEF Next, JsStep, TaskStep, UploadStep

(* What settles a call or ends its task takes its entry out. *)
LEMMA StoreStep ==
    ASSUME TypeOK, Progress, StoreHoldsLiveTasks,
           [Next]_vars
    PROVE  StoreHoldsLiveTasks'
<1> USE NativeRequestAssumption DEF TypeOK, Progress, StoreHoldsLiveTasks,
           jsVars, taskVars, handleVars, bodyVars, uploadVars
<1>1. ASSUME NEW r \in Requests, Build(r) PROVE StoreHoldsLiveTasks'
  BY <1>1 DEF Build
<1>2. ASSUME NEW r \in Requests, RejectAborted(r) PROVE StoreHoldsLiveTasks'
  BY <1>2 DEF RejectAborted, CancelUpload
<1>3. ASSUME NEW r \in Requests, BuildOrBindingThrows(r) PROVE StoreHoldsLiveTasks'
  BY <1>3 DEF BuildOrBindingThrows, CancelUpload
<1>4. ASSUME NEW r \in Requests, Dispatch(r) PROVE StoreHoldsLiveTasks'
  BY <1>4 DEF Dispatch, InsertRequest
<1>5. ASSUME NEW r \in Requests, Abort(r) PROVE StoreHoldsLiveTasks'
  BY <1>5 DEF Abort, OnAbort, CancelUpload, CancelRequest, WithoutHandle
<1>6. ASSUME NEW r \in Requests, DeliverIgnored(r) PROVE StoreHoldsLiveTasks'
  BY <1>6 DEF DeliverIgnored, Settled
<1>7. ASSUME NEW r \in Requests, DeliverTaken(r) PROVE StoreHoldsLiveTasks'
  BY <1>7 DEF DeliverTaken, CancelUpload, Settled
<1>8. ASSUME NEW r \in Requests, ReleaseBody(r) PROVE StoreHoldsLiveTasks'
  BY <1>8 DEF ReleaseBody
<1>9. ASSUME NEW r \in Requests, TaskSucceeds(r) PROVE StoreHoldsLiveTasks'
  BY <1>9 DEF TaskSucceeds
<1>10. ASSUME NEW r \in Requests, TaskFails(r) PROVE StoreHoldsLiveTasks'
  BY <1>10 DEF TaskFails
<1>11. ASSUME NEW r \in Requests, TaskCancelled(r) PROVE StoreHoldsLiveTasks'
  BY <1>11 DEF TaskCancelled
<1>12. ASSUME NEW r \in Requests, TaskRemovesRequest(r) PROVE StoreHoldsLiveTasks'
  BY <1>12 DEF TaskRemovesRequest, WithoutHandle
<1>13. ASSUME NEW r \in Requests, TaskSettles(r) PROVE StoreHoldsLiveTasks'
  BY <1>13 DEF TaskSettles
<1>14. ASSUME NEW r \in Requests, PumpChunk(r) PROVE StoreHoldsLiveTasks'
  BY <1>14 DEF PumpChunk, PumpStep
<1>15. ASSUME NEW r \in Requests, PumpDone(r) PROVE StoreHoldsLiveTasks'
  BY <1>15 DEF PumpDone, PumpStep
<1>16. ASSUME NEW r \in Requests, PumpSourceError(r) PROVE StoreHoldsLiveTasks'
  BY <1>16 DEF PumpSourceError, PumpStep
<1>17. ASSUME NEW r \in Requests, PumpWritten(r) PROVE StoreHoldsLiveTasks'
  BY <1>17 DEF PumpWritten, PumpStep, CancelUpload
<1>18. ASSUME NEW r \in Requests, PumpClosed(r) PROVE StoreHoldsLiveTasks'
  BY <1>18 DEF PumpClosed, PumpStep
<1>19. ASSUME NEW r \in Requests, PumpCatch(r) PROVE StoreHoldsLiveTasks'
  BY <1>19 DEF PumpCatch, PumpStep
<1>20. ASSUME NEW r \in Requests, PumpFails(r) PROVE StoreHoldsLiveTasks'
  BY <1>20 DEF PumpFails, PumpStep
<1>21. CASE UNCHANGED vars
  BY <1>21 DEF vars
<1> QED
  BY <1>1, <1>2, <1>3, <1>4, <1>5, <1>6, <1>7, <1>8, <1>9, <1>10, <1>11,
     <1>12, <1>13, <1>14, <1>15, <1>16, <1>17, <1>18, <1>19, <1>20, <1>21
  DEF Next, JsStep, TaskStep, UploadStep

(* A cancel goes to the owner of the handle, the only call with that handle. *)
LEMMA CancelStep ==
    ASSUME TypeOK, Progress, HandlesUnique, StoreHoldsLiveTasks, CancelReachesOwnTask,
           [Next]_vars
    PROVE  CancelReachesOwnTask'
<1> USE NativeRequestAssumption DEF TypeOK, Progress, HandlesUnique, StoreHoldsLiveTasks,
           CancelReachesOwnTask, jsVars, taskVars, handleVars, bodyVars, uploadVars
<1>1. ASSUME NEW r \in Requests, Build(r) PROVE CancelReachesOwnTask'
  BY <1>1 DEF Build
<1>2. ASSUME NEW r \in Requests, RejectAborted(r) PROVE CancelReachesOwnTask'
  BY <1>2 DEF RejectAborted, CancelUpload
<1>3. ASSUME NEW r \in Requests, BuildOrBindingThrows(r) PROVE CancelReachesOwnTask'
  BY <1>3 DEF BuildOrBindingThrows, CancelUpload
<1>4. ASSUME NEW r \in Requests, Dispatch(r) PROVE CancelReachesOwnTask'
  BY <1>4 DEF Dispatch, InsertRequest
<1>5. ASSUME NEW r \in Requests, Abort(r) PROVE CancelReachesOwnTask'
  <2>1. CASE ~listening[r]
    BY <1>5, <2>1 DEF Abort
  <2>2. CASE listening[r]
    <3> SUFFICES ASSUME NEW t \in Requests, (t \in cancelSent \/ outcome[t] = "cancelled")'
                 PROVE  t \in Signalled /\ aborted'[t]
      OBVIOUS
    <3>1. CASE t \in cancelSent \/ outcome[t] = "cancelled"
      BY <1>5, <3>1 DEF Abort
    <3>2. CASE [handle |-> handle[r], owner |-> t] \in requestStore
      <4>1. handle[t] = handle[r]
        BY <3>2
      <4>2. t = r
        BY <2>2, <4>1
      <4> QED
        BY <1>5, <4>2 DEF Abort
    <3> QED
      BY <1>5, <2>2, <3>1, <3>2 DEF Abort, OnAbort, CancelRequest
  <2> QED
    BY <2>1, <2>2
<1>6. ASSUME NEW r \in Requests, DeliverIgnored(r) PROVE CancelReachesOwnTask'
  BY <1>6 DEF DeliverIgnored, Settled
<1>7. ASSUME NEW r \in Requests, DeliverTaken(r) PROVE CancelReachesOwnTask'
  BY <1>7 DEF DeliverTaken, CancelUpload, Settled
<1>8. ASSUME NEW r \in Requests, ReleaseBody(r) PROVE CancelReachesOwnTask'
  BY <1>8 DEF ReleaseBody
<1>9. ASSUME NEW r \in Requests, TaskSucceeds(r) PROVE CancelReachesOwnTask'
  BY <1>9 DEF TaskSucceeds
<1>10. ASSUME NEW r \in Requests, TaskFails(r) PROVE CancelReachesOwnTask'
  BY <1>10 DEF TaskFails
<1>11. ASSUME NEW r \in Requests, TaskCancelled(r) PROVE CancelReachesOwnTask'
  BY <1>11 DEF TaskCancelled
<1>12. ASSUME NEW r \in Requests, TaskRemovesRequest(r) PROVE CancelReachesOwnTask'
  BY <1>12 DEF TaskRemovesRequest, WithoutHandle
<1>13. ASSUME NEW r \in Requests, TaskSettles(r) PROVE CancelReachesOwnTask'
  BY <1>13 DEF TaskSettles
<1>14. ASSUME NEW r \in Requests, PumpChunk(r) PROVE CancelReachesOwnTask'
  BY <1>14 DEF PumpChunk, PumpStep
<1>15. ASSUME NEW r \in Requests, PumpDone(r) PROVE CancelReachesOwnTask'
  BY <1>15 DEF PumpDone, PumpStep
<1>16. ASSUME NEW r \in Requests, PumpSourceError(r) PROVE CancelReachesOwnTask'
  BY <1>16 DEF PumpSourceError, PumpStep
<1>17. ASSUME NEW r \in Requests, PumpWritten(r) PROVE CancelReachesOwnTask'
  BY <1>17 DEF PumpWritten, PumpStep, CancelUpload
<1>18. ASSUME NEW r \in Requests, PumpClosed(r) PROVE CancelReachesOwnTask'
  BY <1>18 DEF PumpClosed, PumpStep
<1>19. ASSUME NEW r \in Requests, PumpCatch(r) PROVE CancelReachesOwnTask'
  BY <1>19 DEF PumpCatch, PumpStep
<1>20. ASSUME NEW r \in Requests, PumpFails(r) PROVE CancelReachesOwnTask'
  BY <1>20 DEF PumpFails, PumpStep
<1>21. CASE UNCHANGED vars
  BY <1>21 DEF vars
<1> QED
  BY <1>1, <1>2, <1>3, <1>4, <1>5, <1>6, <1>7, <1>8, <1>9, <1>10, <1>11,
     <1>12, <1>13, <1>14, <1>15, <1>16, <1>17, <1>18, <1>19, <1>20, <1>21
  DEF Next, JsStep, TaskStep, UploadStep

(* Every way to settle a call or to end its pump removes the upload's entry. *)
LEMMA UploadsStep ==
    ASSUME TypeOK, Progress, UploadInv,
           [Next]_vars
    PROVE  UploadInv'
<1> USE NativeRequestAssumption DEF TypeOK, Progress, UploadInv, Settled,
           jsVars, taskVars, handleVars, bodyVars, uploadVars
<1>1. ASSUME NEW r \in Requests, Build(r) PROVE UploadInv'
  BY <1>1 DEF Build
<1>2. ASSUME NEW r \in Requests, RejectAborted(r) PROVE UploadInv'
  BY <1>2 DEF RejectAborted, CancelUpload
<1>3. ASSUME NEW r \in Requests, BuildOrBindingThrows(r) PROVE UploadInv'
  BY <1>3 DEF BuildOrBindingThrows, CancelUpload
<1>4. ASSUME NEW r \in Requests, Dispatch(r) PROVE UploadInv'
  BY <1>4 DEF Dispatch, InsertRequest
<1>5. ASSUME NEW r \in Requests, Abort(r) PROVE UploadInv'
  BY <1>5 DEF Abort, OnAbort, CancelUpload, CancelRequest, WithoutHandle
<1>6. ASSUME NEW r \in Requests, DeliverIgnored(r) PROVE UploadInv'
  BY <1>6 DEF DeliverIgnored
<1>7. ASSUME NEW r \in Requests, DeliverTaken(r) PROVE UploadInv'
  BY <1>7 DEF DeliverTaken, CancelUpload
<1>8. ASSUME NEW r \in Requests, ReleaseBody(r) PROVE UploadInv'
  BY <1>8 DEF ReleaseBody
<1>9. ASSUME NEW r \in Requests, TaskSucceeds(r) PROVE UploadInv'
  BY <1>9 DEF TaskSucceeds
<1>10. ASSUME NEW r \in Requests, TaskFails(r) PROVE UploadInv'
  BY <1>10 DEF TaskFails
<1>11. ASSUME NEW r \in Requests, TaskCancelled(r) PROVE UploadInv'
  BY <1>11 DEF TaskCancelled
<1>12. ASSUME NEW r \in Requests, TaskRemovesRequest(r) PROVE UploadInv'
  BY <1>12 DEF TaskRemovesRequest, WithoutHandle
<1>13. ASSUME NEW r \in Requests, TaskSettles(r) PROVE UploadInv'
  BY <1>13 DEF TaskSettles
<1>14. ASSUME NEW r \in Requests, PumpChunk(r) PROVE UploadInv'
  BY <1>14 DEF PumpChunk, PumpStep
<1>15. ASSUME NEW r \in Requests, PumpDone(r) PROVE UploadInv'
  BY <1>15 DEF PumpDone, PumpStep
<1>16. ASSUME NEW r \in Requests, PumpSourceError(r) PROVE UploadInv'
  BY <1>16 DEF PumpSourceError, PumpStep
<1>17. ASSUME NEW r \in Requests, PumpWritten(r) PROVE UploadInv'
  BY <1>17 DEF PumpWritten, PumpStep, CancelUpload
<1>18. ASSUME NEW r \in Requests, PumpClosed(r) PROVE UploadInv'
  BY <1>18 DEF PumpClosed, PumpStep
<1>19. ASSUME NEW r \in Requests, PumpCatch(r) PROVE UploadInv'
  BY <1>19 DEF PumpCatch, PumpStep
<1>20. ASSUME NEW r \in Requests, PumpFails(r) PROVE UploadInv'
  BY <1>20 DEF PumpFails, PumpStep
<1>21. CASE UNCHANGED vars
  BY <1>21 DEF vars
<1> QED
  BY <1>1, <1>2, <1>3, <1>4, <1>5, <1>6, <1>7, <1>8, <1>9, <1>10, <1>11,
     <1>12, <1>13, <1>14, <1>15, <1>16, <1>17, <1>18, <1>19, <1>20, <1>21
  DEF Next, JsStep, TaskStep, UploadStep

(* store_body hands out fresh handles; a Response releases its own body only. *)
LEMMA BodiesStep ==
    ASSUME TypeOK, Progress, BodyInv,
           [Next]_vars
    PROVE  BodyInv'
<1> USE NativeRequestAssumption DEF TypeOK, Progress, BodyInv,
           jsVars, taskVars, handleVars, bodyVars, uploadVars
<1>1. ASSUME NEW r \in Requests, Build(r) PROVE BodyInv'
  BY <1>1 DEF Build
<1>2. ASSUME NEW r \in Requests, RejectAborted(r) PROVE BodyInv'
  BY <1>2 DEF RejectAborted, CancelUpload
<1>3. ASSUME NEW r \in Requests, BuildOrBindingThrows(r) PROVE BodyInv'
  BY <1>3 DEF BuildOrBindingThrows, CancelUpload
<1>4. ASSUME NEW r \in Requests, Dispatch(r) PROVE BodyInv'
  BY <1>4 DEF Dispatch, InsertRequest
<1>5. ASSUME NEW r \in Requests, Abort(r) PROVE BodyInv'
  BY <1>5 DEF Abort, OnAbort, CancelUpload, CancelRequest, WithoutHandle
<1>6. ASSUME NEW r \in Requests, DeliverIgnored(r) PROVE BodyInv'
  BY <1>6 DEF DeliverIgnored, Settled
<1>7. ASSUME NEW r \in Requests, DeliverTaken(r) PROVE BodyInv'
  BY <1>7 DEF DeliverTaken, CancelUpload, Settled
<1>8. ASSUME NEW r \in Requests, ReleaseBody(r) PROVE BodyInv'
  BY <1>8 DEF ReleaseBody
<1>9. ASSUME NEW r \in Requests, TaskSucceeds(r) PROVE BodyInv'
  BY <1>9 DEF TaskSucceeds
<1>10. ASSUME NEW r \in Requests, TaskFails(r) PROVE BodyInv'
  BY <1>10 DEF TaskFails
<1>11. ASSUME NEW r \in Requests, TaskCancelled(r) PROVE BodyInv'
  BY <1>11 DEF TaskCancelled
<1>12. ASSUME NEW r \in Requests, TaskRemovesRequest(r) PROVE BodyInv'
  BY <1>12 DEF TaskRemovesRequest, WithoutHandle
<1>13. ASSUME NEW r \in Requests, TaskSettles(r) PROVE BodyInv'
  BY <1>13 DEF TaskSettles
<1>14. ASSUME NEW r \in Requests, PumpChunk(r) PROVE BodyInv'
  BY <1>14 DEF PumpChunk, PumpStep
<1>15. ASSUME NEW r \in Requests, PumpDone(r) PROVE BodyInv'
  BY <1>15 DEF PumpDone, PumpStep
<1>16. ASSUME NEW r \in Requests, PumpSourceError(r) PROVE BodyInv'
  BY <1>16 DEF PumpSourceError, PumpStep
<1>17. ASSUME NEW r \in Requests, PumpWritten(r) PROVE BodyInv'
  BY <1>17 DEF PumpWritten, PumpStep, CancelUpload
<1>18. ASSUME NEW r \in Requests, PumpClosed(r) PROVE BodyInv'
  BY <1>18 DEF PumpClosed, PumpStep
<1>19. ASSUME NEW r \in Requests, PumpCatch(r) PROVE BodyInv'
  BY <1>19 DEF PumpCatch, PumpStep
<1>20. ASSUME NEW r \in Requests, PumpFails(r) PROVE BodyInv'
  BY <1>20 DEF PumpFails, PumpStep
<1>21. CASE UNCHANGED vars
  BY <1>21 DEF vars
<1> QED
  BY <1>1, <1>2, <1>3, <1>4, <1>5, <1>6, <1>7, <1>8, <1>9, <1>10, <1>11,
     <1>12, <1>13, <1>14, <1>15, <1>16, <1>17, <1>18, <1>19, <1>20, <1>21
  DEF Next, JsStep, TaskStep, UploadStep

(* The initial state satisfies the inductive invariant. *)
LEMMA InitInv == Init => IInv
BY DEF Init, IInv, TypeOK, Progress, HandlesUnique, StoreHoldsLiveTasks,
       CancelReachesOwnTask, UploadInv, BodyInv, Settled

(* IInv holds in every reachable state. *)
THEOREM Invariance == Spec => []IInv
<1>1. IInv /\ [Next]_vars => IInv'
  BY TypeStep, ProgressStep, HandlesStep, StoreStep, CancelStep, UploadsStep, BodiesStep DEF IInv
<1> QED
  BY InitInv, <1>1, PTL DEF Spec

(* Type correctness. *)
THEOREM TypeCorrect == Spec => []TypeOK
<1>1. IInv => TypeOK
  BY DEF IInv
<1> QED
  BY Invariance, <1>1, PTL

(* REQUEST_STORE never holds the handle of a call that is over. *)
THEOREM RequestStoreLive == Spec => []StoreHoldsLiveTasks
<1>1. IInv => StoreHoldsLiveTasks
  BY DEF IInv
<1> QED
  BY Invariance, <1>1, PTL

(* An abort never cancels the native task of another call. *)
THEOREM CancelIsolation == Spec => []CancelReachesOwnTask
<1>1. IInv => CancelReachesOwnTask
  BY DEF IInv
<1> QED
  BY Invariance, <1>1, PTL

(* No abort listener is left behind by a call that is over. *)
THEOREM ListenersRemoved == Spec => []ListenerOnlyWhilePending
<1>1. IInv => ListenerOnlyWhilePending
  BY DEF IInv, Progress, ListenerOnlyWhilePending
<1> QED
  BY Invariance, <1>1, PTL

(* No upload handle outlives its call or its pump. *)
THEOREM UploadsReleased == Spec => []UploadReleased
<1>1. IInv => UploadReleased
  BY DEF IInv, UploadInv, UploadReleased
<1> QED
  BY Invariance, <1>1, PTL

(* A held Response is the only one with its body handle, and the body is stored. *)
THEOREM BodiesOwned == Spec => []ResponseOwnsBody
<1>1. IInv => ResponseOwnsBody
  BY DEF IInv, TypeOK, BodyInv, ResponseOwnsBody
<1> QED
  BY Invariance, <1>1, PTL

(* An aborted call that has not resolved never does. *)
THEOREM AbortFinal == Spec => AbortIsFinal
<1>1. IInv /\ [Next]_vars =>
        [\A r \in Requests : aborted[r] /\ call[r] # "resolved" => call'[r] # "resolved"]_vars
  <2> SUFFICES ASSUME IInv, [Next]_vars, NEW q \in Requests, aborted[q], call[q] # "resolved"
               PROVE  call'[q] # "resolved"
    OBVIOUS
  <2> USE DEF IInv, TypeOK, Progress, jsVars
  <2>1. ASSUME NEW r \in Requests, Build(r) PROVE call'[q] # "resolved"
    BY <2>1 DEF Build
  <2>2. ASSUME NEW r \in Requests, RejectAborted(r) PROVE call'[q] # "resolved"
    BY <2>2 DEF RejectAborted
  <2>3. ASSUME NEW r \in Requests, BuildOrBindingThrows(r) PROVE call'[q] # "resolved"
    BY <2>3 DEF BuildOrBindingThrows
  <2>4. ASSUME NEW r \in Requests, Dispatch(r) PROVE call'[q] # "resolved"
    BY <2>4 DEF Dispatch
  <2>5. ASSUME NEW r \in Requests, Abort(r) PROVE call'[q] # "resolved"
    BY <2>5 DEF Abort, OnAbort
  <2>6. ASSUME NEW r \in Requests, DeliverIgnored(r) PROVE call'[q] # "resolved"
    BY <2>6 DEF DeliverIgnored
  <2>7. ASSUME NEW r \in Requests, DeliverTaken(r) PROVE call'[q] # "resolved"
    BY <2>7 DEF DeliverTaken, Settled
  <2>8. ASSUME NEW r \in Requests, ReleaseBody(r) PROVE call'[q] # "resolved"
    BY <2>8 DEF ReleaseBody
  <2>9. ASSUME NEW r \in Requests, TaskSucceeds(r) PROVE call'[q] # "resolved"
    BY <2>9 DEF TaskSucceeds
  <2>10. ASSUME NEW r \in Requests, TaskFails(r) PROVE call'[q] # "resolved"
    BY <2>10 DEF TaskFails
  <2>11. ASSUME NEW r \in Requests, TaskCancelled(r) PROVE call'[q] # "resolved"
    BY <2>11 DEF TaskCancelled
  <2>12. ASSUME NEW r \in Requests, TaskRemovesRequest(r) PROVE call'[q] # "resolved"
    BY <2>12 DEF TaskRemovesRequest
  <2>13. ASSUME NEW r \in Requests, TaskSettles(r) PROVE call'[q] # "resolved"
    BY <2>13 DEF TaskSettles
  <2>14. ASSUME NEW r \in Requests, PumpChunk(r) PROVE call'[q] # "resolved"
    BY <2>14 DEF PumpChunk, PumpStep
  <2>15. ASSUME NEW r \in Requests, PumpDone(r) PROVE call'[q] # "resolved"
    BY <2>15 DEF PumpDone, PumpStep
  <2>16. ASSUME NEW r \in Requests, PumpSourceError(r) PROVE call'[q] # "resolved"
    BY <2>16 DEF PumpSourceError, PumpStep
  <2>17. ASSUME NEW r \in Requests, PumpWritten(r) PROVE call'[q] # "resolved"
    BY <2>17 DEF PumpWritten, PumpStep
  <2>18. ASSUME NEW r \in Requests, PumpClosed(r) PROVE call'[q] # "resolved"
    BY <2>18 DEF PumpClosed, PumpStep
  <2>19. ASSUME NEW r \in Requests, PumpCatch(r) PROVE call'[q] # "resolved"
    BY <2>19 DEF PumpCatch, PumpStep
  <2>20. ASSUME NEW r \in Requests, PumpFails(r) PROVE call'[q] # "resolved"
    BY <2>20 DEF PumpFails, PumpStep
  <2>21. CASE UNCHANGED vars
    BY <2>21 DEF vars
  <2> QED
    BY <2>1, <2>2, <2>3, <2>4, <2>5, <2>6, <2>7, <2>8, <2>9, <2>10,
       <2>11, <2>12, <2>13, <2>14, <2>15, <2>16, <2>17, <2>18, <2>19, <2>20, <2>21
    DEF Next, JsStep, TaskStep, UploadStep
<1> QED
  BY Invariance, <1>1, PTL DEF Spec, AbortIsFinal
=============================================================================
