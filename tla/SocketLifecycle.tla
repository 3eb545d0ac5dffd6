--------------------------- MODULE SocketLifecycle ---------------------------
(***************************************************************************)
(* What the owner of a WebSocket may rely on (class WebSocket in           *)
(* src/websocket/index.ts), without saying how it is done: readyState only *)
(* moves forward, the promise `opened` settles once and agrees with it,    *)
(* and the close event comes exactly once, with the move to CLOSED.        *)
(***************************************************************************)
EXTENDS Naturals

VARIABLES readyState, opened, closeEvents

lifecycleVars == <<readyState, opened, closeEvents>>

Init ==
    /\ readyState = "connecting"
    /\ opened = "pending"
    /\ closeEvents = 0

Open ==
    /\ readyState = "connecting"
    /\ readyState' = "open"
    /\ opened' = "resolved"
    /\ UNCHANGED closeEvents

StartClosing ==
    /\ readyState \in {"connecting", "open"}
    /\ readyState' = "closing"
    /\ opened' = IF readyState = "open" THEN "resolved" ELSE "rejected"
    /\ UNCHANGED closeEvents

Close ==
    /\ readyState # "closed"
    /\ readyState' = "closed"
    /\ opened' = IF opened = "resolved" THEN "resolved" ELSE "rejected"
    /\ closeEvents' = closeEvents + 1

Next == Open \/ StartClosing \/ Close

Spec == Init /\ [][Next]_lifecycleVars
=============================================================================
