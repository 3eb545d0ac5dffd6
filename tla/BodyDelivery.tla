----------------------------- MODULE BodyDelivery -----------------------------
(***************************************************************************)
(* What the users of a Response and of its clones may rely on: each of     *)
(* them gets the chunks of the body in order, none lost and none twice,    *)
(* learns that the body is whole only when it has all of it, and that it   *)
(* failed only when it did.                                                *)
(***************************************************************************)
EXTENDS Naturals, Sequences

CONSTANT Responses

VARIABLES
    sent,       \* the number of chunks the peer has sent
    ended,      \* how the peer ended the body
    got,        \* the chunks each user has been given
    outcome     \* what each user has been told of the whole

bodyVars == <<sent, ended, got, outcome>>

UpTo(n) == [i \in 1..n |-> i]

Init ==
    /\ sent = 0
    /\ ended = "open"
    /\ got = [r \in Responses |-> <<>>]
    /\ outcome = [r \in Responses |-> "open"]

Send ==
    /\ ended = "open"
    /\ sent' = sent + 1
    /\ UNCHANGED <<ended, got, outcome>>

End ==
    /\ ended = "open"
    /\ ended' \in {"whole", "failed"}
    /\ UNCHANGED <<sent, got, outcome>>

Deliver(R) ==
    /\ \A r \in R : outcome[r] = "open" /\ Len(got[r]) < sent
    /\ got' = [r \in Responses |->
                  IF r \in R THEN Append(got[r], Len(got[r]) + 1) ELSE got[r]]
    /\ UNCHANGED <<sent, ended, outcome>>

Finish(r) ==
    /\ outcome[r] = "open"
    /\ ended = "whole"
    /\ got' = [got EXCEPT ![r] = UpTo(sent)]
    /\ outcome' = [outcome EXCEPT ![r] = "whole"]
    /\ UNCHANGED <<sent, ended>>

Fail(r) ==
    /\ outcome[r] = "open"
    /\ ended = "failed"
    /\ outcome' = [outcome EXCEPT ![r] = "failed"]
    /\ UNCHANGED <<sent, ended, got>>

Cancel(r) ==
    /\ outcome[r] = "open"
    /\ outcome' = [outcome EXCEPT ![r] = "cancelled"]
    /\ UNCHANGED <<sent, ended, got>>

Next ==
    \/ Send \/ End
    \/ \E R \in SUBSET Responses : Deliver(R)
    \/ \E r \in Responses : Finish(r) \/ Fail(r) \/ Cancel(r)

Spec == Init /\ [][Next]_bodyVars
=============================================================================
