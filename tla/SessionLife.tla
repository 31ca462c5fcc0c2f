----------------------------- MODULE SessionLife -----------------------------
(***************************************************************************)
(* What the session layer promises of a session id, whatever the storage   *)
(* driver: an id is born once, from a fresh uuid and never from a cookie,  *)
(* and once it is gone it is never served again.                           *)
(***************************************************************************)
CONSTANT Sids

VARIABLE status         \* "unborn", then "live", then "gone"

Init == status = [s \in Sids |-> "unborn"]

Create(s) == /\ status[s] = "unborn"
             /\ status' = [status EXCEPT ![s] = "live"]

End(s) == /\ status[s] = "live"
          /\ status' = [status EXCEPT ![s] = "gone"]

Next == \E s \in Sids : Create(s) \/ End(s)

Spec == Init /\ [][Next]_status
=============================================================================
