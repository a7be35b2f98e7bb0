------------------------------- MODULE NvMap -------------------------------
(***************************************************************************)
(* What the item store of proj/drivers/drv_nv.c promises to its callers:   *)
(* a map from item identifiers to values that survives power loss, with    *)
(* one request at a time.  A request takes effect atomically (entirely or  *)
(* not at all) at some instant before it returns; a request that returns   *)
(* NV_SUCC has taken effect; no other item is ever disturbed.              *)
(***************************************************************************)
CONSTANTS Item, Value,
          Absent      \* what a read of an item that is not stored yields

VARIABLES store,      \* [Item -> Value or Absent]
          pend,       \* the request in progress, or NoReq
          res         \* status of the last request that returned

NoReq == [item |-> Absent, val |-> Absent]

Applied == [store EXCEPT ![pend.item] = pend.val]

Init ==
  /\ store = [i \in Item |-> Absent]
  /\ pend = NoReq
  /\ res = "none"

\* a caller writes value v, or removes the item (v = Absent)
Begin(i, v) ==
  /\ pend = NoReq
  /\ pend' = [item |-> i, val |-> v]
  /\ res' = "none"
  /\ UNCHANGED store

\* the request takes effect before it returns
Apply ==
  /\ pend # NoReq
  /\ store' = Applied
  /\ UNCHANGED <<pend, res>>

\* the request returns, or power is lost while it runs (res' = "reset")
End ==
  /\ pend # NoReq
  /\ pend' = NoReq
  /\ store' \in {store, Applied}
  /\ res' = "NV_SUCC" => store' = Applied

Next ==
  \/ \E i \in Item, v \in Value \cup {Absent} : Begin(i, v)
  \/ Apply
  \/ End

Spec == Init /\ [][Next]_<<store, pend, res>>
=============================================================================
