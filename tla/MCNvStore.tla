----------------------------- MODULE MCNvStore -----------------------------
(***************************************************************************)
(* Small instances of NvStore.                                             *)
(***************************************************************************)
EXTENDS NvStore

CONSTANTS i1, i2, v1, v2

\* all items of one size
EqualSize == [i \in Item |-> 12]
=============================================================================
