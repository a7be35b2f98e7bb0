---------------------------- MODULE MCReporting -----------------------------
(***************************************************************************)
(* Two small instances of Reporting, one of which runs: part says which.   *)
(*   "events"  two entries to which everything happens (the constants of   *)
(*             the configuration)                                          *)
(*   "table"   four entries, the second of a cluster of its own, of which  *)
(*             only the values change                                      *)
(***************************************************************************)
EXTENDS Reporting

S(min, max, chg) == [min |-> min, max |-> max, chg |-> chg]

Apart == [e \in Entries |-> e]

Various == {S(0, 2, 1), S(3, 3, 0), S(1, Off, 0)}
Alike == {S(2, 5, 1)}

VARIABLE part

Table == INSTANCE Reporting WITH
  N <- 4, Cluster <- <<1, 2, 1, 1>>, Analog <- {2, 3},
  Settings <- {S(0, 0, 1), S(1, 2, 0), S(0, 2, 0)}, Events <- {"pause"}

PartNext ==
  /\ UNCHANGED part
  /\ \/ part = "events" /\ Next
     \/ part = "table" /\ Table!Next

PartSpec ==
  /\ \/ part = "events" /\ Init
     \/ part = "table" /\ Table!Init
  /\ [][PartNext]_<<part, vars>>
  /\ WF_<<part, vars>>(part = "table" /\ Table!ReportAttrs /\ UNCHANGED part)

\* the two entries alone
EventsSpec ==
  /\ part = "events" /\ Init
  /\ [][Next /\ UNCHANGED part]_<<part, vars>>

\* report_handler returns, unless an entry is insatiable, and when it does nothing
\* is left due, however many clusters and entries of each there were.
TableServed ==
  /\ (part = "table" /\ pc = "report") ~>
       (part = "table" /\ (pc = "idle" \/ \E e \in 1..4 : Table!Insatiable(e)))
  /\ [](part = "table" => Table!AllReported)
=============================================================================
