------------------------------- MODULE MCBdb --------------------------------
(***************************************************************************)
(* Small worlds for Bdb.                                                   *)
(***************************************************************************)
EXTENDS Bdb

L(start, retry, scan, direct, peer) ==
  [start |-> start, retry |-> retry, scan |-> scan, direct |-> direct, peer |-> peer]

\* The light alone; with a touch link initiator near it; with a host that starts
\* attempts, and peers to bind to; with host and retries, host and touch link, and
\* both with peers; and told over BLE to join a network, by itself, with a host
\* and peers, and with touch link
SomeWorlds ==
  [new : BOOLEAN,
   left : {L(0, 2, 0, 0, 0), L(0, 1, 1, 0, 0), L(2, 0, 0, 0, 2), L(1, 1, 0, 0, 1),
           L(1, 0, 1, 0, 0), L(1, 0, 1, 0, 1), L(0, 2, 0, 1, 0), L(1, 0, 0, 1, 0),
           L(1, 0, 0, 1, 1), L(0, 0, 2, 1, 0)}]
=============================================================================
