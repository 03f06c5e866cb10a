--------------------------- MODULE MCInitManager ---------------------------
(* A starting server with one listener.  The listener waits for a route    *)
(* configuration (rds, an RDS subscription with its own manager) and for a *)
(* secret (sds) that the server waits for as well.                         *)
EXTENDS InitManager

CONSTANTS
  server, dynamic, local,   \* managers: of the server, the listener, the subscription
  listener, start,          \* plain targets: of the listener, of the subscription
  rds, sds,                 \* shared targets
  w1, w2                    \* watchers

MCInner == [t \in Targets |-> CASE t = listener -> dynamic
                                [] t = rds -> local
                                [] OTHER -> None]
MCWatchersOf == [m \in Managers |-> IF m = server THEN {w1, w2} ELSE {}]
MCMembers == [o \in Owners |-> CASE o = listener -> {listener, dynamic}
                                 [] o = rds -> {rds, local, start}
                                 [] o = sds -> {sds}]
MCSignals == [o \in Owners |-> CASE o = listener -> listener
                                 [] o = rds -> start
                                 [] o = sds -> None]
MCConstructed == {<<local, start>>}
MCRegistrations == [p \in Managers \X Targets |->
  IF p \in {<<server, listener>>, <<server, rds>>, <<dynamic, rds>>, <<dynamic, sds>>}
  THEN 1 ELSE 0]
=============================================================================
