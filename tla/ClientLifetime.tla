--------------------------- MODULE ClientLifetime ---------------------------
(***************************************************************************)
(* A transaction beside the client that made it.  Every bridge borrows the *)
(* D-Bus connection that PkManager owns (pk_manager.h), and PkClient.close *)
(* frees manager and connection whether or not bridges are left.           *)
(*                                                                         *)
(* PkTransaction models the transaction; this module adds the connection   *)
(* it runs on, and the application of README.md's quick start, which reads *)
(* a stream to its end, awaits the result and closes the client.           *)
(***************************************************************************)
EXTENDS PkTransaction

VARIABLE
  connection     \* live until close frees it

lifetimeVars == <<vars, connection>>

LifetimeInit == Init /\ connection = "live"

(* PkClient.close, once the streams have ended and `await tx.result` has   *)
(* returned: ~PkManager stops the event loop, waits for its thread and     *)
(* frees the connection.                                                   *)
CloseClient ==
  /\ AtRest
  /\ connection = "live"
  /\ finished
  /\ done = "success"
  /\ posting["loop"] = <<>>
  /\ connection' = "freed"
  /\ UNCHANGED vars

(* The steps that reach the connection: making a call, and taking the      *)
(* proxy and its signal handlers off it.                                   *)
UsesConnection == Call \/ DestroyBridge

(* The event loop runs no more once the manager is gone.                   *)
LifetimeNext ==
  \/ /\ DartThread \/ Cancel \/ DaemonStep
     /\ UNCHANGED connection
  \/ /\ connection = "live"
     /\ LoopThread
     /\ UNCHANGED connection
  \/ CloseClient

LifetimeSpec == LifetimeInit /\ [][LifetimeNext]_lifetimeVars

-----------------------------------------------------------------------------
(* A statement of the sources' comments that the code does not keep.       *)

(* The bridge "takes ownership of connection reference" (pk_transaction.h):*)
(* no bridge makes a call on, or takes its proxy off, a connection that    *)
(* close has freed.                                                        *)
NoUseAfterClose == [][UsesConnection => connection = "live"]_lifetimeVars
=============================================================================
