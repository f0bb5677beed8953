---------------------------- MODULE PkTransaction ---------------------------
(***************************************************************************)
(* One transaction from PkClient._startQuery to the end of its streams:    *)
(* the Dart caller, the dispatcher, the native bridge with its two         *)
(* threads, and the daemon across the bus.                                 *)
(***************************************************************************)
EXTENDS PkDaemon, PkTransactionBridge, TransactionDispatcher, Functions

CONSTANTS
  Callers,       \* which future or stream the caller listens to first
  MaxCancels     \* bound: calls of cancel()

ASSUME CallerAssumption ==
  /\ Callers \subseteq {"result", "streams"}
  /\ MaxCancels \in Nat

VARIABLES
  pc,            \* what the isolate's thread does next
  cancels        \* calls of cancel() that reached the bridge

vars == <<daemonVars, bridgeVars, dispatcherVars, pc, cancels>>

Init ==
  /\ DaemonInit
  /\ BridgeInit
  /\ DispatcherInit
  /\ awaiting \in {caller = "result" : caller \in Callers}
  /\ pc = "start"
  /\ cancels = 0

-----------------------------------------------------------------------------
(* The isolate's thread.                                                   *)

(* transactionCreate returns a handle: port, bridge and signal handlers    *)
(* are there before the first call.                                        *)
CreateSucceeds ==
  /\ pc = "start"
  /\ NewTransaction
  /\ Create("live")
  /\ port' = TRUE
  /\ pc' = "hints"
  /\ UNCHANGED <<posting, queue, dispatcherVars, cancels>>

(* transactionCreate returns null: closeAll, then done.completeError.      *)
CreateFails ==
  /\ pc = "start"
  /\ Create("null")
  /\ finished' = TRUE
  /\ done' = "unavailable"
  /\ microtasks' = <<"report">> \o (IF awaiting THEN <<>> ELSE <<"listen">>)
  /\ pc' = "idle"
  /\ UNCHANGED <<daemonVars, posting, port, queue, seen, awaiting, uncaught, cancels>>

Following(op) == IF op = "hints" THEN "invoke" ELSE "idle"

(* setHints, the method itself, or cancel: a synchronous D-Bus call.       *)
Call ==
  /\ pc \in Requests
  /\ posting["dart"] = <<>>
  /\ Request(pc)
  /\ UNCHANGED <<bridgeVars, dispatcherVars, pc, cancels>>

CallReturns ==
  /\ pc \in Requests
  /\ Replied("ok")
  /\ pc' = Following(pc)
  /\ UNCHANGED <<bridgeVars, dispatcherVars, cancels>>

(* PK_TX_TRY: an sdbus::Error becomes postError, and the code goes on.     *)
CallRetries ==
  /\ pc \in Requests
  /\ Replied("error")
  /\ UNCHANGED <<bridgeVars, dispatcherVars, pc, cancels>>

CallThrowsUnsaid ==
  /\ pc \in Requests
  /\ Replied("error") \/ TimedOut
  /\ pc' = Following(pc)
  /\ UNCHANGED <<bridgeVars, dispatcherVars, cancels>>

CallThrows ==
  /\ pc \in Requests
  /\ Replied("error") \/ TimedOut
  /\ StartPosting("dart", PostError)
  /\ pc' = Following(pc)
  /\ UNCHANGED <<bridge, port, queue, dispatcherVars, cancels>>

PostFromDart ==
  /\ Post("dart")
  /\ UNCHANGED <<daemonVars, dispatcherVars, pc, cancels>>

(* A turn of the event loop of the isolate starts when the last has ended. *)
AtRest == pc = "idle" /\ posting["dart"] = <<>>

(* The listener on the port: dispatch, and closeAll once finished is set.  *)
(* The close that the sentinel schedules has not run when the listener     *)
(* tests finished.                                                         *)
CloseAll ==
  /\ ClosePort
  /\ pc' = "destroy"

HandleMessage ==
  /\ AtRest
  /\ microtasks = <<>>
  /\ queue # <<>>
  /\ Dispatch(Head(queue))
  /\ IF finished
       THEN CloseAll
       ELSE queue' = Tail(queue) /\ UNCHANGED <<port, pc>>
  /\ UNCHANGED <<daemonVars, bridge, posting, cancels>>

Microtask ==
  /\ AtRest
  /\ RunMicrotask
  /\ UNCHANGED <<daemonVars, bridgeVars, pc, cancels>>

DestroyBridge ==
  /\ pc = "destroy"
  /\ Free
  /\ pc' = "idle"
  /\ UNCHANGED <<daemonVars, dispatcherVars, cancels>>

(* PkTransaction.cancel, by the application at any turn.                   *)
CancelAnyTime ==
  /\ AtRest
  /\ cancels < MaxCancels
  /\ cancels' = cancels + 1
  /\ pc' = "cancel"
  /\ UNCHANGED <<daemonVars, bridgeVars, dispatcherVars>>

Cancel ==
  /\ AtRest
  /\ ~finished
  /\ cancels < MaxCancels
  /\ cancels' = cancels + 1
  /\ pc' = "cancel"
  /\ UNCHANGED <<daemonVars, bridgeVars, dispatcherVars>>

-----------------------------------------------------------------------------
(* The event loop's thread: sdbus runs the handlers of a registered proxy, *)
(* one signal at a time.                                                   *)
TakeSignal ==
  /\ bridge = "live"
  /\ wire # <<>>
  /\ StartPosting("loop", OnSignal(Head(wire)))
  /\ wire' = Tail(wire)
  /\ UNCHANGED <<daemon, inbox, call, emitted, daemonExit, bridge, port, queue,
                 dispatcherVars, pc, cancels>>

PostFromLoop ==
  /\ Post("loop")
  /\ UNCHANGED <<daemonVars, dispatcherVars, pc, cancels>>

-----------------------------------------------------------------------------
DaemonStep == DaemonTurn /\ UNCHANGED <<bridgeVars, dispatcherVars, pc, cancels>>

DaemonAnswers == (Accept \/ Refuse) /\ UNCHANGED <<bridgeVars, dispatcherVars, pc, cancels>>

DaemonFinishes ==
  /\ \E exit \in DaemonExits : Finish(exit)
  /\ UNCHANGED <<bridgeVars, dispatcherVars, pc, cancels>>

DartThread ==
  \/ CreateSucceeds \/ CreateFails
  \/ Call \/ CallReturns \/ CallThrows
  \/ PostFromDart
  \/ HandleMessage \/ Microtask
  \/ DestroyBridge

LoopThread == TakeSignal \/ PostFromLoop

Next == DartThread \/ Cancel \/ LoopThread \/ DaemonStep

(* Both threads run while they have work; the application need not cancel. *)
(* External: the daemon answers each request and finishes what it runs.    *)
Fairness ==
  /\ WF_vars(DartThread)
  /\ WF_vars(LoopThread)
  /\ WF_vars(DaemonAnswers)
  /\ WF_vars(DaemonFinishes)

SafetySpec == Init /\ [][Next]_vars

Spec == SafetySpec /\ Fairness

-----------------------------------------------------------------------------
(* Invariants.                                                             *)

(* Every variable has its type, across both languages and the bus: result  *)
(* only ever shows a value of PkExit or an error the code completes with.  *)
TypeOK ==
  /\ DaemonTypeOK
  /\ BridgeTypeOK
  /\ DispatcherTypeOK
  /\ pc \in Requests \cup {"start", "idle", "destroy"}
  /\ cancels \in 0..MaxCancels

(* A result of success is the daemon's own: no error of the bridge, no     *)
(* unknown exit code and no race of the two threads produces one.          *)
NoFalseSuccess == done = "success" => daemonExit = "success"

(* When result reports success, the streams have delivered every item the  *)
(* daemon sent, but those whose native handler threw (Details with a       *)
(* value of another type: onDetails loses the whole signal).               *)
CompleteOnSuccess ==
  done = "success" =>
    \A i \in DOMAIN emitted : emitted[i] # "mistyped" => i \in Range(seen)

(* The streams end only after result has completed: a caller that drains   *)
(* a stream and then awaits result never awaits a future nobody completes. *)
StreamsEndAfterResult == finished => done # "pending"

(* A D-Bus call or signal handler only ever runs on a bridge that has not  *)
(* been freed (the destructor of pk_transaction.cpp, the guard of cancel). *)
BridgeCallsAreLive ==
  (call # "none" \/ posting["dart"] # <<>> \/ posting["loop"] # <<>>) => bridge = "live"

(* When result shows an exit the daemon did not send, the errors stream    *)
(* has already said why (postError posts the ErrorCode first).             *)
SyntheticExitIsExplained ==
  done \in KnownExits /\ done # FromInt(daemonExit) => 0 \in Range(seen)

(* Each item is delivered at most once, and in the order it was sent,      *)
(* whatever the bridge's own errors fall between.                          *)
OrderedDelivery ==
  \A i, j \in DOMAIN seen : i < j /\ seen[j] # 0 => seen[i] < seen[j]

-----------------------------------------------------------------------------
(* Refinement and liveness.                                                *)

Contract == INSTANCE TransactionContract WITH
  Events <- {0} \cup Items, Results <- Outcomes,
  events <- seen, result <- done, ended <- finished

(* The whole chain implements what class PkTransaction promises: the       *)
(* streams, the result and their ends, however the threads interleave.     *)
ImplementsContract == Contract!ContractSafety

(* With fair threads and a daemon that stays up it also keeps the promises *)
(* of progress: result completes and the streams end, refused calls, time  *)
(* outs, undecodable payloads and lost signals included.                   *)
KeepsContract == Contract!ContractSpec

(* An isolate that is inside the bridge (a call, or the destructor that    *)
(* waits for a handler) comes back: the thread is never stuck there.       *)
DartThreadReturns == pc \in {"hints", "invoke", "cancel", "destroy"} ~> AtRest

-----------------------------------------------------------------------------
(* Statements of the sources' comments that the code does not keep.        *)

(* "Completes with the transaction result, or throws": not when the daemon *)
(* dies, as nobody watches its name on the bus.                            *)
ResultCompletes == <>(done # "pending")

(* "The Dart layer will drop the bridge after receiving the sentinel."     *)
BridgeIsDropped == finished ~> bridge # "live"

(* example/install.dart catches the failure of a transaction around its    *)
(* `await tx.result`, after it has drained a stream: no error of result is *)
(* left without a listener.                                                *)
ErrorsAreCaught == ~uncaught
=============================================================================
