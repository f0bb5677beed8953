------------------------ MODULE PkTransactionBridge -------------------------
(***************************************************************************)
(* class PkTransactionBridge of native/src/pk_transaction.cpp behind its   *)
(* C entry points (pk_bridge.cpp), and the Dart port it posts to.          *)
(*                                                                         *)
(* Two threads run bridge code: the isolate's ("dart"), which makes the    *)
(* D-Bus calls, and sdbus's event loop ("loop"), which runs the signal     *)
(* handlers.  Both post to the same port, one message at a time, so the    *)
(* messages of one may fall between those of the other.                    *)
(***************************************************************************)
EXTENDS TransactionMessages

VARIABLES
  bridge,        \* the native handle: none, null (creation failed), live, freed
  posting,       \* per thread, the messages its current call has yet to post
  port,          \* the ReceivePort is open
  queue          \* messages posted to it and not yet handled

bridgeVars == <<bridge, posting, port, queue>>

Threads == {"dart", "loop"}

BridgeInit ==
  /\ bridge = "none"
  /\ posting = [t \in Threads |-> <<>>]
  /\ port = FALSE
  /\ queue = <<>>

BridgeTypeOK ==
  /\ bridge \in {"none", "null", "live", "freed"}
  /\ posting \in [Threads -> Seq(Messages)]
  /\ port \in BOOLEAN
  /\ queue \in Seq(Messages)

(* postFinished: 0x20 with the exit code, then the sentinel.               *)
SentinelFirst(exit) == <<SentinelMessage, FinMessage(exit)>>

PostFinished(exit) == <<FinMessage(exit), SentinelMessage>>

(* postError: an ErrorCode (item 0), then Finished(failed).                *)
ErrorUnsaid == PostFinished("failed")

PostError == <<DataMessage(0)>> \o PostFinished("failed")

(* What the handler of a signal posts: onPackage once per package of a     *)
(* batch; nothing for Destroy, or when a handler throws.                   *)
LastOfBatch(s) ==
  CASE s.form \in {"data", "batch"} -> <<DataMessage(s.items[Len(s.items)])>>
    [] s.form = "bad"               -> <<BadMessage(s.items[1])>>
    [] s.form = "finished"          -> PostFinished(s.exit)
    [] OTHER                        -> <<>>

ReversedBatch(s) ==
  CASE s.form \in {"data", "batch"} ->
         [i \in 1..Len(s.items) |-> DataMessage(s.items[Len(s.items) + 1 - i])]
    [] s.form = "bad"               -> <<BadMessage(s.items[1])>>
    [] s.form = "finished"          -> PostFinished(s.exit)
    [] OTHER                        -> <<>>

OnSignal(s) ==
  CASE s.form \in {"data", "batch"} -> [i \in DOMAIN s.items |-> DataMessage(s.items[i])]
    [] s.form = "bad"               -> <<BadMessage(s.items[1])>>
    [] s.form = "finished"          -> PostFinished(s.exit)
    [] OTHER                        -> <<>>

(* transactionCreate: a new bridge, or null when the D-Bus call fails.     *)
Create(handle) ==
  /\ bridge = "none"
  /\ bridge' = handle

(* A thread starts to post what its call has to say.                       *)
StartPosting(t, messages) ==
  /\ posting[t] = <<>>
  /\ posting' = [posting EXCEPT ![t] = messages]

(* Dart_PostCObject_DL: the message goes nowhere once the port is closed.  *)
Post(t) ==
  /\ posting[t] # <<>>
  /\ queue' = IF port THEN Append(queue, Head(posting[t])) ELSE queue
  /\ posting' = [posting EXCEPT ![t] = Tail(@)]
  /\ UNCHANGED <<bridge, port>>

(* ReceivePort.close: whatever is still queued is dropped.                 *)
ClosePort ==
  /\ port' = FALSE
  /\ queue' = <<>>

(* pk_transaction_destroy: unregister waits for the handler in progress.   *)
FreeAtOnce ==
  /\ bridge = "live"
  /\ bridge' = "freed"
  /\ UNCHANGED <<posting, port, queue>>

Free ==
  /\ bridge = "live"
  /\ posting["loop"] = <<>>
  /\ bridge' = "freed"
  /\ UNCHANGED <<posting, port, queue>>
=============================================================================
