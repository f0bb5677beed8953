----------------------- MODULE TransactionDispatcher ------------------------
(***************************************************************************)
(* class TransactionDispatcher (lib/src/internal/dispatcher.dart): the     *)
(* stream controllers as one stream, the completer `done`, and the         *)
(* microtasks that run between two port messages.                          *)
(*                                                                         *)
(* The eleven controllers are closed together and each message goes to     *)
(* one of them, so one history of delivered items stands for all.          *)
(***************************************************************************)
EXTENDS TransactionMessages

VARIABLES
  finished,      \* close() has run
  done,          \* "pending", an exit, "decodeError" or "unavailable"
  seen,          \* the items added to the streams
  microtasks,    \* scheduled microtasks: close, report, listen
  awaiting,      \* the caller listens to `result`
  uncaught       \* an error was completed that nobody listened for

dispatcherVars == <<finished, done, seen, microtasks, awaiting, uncaught>>

DispatcherInit ==
  /\ finished = FALSE
  /\ done = "pending"
  /\ seen = <<>>
  /\ microtasks = <<>>
  /\ uncaught = FALSE

Outcomes == KnownExits \cup {"decodeError", "unavailable"}

Tasks == {"close", "report", "listen"}

DispatcherTypeOK ==
  /\ finished \in BOOLEAN
  /\ done \in Outcomes \cup {"pending"}
  /\ seen \in Seq({0} \cup Items)
  /\ microtasks \in Seq(Tasks)
  /\ awaiting \in BOOLEAN
  /\ uncaught \in BOOLEAN

Completed == done # "pending"

(* completeError schedules the report of the error to its listeners.       *)
CompleteAgain(outcome) ==
  /\ done' = outcome
  /\ microtasks' = IF outcome = "success" THEN microtasks ELSE Append(microtasks, "report")

CompleteWith(outcome) ==
  /\ done' = IF Completed THEN done ELSE outcome
  /\ microtasks' = IF Completed \/ outcome = "success"
                     THEN microtasks ELSE Append(microtasks, "report")

ScheduleClose ==
  /\ microtasks' = Append(microtasks, "close")
  /\ UNCHANGED <<finished, done, seen, awaiting, uncaught>>

(* The catch clause of dispatch: a payload that does not decode, or a      *)
(* stream that is closed.                                                  *)
FailDispatch ==
  /\ done' = IF Completed THEN done ELSE "decodeError"
  /\ microtasks' = microtasks \o (IF Completed THEN <<"close">> ELSE <<"report", "close">>)
  /\ UNCHANGED <<finished, seen, awaiting, uncaught>>

Add(item) ==
  /\ seen' = Append(seen, item)
  /\ UNCHANGED <<finished, done, microtasks, awaiting, uncaught>>

(* dispatch of one port message.                                           *)
Dispatch(m) ==
  CASE m.kind = "data" /\ ~finished -> Add(m.item)
    [] m.kind = "data" /\ finished  -> FailDispatch
    [] m.kind = "bad"               -> FailDispatch
    [] m.kind = "fin"               -> /\ CompleteWith(FromInt(m.exit))
                                       /\ UNCHANGED <<finished, seen, awaiting, uncaught>>
    [] m.kind = "sentinel"          -> ScheduleClose

(* The microtasks of the code and its caller: close() ends the streams;    *)
(* report raises an error that has no listener; listen is the caller that  *)
(* reads a stream to its end before it awaits `result`.                    *)
RunMicrotask ==
  /\ microtasks # <<>>
  /\ LET task == Head(microtasks) IN
     /\ finished' = (finished \/ task = "close")
     /\ uncaught' = (uncaught \/ (task = "report" /\ ~awaiting))
     /\ awaiting' = (awaiting \/ task = "listen")
     /\ microtasks' = Tail(microtasks) \o
          (IF task = "close" /\ ~awaiting THEN <<"listen">> ELSE <<>>)
  /\ UNCHANGED <<done, seen>>
=============================================================================
