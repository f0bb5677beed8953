------------------------ MODULE PkTransaction_proofs ------------------------
(***************************************************************************)
(* Proofs about PkTransaction, for every bound, fault set and caller.      *)
(*                                                                         *)
(* TypeOK is inductive.  LifeInv says which steps of _startQuery leave     *)
(* the native bridge alive; EndInv follows a Finished message from the     *)
(* thread that posts it through the port to the completer; ExitInv follows *)
(* the exit code of the daemon the same way.                               *)
(*                                                                         *)
(* The second part is about what the streams have delivered when the       *)
(* result is known.  A message is on its way from the wire over a thread's *)
(* posting and the queue to the dispatcher, and each invariant follows it  *)
(* there: ExplainInv the end that the bridge makes up, CompleteInv the     *)
(* items of the daemon, OrderInv their order.                              *)
(***************************************************************************)
EXTENDS PkTransaction, SequenceTheorems, TLAPS

(* The bridge lives from its creation to the end of closeAll.              *)
LifeInv ==
  /\ pc = "start" <=> bridge = "none"
  /\ pc = "start" => ~finished /\ ~port /\ done = "pending" /\ seen = <<>> /\ microtasks = <<>>
  /\ pc \in Requests => bridge = "live"
  /\ pc = "destroy" => finished /\ ~port /\ bridge = "live" /\ posting["dart"] = <<>>
  /\ bridge \in {"null", "freed"} => finished /\ ~port
  /\ ~port => queue = <<>>
  /\ bridge = "live" => port \/ pc = "destroy"
  /\ call # "none" => pc \in Requests
  /\ \A t \in Threads : posting[t] # <<>> => bridge = "live"

HasFin(s)       == \E i \in DOMAIN s : s[i].kind = "fin"
FinPrecedes(s, i) == \E j \in 1..(i - 1) : s[j].kind = "fin"

(* Before every sentinel comes a Finished message, or the result is known. *)
EndInv ==
  /\ finished => Completed
  /\ \A i \in DOMAIN microtasks : microtasks[i] = "close" => Completed
  /\ \A i \in DOMAIN queue :
       queue[i].kind = "sentinel" => Completed \/ FinPrecedes(queue, i)
  /\ \A t \in Threads : \A i \in DOMAIN posting[t] :
       posting[t][i].kind = "sentinel" =>
         Completed \/ HasFin(queue) \/ FinPrecedes(posting[t], i)

(* Whatever says success anywhere says it because the daemon did.          *)
ExitInv ==
  /\ daemon \in {"none", "new", "running"} => daemonExit = NoExit
  /\ \A i \in DOMAIN wire : wire[i].exit = "success" => daemonExit = "success"
  /\ \A t \in Threads : \A i \in DOMAIN posting[t] :
       posting[t][i].exit = "success" => daemonExit = "success"
  /\ \A i \in DOMAIN queue : queue[i].exit = "success" => daemonExit = "success"
  /\ done = "success" => daemonExit = "success"

-----------------------------------------------------------------------------
(* What the two threads post is well-typed.                                *)

(* postError makes messages: an ErrorCode, Finished and the sentinel.      *)
LEMMA PostErrorType ==
  /\ PostError \in Seq(Messages)
  /\ Len(PostError) = 3
  /\ PostError[1] = DataMessage(0)
  /\ PostError[2] = FinMessage("failed")
  /\ PostError[3] = SentinelMessage
<1>1. /\ DataMessage(0) \in Messages
      /\ FinMessage("failed") \in Messages
      /\ SentinelMessage \in Messages
  BY DEF DataMessage, FinMessage, SentinelMessage, Message, Messages, AnyExit, KnownExits
<1> DEFINE first == <<DataMessage(0)>>
           rest == PostFinished("failed")
<1>2. /\ first \in Seq(Messages) /\ Len(first) = 1 /\ first[1] = DataMessage(0)
      /\ rest \in Seq(Messages) /\ Len(rest) = 2
      /\ rest[1] = FinMessage("failed") /\ rest[2] = SentinelMessage
  BY <1>1 DEF PostFinished
<1> HIDE DEF first, rest
<1>3. /\ first \o rest \in Seq(Messages)
      /\ Len(first \o rest) = Len(first) + Len(rest)
      /\ \A i \in 1..Len(first) + Len(rest) :
           (first \o rest)[i] = IF i <= Len(first) THEN first[i] ELSE rest[i - Len(first)]
  <2>1. first \in Seq(Messages) /\ rest \in Seq(Messages)
    BY <1>2
  <2> QED BY <2>1, ConcatProperties, Zenon
<1>4. PostError = first \o rest
  BY DEF PostError, first, rest
<1> QED BY <1>2, <1>3, <1>4

(* A handler turns any signal into messages.                               *)
LEMMA OnSignalType == \A s \in Signals : OnSignal(s) \in Seq(Messages)
<1> SUFFICES ASSUME NEW s \in Signals PROVE OnSignal(s) \in Seq(Messages)
  OBVIOUS
<1>1. CASE s.form \in {"data", "batch"}
  <2>0. s.items \in Seq(Items)
    BY DEF Signals
  <2>1. \A i \in DOMAIN s.items : DataMessage(s.items[i]) \in Messages
    <3>1. \A i \in DOMAIN s.items : s.items[i] \in Items
      BY <2>0
    <3> QED BY <3>1 DEF DataMessage, Message, Messages, AnyExit
  <2>2. [i \in DOMAIN s.items |-> DataMessage(s.items[i])] \in Seq(Messages)
    BY <2>1 DEF Signals
  <2> QED BY <1>1, <2>2 DEF OnSignal
<1>2. CASE s.form = "bad"
  <2>1. s.items # <<>> /\ s.items \in Seq(Items)
    BY <1>2 DEF Signals, Forms
  <2>2. s.items[1] \in Items
    BY <2>1
  <2> QED BY <1>2, <2>2 DEF OnSignal, BadMessage, Message, Messages, AnyExit
<1>3. CASE s.form = "finished"
  <2>1. FinMessage(s.exit) \in Messages /\ SentinelMessage \in Messages
    BY DEF Signals, FinMessage, SentinelMessage, Message, Messages, AnyExit
  <2> QED BY <1>3, <2>1 DEF OnSignal, PostFinished
<1>4. CASE s.form \notin {"data", "batch", "bad", "finished"}
  BY <1>4 DEF OnSignal
<1> QED BY <1>1, <1>2, <1>3, <1>4

(* The fallback of PkExit.fromInt makes every exit code a PkExit.          *)
LEMMA FromIntType == \A e : FromInt(e) \in KnownExits /\ (FromInt(e) = "success" => e = "success")
BY DEF FromInt, KnownExits

-----------------------------------------------------------------------------
(* Type correctness, component by component.                               *)

(* The daemon keeps its types whatever it does.                            *)
LEMMA DaemonTurnType ==
  ASSUME DaemonTypeOK, DaemonTurn PROVE DaemonTypeOK'
<1> USE DaemonAssumption, MessageAssumption DEF DaemonTypeOK
<1>1. CASE Accept
  BY <1>1 DEF Accept, Answer
<1>2. CASE Refuse
  BY <1>2 DEF Refuse, Answer
<1>3. ASSUME NEW form \in DaemonForms, Emit(form) PROVE DaemonTypeOK'
  <2> DEFINE n == Len(emitted)
             size == IF form = "batch" THEN 2 ELSE 1
             items == [i \in 1..size |-> n + i]
  <2>1. n \in Nat /\ size \in 1..2 /\ n + size <= MaxItems
    BY <1>3 DEF Emit
  <2>2. items \in Seq(Items) /\ items # <<>>
    <3> HIDE DEF n, size
    <3>1. \A i \in 1..size : n + i \in Items
      BY <2>1 DEF Items
    <3> QED BY <2>1, <3>1, SMT
  <2>3. Signal(form, items, NoExit) \in Signals
    BY <2>2 DEF Signal, Signals, AnyExit
  <2>4. wire' = Append(wire, Signal(form, items, NoExit))
    BY <1>3 DEF Emit
  <2>5. wire' \in Seq(Signals)
    BY <2>3, <2>4
  <2>6. [i \in 1..size |-> form] \in Seq(Forms)
    BY <2>1
  <2>7. emitted' = emitted \o [i \in 1..size |-> form]
    BY <1>3 DEF Emit
  <2>8. emitted' \in Seq(Forms)
    BY <2>6, <2>7
  <2> QED BY <1>3, <2>5, <2>8 DEF Emit
<1>4. ASSUME NEW exit \in DaemonExits, Finish(exit) PROVE DaemonTypeOK'
  <2>1. Signal("finished", <<>>, exit) \in Signals
    BY DEF Signal, Signals, AnyExit, Forms
  <2> QED BY <1>4, <2>1 DEF Finish
<1>5. CASE Destroy
  <2>1. Signal("destroy", <<>>, NoExit) \in Signals
    BY DEF Signal, Signals, AnyExit, Forms
  <2> QED BY <1>5, <2>1 DEF Destroy
<1>6. CASE Crash
  BY <1>6 DEF Crash
<1> QED BY <1>1, <1>2, <1>3, <1>4, <1>5, <1>6 DEF DaemonTurn

(* The microtasks a step schedules are tasks.                              *)
LEMMA TaskSequences ==
  /\ \A b \in BOOLEAN : (IF b THEN <<>> ELSE <<"listen">>) \in Seq(Tasks)
  /\ \A b \in BOOLEAN : (IF b THEN <<"close">> ELSE <<"report", "close">>) \in Seq(Tasks)
  /\ <<"report">> \in Seq(Tasks)
<1>1. "close" \in Tasks /\ "report" \in Tasks /\ "listen" \in Tasks
  BY DEF Tasks
<1>2. \A x, y \in Tasks : <<>> \in Seq(Tasks) /\ <<x>> \in Seq(Tasks) /\ <<x, y>> \in Seq(Tasks)
  OBVIOUS
<1>3. /\ <<>> \in Seq(Tasks) /\ <<"listen">> \in Seq(Tasks)
      /\ <<"close">> \in Seq(Tasks) /\ <<"report", "close">> \in Seq(Tasks)
  BY <1>1, <1>2, Zenon
<1>4. <<"report">> \in Seq(Tasks)
  BY <1>1, <1>2, Zenon
<1> QED BY <1>3, <1>4, Zenon

(* The branches of dispatch, and its catch clause.                         *)
LEMMA DispatchCases ==
  ASSUME NEW m \in Messages, Dispatch(m)
  PROVE  \/ m.kind = "data" /\ ~finished /\ Add(m.item)
         \/ m.kind \in {"data", "bad"} /\ FailDispatch
         \/ /\ m.kind = "fin"
            /\ CompleteWith(FromInt(m.exit))
            /\ UNCHANGED <<finished, seen, awaiting, uncaught>>
         \/ m.kind = "sentinel" /\ ScheduleClose
BY DEF Dispatch, Messages

(* Dispatching a well-typed message keeps the dispatcher's types.          *)
LEMMA DispatchType ==
  ASSUME DispatcherTypeOK, NEW m \in Messages, Dispatch(m) PROVE DispatcherTypeOK'
<1> USE DEF DispatcherTypeOK, Outcomes
<1>1. CASE m.kind = "data" /\ ~finished
  <2>1. m.item \in {0} \cup Items
    BY DEF Messages
  <2>2. Add(m.item)
    BY <1>1 DEF Dispatch
  <2> QED BY <2>1, <2>2 DEF Add
<1>2. CASE m.kind = "bad" \/ (m.kind = "data" /\ finished)
  <2>1. FailDispatch
    BY <1>2 DEF Dispatch
  <2> DEFINE w == IF Completed THEN <<"close">> ELSE <<"report", "close">>
  <2>2. w \in Seq(Tasks)
    BY TaskSequences DEF Completed
  <2>3. microtasks' = microtasks \o w
    BY <2>1 DEF FailDispatch
  <2>4. microtasks' \in Seq(Tasks)
    <3> HIDE DEF w
    <3> QED BY <2>2, <2>3
  <2> QED BY <2>1, <2>4 DEF FailDispatch
<1>3. CASE m.kind = "fin"
  <2>1. CompleteWith(FromInt(m.exit)) /\ UNCHANGED <<finished, seen, awaiting, uncaught>>
    BY <1>3 DEF Dispatch
  <2>2. FromInt(m.exit) \in KnownExits
    BY FromIntType
  <2>3. done' \in Outcomes \cup {"pending"}
    BY <2>1, <2>2 DEF CompleteWith
  <2>4. microtasks' = microtasks \/ microtasks' = Append(microtasks, "report")
    BY <2>1 DEF CompleteWith
  <2>5. microtasks' \in Seq(Tasks)
    BY <2>4 DEF Tasks
  <2> QED BY <2>1, <2>3, <2>5
<1>4. CASE m.kind = "sentinel"
  <2>1. ScheduleClose
    BY <1>4 DEF Dispatch
  <2>2. microtasks' \in Seq(Tasks)
    BY <2>1 DEF ScheduleClose, Tasks
  <2> QED BY <2>1, <2>2 DEF ScheduleClose
<1> QED BY <1>1, <1>2, <1>3, <1>4 DEF Messages

(* A microtask keeps them too.                                             *)
LEMMA MicrotaskType ==
  ASSUME DispatcherTypeOK, RunMicrotask PROVE DispatcherTypeOK'
<1> DEFINE more == IF Head(microtasks) = "close" /\ ~awaiting THEN <<"listen">> ELSE <<>>
<1>1. microtasks \in Seq(Tasks) /\ microtasks # <<>>
  BY DEF DispatcherTypeOK, RunMicrotask
<1>2. Tail(microtasks) \in Seq(Tasks) /\ more \in Seq(Tasks)
  <2>1. Tail(microtasks) \in Seq(Tasks)
    BY <1>1
  <2>2. more = IF ~(Head(microtasks) = "close" /\ ~awaiting) THEN <<>> ELSE <<"listen">>
    OBVIOUS
  <2> QED BY <2>1, <2>2, TaskSequences
<1>3. microtasks' = Tail(microtasks) \o more
  BY DEF RunMicrotask
<1>4. microtasks' \in Seq(Tasks)
  <2> HIDE DEF more
  <2> QED BY <1>2, <1>3
<1> QED BY <1>4 DEF DispatcherTypeOK, RunMicrotask

(* Every step keeps every type.                                            *)
LEMMA TypeStep ==
  ASSUME TypeOK, [Next]_vars PROVE TypeOK'
<1> USE CallerAssumption DEF TypeOK
<1>1. CASE CreateSucceeds
  BY <1>1 DEF CreateSucceeds, NewTransaction, Create, DaemonTypeOK, BridgeTypeOK,
     DispatcherTypeOK, dispatcherVars, Requests
<1>2. CASE CreateFails
  <2>1. microtasks' \in Seq(Tasks)
    <3> DEFINE w == IF awaiting THEN <<>> ELSE <<"listen">>
    <3>1. w \in Seq(Tasks) /\ <<"report">> \in Seq(Tasks)
      BY TaskSequences DEF DispatcherTypeOK
    <3>2. microtasks' = <<"report">> \o w
      BY <1>2 DEF CreateFails
    <3> QED BY <3>1, <3>2, ConcatProperties, Zenon
  <2> QED BY <1>2, <2>1 DEF CreateFails, Create, daemonVars, DaemonTypeOK, BridgeTypeOK,
       DispatcherTypeOK, Outcomes
<1>3. CASE Call
  BY <1>3 DEF Call, Request, bridgeVars, dispatcherVars, DaemonTypeOK, BridgeTypeOK,
     DispatcherTypeOK, Requests
<1>4. CASE CallReturns
  BY <1>4 DEF CallReturns, Replied, Following, bridgeVars, dispatcherVars, DaemonTypeOK,
     BridgeTypeOK, DispatcherTypeOK, Requests
<1>5. CASE CallThrows
  <2>1. DaemonTypeOK'
    BY <1>5 DEF CallThrows, Replied, TimedOut, DaemonTypeOK
  <2>2. BridgeTypeOK'
    BY <1>5, PostErrorType DEF CallThrows, StartPosting, BridgeTypeOK, Threads
  <2>3. DispatcherTypeOK' /\ cancels' = cancels
    BY <1>5 DEF CallThrows, dispatcherVars, DispatcherTypeOK
  <2>4. pc' \in Requests \cup {"start", "idle", "destroy"}
    BY <1>5 DEF CallThrows, Following, Requests
  <2> QED BY <2>1, <2>2, <2>3, <2>4
<1>6. CASE PostFromDart \/ PostFromLoop
  <2>1. ASSUME NEW t \in Threads, Post(t) PROVE BridgeTypeOK'
    <3>1. posting[t] \in Seq(Messages) /\ posting[t] # <<>>
      BY <2>1 DEF Post, BridgeTypeOK
    <3>2. Head(posting[t]) \in Messages /\ Tail(posting[t]) \in Seq(Messages)
      BY <3>1
    <3>3. queue' \in Seq(Messages)
      BY <2>1, <3>2 DEF Post, BridgeTypeOK
    <3>4. posting' \in [Threads -> Seq(Messages)]
      BY <2>1, <3>2 DEF Post, BridgeTypeOK
    <3> QED BY <2>1, <3>3, <3>4 DEF Post, BridgeTypeOK
  <2>2. BridgeTypeOK'
    BY <1>6, <2>1 DEF PostFromDart, PostFromLoop, Threads
  <2> QED BY <1>6, <2>2 DEF PostFromDart, PostFromLoop, daemonVars, dispatcherVars,
       DaemonTypeOK, DispatcherTypeOK
<1>7. CASE HandleMessage
  <2>1. Head(queue) \in Messages /\ Tail(queue) \in Seq(Messages)
    BY <1>7 DEF HandleMessage, BridgeTypeOK
  <2>2. DispatcherTypeOK'
    BY <1>7, <2>1, DispatchType DEF HandleMessage
  <2>3. <<>> \in Seq(Messages)
    OBVIOUS
  <2>4. BridgeTypeOK' /\ pc' \in {pc, "destroy"}
    BY <1>7, <2>1, <2>3 DEF HandleMessage, CloseAll, ClosePort, BridgeTypeOK
  <2> QED BY <1>7, <2>2, <2>4 DEF HandleMessage, daemonVars, DaemonTypeOK
<1>8. CASE Microtask
  BY <1>8, MicrotaskType DEF Microtask, daemonVars, bridgeVars, DaemonTypeOK, BridgeTypeOK
<1>9. CASE DestroyBridge
  BY <1>9 DEF DestroyBridge, Free, daemonVars, dispatcherVars, DaemonTypeOK, BridgeTypeOK,
     DispatcherTypeOK
<1>10. CASE Cancel
  BY <1>10 DEF Cancel, daemonVars, bridgeVars, dispatcherVars, DaemonTypeOK, BridgeTypeOK,
     DispatcherTypeOK, Requests
<1>11. CASE TakeSignal
  <2>1. Head(wire) \in Signals /\ Tail(wire) \in Seq(Signals)
    BY <1>11 DEF TakeSignal, DaemonTypeOK
  <2>2. OnSignal(Head(wire)) \in Seq(Messages)
    BY <2>1, OnSignalType
  <2>3. BridgeTypeOK'
    BY <1>11, <2>2 DEF TakeSignal, StartPosting, BridgeTypeOK
  <2> QED BY <1>11, <2>1, <2>3 DEF TakeSignal, dispatcherVars, DaemonTypeOK, DispatcherTypeOK
<1>12. CASE DaemonStep
  BY <1>12, DaemonTurnType DEF DaemonStep, bridgeVars, dispatcherVars, BridgeTypeOK,
     DispatcherTypeOK
<1>13. CASE UNCHANGED vars
  BY <1>13 DEF vars, daemonVars, bridgeVars, dispatcherVars, DaemonTypeOK, BridgeTypeOK,
     DispatcherTypeOK
<1> QED BY <1>1, <1>2, <1>3, <1>4, <1>5, <1>6, <1>7, <1>8, <1>9, <1>10, <1>11, <1>12, <1>13
    DEF Next, DartThread, LoopThread

(* TypeOK holds of every transaction, whatever the bounds and the faults.  *)
THEOREM TypeCorrect == SafetySpec => []TypeOK
<1>1. Init => TypeOK
  <2> SUFFICES ASSUME Init PROVE TypeOK
    OBVIOUS
  <2>1. DaemonTypeOK
    BY DEF Init, DaemonInit, DaemonTypeOK
  <2>2. BridgeTypeOK
    <3>1. <<>> \in Seq(Messages)
      OBVIOUS
    <3> QED BY <3>1 DEF Init, BridgeInit, BridgeTypeOK
  <2>3. DispatcherTypeOK
    <3>1. <<>> \in Seq({0} \cup Items) /\ <<>> \in Seq(Tasks)
      OBVIOUS
    <3>2. awaiting \in BOOLEAN
      BY DEF Init
    <3> QED BY <3>1, <3>2 DEF Init, DispatcherInit, DispatcherTypeOK
  <2> QED BY <2>1, <2>2, <2>3, CallerAssumption DEF Init, TypeOK
<1>2. TypeOK /\ [Next]_vars => TypeOK'
  BY TypeStep
<1> QED BY <1>1, <1>2, PTL DEF SafetySpec

-----------------------------------------------------------------------------
(* The life of the bridge.                                                 *)

(* No step of the isolate, the event loop or the daemon breaks LifeInv.    *)
LEMMA LifeStep ==
  ASSUME TypeOK, LifeInv, [Next]_vars PROVE LifeInv'
<1> USE DEF Requests, Threads
<1>0. posting \in [Threads -> Seq(Messages)]
  BY DEF TypeOK, BridgeTypeOK
<1>1. CASE CreateSucceeds
  BY <1>1 DEF LifeInv, CreateSucceeds, NewTransaction, Create, dispatcherVars
<1>2. CASE CreateFails
  BY <1>2 DEF LifeInv, CreateFails, Create, daemonVars
<1>3. CASE Call
  BY <1>3 DEF LifeInv, Call, Request, bridgeVars, dispatcherVars
<1>4. CASE CallReturns
  BY <1>4 DEF LifeInv, CallReturns, Replied, Following, bridgeVars, dispatcherVars
<1>5. CASE CallThrows
  <2>1. pc \in Requests /\ bridge = "live" /\ bridge' = "live"
    BY <1>5 DEF LifeInv, CallThrows
  <2>2. call' = "none" /\ pc' \in {"invoke", "idle"}
    BY <1>5 DEF CallThrows, Replied, TimedOut, Following
  <2>3. port
    BY <2>1 DEF LifeInv
  <2> QED BY <1>5, <2>1, <2>2, <2>3 DEF LifeInv, CallThrows, dispatcherVars
<1>6. ASSUME NEW t \in Threads, Post(t), UNCHANGED <<daemonVars, dispatcherVars, pc, cancels>>
      PROVE LifeInv'
  <2>1. /\ posting[t] # <<>>
        /\ bridge' = bridge /\ port' = port
        /\ \A u \in Threads : posting'[u] = IF u = t THEN Tail(posting[u]) ELSE posting[u]
    BY <1>0, <1>6 DEF Post
  <2>2. bridge = "live"
    BY <2>1 DEF LifeInv
  <2>3. pc = "destroy" => t # "dart"
    BY <2>1 DEF LifeInv
  <2>4. pc = "destroy" => posting'["dart"] = <<>>
    BY <2>1, <2>3 DEF LifeInv
  <2>5. ~port' => queue' = <<>>
    BY <1>6 DEF Post, LifeInv
  <2>6. UNCHANGED <<pc, finished, done, seen, microtasks, call, bridge, port>>
    BY <1>6, <2>1 DEF daemonVars, dispatcherVars
  <2> QED BY <2>2, <2>4, <2>5, <2>6 DEF LifeInv
<1>7. CASE HandleMessage
  <2>1. pc = "idle" /\ posting["dart"] = <<>> /\ bridge' = bridge /\ posting' = posting /\ call' = call
    BY <1>7 DEF HandleMessage, AtRest, daemonVars
  <2>2. finished' = finished
    <3>1. Head(queue) \in Messages /\ Dispatch(Head(queue))
      BY <1>7 DEF HandleMessage, TypeOK, BridgeTypeOK
    <3> QED BY <3>1, DispatchCases DEF Add, FailDispatch, ScheduleClose
  <2>3. CASE finished
    <3>1. port' = FALSE /\ queue' = <<>> /\ pc' = "destroy"
      BY <1>7, <2>3 DEF HandleMessage, CloseAll, ClosePort
    <3>2. bridge = "live"
      <4>1. queue # <<>>
        BY <1>7 DEF HandleMessage
      <4>2. port
        BY <4>1 DEF LifeInv
      <4> QED BY <4>2, <2>1 DEF LifeInv, TypeOK, BridgeTypeOK
    <3> QED BY <2>1, <2>2, <2>3, <3>1, <3>2 DEF LifeInv
  <2>4. CASE ~finished
    <3>1. port' = port /\ pc' = pc
      BY <1>7, <2>4 DEF HandleMessage
    <3>2. port
      BY <1>7 DEF HandleMessage, LifeInv
    <3> QED BY <2>1, <2>2, <2>4, <3>1, <3>2 DEF LifeInv
  <2> QED BY <2>3, <2>4

<1>8. CASE Microtask
  <2>1. pc = "idle" /\ (finished => finished')
    BY <1>8 DEF Microtask, AtRest, RunMicrotask
  <2> QED BY <1>8, <2>1 DEF LifeInv, Microtask, daemonVars, bridgeVars
<1>9. CASE DestroyBridge
  BY <1>9, <1>0 DEF LifeInv, DestroyBridge, Free, daemonVars, dispatcherVars
<1>10. CASE Cancel
  <2>1. pc = "idle" /\ ~finished /\ pc' = "cancel"
    BY <1>10 DEF Cancel, AtRest
  <2>2. bridge = "live"
    BY <2>1 DEF LifeInv, TypeOK, BridgeTypeOK
  <2> QED BY <1>10, <2>1, <2>2 DEF LifeInv, Cancel, daemonVars, bridgeVars, dispatcherVars
<1>11. CASE TakeSignal
  <2>1. bridge = "live" /\ bridge' = bridge
    BY <1>11 DEF TakeSignal
  <2>2. posting'["dart"] = posting["dart"]
    BY <1>0, <1>11 DEF TakeSignal, StartPosting
  <2> QED BY <1>11, <2>1, <2>2 DEF LifeInv, TakeSignal, dispatcherVars
<1>12. CASE DaemonStep
  <2>1. call' # "none" => call # "none"
    BY <1>12 DEF DaemonStep, DaemonTurn, Accept, Refuse, Answer, Emit, Finish, Destroy, Crash
  <2> QED BY <1>12, <2>1 DEF LifeInv, DaemonStep, bridgeVars, dispatcherVars
<1>13. CASE UNCHANGED vars
  BY <1>13 DEF LifeInv, vars, daemonVars, bridgeVars, dispatcherVars
<1>14. CASE PostFromDart \/ PostFromLoop
  BY <1>6, <1>14 DEF PostFromDart, PostFromLoop
<1> QED BY <1>1, <1>2, <1>3, <1>4, <1>5, <1>7, <1>8, <1>9, <1>10, <1>11, <1>12, <1>13, <1>14
    DEF Next, DartThread, LoopThread

(* LifeInv holds of every transaction.                                     *)
LEMMA LifeInvariant == SafetySpec => [](TypeOK /\ LifeInv)
<1>1. Init => LifeInv
  BY DEF Init, DaemonInit, BridgeInit, DispatcherInit, LifeInv, Requests, Threads
<1>2. TypeOK /\ LifeInv /\ [Next]_vars => LifeInv'
  BY LifeStep
<1> QED BY <1>1, <1>2, TypeCorrect, PTL DEF SafetySpec

(* No D-Bus call and no signal handler runs on a bridge that is freed: the *)
(* guard of cancel and the unregister of the destructor suffice.           *)
THEOREM BridgeSafe == SafetySpec => []BridgeCallsAreLive
<1>1. TypeOK /\ LifeInv => BridgeCallsAreLive
  BY DEF LifeInv, BridgeCallsAreLive, Threads
<1> QED BY <1>1, LifeInvariant, PTL

-----------------------------------------------------------------------------
(* From the Finished message to the end of the streams.                    *)

(* A handler posts the sentinel only behind a Finished message.            *)
LEMMA OnSignalEnds ==
  \A s \in Signals : \A i \in DOMAIN OnSignal(s) :
    OnSignal(s)[i].kind = "sentinel" => FinPrecedes(OnSignal(s), i)
<1> SUFFICES ASSUME NEW s \in Signals, NEW i \in DOMAIN OnSignal(s),
                    OnSignal(s)[i].kind = "sentinel"
             PROVE  FinPrecedes(OnSignal(s), i)
  OBVIOUS
<1>1. CASE s.form \in {"data", "batch"}
  BY <1>1 DEF OnSignal, DataMessage, Message
<1>2. CASE s.form = "bad"
  BY <1>2 DEF OnSignal, BadMessage, Message
<1>3. CASE s.form = "finished"
  <2>1. OnSignal(s) = <<FinMessage(s.exit), SentinelMessage>>
    BY <1>3 DEF OnSignal, PostFinished
  <2>2. i = 2
    BY <2>1 DEF FinMessage, Message
  <2>3. 1 \in 1..(i - 1) /\ OnSignal(s)[1].kind = "fin"
    BY <2>1, <2>2 DEF FinMessage, Message
  <2> QED BY <2>3 DEF FinPrecedes
<1>4. CASE s.form \notin {"data", "batch", "bad", "finished"}
  BY <1>4 DEF OnSignal
<1> QED BY <1>1, <1>2, <1>3, <1>4

(* postError too.                                                          *)
LEMMA PostErrorEnds ==
  \A i \in DOMAIN PostError : PostError[i].kind = "sentinel" => FinPrecedes(PostError, i)
<1> SUFFICES ASSUME NEW i \in DOMAIN PostError, PostError[i].kind = "sentinel"
             PROVE  FinPrecedes(PostError, i)
  OBVIOUS
<1>1. i \in 1..3
  BY PostErrorType
<1>2. i = 3
  BY <1>1, PostErrorType DEF DataMessage, FinMessage, Message
<1>3. 2 \in 1..(i - 1) /\ PostError[2].kind = "fin"
  BY <1>2, PostErrorType DEF FinMessage, Message
<1> QED BY <1>3 DEF FinPrecedes

(* A completed result stays completed.                                     *)
LEMMA StaysCompleted ==
  ASSUME TypeOK, Completed, [Next]_vars PROVE Completed'
<1> USE DEF Completed
<1>1. CASE HandleMessage
  <2>1. Head(queue) \in Messages /\ Dispatch(Head(queue))
    BY <1>1 DEF HandleMessage, TypeOK, BridgeTypeOK
  <2> QED BY <2>1, DispatchCases DEF Add, FailDispatch, ScheduleClose, CompleteWith
<1>2. CASE CreateFails
  BY <1>2 DEF CreateFails
<1>3. CASE Microtask
  BY <1>3 DEF Microtask, RunMicrotask
<1>4. ASSUME ~HandleMessage, ~CreateFails, ~Microtask PROVE UNCHANGED done
  BY <1>4 DEF Next, vars, DartThread, LoopThread, CreateSucceeds, Call, CallReturns,
     CallThrows, PostFromDart, DestroyBridge, Cancel, TakeSignal, PostFromLoop, DaemonStep,
     dispatcherVars
<1> QED BY <1>1, <1>2, <1>3, <1>4

(* No step posts, queues or schedules an end before the result.            *)
LEMMA EndStep ==
  ASSUME TypeOK, LifeInv, EndInv, [Next]_vars PROVE EndInv'
<1> SUFFICES ASSUME ~Completed' PROVE EndInv'
  BY DEF EndInv
<1>0. /\ ~Completed /\ ~finished
      /\ \A i \in DOMAIN microtasks : microtasks[i] # "close"
      /\ \A i \in DOMAIN queue : queue[i].kind = "sentinel" => FinPrecedes(queue, i)
      /\ \A t \in Threads : \A i \in DOMAIN posting[t] :
           posting[t][i].kind = "sentinel" => HasFin(queue) \/ FinPrecedes(posting[t], i)
  BY StaysCompleted DEF EndInv
<1>a. /\ posting \in [Threads -> Seq(Messages)] /\ queue \in Seq(Messages)
      /\ microtasks \in Seq(Tasks) /\ wire \in Seq(Signals)
  BY DEF TypeOK, BridgeTypeOK, DispatcherTypeOK, DaemonTypeOK
<1>1. CASE CreateFails
  BY <1>1 DEF CreateFails, Completed
<1>2. CASE CallThrows
  <2>1. posting' = [posting EXCEPT !["dart"] = PostError]
    BY <1>2 DEF CallThrows, StartPosting
  <2>2. \A t \in Threads : posting'[t] = IF t = "dart" THEN PostError ELSE posting[t]
    BY <2>1, <1>a
  <2>3. UNCHANGED <<queue, microtasks, finished, done>>
    BY <1>2 DEF CallThrows, dispatcherVars
  <2> QED BY <1>0, <2>2, <2>3, PostErrorEnds DEF EndInv, HasFin, FinPrecedes
<1>3. CASE TakeSignal
  <2>1. posting' = [posting EXCEPT !["loop"] = OnSignal(Head(wire))] /\ Head(wire) \in Signals
    BY <1>3, <1>a DEF TakeSignal, StartPosting
  <2>2. \A t \in Threads : posting'[t] = IF t = "loop" THEN OnSignal(Head(wire)) ELSE posting[t]
    BY <2>1, <1>a
  <2>3. UNCHANGED <<queue, microtasks, finished, done>>
    BY <1>3 DEF TakeSignal, dispatcherVars
  <2> QED BY <1>0, <2>1, <2>2, <2>3, OnSignalEnds DEF EndInv, HasFin, FinPrecedes
<1>4. CASE Microtask
  <2>1. microtasks # <<>> /\ Head(microtasks) = microtasks[1] /\ 1 \in DOMAIN microtasks
    BY <1>4, <1>a DEF Microtask, RunMicrotask
  <2>2. Head(microtasks) # "close"
    BY <1>0, <2>1
  <2>3. microtasks' = Tail(microtasks) \o <<>>
    BY <1>4, <2>2 DEF Microtask, RunMicrotask
  <2>4. microtasks' = Tail(microtasks)
    BY <2>1, <2>3, <1>a
  <2>a. ~finished' /\ UNCHANGED done
    BY <1>0, <1>4, <2>2 DEF Microtask, RunMicrotask
  <2>5. \A i \in DOMAIN microtasks' : microtasks'[i] # "close"
    BY <2>1, <2>4, <1>0, <1>a
  <2>6. UNCHANGED <<queue, posting>>
    BY <1>4 DEF Microtask, bridgeVars
  <2> QED BY <1>0, <2>a, <2>5, <2>6 DEF EndInv, HasFin, FinPrecedes
<1>5. CASE HandleMessage
  <2> DEFINE m == Head(queue)
  <2>1. queue # <<>> /\ m \in Messages /\ m = queue[1] /\ Dispatch(m)
    BY <1>5, <1>a DEF HandleMessage
  <2>2. queue' = Tail(queue) /\ posting' = posting
    BY <1>5, <1>0 DEF HandleMessage
  <2>3. m.kind # "sentinel"
    BY <1>0, <2>1, <1>a DEF FinPrecedes
  <2>4. ~FailDispatch
    BY DEF FailDispatch, Completed
  <2>5. m.kind # "fin" /\ Add(m.item)
    <3>1. ~CompleteWith(FromInt(m.exit))
      BY FromIntType DEF CompleteWith, Completed, KnownExits
    <3> QED BY <2>1, <2>3, <2>4, <3>1, DispatchCases
  <2>6. UNCHANGED <<finished, microtasks>>
    BY <2>5 DEF Add
  <2>7. \A i \in DOMAIN queue' : queue'[i] = queue[i + 1] /\ i + 1 \in DOMAIN queue
    BY <2>1, <2>2, <1>a
  <2>8. \A j \in DOMAIN queue : queue[j].kind = "fin" => j - 1 \in DOMAIN queue' /\ queue'[j - 1].kind = "fin"
    BY <2>1, <2>2, <2>5, <1>a
  <2>9. HasFin(queue) => HasFin(queue')
    BY <2>8 DEF HasFin
  <2>10. \A i \in DOMAIN queue' : queue'[i].kind = "sentinel" => FinPrecedes(queue', i)
    <3> SUFFICES ASSUME NEW i \in DOMAIN queue', queue'[i].kind = "sentinel"
                 PROVE  FinPrecedes(queue', i)
      OBVIOUS
    <3>a. i \in Nat /\ i + 1 \in DOMAIN queue /\ FinPrecedes(queue, i + 1)
      BY <1>0, <2>1, <2>2, <2>7, <1>a
    <3>1. PICK j \in 1..i : queue[j].kind = "fin"
      BY <3>a DEF FinPrecedes
    <3>2. j \in DOMAIN queue
      BY <3>a, <1>a
    <3>b. j - 1 \in DOMAIN queue' /\ queue'[j - 1].kind = "fin"
      BY <3>1, <3>2, <2>8
    <3>c. j # 1
      BY <3>1, <2>1, <2>5
    <3>3. j - 1 \in 1..(i - 1) /\ queue'[j - 1].kind = "fin"
      BY <3>a, <3>b, <3>c
    <3> QED BY <3>3 DEF FinPrecedes
  <2> QED BY <1>0, <2>2, <2>6, <2>9, <2>10 DEF EndInv, FinPrecedes
<1>6. ASSUME NEW t \in Threads, Post(t), UNCHANGED dispatcherVars PROVE EndInv'
  <2> DEFINE s == posting[t]
             m == Head(s)
  <2>0. UNCHANGED <<finished, microtasks, done>>
    BY <1>6 DEF dispatcherVars
  <2>1. s \in Seq(Messages) /\ s # <<>> /\ m = s[1] /\ 1 \in DOMAIN s /\ m \in Messages
    BY <1>6, <1>a DEF Post
  <2>2. port
    BY <1>0, <2>1 DEF LifeInv
  <2>3. queue' = Append(queue, m)
    BY <1>6, <2>2 DEF Post
  <2>4. \A u \in Threads : posting'[u] = IF u = t THEN Tail(s) ELSE posting[u]
    BY <1>6, <1>a DEF Post
  <2>5. HasFin(queue) => HasFin(queue')
    <3>1. \A j \in DOMAIN queue : j \in DOMAIN queue' /\ queue'[j] = queue[j]
      BY <2>1, <2>3, <1>a
    <3> QED BY <3>1 DEF HasFin
  <2>6. m.kind = "fin" => HasFin(queue')
    <3>1. Len(queue) + 1 \in DOMAIN queue' /\ queue'[Len(queue) + 1] = m
      BY <2>1, <2>3, <1>a
    <3> QED BY <3>1 DEF HasFin
  <2>7. \A i \in DOMAIN queue' : queue'[i].kind = "sentinel" => FinPrecedes(queue', i)
    <3> SUFFICES ASSUME NEW i \in DOMAIN queue', queue'[i].kind = "sentinel"
                 PROVE  FinPrecedes(queue', i)
      OBVIOUS
    <3>1. CASE i \in DOMAIN queue
      <4>1. queue'[i] = queue[i] /\ \A j \in 1..(i - 1) : queue'[j] = queue[j]
        BY <3>1, <2>1, <2>3, <1>a
      <4> QED BY <3>1, <4>1, <1>0 DEF FinPrecedes
    <3>2. CASE i = Len(queue) + 1
      <4>1. queue'[i] = m
        BY <3>2, <2>1, <2>3, <1>a
      <4>2. ~FinPrecedes(s, 1)
        BY DEF FinPrecedes
      <4>3. HasFin(queue)
        BY <4>1, <4>2, <2>1, <1>0
      <4>4. PICK j \in DOMAIN queue : queue[j].kind = "fin"
        BY <4>3 DEF HasFin
      <4>5. j \in 1..(i - 1) /\ queue'[j] = queue[j]
        BY <3>2, <2>1, <2>3, <1>a
      <4> QED BY <4>4, <4>5 DEF FinPrecedes
    <3> QED BY <3>1, <3>2, <2>1, <2>3, <1>a
  <2>8. \A i \in DOMAIN Tail(s) :
          Tail(s)[i].kind = "sentinel" => HasFin(queue') \/ FinPrecedes(Tail(s), i)
    <3> SUFFICES ASSUME NEW i \in DOMAIN Tail(s), Tail(s)[i].kind = "sentinel", ~HasFin(queue')
                 PROVE  FinPrecedes(Tail(s), i)
      OBVIOUS
    <3>1. Tail(s)[i] = s[i + 1] /\ i + 1 \in DOMAIN s /\ i \in Nat
      BY <2>1
    <3>2. FinPrecedes(s, i + 1)
      BY <3>1, <2>5, <1>0
    <3>3. PICK j \in 1..i : s[j].kind = "fin"
      BY <3>1, <3>2 DEF FinPrecedes
    <3>4. j # 1
      BY <3>3, <2>1, <2>6
    <3>5. j - 1 \in 1..(i - 1) /\ Tail(s)[j - 1] = s[j]
      BY <3>1, <3>4, <2>1
    <3> QED BY <3>3, <3>5 DEF FinPrecedes
  <2>9. \A u \in Threads : \A i \in DOMAIN posting'[u] :
          posting'[u][i].kind = "sentinel" => HasFin(queue') \/ FinPrecedes(posting'[u], i)
    BY <2>4, <2>5, <2>8, <1>0
  <2> QED BY <1>0, <2>0, <2>7, <2>9 DEF EndInv, FinPrecedes, HasFin
<1>7. ASSUME UNCHANGED <<queue, posting, finished, microtasks, done>> PROVE EndInv'
  BY <1>7 DEF EndInv, HasFin, FinPrecedes, Completed
<1>8. CASE CreateSucceeds \/ Call \/ CallReturns \/ DestroyBridge \/ Cancel \/ DaemonStep \/ UNCHANGED vars
  <2>1. UNCHANGED <<queue, posting, finished, microtasks, done>>
    BY <1>8 DEF CreateSucceeds, Call, CallReturns, DestroyBridge, Free, Cancel, DaemonStep, vars,
       bridgeVars, dispatcherVars
  <2> QED BY <2>1, <1>7
<1>9. CASE PostFromDart \/ PostFromLoop
  BY <1>6, <1>9 DEF PostFromDart, PostFromLoop, Threads
<1> QED BY <1>1, <1>2, <1>3, <1>4, <1>5, <1>8, <1>9 DEF Next, DartThread, LoopThread

(* EndInv holds of every transaction.                                      *)
LEMMA EndInvariant == SafetySpec => []EndInv
<1>1. Init => EndInv
  BY DEF Init, BridgeInit, DispatcherInit, EndInv, Threads
<1>2. TypeOK /\ LifeInv /\ EndInv /\ [Next]_vars => EndInv'
  BY EndStep
<1> QED BY <1>1, <1>2, LifeInvariant, PTL DEF SafetySpec

(* The streams end only after result has completed.                        *)
THEOREM ResultBeforeEnd == SafetySpec => []StreamsEndAfterResult
<1>1. EndInv => StreamsEndAfterResult
  BY DEF EndInv, Completed, StreamsEndAfterResult
<1> QED BY <1>1, EndInvariant, PTL

-----------------------------------------------------------------------------
(* Where a success comes from.                                             *)

(* A handler posts no exit but that of its signal.                         *)
LEMMA OnSignalExits ==
  \A s \in Signals : \A i \in DOMAIN OnSignal(s) :
    OnSignal(s)[i].exit = "success" => s.exit = "success"
<1> SUFFICES ASSUME NEW s \in Signals, NEW i \in DOMAIN OnSignal(s),
                    OnSignal(s)[i].exit = "success"
             PROVE  s.exit = "success"
  OBVIOUS
<1>1. CASE s.form \in {"data", "batch"}
  BY <1>1 DEF OnSignal, DataMessage, Message, NoExit
<1>2. CASE s.form = "bad"
  BY <1>2 DEF OnSignal, BadMessage, Message, NoExit
<1>3. CASE s.form = "finished"
  <2>1. OnSignal(s) = <<FinMessage(s.exit), SentinelMessage>>
    BY <1>3 DEF OnSignal, PostFinished
  <2>2. i = 1
    BY <2>1 DEF SentinelMessage, Message, NoExit
  <2> QED BY <2>1, <2>2 DEF FinMessage, Message
<1>4. CASE s.form \notin {"data", "batch", "bad", "finished"}
  BY <1>4 DEF OnSignal
<1> QED BY <1>1, <1>2, <1>3, <1>4

(* postError never claims success.                                         *)
LEMMA PostErrorExits == \A i \in DOMAIN PostError : PostError[i].exit # "success"
<1> SUFFICES ASSUME NEW i \in 1..3 PROVE PostError[i].exit # "success"
  BY PostErrorType
<1> QED BY PostErrorType DEF DataMessage, FinMessage, SentinelMessage, Message, NoExit

(* The daemon finishes once, and says so in one signal.                    *)
LEMMA ExitDaemonStep ==
  ASSUME TypeOK, ExitInv, DaemonStep PROVE ExitInv'
<1>0. /\ wire \in Seq(Signals) /\ UNCHANGED <<posting, queue, done>>
  BY DEF TypeOK, DaemonTypeOK, DaemonStep, bridgeVars, dispatcherVars
<1>1. CASE Accept \/ Refuse \/ Crash
  <2>1. UNCHANGED <<wire, daemonExit>> /\ (daemon' \in {"none", "new", "running"} => daemon \in {"none", "new", "running"})
    BY <1>1 DEF Accept, CanAccept, Refuse, Crash, ExitInv
  <2> QED BY <1>0, <2>1 DEF ExitInv
<1>2. ASSUME NEW s \in Signals, s.exit = NoExit, wire' = Append(wire, s), UNCHANGED daemonExit,
             daemon' \in {"none", "new", "running"} => daemon \in {"none", "new", "running"}
      PROVE  ExitInv'
  <2>1. \A i \in DOMAIN wire' : wire'[i].exit = "success" => i \in DOMAIN wire /\ wire'[i] = wire[i]
    BY <1>0, <1>2 DEF NoExit
  <2> QED BY <1>0, <1>2, <2>1 DEF ExitInv
<1>3. ASSUME NEW form \in DaemonForms, Emit(form) PROVE ExitInv'
  <2>1. PICK items : wire' = Append(wire, Signal(form, items, NoExit))
    BY <1>3 DEF Emit
  <2>2. wire' \in Seq(Signals)
    BY DaemonTurnType, <1>3 DEF DaemonTurn, TypeOK, DaemonTypeOK
  <2>3. \A i \in DOMAIN wire' : wire'[i].exit = "success" => i \in DOMAIN wire /\ wire'[i] = wire[i]
    BY <1>0, <2>1 DEF Signal, NoExit
  <2>4. UNCHANGED daemonExit /\ daemon' = daemon
    BY <1>3 DEF Emit
  <2> QED BY <1>0, <2>3, <2>4 DEF ExitInv
<1>4. CASE Destroy
  <2>1. Signal("destroy", <<>>, NoExit) \in Signals
    BY DEF Signal, Signals, AnyExit, Forms
  <2> QED BY <1>2, <1>4, <2>1 DEF Destroy, Signal
<1>5. ASSUME NEW exit \in DaemonExits, Finish(exit) PROVE ExitInv'
  <2>1. daemonExit # "success" /\ daemonExit' = exit /\ daemon' = "done"
    BY <1>5 DEF Finish, ExitInv, NoExit
  <2>2. wire' = Append(wire, Signal("finished", <<>>, exit))
    BY <1>5 DEF Finish
  <2>3. \A i \in DOMAIN wire' : wire'[i].exit = "success" => exit = "success"
    BY <1>0, <2>1, <2>2 DEF Signal, ExitInv
  <2> QED BY <1>0, <2>1, <2>3 DEF ExitInv
<1> QED BY <1>1, <1>3, <1>4, <1>5 DEF DaemonStep, DaemonTurn

(* On its way to the completer an exit code is copied, never invented.     *)
LEMMA ExitStep ==
  ASSUME TypeOK, ExitInv, [Next]_vars PROVE ExitInv'
<1>a. /\ posting \in [Threads -> Seq(Messages)] /\ queue \in Seq(Messages) /\ wire \in Seq(Signals)
  BY DEF TypeOK, BridgeTypeOK, DaemonTypeOK
<1>1. CASE CreateSucceeds
  BY <1>1 DEF CreateSucceeds, NewTransaction, dispatcherVars, ExitInv
<1>2. CASE CreateFails
  BY <1>2 DEF CreateFails, daemonVars, ExitInv
<1>3. CASE CallThrows
  <2>1. UNCHANGED <<daemon, daemonExit, wire, queue, done>>
    BY <1>3 DEF CallThrows, Replied, TimedOut, dispatcherVars
  <2>2. \A t \in Threads : posting'[t] = IF t = "dart" THEN PostError ELSE posting[t]
    BY <1>3, <1>a DEF CallThrows, StartPosting
  <2> QED BY <2>1, <2>2, PostErrorExits DEF ExitInv
<1>4. CASE TakeSignal
  <2>1. wire # <<>> /\ Head(wire) \in Signals /\ Head(wire) = wire[1] /\ 1 \in DOMAIN wire
    BY <1>4, <1>a DEF TakeSignal
  <2>2. \A t \in Threads : posting'[t] = IF t = "loop" THEN OnSignal(Head(wire)) ELSE posting[t]
    BY <1>4, <1>a DEF TakeSignal, StartPosting
  <2>3. \A i \in DOMAIN wire' : i + 1 \in DOMAIN wire /\ wire'[i] = wire[i + 1]
    BY <1>4, <2>1, <1>a DEF TakeSignal
  <2>4. UNCHANGED <<daemon, daemonExit, queue, done>>
    BY <1>4 DEF TakeSignal, dispatcherVars
  <2> QED BY <2>1, <2>2, <2>3, <2>4, OnSignalExits DEF ExitInv
<1>5. CASE HandleMessage
  <2>1. /\ queue # <<>> /\ Head(queue) \in Messages /\ Head(queue) = queue[1] /\ 1 \in DOMAIN queue
        /\ Dispatch(Head(queue))
    BY <1>5, <1>a DEF HandleMessage
  <2>2. UNCHANGED <<daemon, daemonExit, wire, posting>>
    BY <1>5 DEF HandleMessage, daemonVars
  <2>3. queue' = <<>> \/ queue' = Tail(queue)
    BY <1>5 DEF HandleMessage, CloseAll, ClosePort
  <2>4. \A i \in DOMAIN queue' : i + 1 \in DOMAIN queue /\ queue'[i] = queue[i + 1]
    BY <2>1, <2>3, <1>a
  <2>5. done' = "success" => daemonExit = "success"
    BY <2>1, DispatchCases, FromIntType
       DEF Add, FailDispatch, ScheduleClose, CompleteWith, ExitInv
  <2> QED BY <2>2, <2>4, <2>5 DEF ExitInv
<1>6. ASSUME NEW t \in Threads, Post(t), UNCHANGED <<daemonVars, dispatcherVars>> PROVE ExitInv'
  <2>1. posting[t] \in Seq(Messages) /\ posting[t] # <<>>
    BY <1>6, <1>a DEF Post
  <2>2. /\ Head(posting[t]) = posting[t][1] /\ 1 \in DOMAIN posting[t]
        /\ Tail(posting[t]) \in Seq(Messages)
        /\ \A i \in DOMAIN Tail(posting[t]) :
             i + 1 \in DOMAIN posting[t] /\ Tail(posting[t])[i] = posting[t][i + 1]
    BY <2>1
  <2>3. \A u \in Threads : posting'[u] = IF u = t THEN Tail(posting[t]) ELSE posting[u]
    BY <1>6, <1>a DEF Post
  <2>4. \A i \in DOMAIN queue' :
          (i \in DOMAIN queue /\ queue'[i] = queue[i]) \/ queue'[i] = posting[t][1]
    BY <1>6, <2>1, <2>2, <1>a DEF Post
  <2>5. UNCHANGED <<daemon, daemonExit, wire, done>>
    BY <1>6 DEF daemonVars, dispatcherVars
  <2>6. posting[t][1].exit = "success" => daemonExit = "success"
    BY <2>2 DEF ExitInv
  <2>7. \A i \in DOMAIN queue' : queue'[i].exit = "success" => daemonExit = "success"
    BY <2>4, <2>6 DEF ExitInv
  <2>8. \A u \in Threads : \A i \in DOMAIN posting'[u] :
          posting'[u][i].exit = "success" => daemonExit = "success"
    <3> SUFFICES ASSUME NEW u \in Threads, NEW i \in DOMAIN posting'[u],
                        posting'[u][i].exit = "success"
                 PROVE  daemonExit = "success"
      OBVIOUS
    <3>1. CASE u = t
      <4>1. i + 1 \in DOMAIN posting[t] /\ posting[t][i + 1].exit = "success"
        BY <2>2, <2>3, <3>1
      <4> QED BY <4>1 DEF ExitInv
    <3>2. CASE u # t
      BY <2>3, <3>2 DEF ExitInv
    <3> QED BY <3>1, <3>2
  <2> QED BY <2>5, <2>7, <2>8 DEF ExitInv
<1>7. CASE Call \/ CallReturns \/ Microtask \/ DestroyBridge \/ Cancel \/ UNCHANGED vars
  <2>1. UNCHANGED <<daemon, daemonExit, wire, posting, queue, done>>
    BY <1>7 DEF Call, Request, CallReturns, Replied, Microtask, RunMicrotask, DestroyBridge, Free,
       Cancel, vars, daemonVars, bridgeVars, dispatcherVars
  <2> QED BY <2>1 DEF ExitInv
<1>8. CASE PostFromDart \/ PostFromLoop
  BY <1>6, <1>8 DEF PostFromDart, PostFromLoop, Threads
<1>9. CASE DaemonStep
  BY <1>9, ExitDaemonStep
<1> QED BY <1>1, <1>2, <1>3, <1>4, <1>5, <1>7, <1>8, <1>9 DEF Next, DartThread, LoopThread

(* result is success only if the daemon finished with success: no error of *)
(* the bridge, no unknown code and no interleaving of the threads makes one*)
THEOREM SuccessIsTheDaemons == SafetySpec => []NoFalseSuccess
<1>1. Init => ExitInv
  BY DEF Init, DaemonInit, BridgeInit, DispatcherInit, ExitInv, Threads
<1>2. TypeOK /\ ExitInv /\ [Next]_vars => ExitInv'
  BY ExitStep
<1>3. ExitInv => NoFalseSuccess
  BY DEF ExitInv, NoFalseSuccess
<1> QED BY <1>1, <1>2, <1>3, TypeCorrect, PTL DEF SafetySpec

-----------------------------------------------------------------------------
(* Refinement: each step is a step of the contract, or invisible to it.    *)

(* The dispatcher is the only component the contract sees.                 *)
LEMMA ContractStep ==
  ASSUME TypeOK, LifeInv, EndInv, [Next]_vars
  PROVE  [Contract!ContractNext]_(Contract!contractVars)
<1> USE DEF Contract!contractVars
<1> DEFINE Goal == [Contract!ContractNext]_(Contract!contractVars)
<1>1. CASE CreateFails
  <2>1. /\ done = "pending" /\ seen = <<>> /\ ~finished
        /\ done' = "unavailable" /\ finished' = TRUE /\ seen' = seen
    BY <1>1 DEF CreateFails, LifeInv
  <2>2. Contract!Refuse
    BY <2>1 DEF Contract!Refuse, Outcomes
  <2> QED BY <2>2 DEF Contract!ContractNext
<1>2. CASE HandleMessage
  <2> DEFINE m == Head(queue)
  <2>1. m \in Messages /\ Dispatch(m)
    BY <1>2 DEF HandleMessage, TypeOK, BridgeTypeOK
  <2>2. CASE ~finished /\ Add(m.item)
    <3>1. m.item \in {0} \cup Items
      BY <2>1 DEF Messages
    <3>2. Contract!Deliver
      BY <2>2, <3>1 DEF Add, Contract!Deliver
    <3> QED BY <3>2 DEF Contract!ContractNext
  <2>3. ASSUME NEW outcome \in Outcomes, UNCHANGED <<finished, seen>>,
               done' = IF Completed THEN done ELSE outcome
        PROVE  Goal
    <3>1. CASE Completed
      BY <2>3, <3>1
    <3>2. CASE ~Completed
      <4>1. Contract!Complete
        BY <2>3, <3>2 DEF Completed, Contract!Complete
      <4> QED BY <4>1 DEF Contract!ContractNext
    <3> QED BY <3>1, <3>2
  <2>4. CASE FailDispatch
    BY <2>3, <2>4 DEF FailDispatch, Outcomes
  <2>5. CASE CompleteWith(FromInt(m.exit)) /\ UNCHANGED <<finished, seen, awaiting, uncaught>>
    BY <2>3, <2>5, FromIntType DEF CompleteWith, Outcomes
  <2>6. CASE ScheduleClose
    BY <2>6 DEF ScheduleClose
  <2> QED BY <2>1, <2>2, <2>4, <2>5, <2>6, DispatchCases
<1>3. CASE Microtask
  <2>1. /\ microtasks # <<>> /\ 1 \in DOMAIN microtasks /\ Head(microtasks) = microtasks[1]
        /\ UNCHANGED <<seen, done>> /\ finished' = (finished \/ Head(microtasks) = "close")
    BY <1>3 DEF Microtask, RunMicrotask, TypeOK, DispatcherTypeOK
  <2>2. CASE ~finished /\ Head(microtasks) = "close"
    <3>1. Contract!End
      BY <2>1, <2>2 DEF EndInv, Completed, Contract!End
    <3> QED BY <3>1 DEF Contract!ContractNext
  <2>3. CASE finished \/ Head(microtasks) # "close"
    BY <2>1, <2>3 DEF TypeOK, DispatcherTypeOK
  <2> QED BY <2>2, <2>3
<1>4. ASSUME ~CreateFails, ~HandleMessage, ~Microtask
      PROVE  UNCHANGED dispatcherVars
  BY <1>4 DEF Next, vars, DartThread, LoopThread, CreateSucceeds, Call, CallReturns, CallThrows,
     PostFromDart, DestroyBridge, Cancel, TakeSignal, PostFromLoop, DaemonStep
<1> QED BY <1>1, <1>2, <1>3, <1>4 DEF dispatcherVars

(* The chain from daemon to streams implements the safety of the contract. *)
THEOREM Refinement == SafetySpec => ImplementsContract
<1>1. Init => Contract!ContractInit
  BY DEF Init, DispatcherInit, Contract!ContractInit
<1>2. TypeOK /\ LifeInv /\ EndInv /\ [Next]_vars => [Contract!ContractNext]_(Contract!contractVars)
  BY ContractStep
<1> QED BY <1>1, <1>2, LifeInvariant, EndInvariant, PTL
    DEF SafetySpec, ImplementsContract, Contract!ContractSafety

-----------------------------------------------------------------------------
(* What the streams have delivered when the result is known.               *)

(* Some message of s, or one of its first n, is about item i.              *)
Says(m, i)         == m.kind \in {"data", "bad"} /\ m.item = i
Said(s, i)         == \E j \in DOMAIN s : Says(s[j], i)
SaidFirst(s, i, n) == \E j \in 1..n : Says(s[j], i)

Delivered(i) == \E j \in DOMAIN seen : seen[j] = i

(* The daemon has finished with this exit code.                            *)
Ended     == daemon \in {"done", "gone"}
Own(exit) == Ended /\ exit = daemonExit

(* An end is the daemon's own, or an ErrorCode (item 0) is ahead of it:    *)
(* on the wire, in what each thread has yet to post, in the queue, in done.*)
WireEnds == \A i \in DOMAIN wire : wire[i].form = "finished" => Own(wire[i].exit)
LoopEnds == \A i \in DOMAIN posting["loop"] :
  posting["loop"][i].kind = "fin" => Own(posting["loop"][i].exit)
DartEnds == \A i \in DOMAIN posting["dart"] : posting["dart"][i].kind = "fin" =>
  Completed \/ Delivered(0) \/ Said(queue, 0) \/ SaidFirst(posting["dart"], 0, i - 1)
QueueEnds == \A i \in DOMAIN queue : queue[i].kind = "fin" =>
  Completed \/ Own(queue[i].exit) \/ Delivered(0) \/ SaidFirst(queue, 0, i - 1)
DoneEnds == done \in KnownExits => (Ended /\ done = FromInt(daemonExit)) \/ Delivered(0)

ExplainInv == WireEnds /\ LoopEnds /\ DartEnds /\ QueueEnds /\ DoneEnds

-----------------------------------------------------------------------------
(* What a step does to the sequences on the way.                           *)

(* An exit code of the daemon is final, and so is what was delivered.      *)
LEMMA Stable ==
  ASSUME TypeOK, [Next]_vars
  PROVE  /\ Ended => Ended' /\ daemonExit' = daemonExit
         /\ \A i : Delivered(i) => Delivered(i)'
<1>1. Ended => Ended' /\ daemonExit' = daemonExit
  <2>1. CASE DaemonStep
    <3>1. daemon \notin {"done", "gone"} \/ (daemon' \in {"done", "gone"} /\ daemonExit' = daemonExit)
      BY <2>1 DEF DaemonStep, DaemonTurn, Accept, Refuse, CanAccept, Emit, Finish, Destroy, Crash
    <3> QED BY <3>1 DEF Ended
  <2>2. CASE CreateSucceeds
    BY <2>2 DEF CreateSucceeds, NewTransaction, Ended
  <2>3. ASSUME ~DaemonStep, ~CreateSucceeds PROVE UNCHANGED <<daemon, daemonExit>>
    BY <2>3 DEF Next, vars, DartThread, LoopThread, CreateFails, Call, Request, CallReturns,
       CallThrows, Replied, TimedOut, PostFromDart, HandleMessage, Microtask, DestroyBridge,
       Cancel, TakeSignal, PostFromLoop, daemonVars
  <2> QED BY <2>1, <2>2, <2>3 DEF Ended
<1>2. seen' = seen \/ \E x \in {0} \cup Items : seen' = Append(seen, x)
  <2>1. CASE HandleMessage
    <3>1. Head(queue) \in Messages /\ Dispatch(Head(queue))
      BY <2>1 DEF HandleMessage, TypeOK, BridgeTypeOK
    <3>2. Head(queue).item \in {0} \cup Items
      BY <3>1 DEF Messages
    <3> QED BY <3>1, <3>2, DispatchCases DEF Add, FailDispatch, ScheduleClose
  <2>2. CASE Microtask
    BY <2>2 DEF Microtask, RunMicrotask
  <2>3. ASSUME ~HandleMessage, ~Microtask PROVE seen' = seen
    BY <2>3 DEF Next, vars, DartThread, LoopThread, CreateSucceeds, CreateFails, Call, CallReturns,
       CallThrows, PostFromDart, DestroyBridge, Cancel, TakeSignal, PostFromLoop, DaemonStep,
       dispatcherVars
  <2> QED BY <2>1, <2>2, <2>3
<1>3. seen \in Seq({0} \cup Items)
  BY DEF TypeOK, DispatcherTypeOK
<1>4. \A j \in DOMAIN seen : j \in DOMAIN seen' /\ seen'[j] = seen[j]
  BY <1>2, <1>3
<1> QED BY <1>1, <1>4 DEF Delivered

(* A thread moves its next message to the open port.                       *)
LEMMA PostMoves ==
  ASSUME TypeOK, LifeInv, EndInv, ~Completed, NEW t \in Threads, Post(t)
  PROVE  /\ posting[t] \in Seq(Messages) /\ posting[t] # <<>> /\ 1 \in DOMAIN posting[t]
         /\ posting[t][1] \in Messages
         /\ queue \in Seq(Messages)
         /\ queue' = Append(queue, posting[t][1])
         /\ posting'[t] = Tail(posting[t])
         /\ \A u \in Threads \ {t} : posting'[u] = posting[u]
<1>1. posting \in [Threads -> Seq(Messages)] /\ queue \in Seq(Messages)
  BY DEF TypeOK, BridgeTypeOK
<1>2. posting[t] \in Seq(Messages) /\ posting[t] # <<>>
  BY <1>1 DEF Post
<1>3. 1 \in DOMAIN posting[t] /\ posting[t][1] \in Messages /\ Head(posting[t]) = posting[t][1]
  BY <1>2
<1>4. port
  BY <1>2 DEF LifeInv, EndInv
<1> QED BY <1>1, <1>2, <1>3, <1>4 DEF Post

(* The isolate takes the first message of the queue, and while the result  *)
(* is pending the others keep their places behind it.                      *)
LEMMA HandleMoves ==
  ASSUME TypeOK, EndInv, HandleMessage
  PROVE  /\ queue \in Seq(Messages) /\ queue # <<>> /\ 1 \in DOMAIN queue
         /\ queue[1] \in Messages /\ Dispatch(queue[1])
         /\ ~Completed => queue' = Tail(queue)
         /\ queue' = Tail(queue) \/ queue' = <<>>
         /\ posting["dart"] = <<>>
         /\ UNCHANGED <<daemonVars, posting>>
<1>1. queue \in Seq(Messages) /\ queue # <<>>
  BY DEF TypeOK, BridgeTypeOK, HandleMessage
<1>2. 1 \in DOMAIN queue /\ queue[1] \in Messages /\ Head(queue) = queue[1]
  BY <1>1
<1> QED BY <1>1, <1>2 DEF HandleMessage, AtRest, EndInv, CloseAll, ClosePort

(* What a message does to the result and the streams.                      *)
LEMMA DispatchEffect ==
  ASSUME NEW m \in Messages, Dispatch(m), ~Completed
  PROVE  \/ m.kind = "data" /\ seen' = Append(seen, m.item) /\ done' = done
         \/ m.kind \in {"data", "bad"} /\ seen' = seen /\ done' = "decodeError"
         \/ m.kind = "fin" /\ seen' = seen /\ done' = FromInt(m.exit)
         \/ m.kind = "sentinel" /\ seen' = seen /\ done' = done
BY DispatchCases DEF Add, FailDispatch, CompleteWith, ScheduleClose

(* A completed result is final.                                            *)
LEMMA ResultIsFinal ==
  ASSUME TypeOK, LifeInv, Completed, [Next]_vars PROVE done' = done
<1> USE DEF Completed
<1>1. CASE HandleMessage
  <2>1. Head(queue) \in Messages /\ Dispatch(Head(queue))
    BY <1>1 DEF HandleMessage, TypeOK, BridgeTypeOK
  <2> QED BY <2>1, DispatchCases DEF Add, FailDispatch, ScheduleClose, CompleteWith
<1>2. CASE CreateFails
  BY <1>2 DEF CreateFails, LifeInv
<1>3. CASE Microtask
  BY <1>3 DEF Microtask, RunMicrotask
<1>4. ASSUME ~HandleMessage, ~CreateFails, ~Microtask PROVE UNCHANGED done
  BY <1>4 DEF Next, vars, DartThread, LoopThread, CreateSucceeds, Call, CallReturns,
     CallThrows, PostFromDart, DestroyBridge, Cancel, TakeSignal, PostFromLoop, DaemonStep,
     dispatcherVars
<1> QED BY <1>1, <1>2, <1>3, <1>4

-----------------------------------------------------------------------------
(* An end that the daemon did not send is explained first.                 *)

(* A handler ends the transaction only for a Finished signal.              *)
LEMMA OnSignalFin ==
  \A s \in Signals : \A i \in DOMAIN OnSignal(s) :
    OnSignal(s)[i].kind = "fin" => s.form = "finished" /\ OnSignal(s)[i].exit = s.exit
<1> SUFFICES ASSUME NEW s \in Signals, NEW i \in DOMAIN OnSignal(s),
                    OnSignal(s)[i].kind = "fin"
             PROVE  s.form = "finished" /\ OnSignal(s)[i].exit = s.exit
  OBVIOUS
<1>1. CASE s.form \in {"data", "batch"}
  BY <1>1 DEF OnSignal, DataMessage, Message
<1>2. CASE s.form = "bad"
  BY <1>2 DEF OnSignal, BadMessage, Message
<1>3. CASE s.form = "finished"
  <2>1. OnSignal(s) = <<FinMessage(s.exit), SentinelMessage>>
    BY <1>3 DEF OnSignal, PostFinished
  <2> QED BY <1>3, <2>1 DEF FinMessage, SentinelMessage, Message
<1>4. CASE s.form \notin {"data", "batch", "bad", "finished"}
  BY <1>4 DEF OnSignal
<1> QED BY <1>1, <1>2, <1>3, <1>4

(* What the daemon puts on the wire is its own end.                        *)
LEMMA WireEndsStep ==
  ASSUME TypeOK, WireEnds, [Next]_vars PROVE WireEnds'
<1>0. wire \in Seq(Signals)
  BY DEF TypeOK, DaemonTypeOK
<1>1. CASE DaemonStep
  <2>1. ASSUME NEW exit \in DaemonExits, Finish(exit) PROVE WireEnds'
    <3>1. daemon' = "done" /\ daemonExit' = exit /\ ~Ended
      BY <2>1 DEF Finish, Ended
    <3>2. wire' = Append(wire, Signal("finished", <<>>, exit))
      BY <2>1 DEF Finish
    <3>3. \A i \in DOMAIN wire' : \/ i \in DOMAIN wire /\ wire'[i] = wire[i]
                                  \/ wire'[i].exit = exit
      BY <1>0, <3>2 DEF Signal
    <3> QED BY <3>1, <3>3 DEF WireEnds, Own, Ended
  <2>2. ASSUME ~ \E exit \in DaemonExits : Finish(exit) PROVE WireEnds'
    <3>1. \/ wire' = wire
          \/ \E s : s.form # "finished" /\ wire' = Append(wire, s)
      <4>1. ASSUME NEW form \in DaemonForms, Emit(form)
            PROVE  \E s : s.form # "finished" /\ wire' = Append(wire, s)
        <5>1. PICK items : wire' = Append(wire, Signal(form, items, NoExit))
          BY <4>1 DEF Emit
        <5>2. Signal(form, items, NoExit).form # "finished"
          BY DaemonAssumption DEF Signal, Forms
        <5> QED BY <5>1, <5>2
      <4>2. CASE Destroy
        <5>1. Signal("destroy", <<>>, NoExit).form # "finished"
          BY DEF Signal
        <5> QED BY <4>2, <5>1 DEF Destroy
      <4>3. CASE Accept \/ Refuse \/ Crash
        BY <4>3 DEF Accept, Refuse, Crash
      <4> QED BY <1>1, <2>2, <4>1, <4>2, <4>3 DEF DaemonStep, DaemonTurn
    <3>2. \A i \in DOMAIN wire' : wire'[i].form = "finished" =>
            i \in DOMAIN wire /\ wire'[i] = wire[i]
      BY <1>0, <3>1
    <3> QED BY <3>2, Stable DEF WireEnds, Own
  <2> QED BY <2>1, <2>2
<1>2. CASE TakeSignal
  <2>1. \A i \in DOMAIN wire' : i + 1 \in DOMAIN wire /\ wire'[i] = wire[i + 1]
    BY <1>0, <1>2 DEF TakeSignal
  <2> QED BY <2>1, Stable DEF WireEnds, Own
<1>3. ASSUME ~DaemonStep, ~TakeSignal PROVE wire' = wire
  BY <1>3 DEF Next, vars, DartThread, LoopThread, CreateSucceeds, NewTransaction, CreateFails,
     Call, Request, CallReturns, CallThrows, Replied, TimedOut, PostFromDart, HandleMessage,
     Microtask, DestroyBridge, Cancel, PostFromLoop, daemonVars
<1> QED BY <1>1, <1>2, <1>3, Stable DEF WireEnds, Own

(* No step makes an end that is neither the daemon's nor explained.        *)
LEMMA ExplainStep ==
  ASSUME TypeOK, LifeInv, EndInv, ExplainInv, [Next]_vars PROVE ExplainInv'
<1>a. /\ posting \in [Threads -> Seq(Messages)] /\ queue \in Seq(Messages)
      /\ wire \in Seq(Signals)
  BY DEF TypeOK, BridgeTypeOK, DaemonTypeOK
<1>b. /\ Completed => Completed' /\ done' = done
      /\ Ended => Ended' /\ daemonExit' = daemonExit
      /\ Delivered(0) => Delivered(0)'
  BY StaysCompleted, ResultIsFinal, Stable
<1>W. WireEnds'
  BY WireEndsStep DEF ExplainInv
<1>L. ASSUME posting'["loop"] = posting["loop"] PROVE LoopEnds'
  BY <1>b, <1>L DEF ExplainInv, LoopEnds, Own
<1>D. ASSUME posting'["dart"] = posting["dart"], Said(queue, 0) => Said(queue', 0)
      PROVE  DartEnds'
  BY <1>b, <1>D DEF ExplainInv, DartEnds, SaidFirst, Said
<1>Q. ASSUME queue' = queue PROVE QueueEnds'
  BY <1>b, <1>Q DEF ExplainInv, QueueEnds, Own, SaidFirst
<1>K. ASSUME done' = done PROVE DoneEnds'
  BY <1>b, <1>K DEF ExplainInv, DoneEnds
<1>1. CASE CreateFails
  <2>1. DoneEnds'
    BY <1>1 DEF CreateFails, DoneEnds, KnownExits
  <2> QED BY <1>1, <1>W, <1>L, <1>D, <1>Q, <2>1 DEF CreateFails, ExplainInv
<1>2. CASE CallThrows
  <2>1. \A t \in Threads : posting'[t] = IF t = "dart" THEN PostError ELSE posting[t]
    BY <1>2, <1>a DEF CallThrows, StartPosting
  <2>2. UNCHANGED <<queue, done>>
    BY <1>2 DEF CallThrows, dispatcherVars
  <2>3. DartEnds'
    <3>1. posting'["dart"] = PostError
      BY <2>1 DEF Threads
    <3>2. \A i \in DOMAIN PostError : PostError[i].kind = "fin" => SaidFirst(PostError, 0, i - 1)
      <4> SUFFICES ASSUME NEW i \in 1..3, PostError[i].kind = "fin"
                   PROVE  SaidFirst(PostError, 0, i - 1)
        BY PostErrorType
      <4>1. i # 1 /\ Says(PostError[1], 0)
        BY PostErrorType DEF DataMessage, Message, Says
      <4>2. 1 \in 1..(i - 1)
        BY <4>1
      <4> QED BY <4>1, <4>2 DEF SaidFirst
    <3> QED BY <3>1, <3>2 DEF DartEnds, SaidFirst
  <2> QED BY <1>W, <1>L, <1>Q, <1>K, <2>1, <2>2, <2>3 DEF ExplainInv, Threads
<1>3. CASE TakeSignal
  <2>1. wire # <<>> /\ Head(wire) \in Signals /\ Head(wire) = wire[1] /\ 1 \in DOMAIN wire
    BY <1>3, <1>a DEF TakeSignal
  <2>2. \A t \in Threads : posting'[t] = IF t = "loop" THEN OnSignal(wire[1]) ELSE posting[t]
    BY <1>3, <1>a, <2>1 DEF TakeSignal, StartPosting
  <2>3. UNCHANGED <<queue, done, daemon, daemonExit>>
    BY <1>3 DEF TakeSignal, dispatcherVars
  <2>4. LoopEnds'
    <3>1. posting'["loop"] = OnSignal(wire[1])
      BY <2>2 DEF Threads
    <3>2. \A i \in DOMAIN OnSignal(wire[1]) :
            OnSignal(wire[1])[i].kind = "fin" => Own(OnSignal(wire[1])[i].exit)
      BY <2>1, OnSignalFin DEF ExplainInv, WireEnds
    <3> QED BY <2>3, <3>1, <3>2 DEF LoopEnds, Own, Ended
  <2> QED BY <1>W, <1>D, <1>Q, <1>K, <2>2, <2>3, <2>4 DEF ExplainInv, Threads
<1>4. CASE HandleMessage
  <2>1. /\ queue # <<>> /\ 1 \in DOMAIN queue /\ queue[1] \in Messages /\ Dispatch(queue[1])
        /\ ~Completed => queue' = Tail(queue)
        /\ posting["dart"] = <<>> /\ posting' = posting
        /\ UNCHANGED <<daemon, daemonExit>>
    BY <1>4, HandleMoves DEF daemonVars
  <2>2. DartEnds'
    BY <2>1 DEF DartEnds
  <2>3. CASE Completed
    <3>1. QueueEnds'
      BY <1>b, <2>3 DEF QueueEnds
    <3> QED BY <1>W, <1>L, <1>K, <1>b, <2>1, <2>2, <2>3, <3>1 DEF ExplainInv
  <2>4. CASE ~Completed
    <3> DEFINE m == queue[1]
    <3>e. \/ m.kind = "data" /\ seen' = Append(seen, m.item) /\ done' = done
          \/ m.kind \in {"data", "bad"} /\ seen' = seen /\ done' = "decodeError"
          \/ m.kind = "fin" /\ seen' = seen /\ done' = FromInt(m.exit)
          \/ m.kind = "sentinel" /\ seen' = seen /\ done' = done
      BY <2>1, <2>4, DispatchEffect
    <3>1. \A i \in DOMAIN queue' : i \in Nat /\ i + 1 \in DOMAIN queue /\ queue'[i] = queue[i + 1]
      BY <1>a, <2>1, <2>4
    <3>2. CASE m.kind = "data" /\ seen' = Append(seen, m.item) /\ done' = done
      <4>1. m.item = 0 => Delivered(0)'
        <5>1. Len(seen) + 1 \in DOMAIN seen' /\ seen'[Len(seen) + 1] = m.item
          BY <3>2 DEF TypeOK, DispatcherTypeOK
        <5> QED BY <5>1 DEF Delivered
      <4>2. QueueEnds'
        <5> SUFFICES ASSUME NEW i \in DOMAIN queue', queue'[i].kind = "fin",
                            ~Completed', ~Delivered(0)', ~(Ended' /\ queue'[i].exit = daemonExit')
                     PROVE  SaidFirst(queue', 0, i - 1)
          BY DEF QueueEnds, SaidFirst, Own
        <5>1. SaidFirst(queue, 0, i)
          <6>1. i + 1 \in DOMAIN queue /\ queue[i + 1].kind = "fin" /\ (i + 1) - 1 = i
            BY <3>1
          <6>2. ~Own(queue[i + 1].exit) /\ ~Delivered(0)
            BY <1>b, <2>1, <3>1 DEF Own, Ended
          <6> QED BY <2>4, <6>1, <6>2 DEF ExplainInv, QueueEnds
        <5>2. PICK j \in 1..i : Says(queue[j], 0)
          BY <5>1 DEF SaidFirst
        <5>3. j # 1
          BY <4>1, <5>2 DEF Says
        <5>4. j - 1 \in 1..(i - 1) /\ j - 1 \in DOMAIN queue' /\ queue'[j - 1] = queue[j]
          <6>0. Tail(queue) \in Seq(Messages) /\ queue' = Tail(queue)
            BY <1>a, <2>1, <2>4
          <6>1. queue' \in Seq(Messages) /\ i \in 1..Len(queue') /\ j \in Nat \ {0}
            BY <3>1, <6>0
          <6>2. j - 1 \in 1..(i - 1) /\ j - 1 \in DOMAIN queue'
            BY <5>3, <6>1
          <6> QED BY <3>1, <6>2
        <5> QED BY <5>2, <5>4 DEF SaidFirst
      <4> QED BY <1>W, <1>L, <1>K, <2>1, <2>2, <3>2, <4>2 DEF ExplainInv
    <3>3. CASE m.kind \in {"data", "bad"} /\ seen' = seen /\ done' = "decodeError"
      <4>1. QueueEnds' /\ DoneEnds'
        BY <3>3 DEF QueueEnds, DoneEnds, Completed, KnownExits
      <4> QED BY <1>W, <1>L, <2>1, <2>2, <4>1 DEF ExplainInv
    <3>4. CASE m.kind = "fin" /\ seen' = seen /\ done' = FromInt(m.exit)
      <4>1. QueueEnds'
        BY <3>4, FromIntType DEF QueueEnds, Completed, KnownExits
      <4>2. Own(m.exit) \/ Delivered(0)
        <5>1. ~SaidFirst(queue, 0, 1 - 1)
          BY DEF SaidFirst
        <5> QED BY <2>1, <2>4, <3>4, <5>1 DEF ExplainInv, QueueEnds
      <4>3. DoneEnds'
        BY <1>b, <2>1, <3>4, <4>2 DEF DoneEnds, Own, Ended
      <4> QED BY <1>W, <1>L, <2>1, <2>2, <4>1, <4>3 DEF ExplainInv
    <3>5. CASE m.kind = "sentinel" /\ seen' = seen /\ done' = done
      <4>1. m.kind = "sentinel" => FinPrecedes(queue, 1)
        BY <2>1, <2>4 DEF EndInv
      <4> QED BY <3>5, <4>1 DEF FinPrecedes
    <3> QED BY <3>e, <3>2, <3>3, <3>4, <3>5
  <2> QED BY <2>3, <2>4
<1>5. ASSUME NEW t \in Threads, Post(t), UNCHANGED <<daemonVars, dispatcherVars>>
      PROVE  ExplainInv'
  <2>0. UNCHANGED <<done, seen, daemon, daemonExit>>
    BY <1>5 DEF daemonVars, dispatcherVars
  <2>1. CASE Completed
    <3>1. DartEnds' /\ QueueEnds'
      BY <1>b, <2>1 DEF DartEnds, QueueEnds
    <3>2. LoopEnds'
      <4>1. CASE t = "dart"
        BY <1>a, <1>5, <1>L, <4>1 DEF Post, Threads
      <4>2. CASE t = "loop"
        <5>1. posting["loop"] # <<>> /\ posting'["loop"] = Tail(posting["loop"])
          BY <1>a, <1>5, <4>2 DEF Post, Threads
        <5>2. \A i \in DOMAIN posting'["loop"] :
                i + 1 \in DOMAIN posting["loop"] /\ posting'["loop"][i] = posting["loop"][i + 1]
          BY <1>a, <5>1 DEF Threads
        <5> QED BY <1>b, <5>2 DEF ExplainInv, LoopEnds, Own
      <4> QED BY <4>1, <4>2 DEF Threads
    <3> QED BY <1>W, <1>K, <2>0, <3>1, <3>2 DEF ExplainInv
  <2>2. CASE ~Completed
    <3> DEFINE s == posting[t]
    <3>1. /\ s \in Seq(Messages) /\ s # <<>> /\ 1 \in DOMAIN s
          /\ queue' = Append(queue, s[1]) /\ posting'[t] = Tail(s)
          /\ \A u \in Threads \ {t} : posting'[u] = posting[u]
      BY <1>5, <2>2, PostMoves
    <3>2. \A i \in DOMAIN posting'[t] : i \in Nat /\ i + 1 \in DOMAIN s /\ posting'[t][i] = s[i + 1]
      BY <3>1
    <3>3. /\ \A i \in DOMAIN queue : i \in DOMAIN queue' /\ queue'[i] = queue[i]
          /\ \A i \in DOMAIN queue' : i \in DOMAIN queue \/ i = Len(queue) + 1
          /\ Len(queue) + 1 \in DOMAIN queue' /\ queue'[Len(queue) + 1] = s[1]
          /\ DOMAIN queue = 1..Len(queue) /\ Len(queue) \in Nat
      BY <1>a, <3>1
    <3>4. Said(queue, 0) => Said(queue', 0)
      BY <3>3 DEF Said
    <3>5. LoopEnds' /\ DartEnds'
      <4>1. CASE t = "loop"
        <5>1. LoopEnds'
          BY <1>b, <3>2, <4>1 DEF ExplainInv, LoopEnds, Own
        <5> QED BY <1>D, <3>1, <3>4, <4>1, <5>1 DEF Threads
      <4>2. CASE t = "dart"
        <5>1. DartEnds'
          <6> SUFFICES ASSUME NEW i \in DOMAIN posting'["dart"], posting'["dart"][i].kind = "fin",
                              ~Delivered(0)', ~Said(queue', 0)
                       PROVE  SaidFirst(posting'["dart"], 0, i - 1)
            BY DEF DartEnds, SaidFirst, Said
          <6>1. i \in Nat /\ i + 1 \in DOMAIN s /\ s[i + 1].kind = "fin"
            BY <3>2, <4>2
          <6>2. SaidFirst(s, 0, (i + 1) - 1)
            BY <1>b, <2>2, <3>4, <4>2, <6>1 DEF ExplainInv, DartEnds
          <6>3. PICK j \in 1..i : Says(s[j], 0)
            BY <6>1, <6>2 DEF SaidFirst
          <6>4. j # 1
            BY <3>3, <6>3 DEF Said
          <6>5. j - 1 \in 1..(i - 1) /\ Tail(s)[j - 1] = s[j]
            BY <3>1, <6>1, <6>4
          <6> QED BY <3>1, <4>2, <6>3, <6>5 DEF SaidFirst
        <5> QED BY <1>L, <3>1, <4>2, <5>1 DEF Threads
      <4> QED BY <4>1, <4>2 DEF Threads
    <3>6. QueueEnds'
      <4> SUFFICES ASSUME NEW i \in DOMAIN queue', queue'[i].kind = "fin",
                          ~Delivered(0)', ~(Ended' /\ queue'[i].exit = daemonExit')
                   PROVE  SaidFirst(queue', 0, i - 1)
        BY DEF QueueEnds, SaidFirst, Own
      <4>0. ~Delivered(0) /\ ~Own(queue'[i].exit)
        BY <1>b, <2>0 DEF Own, Ended
      <4>1. CASE i \in DOMAIN queue
        <5>1. SaidFirst(queue, 0, i - 1)
          BY <2>2, <3>3, <4>0, <4>1 DEF ExplainInv, QueueEnds
        <5>2. \A j \in 1..(i - 1) : queue'[j] = queue[j]
          BY <3>3, <4>1
        <5> QED BY <5>1, <5>2 DEF SaidFirst
      <4>2. CASE i = Len(queue) + 1
        <5>1. queue'[i] = s[1] /\ i - 1 = Len(queue)
          BY <3>3, <4>2
        <5>2. Said(queue, 0)
          <6>1. t # "loop"
            BY <3>1, <4>0, <5>1 DEF ExplainInv, LoopEnds
          <6>2. ~SaidFirst(s, 0, 1 - 1)
            BY DEF SaidFirst
          <6> QED BY <2>2, <3>1, <4>0, <5>1, <6>1, <6>2 DEF ExplainInv, DartEnds, Threads
        <5> QED BY <3>3, <5>1, <5>2 DEF Said, SaidFirst
      <4> QED BY <3>3, <4>1, <4>2
    <3> QED BY <1>W, <1>K, <2>0, <3>5, <3>6 DEF ExplainInv
  <2> QED BY <2>1, <2>2
<1>6. CASE PostFromDart \/ PostFromLoop
  BY <1>5, <1>6 DEF PostFromDart, PostFromLoop, Threads
<1>7. CASE CreateSucceeds \/ Call \/ CallReturns \/ Microtask \/ DestroyBridge \/ Cancel
           \/ DaemonStep \/ UNCHANGED vars
  <2>1. UNCHANGED <<posting, queue, done>>
    BY <1>7 DEF CreateSucceeds, Call, CallReturns, Microtask, RunMicrotask, DestroyBridge, Free,
       Cancel, DaemonStep, vars, bridgeVars, dispatcherVars
  <2> QED BY <1>W, <1>L, <1>D, <1>Q, <1>K, <2>1 DEF ExplainInv, Said
<1> QED BY <1>1, <1>2, <1>3, <1>4, <1>6, <1>7 DEF Next, DartThread, LoopThread

(* When result shows an exit that the daemon did not send, errors has      *)
(* already said why: the ErrorCode of postError keeps its place ahead of   *)
(* the Finished that postError makes up, whatever the other thread posts.  *)
THEOREM SyntheticExits == SafetySpec => []SyntheticExitIsExplained
<1>1. Init => ExplainInv
  BY DEF Init, DaemonInit, BridgeInit, DispatcherInit, Threads, ExplainInv, WireEnds, LoopEnds,
     DartEnds, QueueEnds, DoneEnds, KnownExits
<1>2. TypeOK /\ LifeInv /\ EndInv /\ ExplainInv /\ [Next]_vars => ExplainInv'
  BY ExplainStep
<1>3. ExplainInv => SyntheticExitIsExplained
  BY DEF ExplainInv, DoneEnds, SyntheticExitIsExplained, Delivered, Range
<1> QED BY <1>1, <1>2, <1>3, LifeInvariant, EndInvariant, PTL DEF SafetySpec

-----------------------------------------------------------------------------
(* A success is complete.                                                  *)

Sent(i)      == i \in DOMAIN emitted /\ emitted[i] # "mistyped"
OnWire(i, n) == \E j \in 1..n : Said(OnSignal(wire[j]), i)
Reached(i)   == Delivered(i) \/ Said(queue, i)

(* While result is pending, item i is somewhere on its way to the streams, *)
(* and wherever a success is on its way, the item is ahead of it.          *)
NotLost(i) == Reached(i) \/ Said(posting["loop"], i) \/ OnWire(i, Len(wire))
AheadInQueue(i) == \A k \in DOMAIN queue :
  queue[k].exit = "success" => Delivered(i) \/ SaidFirst(queue, i, k - 1)
AheadInLoop(i) == \A k \in DOMAIN posting["loop"] :
  posting["loop"][k].exit = "success" => Reached(i) \/ SaidFirst(posting["loop"], i, k - 1)
AheadOnWire(i) == \A k \in DOMAIN wire :
  wire[k].exit = "success" => Reached(i) \/ Said(posting["loop"], i) \/ OnWire(i, k - 1)

OnItsWay(i) == NotLost(i) /\ AheadInQueue(i) /\ AheadInLoop(i) /\ AheadOnWire(i)

DartNeverSucceeds == \A k \in DOMAIN posting["dart"] : posting["dart"][k].exit # "success"

CompleteInv ==
  /\ DartNeverSucceeds
  /\ \A i : Sent(i) => /\ done = "pending" => OnItsWay(i)
                       /\ done = "success" => Delivered(i)

(* What is said in a sequence is said in every longer one.                 *)
LEMMA SaidAppend ==
  ASSUME NEW s \in Seq(Messages), NEW m \in Messages, NEW i
  PROVE  /\ Said(s, i) \/ Says(m, i) => Said(Append(s, m), i)
         /\ Said(s, i) => SaidFirst(Append(s, m), i, Len(s))
         /\ \A k \in DOMAIN s : SaidFirst(s, i, k - 1) => SaidFirst(Append(s, m), i, k - 1)
         /\ \A k \in DOMAIN Append(s, m) :
              \/ k \in DOMAIN s /\ Append(s, m)[k] = s[k]
              \/ k = Len(s) + 1 /\ Append(s, m)[k] = m
<1>1. /\ Len(s) \in Nat /\ DOMAIN s = 1..Len(s)
      /\ \A k \in DOMAIN s : k \in DOMAIN Append(s, m) /\ Append(s, m)[k] = s[k]
      /\ Len(s) + 1 \in DOMAIN Append(s, m) /\ Append(s, m)[Len(s) + 1] = m
      /\ \A k \in DOMAIN Append(s, m) : k \in DOMAIN s \/ k = Len(s) + 1
  OBVIOUS
<1>2. Said(s, i) \/ Says(m, i) => Said(Append(s, m), i)
  BY <1>1 DEF Said
<1>3. Said(s, i) => SaidFirst(Append(s, m), i, Len(s))
  BY <1>1 DEF Said, SaidFirst
<1>4. ASSUME NEW k \in DOMAIN s, SaidFirst(s, i, k - 1)
      PROVE  SaidFirst(Append(s, m), i, k - 1)
  <2>1. \A j \in 1..(k - 1) : j \in DOMAIN s
    BY <1>1
  <2> QED BY <1>1, <1>4, <2>1 DEF SaidFirst
<1> QED BY <1>1, <1>2, <1>3, <1>4

(* What is said in a sequence is said by its head or in its tail.          *)
LEMMA SaidTail ==
  ASSUME NEW s \in Seq(Messages), s # <<>>, NEW i
  PROVE  /\ Said(s, i) => Says(s[1], i) \/ Said(Tail(s), i)
         /\ \A k \in DOMAIN Tail(s) :
              /\ k + 1 \in DOMAIN s /\ Tail(s)[k] = s[k + 1] /\ (k + 1) - 1 = k
              /\ SaidFirst(s, i, k) => Says(s[1], i) \/ SaidFirst(Tail(s), i, k - 1)
<1>1. \A k \in DOMAIN Tail(s) : k \in Nat /\ k + 1 \in DOMAIN s /\ Tail(s)[k] = s[k + 1] /\ (k + 1) - 1 = k
  OBVIOUS
<1>2. \A j \in DOMAIN s : j # 1 => j - 1 \in DOMAIN Tail(s) /\ Tail(s)[j - 1] = s[j]
  OBVIOUS
<1>3. Said(s, i) => Says(s[1], i) \/ Said(Tail(s), i)
  BY <1>2 DEF Said
<1>4. ASSUME NEW k \in DOMAIN Tail(s), SaidFirst(s, i, k), ~Says(s[1], i)
      PROVE  SaidFirst(Tail(s), i, k - 1)
  <2>1. PICK j \in 1..k : Says(s[j], i)
    BY <1>4 DEF SaidFirst
  <2>2. j # 1 /\ j \in DOMAIN s
    BY <1>1, <1>4, <2>1
  <2>3. j - 1 \in 1..(k - 1) /\ Tail(s)[j - 1] = s[j]
    BY <1>1, <1>2, <2>2
  <2> QED BY <2>1, <2>3 DEF SaidFirst
<1> QED BY <1>1, <1>3, <1>4

(* Nothing is emitted once a success is anywhere.                          *)
LEMMA SuccessStopsItems ==
  ASSUME TypeOK, ExitInv, NEW form \in DaemonForms, Emit(form)
  PROVE  /\ done # "success"
         /\ \A k \in DOMAIN queue : queue[k].exit # "success"
         /\ \A t \in Threads : \A k \in DOMAIN posting[t] : posting[t][k].exit # "success"
         /\ \A k \in DOMAIN wire : wire[k].exit # "success"
<1>1. daemonExit # "success"
  BY DEF Emit, ExitInv, NoExit
<1> QED BY <1>1 DEF ExitInv

(* A signal with items tells of every one of them but the mistyped.        *)
LEMMA EmitSays ==
  ASSUME TypeOK, NEW form \in DaemonForms, Emit(form), NEW i, Sent(i)', ~Sent(i)
  PROVE  Said(OnSignal(wire'[Len(wire')]), i) /\ Len(wire') = Len(wire) + 1
<1> DEFINE n == Len(emitted)
           size == IF form = "batch" THEN 2 ELSE 1
           items == [k \in 1..size |-> n + k]
           sig == Signal(form, items, NoExit)
<1>1. /\ emitted \in Seq(Forms) /\ wire \in Seq(Signals) /\ n \in Nat /\ size \in 1..2
      /\ form \in Forms
  BY DaemonAssumption DEF TypeOK, DaemonTypeOK
<1>2. /\ emitted' = emitted \o [k \in 1..size |-> form]
      /\ wire' = Append(wire, sig)
  BY DEF Emit
<1>3. /\ i \in (n + 1)..(n + size) /\ form # "mistyped"
  <2> DEFINE new == [k \in 1..size |-> form]
  <2>1. new \in Seq(Forms) /\ Len(new) = size
    BY <1>1
  <2>2. /\ DOMAIN emitted' = 1..(n + size)
        /\ \A k \in 1..n : emitted'[k] = emitted[k]
        /\ \A k \in (n + 1)..(n + size) : emitted'[k] = form
    BY <1>1, <1>2, <2>1
  <2> QED BY <1>1, <2>2 DEF Sent
<1>4. wire'[Len(wire')] = sig /\ Len(wire') = Len(wire) + 1
  BY <1>1, <1>2
<1>5. i - n \in DOMAIN items /\ items[i - n] = i
  BY <1>1, <1>3
<1>6. CASE form \in {"data", "batch"}
  <2>1. i - n \in DOMAIN OnSignal(sig) /\ OnSignal(sig)[i - n] = DataMessage(i)
    BY <1>5, <1>6 DEF OnSignal, Signal
  <2>2. Says(DataMessage(i), i)
    BY DEF Says, DataMessage, Message
  <2> QED BY <1>4, <2>1, <2>2 DEF Said
<1>7. CASE form = "bad"
  <2>1. items[1] = i
    BY <1>1, <1>3, <1>7
  <2>2. 1 \in DOMAIN OnSignal(sig) /\ OnSignal(sig)[1] = BadMessage(i)
    BY <1>7, <2>1 DEF OnSignal, Signal
  <2>3. Says(BadMessage(i), i)
    BY DEF Says, BadMessage, Message
  <2> QED BY <1>4, <2>2, <2>3 DEF Said
<1> QED BY <1>1, <1>3, <1>6, <1>7 DEF Forms

(* The isolate's thread never posts a success of its own.                  *)
LEMMA DartNeverSucceedsStep ==
  ASSUME TypeOK, DartNeverSucceeds, [Next]_vars PROVE DartNeverSucceeds'
<1>0. posting \in [Threads -> Seq(Messages)]
  BY DEF TypeOK, BridgeTypeOK
<1>1. CASE CallThrows
  <2>1. posting'["dart"] = PostError
    BY <1>0, <1>1 DEF CallThrows, StartPosting, Threads
  <2> QED BY <2>1, PostErrorExits DEF DartNeverSucceeds
<1>2. CASE PostFromDart
  <2>1. posting["dart"] # <<>> /\ posting'["dart"] = Tail(posting["dart"])
    BY <1>0, <1>2 DEF PostFromDart, Post, Threads
  <2>2. \A k \in DOMAIN posting'["dart"] :
          k + 1 \in DOMAIN posting["dart"] /\ posting'["dart"][k] = posting["dart"][k + 1]
    BY <1>0, <2>1 DEF Threads
  <2> QED BY <2>2 DEF DartNeverSucceeds
<1>3. CASE TakeSignal \/ PostFromLoop
  BY <1>0, <1>3 DEF TakeSignal, StartPosting, PostFromLoop, Post, Threads, DartNeverSucceeds
<1>4. ASSUME ~CallThrows, ~PostFromDart, ~TakeSignal, ~PostFromLoop PROVE posting' = posting
  BY <1>4 DEF Next, vars, DartThread, LoopThread, CreateSucceeds, CreateFails, Call, CallReturns,
     HandleMessage, Microtask, DestroyBridge, Free, Cancel, DaemonStep, bridgeVars
<1> QED BY <1>1, <1>2, <1>3, <1>4 DEF DartNeverSucceeds

(* An item on its way stays there until it is delivered, and stays ahead   *)
(* of every success, while the result is pending.                          *)
LEMMA OnItsWayStep ==
  ASSUME TypeOK, LifeInv, EndInv, ExitInv, DartNeverSucceeds, [Next]_vars,
         NEW i, Sent(i), OnItsWay(i), done = "pending", done' = "pending",
         ~(\E form \in DaemonForms : Emit(form))
  PROVE  OnItsWay(i)'
<1>a. /\ posting \in [Threads -> Seq(Messages)] /\ queue \in Seq(Messages)
      /\ wire \in Seq(Signals) /\ ~Completed
  BY DEF TypeOK, BridgeTypeOK, DaemonTypeOK, Completed
<1>b. Delivered(i) => Delivered(i)'
  BY Stable
<1>1. ASSUME UNCHANGED <<posting, queue, wire>> PROVE OnItsWay(i)'
  BY <1>b, <1>1 DEF OnItsWay, NotLost, AheadInQueue, AheadInLoop, AheadOnWire, Reached, Said,
     SaidFirst, OnWire
<1>2. CASE CallThrows
  <2>1. UNCHANGED <<queue, wire>> /\ posting'["loop"] = posting["loop"]
    BY <1>a, <1>2 DEF CallThrows, Replied, TimedOut, StartPosting, Threads
  <2> QED BY <1>b, <2>1 DEF OnItsWay, NotLost, AheadInQueue, AheadInLoop, AheadOnWire, Reached,
      Said, SaidFirst, OnWire
<1>3. CASE TakeSignal
  <2>1. /\ wire # <<>> /\ 1 \in DOMAIN wire /\ wire[1] \in Signals /\ wire' = Tail(wire)
        /\ posting["loop"] = <<>> /\ posting'["loop"] = OnSignal(wire[1]) /\ queue' = queue
    BY <1>a, <1>3 DEF TakeSignal, StartPosting, Threads
  <2>2. /\ \A k \in DOMAIN wire' : k \in Nat /\ k + 1 \in DOMAIN wire /\ wire'[k] = wire[k + 1]
        /\ Len(wire') = Len(wire) - 1 /\ Len(wire') \in Nat /\ DOMAIN wire' = 1..Len(wire')
    BY <1>a, <2>1
  <2>3. ~Said(posting["loop"], i)
    BY <2>1 DEF Said
  <2>4. ASSUME NEW n \in Nat, n <= Len(wire'), OnWire(i, n + 1)
        PROVE  Said(posting'["loop"], i) \/ OnWire(i, n)'
    <3>1. PICK j \in 1..(n + 1) : Said(OnSignal(wire[j]), i)
      BY <2>4 DEF OnWire
    <3>2. CASE j = 1
      BY <2>1, <3>1, <3>2
    <3>3. CASE j # 1
      <4>1. j - 1 \in 1..n /\ j - 1 \in DOMAIN wire' /\ (j - 1) + 1 = j
        BY <2>2, <2>4, <3>3
      <4>2. wire'[j - 1] = wire[j]
        BY <2>2, <4>1
      <4> QED BY <3>1, <4>1, <4>2 DEF OnWire
    <3> QED BY <3>2, <3>3
  <2>5. Reached(i) => Reached(i)'
    BY <1>b, <2>1 DEF Reached, Said
  <2>6. NotLost(i)'
    <3>1. Reached(i) \/ OnWire(i, Len(wire') + 1)
      BY <1>a, <2>2, <2>3 DEF OnItsWay, NotLost
    <3> QED BY <2>2, <2>4, <2>5, <3>1 DEF NotLost, Said
  <2>7. AheadInQueue(i)'
    BY <1>b, <2>1 DEF OnItsWay, AheadInQueue, SaidFirst
  <2>8. AheadInLoop(i)'
    <3>1. ~OnWire(i, 1 - 1)
      BY DEF OnWire
    <3>2. wire[1].exit = "success" => Reached(i)
      BY <2>1, <2>3, <3>1 DEF OnItsWay, AheadOnWire
    <3>3. \A k \in DOMAIN posting'["loop"] : posting'["loop"][k].exit = "success" => Reached(i)'
      BY <2>1, <2>5, <3>2, OnSignalExits
    <3> QED BY <3>3 DEF AheadInLoop
  <2>9. AheadOnWire(i)'
    <3> SUFFICES ASSUME NEW k \in DOMAIN wire', wire'[k].exit = "success", ~Reached(i)'
                 PROVE  Said(posting'["loop"], i) \/ OnWire(i, k - 1)'
      BY DEF AheadOnWire, Said
    <3>1. k + 1 \in DOMAIN wire /\ wire[k + 1].exit = "success" /\ (k + 1) - 1 = (k - 1) + 1
      BY <2>2
    <3>2. OnWire(i, (k - 1) + 1)
      BY <2>3, <2>5, <3>1 DEF OnItsWay, AheadOnWire
    <3>3. k - 1 \in Nat /\ k - 1 <= Len(wire')
      BY <2>2
    <3> QED BY <2>4, <3>2, <3>3
  <2> QED BY <2>6, <2>7, <2>8, <2>9 DEF OnItsWay
<1>4. CASE HandleMessage
  <2>1. /\ queue # <<>> /\ queue[1] \in Messages /\ Dispatch(queue[1]) /\ queue' = Tail(queue)
        /\ UNCHANGED <<posting, wire>>
    BY <1>4, <1>a, HandleMoves DEF daemonVars
  <2>2. Says(queue[1], i) => Delivered(i)'
    <3>1. Says(queue[1], i) => seen' = Append(seen, i)
      <4>1. FromInt(queue[1].exit) # "pending"
        BY FromIntType DEF KnownExits
      <4> QED BY <1>a, <2>1, <4>1, DispatchEffect DEF Says
    <3>2. ASSUME seen' = Append(seen, i) PROVE Delivered(i)'
      <4>1. Len(seen) + 1 \in DOMAIN seen' /\ seen'[Len(seen) + 1] = i
        BY <3>2 DEF TypeOK, DispatcherTypeOK
      <4> QED BY <4>1 DEF Delivered
    <3> QED BY <3>1, <3>2
  <2>3. Reached(i) => Reached(i)'
    <3>1. Said(queue, i) => Says(queue[1], i) \/ Said(queue', i)
      BY <1>a, <2>1, SaidTail
    <3> QED BY <1>b, <2>2, <3>1 DEF Reached, Said
  <2>4. NotLost(i)' /\ AheadInLoop(i)' /\ AheadOnWire(i)'
    BY <2>1, <2>3 DEF OnItsWay, NotLost, AheadInLoop, AheadOnWire, Said, SaidFirst, OnWire
  <2>5. AheadInQueue(i)'
    <3> SUFFICES ASSUME NEW k \in DOMAIN queue', queue'[k].exit = "success", ~Delivered(i)'
                 PROVE  SaidFirst(queue', i, k - 1)
      BY DEF AheadInQueue, SaidFirst
    <3>1. /\ k + 1 \in DOMAIN queue /\ queue'[k] = queue[k + 1] /\ (k + 1) - 1 = k
          /\ SaidFirst(queue, i, k) => Says(queue[1], i) \/ SaidFirst(queue', i, k - 1)
      BY <1>a, <2>1, SaidTail
    <3>2. SaidFirst(queue, i, (k + 1) - 1)
      BY <1>b, <3>1 DEF OnItsWay, AheadInQueue
    <3> QED BY <2>2, <3>1, <3>2
  <2> QED BY <2>4, <2>5 DEF OnItsWay
<1>5. ASSUME NEW t \in Threads, Post(t), UNCHANGED <<daemonVars, dispatcherVars>>
      PROVE  OnItsWay(i)'
  <2> DEFINE s == posting[t]
  <2>1. /\ s \in Seq(Messages) /\ s # <<>> /\ 1 \in DOMAIN s /\ s[1] \in Messages
        /\ queue' = Append(queue, s[1]) /\ posting'[t] = Tail(s)
        /\ \A u \in Threads \ {t} : posting'[u] = posting[u]
    BY <1>5, <1>a, PostMoves
  <2>2. wire' = wire /\ seen' = seen
    BY <1>5 DEF daemonVars, dispatcherVars
  <2>3. Said(queue, i) \/ Says(s[1], i) => Said(queue', i)
    BY <1>a, <2>1, SaidAppend
  <2>4. (Reached(i) \/ Said(posting["loop"], i)) => (Reached(i) \/ Said(posting["loop"], i))'
    <3>1. Said(posting["loop"], i) => Said(posting'["loop"], i) \/ Said(queue', i)
      BY <2>1, <2>3, SaidTail DEF Threads
    <3> QED BY <1>b, <2>3, <3>1 DEF Reached, Said
  <2>5. NotLost(i)' /\ AheadOnWire(i)'
    BY <2>2, <2>4 DEF OnItsWay, NotLost, AheadOnWire, OnWire
  <2>6. AheadInLoop(i)'
    <3>1. CASE t = "dart"
      <4>1. posting'["loop"] = posting["loop"]
        BY <2>1, <3>1 DEF Threads
      <4> QED BY <1>b, <2>3, <4>1 DEF OnItsWay, AheadInLoop, Reached, Said, SaidFirst
    <3>2. CASE t = "loop"
      <4> SUFFICES ASSUME NEW k \in DOMAIN Tail(s), Tail(s)[k].exit = "success", ~Reached(i)'
                   PROVE  SaidFirst(Tail(s), i, k - 1)
        BY <2>1, <3>2 DEF AheadInLoop, SaidFirst
      <4>1. /\ k + 1 \in DOMAIN s /\ Tail(s)[k] = s[k + 1] /\ (k + 1) - 1 = k
            /\ SaidFirst(s, i, k) => Says(s[1], i) \/ SaidFirst(Tail(s), i, k - 1)
        BY <2>1, SaidTail
      <4>2. ~Reached(i) /\ ~Says(s[1], i)
        BY <1>b, <2>3 DEF Reached, Said
      <4>3. SaidFirst(s, i, (k + 1) - 1)
        BY <3>2, <4>1, <4>2 DEF OnItsWay, AheadInLoop
      <4> QED BY <4>1, <4>2, <4>3
    <3> QED BY <3>1, <3>2 DEF Threads
  <2>7. AheadInQueue(i)'
    <3> SUFFICES ASSUME NEW k \in DOMAIN queue', queue'[k].exit = "success", ~Delivered(i)'
                 PROVE  SaidFirst(queue', i, k - 1)
      BY DEF AheadInQueue, SaidFirst
    <3>1. CASE k \in DOMAIN queue /\ queue'[k] = queue[k]
      <4>1. SaidFirst(queue, i, k - 1)
        BY <1>b, <3>1 DEF OnItsWay, AheadInQueue
      <4> QED BY <1>a, <2>1, <3>1, <4>1, SaidAppend
    <3>2. CASE k = Len(queue) + 1 /\ queue'[k] = s[1]
      <4>1. t = "loop"
        BY <2>1, <3>2 DEF DartNeverSucceeds, Threads
      <4>2. ~SaidFirst(s, i, 1 - 1)
        BY DEF SaidFirst
      <4>3. Said(queue, i)
        BY <1>b, <2>1, <3>2, <4>1, <4>2 DEF OnItsWay, AheadInLoop, Reached
      <4>4. SaidFirst(queue', i, Len(queue))
        BY <1>a, <2>1, <4>3, SaidAppend
      <4>5. k - 1 = Len(queue)
        BY <1>a, <3>2
      <4> QED BY <4>4, <4>5
    <3> QED BY <1>a, <2>1, <3>1, <3>2, SaidAppend
  <2> QED BY <2>5, <2>6, <2>7 DEF OnItsWay
<1>6. CASE DaemonStep
  <2>1. UNCHANGED <<posting, queue, seen>>
    BY <1>6 DEF DaemonStep, bridgeVars, dispatcherVars
  <2>2. wire' = wire \/ \E s : wire' = Append(wire, s)
    BY <1>6 DEF DaemonStep, DaemonTurn, Accept, Refuse, Finish, Destroy, Crash
  <2>3. CASE wire' = wire
    BY <1>1, <2>1, <2>3
  <2>4. ASSUME NEW s, wire' = Append(wire, s) PROVE OnItsWay(i)'
    <3>1. /\ Len(wire) \in Nat /\ Len(wire') = Len(wire) + 1
          /\ DOMAIN wire = 1..Len(wire)
          /\ \A k \in DOMAIN wire : wire'[k] = wire[k]
          /\ \A k \in DOMAIN wire' : k \in DOMAIN wire \/ k = Len(wire) + 1
      BY <1>a, <2>4
    <3>2. \A n \in 0..Len(wire) : OnWire(i, n) => OnWire(i, n)'
      BY <3>1 DEF OnWire
    <3>3. OnWire(i, Len(wire)) => OnWire(i, Len(wire))'
      BY <3>1 DEF OnWire
    <3>4. NotLost(i)'
      BY <2>1, <3>3 DEF OnItsWay, NotLost, Reached, Delivered, Said
    <3>5. AheadInQueue(i)' /\ AheadInLoop(i)'
      BY <2>1 DEF OnItsWay, AheadInQueue, AheadInLoop, Reached, Delivered, Said, SaidFirst
    <3>6. AheadOnWire(i)'
      <4> SUFFICES ASSUME NEW k \in DOMAIN wire', wire'[k].exit = "success",
                          ~Reached(i), ~Said(posting["loop"], i)
                   PROVE  OnWire(i, k - 1)'
        BY <2>1 DEF AheadOnWire, Reached, Delivered, Said
      <4>1. CASE k \in DOMAIN wire
        <5>1. OnWire(i, k - 1) /\ k - 1 \in 0..Len(wire)
          BY <3>1, <4>1 DEF OnItsWay, AheadOnWire
        <5> QED BY <3>2, <5>1
      <4>2. CASE k = Len(wire) + 1
        <5>1. OnWire(i, Len(wire)) /\ k - 1 = Len(wire) /\ Len(wire) \in 0..Len(wire)
          BY <3>1, <4>2 DEF OnItsWay, NotLost
        <5> QED BY <3>2, <5>1
      <4> QED BY <3>1, <4>1, <4>2
    <3> QED BY <3>4, <3>5, <3>6 DEF OnItsWay
  <2> QED BY <2>2, <2>3, <2>4
<1>7. CASE CreateSucceeds \/ CreateFails \/ Call \/ CallReturns \/ Microtask \/ DestroyBridge
           \/ Cancel \/ UNCHANGED vars
  <2>1. UNCHANGED <<posting, queue, wire>>
    BY <1>7 DEF CreateSucceeds, NewTransaction, CreateFails, Call, Request, CallReturns, Replied,
       Microtask, DestroyBridge, Free, Cancel, vars, daemonVars, bridgeVars
  <2> QED BY <1>1, <2>1
<1>8. CASE PostFromDart \/ PostFromLoop
  BY <1>5, <1>8 DEF PostFromDart, PostFromLoop, Threads
<1> QED BY <1>2, <1>3, <1>4, <1>6, <1>7, <1>8 DEF Next, DartThread, LoopThread

(* No step reports a success before the items are delivered.               *)
LEMMA CompleteStep ==
  ASSUME TypeOK, LifeInv, EndInv, ExitInv, CompleteInv, [Next]_vars PROVE CompleteInv'
<1>1. DartNeverSucceeds'
  BY DartNeverSucceedsStep DEF CompleteInv
<1>2. ASSUME NEW i, Sent(i)'
      PROVE  (done' = "pending" => OnItsWay(i)') /\ (done' = "success" => Delivered(i)')
  <2>1. CASE \E form \in DaemonForms : Emit(form) /\ DaemonStep
    <3>1. PICK form \in DaemonForms : Emit(form) /\ DaemonStep
      BY <2>1
    <3>2. /\ UNCHANGED <<done, seen, posting, queue>> /\ done # "success"
          /\ \A k \in DOMAIN queue : queue[k].exit # "success"
          /\ \A t \in Threads : \A k \in DOMAIN posting[t] : posting[t][k].exit # "success"
          /\ \A k \in DOMAIN wire : wire[k].exit # "success"
      BY <3>1, SuccessStopsItems DEF DaemonStep, bridgeVars, dispatcherVars
    <3>3. PICK items : wire' = Append(wire, Signal(form, items, NoExit))
      BY <3>1 DEF Emit
    <3>4. /\ Len(wire) \in Nat /\ Len(wire') = Len(wire) + 1 /\ DOMAIN wire = 1..Len(wire)
          /\ \A k \in DOMAIN wire : wire'[k] = wire[k]
          /\ \A k \in DOMAIN wire' : wire'[k].exit # "success"
      <4>1. wire \in Seq(Signals)
        BY DEF TypeOK, DaemonTypeOK
      <4>2. Signal(form, items, NoExit).exit # "success"
        BY DEF Signal, NoExit
      <4> QED BY <3>2, <3>3, <4>1, <4>2
    <3>5. ASSUME done = "pending" PROVE NotLost(i)'
      <4>1. CASE Sent(i)
        <5>1. NotLost(i)
          BY <3>5, <4>1 DEF CompleteInv, OnItsWay
        <5>2. OnWire(i, Len(wire)) => OnWire(i, Len(wire))'
          BY <3>4 DEF OnWire
        <5> QED BY <3>2, <5>1, <5>2 DEF NotLost, Reached, Delivered, Said
      <4>2. CASE ~Sent(i)
        <5>1. Said(OnSignal(wire'[Len(wire')]), i)
          BY <1>2, <3>1, <4>2, EmitSays
        <5>2. Len(wire') \in 1..Len(wire')
          BY <3>4
        <5>3. OnWire(i, Len(wire))'
          BY <5>1, <5>2 DEF OnWire
        <5> QED BY <5>3 DEF NotLost
      <4> QED BY <4>1, <4>2
    <3>6. AheadInQueue(i)' /\ AheadInLoop(i)' /\ AheadOnWire(i)'
      BY <3>2, <3>4 DEF AheadInQueue, AheadInLoop, AheadOnWire, Threads
    <3> QED BY <3>2, <3>5, <3>6 DEF OnItsWay
  <2>2. CASE ~ \E form \in DaemonForms : Emit(form) /\ DaemonStep
    <3>1. emitted' = emitted /\ ~(\E form \in DaemonForms : Emit(form))
      <4>1. ASSUME DaemonStep
            PROVE  emitted' = emitted /\ ~(\E form \in DaemonForms : Emit(form))
        BY <2>2, <4>1 DEF DaemonStep, DaemonTurn, Accept, Refuse, Finish, Destroy, Crash
      <4>2. ASSUME ~DaemonStep PROVE emitted' = emitted
        BY <4>2 DEF Next, vars, DartThread, LoopThread, CreateSucceeds, NewTransaction, CreateFails,
           Call, Request, CallReturns, CallThrows, Replied, TimedOut, PostFromDart, HandleMessage,
           Microtask, DestroyBridge, Cancel, TakeSignal, PostFromLoop, daemonVars
      <4>3. ASSUME emitted' = emitted, NEW form \in DaemonForms, Emit(form) PROVE FALSE
        <5>1. emitted \in Seq(Forms)
          BY DEF TypeOK, DaemonTypeOK
        <5>2. PICK size \in 1..2 : emitted' = emitted \o [k \in 1..size |-> form]
          BY <4>3 DEF Emit
        <5>3. Len(emitted') = Len(emitted) + size
          BY <5>1, <5>2, DaemonAssumption
        <5> QED BY <4>3, <5>1, <5>3
      <4> QED BY <4>1, <4>2, <4>3
    <3>2. Sent(i)
      BY <1>2, <3>1 DEF Sent
    <3>3. Delivered(i) => Delivered(i)'
      BY Stable
    <3>4. CASE done' = "pending"
      <4>1. done = "pending"
        BY <3>4, StaysCompleted DEF Completed
      <4> QED BY <3>1, <3>2, <3>4, <4>1, OnItsWayStep DEF CompleteInv
    <3>5. CASE done' = "success" /\ done = "success"
      BY <3>2, <3>3, <3>5 DEF CompleteInv
    <3>6. CASE done' = "success" /\ done # "success"
      <4>1. done = "pending"
        BY <3>6, ResultIsFinal DEF Completed
      <4>2. HandleMessage
        BY <3>6 DEF Next, vars, DartThread, LoopThread, CreateSucceeds, CreateFails, Call,
           CallReturns, CallThrows, PostFromDart, Microtask, RunMicrotask, DestroyBridge, Cancel,
           TakeSignal, PostFromLoop, DaemonStep, dispatcherVars
      <4>3. 1 \in DOMAIN queue /\ queue[1].exit = "success"
        BY <3>6, <4>1, <4>2, HandleMoves, DispatchEffect, FromIntType DEF Completed
      <4>4. ~SaidFirst(queue, i, 1 - 1)
        BY DEF SaidFirst
      <4>5. Delivered(i)
        BY <3>2, <4>1, <4>3, <4>4 DEF CompleteInv, OnItsWay, AheadInQueue
      <4> QED BY <3>3, <3>6, <4>5
    <3> QED BY <3>4, <3>5, <3>6
  <2> QED BY <2>1, <2>2
<1> QED BY <1>1, <1>2 DEF CompleteInv

(* A result of success comes after every item the daemon sent, but those   *)
(* that onDetails lost: no message of another thread and no failed call    *)
(* lets the Finished message overtake them.                                *)
THEOREM SuccessIsComplete == SafetySpec => []CompleteOnSuccess
<1>1. Init => CompleteInv
  BY DEF Init, DaemonInit, BridgeInit, DispatcherInit, Threads, CompleteInv, DartNeverSucceeds, Sent
<1>2. TypeOK /\ LifeInv /\ EndInv /\ ExitInv /\ CompleteInv /\ [Next]_vars => CompleteInv'
  BY CompleteStep
<1>3. CompleteInv => CompleteOnSuccess
  BY DEF CompleteInv, Sent, Delivered, CompleteOnSuccess, Range
<1>4. SafetySpec => []ExitInv
  <2>1. Init => ExitInv
    BY DEF Init, DaemonInit, BridgeInit, DispatcherInit, ExitInv, Threads
  <2>2. TypeOK /\ ExitInv /\ [Next]_vars => ExitInv'
    BY ExitStep
  <2> QED BY <2>1, <2>2, TypeCorrect, PTL DEF SafetySpec
<1> QED BY <1>1, <1>2, <1>3, <1>4, LifeInvariant, EndInvariant, PTL DEF SafetySpec

-----------------------------------------------------------------------------
(* The order of the items.                                                 *)

Numbers(s) == [k \in DOMAIN s |-> s[k].item]

(* The items of s rise, and are all before those of t; 0 is no item.       *)
Ascending(s) == \A j, k \in DOMAIN s : j < k /\ s[k] # 0 => s[j] < s[k]
Below(s, t)  == \A j \in DOMAIN s, k \in DOMAIN t : t[k] # 0 => s[j] < t[k]

(* The daemon has sent every item of s.                                    *)
UpTo(s, n) == \A k \in DOMAIN s : s[k] <= n

Queued == Numbers(queue)
Posted == Numbers(posting["loop"])

(* From the streams back to the wire, the items rise at every station and  *)
(* from each station to those behind it.                                   *)
Rising ==
  /\ Ascending(seen) /\ Ascending(Queued) /\ Ascending(Posted)
  /\ Below(seen, Queued) /\ Below(seen, Posted) /\ Below(Queued, Posted)
WireRising ==
  /\ \A k \in DOMAIN wire :
       /\ Ascending(wire[k].items)
       /\ Below(seen, wire[k].items) /\ Below(Queued, wire[k].items) /\ Below(Posted, wire[k].items)
  /\ \A j, k \in DOMAIN wire : j < k => Below(wire[j].items, wire[k].items)
WasSent ==
  /\ UpTo(seen, Len(emitted)) /\ UpTo(Queued, Len(emitted)) /\ UpTo(Posted, Len(emitted))
  /\ \A k \in DOMAIN wire : UpTo(wire[k].items, Len(emitted))
DartPostsNoItem == \A k \in DOMAIN posting["dart"] : posting["dart"][k].item = 0

OrderInv == Rising /\ WireRising /\ WasSent /\ DartPostsNoItem

(* A number put at the end of a sequence.                                  *)
LEMMA Move ==
  ASSUME NEW s \in Seq(Nat), NEW x \in Nat
  PROVE  /\ Append(s, x) \in Seq(Nat)
         /\ Ascending(s) /\ (x # 0 => \A k \in DOMAIN s : s[k] < x) => Ascending(Append(s, x))
         /\ \A u : Below(s, u) /\ (\A k \in DOMAIN u : u[k] # 0 => x < u[k])
                     => Below(Append(s, x), u)
         /\ \A r : Below(r, s) /\ (x # 0 => \A k \in DOMAIN r : r[k] < x) => Below(r, Append(s, x))
         /\ \A n : UpTo(s, n) /\ x <= n => UpTo(Append(s, x), n)
<1>1. /\ Append(s, x) \in Seq(Nat) /\ Len(s) \in Nat /\ DOMAIN s = 1..Len(s)
      /\ \A k \in DOMAIN Append(s, x) : \/ k \in DOMAIN s /\ Append(s, x)[k] = s[k]
                                        \/ k = Len(s) + 1 /\ Append(s, x)[k] = x
  OBVIOUS
<1>2. \A k \in DOMAIN s : s[k] \in Nat /\ k \in Nat /\ k <= Len(s)
  BY <1>1
<1>3. ASSUME Ascending(s), x # 0 => \A k \in DOMAIN s : s[k] < x PROVE Ascending(Append(s, x))
  BY <1>1, <1>2, <1>3 DEF Ascending
<1>4. ASSUME NEW u, Below(s, u), \A k \in DOMAIN u : u[k] # 0 => x < u[k]
      PROVE  Below(Append(s, x), u)
  BY <1>1, <1>4 DEF Below
<1>5. ASSUME NEW r, Below(r, s), x # 0 => \A k \in DOMAIN r : r[k] < x
      PROVE  Below(r, Append(s, x))
  BY <1>1, <1>5 DEF Below
<1>6. ASSUME NEW n, UpTo(s, n), x <= n PROVE UpTo(Append(s, x), n)
  BY <1>1, <1>6 DEF UpTo
<1> QED BY <1>1, <1>3, <1>4, <1>5, <1>6

(* What is left of a sequence keeps its order.                             *)
LEMMA Leave ==
  ASSUME NEW t \in Seq(Nat), t # <<>>
  PROVE  /\ Tail(t) \in Seq(Nat) /\ 1 \in DOMAIN t /\ t[1] \in Nat
         /\ Ascending(t) => /\ Ascending(Tail(t))
                            /\ \A k \in DOMAIN Tail(t) : Tail(t)[k] # 0 => t[1] < Tail(t)[k]
         /\ \A u : Below(t, u) => Below(Tail(t), u)
         /\ \A r : Below(r, t) => Below(r, Tail(t))
         /\ \A n : UpTo(t, n) => UpTo(Tail(t), n)
<1>1. /\ Tail(t) \in Seq(Nat) /\ 1 \in DOMAIN t /\ t[1] \in Nat
      /\ \A k \in DOMAIN Tail(t) : k \in Nat /\ k >= 1 /\ k + 1 \in DOMAIN t /\ Tail(t)[k] = t[k + 1]
  OBVIOUS
<1>2. ASSUME Ascending(t)
      PROVE  Ascending(Tail(t)) /\ \A k \in DOMAIN Tail(t) : Tail(t)[k] # 0 => t[1] < Tail(t)[k]
  <2>1. Ascending(Tail(t))
    BY <1>1, <1>2 DEF Ascending
  <2>2. ASSUME NEW k \in DOMAIN Tail(t), Tail(t)[k] # 0 PROVE t[1] < Tail(t)[k]
    <3>1. 1 < k + 1 /\ k + 1 \in DOMAIN t /\ 1 \in DOMAIN t /\ t[k + 1] # 0
      BY <1>1, <2>2
    <3> QED BY <1>1, <1>2, <3>1 DEF Ascending
  <2> QED BY <2>1, <2>2
<1>3. ASSUME NEW u, Below(t, u) PROVE Below(Tail(t), u)
  BY <1>1, <1>3 DEF Below
<1>4. ASSUME NEW r, Below(r, t) PROVE Below(r, Tail(t))
  BY <1>1, <1>4 DEF Below
<1>5. ASSUME NEW n, UpTo(t, n) PROVE UpTo(Tail(t), n)
  BY <1>1, <1>5 DEF UpTo
<1> QED BY <1>1, <1>2, <1>3, <1>4, <1>5

(* The numbers of a sequence of messages.                                  *)
LEMMA NumbersOf ==
  ASSUME NEW s \in Seq(Messages)
  PROVE  /\ Numbers(s) \in Seq(Nat) /\ DOMAIN Numbers(s) = DOMAIN s
         /\ \A k \in DOMAIN s : Numbers(s)[k] = s[k].item
         /\ \A m \in Messages : m.item \in Nat /\ Numbers(Append(s, m)) = Append(Numbers(s), m.item)
         /\ s # <<>> => /\ Numbers(s) # <<>> /\ Numbers(s)[1] = s[1].item
                        /\ Numbers(Tail(s)) = Tail(Numbers(s))
<1>1. \A m \in Messages : m.item \in Nat
  BY MessageAssumption DEF Messages, Items
<1>2. Numbers(s) \in Seq(Nat) /\ DOMAIN Numbers(s) = DOMAIN s
  <2>1. DOMAIN s = 1..Len(s) /\ Len(s) \in Nat /\ \A k \in DOMAIN s : s[k].item \in Nat
    BY <1>1
  <2> QED BY <2>1 DEF Numbers
<1>3. \A k \in DOMAIN s : Numbers(s)[k] = s[k].item
  BY DEF Numbers
<1>4. ASSUME NEW m \in Messages PROVE Numbers(Append(s, m)) = Append(Numbers(s), m.item)
  <2>1. /\ Append(s, m) \in Seq(Messages) /\ Append(Numbers(s), m.item) \in Seq(Nat)
        /\ Len(Append(s, m)) = Len(s) + 1 /\ Len(Append(Numbers(s), m.item)) = Len(s) + 1
    BY <1>1, <1>2
  <2>2. \A k \in 1..(Len(s) + 1) : Append(s, m)[k].item = Append(Numbers(s), m.item)[k]
    BY <1>1, <1>2, <1>3
  <2> QED BY <2>1, <2>2 DEF Numbers
<1>5. ASSUME s # <<>>
      PROVE  /\ Numbers(s) # <<>> /\ Numbers(s)[1] = s[1].item
             /\ Numbers(Tail(s)) = Tail(Numbers(s))
  <2>1. 1 \in DOMAIN s
    BY <1>5
  <2>2. Numbers(s) # <<>> /\ Numbers(s)[1] = s[1].item
    BY <1>2, <1>3, <2>1
  <2>3. /\ Tail(s) \in Seq(Messages) /\ Tail(Numbers(s)) \in Seq(Nat)
        /\ Len(Tail(s)) = Len(s) - 1 /\ Len(Tail(Numbers(s))) = Len(s) - 1
    BY <1>2, <1>5, <2>2
  <2>4. \A k \in 1..(Len(s) - 1) : Tail(s)[k].item = Tail(Numbers(s))[k]
    BY <1>2, <1>3, <1>5, <2>2
  <2> QED BY <2>2, <2>3, <2>4 DEF Numbers
<1> QED BY <1>1, <1>2, <1>3, <1>4, <1>5

(* A handler posts the items of its signal in their order, or fewer.       *)
LEMMA OnSignalNumbers ==
  ASSUME NEW s \in Signals
  PROVE  /\ Ascending(s.items) => Ascending(Numbers(OnSignal(s)))
         /\ \A k \in DOMAIN Numbers(OnSignal(s)) :
              \/ Numbers(OnSignal(s))[k] = 0
              \/ \E l \in DOMAIN s.items : Numbers(OnSignal(s))[k] = s.items[l]
<1>1. CASE s.form \in {"data", "batch"}
  <2>1. Numbers(OnSignal(s)) = s.items
    <3>1. DOMAIN OnSignal(s) = DOMAIN s.items
          /\ \A k \in DOMAIN s.items : OnSignal(s)[k].item = s.items[k]
      BY <1>1 DEF OnSignal, DataMessage, Message
    <3>2. s.items \in Seq(Items)
      BY DEF Signals
    <3>3. s.items = [k \in DOMAIN s.items |-> s.items[k]]
      BY <3>2
    <3> QED BY <3>1, <3>3 DEF Numbers
  <2> QED BY <2>1
<1>2. CASE s.form = "bad"
  <2>1. OnSignal(s) = <<BadMessage(s.items[1])>>
    BY <1>2 DEF OnSignal
  <2>2. 1 \in DOMAIN s.items
    BY <1>2 DEF Signals, Forms
  <2>3. DOMAIN Numbers(OnSignal(s)) = {1} /\ Numbers(OnSignal(s))[1] = s.items[1]
    BY <2>1 DEF Numbers, BadMessage, Message
  <2> QED BY <2>2, <2>3 DEF Ascending
<1>3. CASE s.form = "finished"
  <2>1. OnSignal(s) = <<FinMessage(s.exit), SentinelMessage>>
    BY <1>3 DEF OnSignal, PostFinished
  <2>2. \A k \in DOMAIN Numbers(OnSignal(s)) : Numbers(OnSignal(s))[k] = 0
    BY <2>1 DEF Numbers, FinMessage, SentinelMessage, Message
  <2> QED BY <2>2 DEF Ascending
<1>4. CASE s.form \notin {"data", "batch", "bad", "finished"}
  <2>1. OnSignal(s) = <<>>
    BY <1>4 DEF OnSignal
  <2> QED BY <2>1 DEF Numbers, Ascending
<1> QED BY <1>1, <1>2, <1>3, <1>4

(* Delivering the head of the queue keeps the order.                       *)
LEMMA HandleOrder ==
  ASSUME TypeOK, EndInv, OrderInv, HandleMessage PROVE OrderInv'
<1> DEFINE x == Queued[1]
<1>1. /\ queue \in Seq(Messages) /\ queue # <<>> /\ queue[1] \in Messages
      /\ Dispatch(queue[1]) /\ (queue' = Tail(queue) \/ queue' = <<>>)
      /\ UNCHANGED <<posting, wire, emitted>>
  BY HandleMoves DEF daemonVars
<1>2. seen' = seen \/ seen' = Append(seen, x)
  BY <1>1, NumbersOf, DispatchCases DEF Add, FailDispatch, CompleteWith, ScheduleClose, Queued
<1>3. Queued \in Seq(Nat) /\ Queued # <<>> /\ (Queued' = Tail(Queued) \/ Queued' = <<>>)
  BY <1>1, NumbersOf DEF Queued, Numbers
<1>4. seen \in Seq(Nat)
  BY MessageAssumption DEF TypeOK, DispatcherTypeOK, Items
<1>5. /\ 1 \in DOMAIN Queued /\ x \in Nat /\ Ascending(Queued')
      /\ \A k \in DOMAIN Queued' : Queued'[k] # 0 => x < Queued'[k]
      /\ \A u : Below(Queued, u) => Below(Queued', u)
      /\ \A r : Below(r, Queued) => Below(r, Queued')
      /\ \A n : UpTo(Queued, n) => UpTo(Queued', n)
  <2>1. 1 \in DOMAIN Queued /\ x \in Nat
    BY <1>3, Leave
  <2>2. CASE Queued' = Tail(Queued)
    BY <1>3, <2>1, <2>2, Leave DEF OrderInv, Rising
  <2>3. CASE Queued' = <<>>
    BY <2>1, <2>3 DEF Ascending, Below, UpTo
  <2> QED BY <1>3, <2>2, <2>3
<1>6. /\ Ascending(seen') /\ UpTo(seen', Len(emitted))
      /\ \A u : /\ Below(seen, u) /\ Below(Queued, u)
                => Below(seen', u)
      /\ Below(seen', Queued')
  <2>1. CASE seen' = seen
    BY <1>5, <2>1 DEF OrderInv, Rising, WasSent
  <2>2. CASE seen' = Append(seen, x)
    <3>1. x # 0 => \A k \in DOMAIN seen : seen[k] < x
      BY <1>5 DEF OrderInv, Rising, Below
    <3>2. \A u : Below(Queued, u) => \A k \in DOMAIN u : u[k] # 0 => x < u[k]
      BY <1>5 DEF Below
    <3>3. x <= Len(emitted)
      BY <1>5 DEF OrderInv, WasSent, UpTo
    <3>4. Below(seen, Queued')
      BY <1>5 DEF OrderInv, Rising
    <3> QED BY <1>4, <1>5, <2>2, <3>1, <3>2, <3>3, <3>4, Move DEF OrderInv, Rising, WasSent
  <2> QED BY <1>2, <2>1, <2>2
<1>7. Posted' = Posted
  BY <1>1 DEF Posted
<1>8. Rising' /\ WireRising' /\ WasSent'
  BY <1>1, <1>5, <1>6, <1>7 DEF OrderInv, Rising, WireRising, WasSent
<1> QED BY <1>1, <1>8 DEF OrderInv, DartPostsNoItem

(* Posting the head of what a thread has to say keeps it.                  *)
LEMMA PostOrder ==
  ASSUME TypeOK, OrderInv, NEW t \in Threads, Post(t), UNCHANGED <<daemonVars, dispatcherVars>>
  PROVE  OrderInv'
<1> DEFINE s == posting[t]
           x == s[1].item
<1>1. /\ posting \in [Threads -> Seq(Messages)] /\ queue \in Seq(Messages)
      /\ s \in Seq(Messages) /\ s # <<>> /\ s[1] \in Messages /\ 1 \in DOMAIN s
  BY DEF TypeOK, BridgeTypeOK, Post
<1>2. /\ queue' = queue \/ queue' = Append(queue, s[1])
      /\ \A u \in Threads : posting'[u] = IF u = t THEN Tail(s) ELSE posting[u]
      /\ UNCHANGED <<wire, emitted, seen>>
  <2>1. Head(s) = s[1]
    BY <1>1
  <2> QED BY <1>1, <2>1 DEF Post, daemonVars, dispatcherVars
<1>3. /\ Queued \in Seq(Nat) /\ Posted \in Seq(Nat) /\ x \in Nat
      /\ Queued' = Queued \/ Queued' = Append(Queued, x)
  <2>1. posting["loop"] \in Seq(Messages)
    BY <1>1 DEF Threads
  <2>2. Queued \in Seq(Nat) /\ Posted \in Seq(Nat)
    BY <1>1, <2>1, NumbersOf DEF Queued, Posted
  <2>3. x \in Nat /\ Numbers(Append(queue, s[1])) = Append(Numbers(queue), x)
    BY <1>1, NumbersOf
  <2>4. Queued' = Numbers(queue')
    BY DEF Queued
  <2> QED BY <1>2, <2>2, <2>3, <2>4 DEF Queued
<1>4. /\ Ascending(Posted') /\ Below(seen, Posted') /\ Below(Queued, Posted')
      /\ \A k \in DOMAIN Posted' : Posted'[k] # 0 => x < Posted'[k]
      /\ \A u : Below(Posted, u) => Below(Posted', u)
      /\ UpTo(Posted', Len(emitted))
      /\ x # 0 => /\ \A k \in DOMAIN Queued : Queued[k] < x
                  /\ \A k \in DOMAIN seen : seen[k] < x
      /\ \A k \in DOMAIN wire : \A l \in DOMAIN wire[k].items :
           wire[k].items[l] # 0 => x < wire[k].items[l]
      /\ x <= Len(emitted)
      /\ DartPostsNoItem'
  <2>1. CASE t = "loop"
    <3>1. /\ Posted # <<>> /\ Posted[1] = x /\ Posted' = Tail(Posted)
          /\ posting'["dart"] = posting["dart"]
      BY <1>1, <1>2, <2>1, NumbersOf DEF Posted, Threads
    <3>2. 1 \in DOMAIN Posted
      BY <1>3, <3>1
    <3>3. x # 0 => /\ \A k \in DOMAIN Queued : Queued[k] < x
                   /\ \A k \in DOMAIN seen : seen[k] < x
      BY <3>1, <3>2 DEF OrderInv, Rising, Below
    <3>4. \A k \in DOMAIN wire : \A l \in DOMAIN wire[k].items :
            wire[k].items[l] # 0 => x < wire[k].items[l]
      BY <3>1, <3>2 DEF OrderInv, WireRising, Below
    <3>5. x <= Len(emitted)
      BY <3>1, <3>2 DEF OrderInv, WasSent, UpTo
    <3>6. DartPostsNoItem'
      BY <3>1 DEF OrderInv, DartPostsNoItem
    <3>7. /\ Ascending(Tail(Posted)) /\ Below(seen, Tail(Posted)) /\ Below(Queued, Tail(Posted))
          /\ \A k \in DOMAIN Tail(Posted) : Tail(Posted)[k] # 0 => Posted[1] < Tail(Posted)[k]
          /\ \A u : Below(Posted, u) => Below(Tail(Posted), u)
          /\ UpTo(Tail(Posted), Len(emitted))
      BY <1>3, <3>1, Leave DEF OrderInv, Rising, WasSent
    <3> QED BY <3>1, <3>3, <3>4, <3>5, <3>6, <3>7
  <2>2. CASE t = "dart"
    <3>1. x = 0
      BY <1>1, <2>2 DEF OrderInv, DartPostsNoItem
    <3>2. Posted' = Posted
      BY <1>2, <2>2 DEF Posted, Threads
    <3>3. DartPostsNoItem'
      <4>1. \A k \in DOMAIN Tail(s) : k + 1 \in DOMAIN s /\ Tail(s)[k] = s[k + 1]
        BY <1>1
      <4>2. posting'["dart"] = Tail(s)
        BY <1>2, <2>2
      <4>3. \A k \in DOMAIN s : s[k].item = 0
        BY <2>2 DEF OrderInv, DartPostsNoItem
      <4> QED BY <4>1, <4>2, <4>3 DEF DartPostsNoItem
    <3>4. \A k \in DOMAIN Posted : Posted[k] # 0 => 0 < Posted[k]
      BY <1>3
    <3>5. \A k \in DOMAIN wire : \A l \in DOMAIN wire[k].items :
            wire[k].items[l] # 0 => 0 < wire[k].items[l]
      <4>1. \A k \in DOMAIN wire : wire[k].items \in Seq(Nat)
        BY MessageAssumption DEF TypeOK, DaemonTypeOK, Signals, Items
      <4> QED BY <4>1
    <3>6. Len(emitted) >= 0
      BY DEF TypeOK, DaemonTypeOK
    <3> QED BY <3>1, <3>2, <3>3, <3>4, <3>5, <3>6 DEF OrderInv, Rising, WasSent
  <2> QED BY <2>1, <2>2 DEF Threads
<1>5. CASE Queued' = Queued
  BY <1>2, <1>4, <1>5 DEF OrderInv, Rising, WireRising, WasSent
<1>6. CASE Queued' = Append(Queued, x)
  <2>1. Ascending(Queued') /\ UpTo(Queued', Len(emitted)) /\ Below(seen, Queued')
        /\ Below(Queued', Posted')
    BY <1>3, <1>4, <1>6, Move DEF OrderInv, Rising, WasSent
  <2>2. \A k \in DOMAIN wire : Below(Queued', wire[k].items)
    BY <1>3, <1>4, <1>6, Move DEF OrderInv, WireRising
  <2> QED BY <1>2, <1>4, <2>1, <2>2 DEF OrderInv, Rising, WireRising, WasSent
<1> QED BY <1>3, <1>5, <1>6

(* Taking the first signal off the wire keeps it.                          *)
LEMMA TakeOrder ==
  ASSUME TypeOK, OrderInv, TakeSignal PROVE OrderInv'
<1>1. /\ posting \in [Threads -> Seq(Messages)] /\ wire \in Seq(Signals) /\ wire # <<>>
      /\ wire' = Tail(wire)
  BY DEF TypeOK, BridgeTypeOK, DaemonTypeOK, TakeSignal
<1>2. /\ 1 \in DOMAIN wire /\ wire[1] \in Signals /\ Head(wire) = wire[1]
      /\ \A k \in DOMAIN wire' : k \in Nat /\ k >= 1 /\ k + 1 \in DOMAIN wire /\ wire'[k] = wire[k + 1]
  BY <1>1
<1>3. /\ posting'["loop"] = OnSignal(wire[1]) /\ posting'["dart"] = posting["dart"]
      /\ UNCHANGED <<queue, seen, emitted>>
  BY <1>1, <1>2 DEF TakeSignal, StartPosting, Threads, dispatcherVars
<1> DEFINE p == Numbers(OnSignal(wire[1]))
           w == wire[1].items
<1>4. Posted' = p /\ Queued' = Queued
  BY <1>3 DEF Posted, Queued
<1>5. Ascending(p) /\ \A k \in DOMAIN p : p[k] = 0 \/ \E l \in DOMAIN w : p[k] = w[l]
  BY <1>2, OnSignalNumbers DEF OrderInv, WireRising
<1>6. \A r : Below(r, w) => Below(r, p)
  BY <1>5 DEF Below
<1>7. ASSUME NEW u, u \in Seq(Nat), Below(w, u) PROVE Below(p, u)
  <2>1. \A k \in DOMAIN u : u[k] # 0 => 0 < u[k]
    BY <1>7
  <2> QED BY <1>5, <1>7, <2>1 DEF Below
<1>8. \A k \in DOMAIN wire : wire[k].items \in Seq(Nat)
  BY <1>1, MessageAssumption DEF Signals, Items
<1>9. \A n \in Nat : UpTo(w, n) => UpTo(p, n)
  BY <1>5 DEF UpTo
<1>10. Len(emitted) \in Nat
  BY DEF TypeOK, DaemonTypeOK
<1>11. Rising'
  BY <1>2, <1>3, <1>4, <1>5, <1>6 DEF OrderInv, Rising, WireRising
<1>12. WireRising'
  <2>1. \A k \in DOMAIN wire' : Below(w, wire'[k].items)
    <3> SUFFICES ASSUME NEW k \in DOMAIN wire' PROVE Below(w, wire'[k].items)
      OBVIOUS
    <3>1. k + 1 \in DOMAIN wire /\ 1 < k + 1 /\ wire'[k] = wire[k + 1]
      BY <1>2
    <3> QED BY <1>2, <3>1 DEF OrderInv, WireRising
  <2>2. \A k \in DOMAIN wire' : Below(p, wire'[k].items)
    BY <1>2, <1>7, <1>8, <2>1
  <2>3. \A j, k \in DOMAIN wire' : j < k => Below(wire'[j].items, wire'[k].items)
    <3> SUFFICES ASSUME NEW j \in DOMAIN wire', NEW k \in DOMAIN wire', j < k
                 PROVE  Below(wire'[j].items, wire'[k].items)
      OBVIOUS
    <3>1. /\ j + 1 \in DOMAIN wire /\ k + 1 \in DOMAIN wire /\ j + 1 < k + 1
          /\ wire'[j] = wire[j + 1] /\ wire'[k] = wire[k + 1]
      BY <1>2
    <3> QED BY <3>1 DEF OrderInv, WireRising
  <2>4. \A k \in DOMAIN wire' : /\ Ascending(wire'[k].items) /\ Below(seen, wire'[k].items)
                                /\ Below(Queued, wire'[k].items)
    BY <1>2 DEF OrderInv, WireRising
  <2> QED BY <1>3, <1>4, <2>2, <2>3, <2>4 DEF WireRising
<1>13. WasSent'
  BY <1>2, <1>3, <1>4, <1>9, <1>10 DEF OrderInv, WasSent
<1> QED BY <1>3, <1>11, <1>12, <1>13 DEF OrderInv, DartPostsNoItem

(* A new signal carries items that are higher than all before it.          *)
LEMMA EmitOrder ==
  ASSUME TypeOK, OrderInv, NEW form \in DaemonForms, Emit(form), UNCHANGED <<seen, queue, posting>>
  PROVE  OrderInv'
<1> DEFINE n == Len(emitted)
           size == IF form = "batch" THEN 2 ELSE 1
           items == [k \in 1..size |-> n + k]
<1>1. /\ emitted \in Seq(Forms) /\ wire \in Seq(Signals) /\ n \in Nat /\ size \in 1..2
      /\ form \in Forms
  BY DaemonAssumption DEF TypeOK, DaemonTypeOK
<1>2. Len(emitted') = n + size /\ wire' = Append(wire, Signal(form, items, NoExit))
  <2>1. [k \in 1..size |-> form] \in Seq(Forms) /\ Len([k \in 1..size |-> form]) = size
    BY <1>1
  <2>2. emitted' = emitted \o [k \in 1..size |-> form]
    BY DEF Emit
  <2>3. Len(emitted') = n + size
    <3> HIDE DEF size
    <3> QED BY <1>1, <2>1, <2>2
  <2> QED BY <2>3 DEF Emit
<1>3. /\ Len(wire) \in Nat /\ DOMAIN wire = 1..Len(wire)
      /\ \A k \in DOMAIN wire' : \/ k \in DOMAIN wire /\ wire'[k] = wire[k]
                                 \/ k = Len(wire) + 1 /\ wire'[k].items = items
  BY <1>1, <1>2 DEF Signal
<1>4. /\ DOMAIN items = 1..size
      /\ \A k \in DOMAIN items : items[k] = n + k /\ k \in Nat /\ k >= 1 /\ k <= size
  OBVIOUS
<1> HIDE DEF items
<1>5. Ascending(items) /\ UpTo(items, n + size) /\ \A r : UpTo(r, n) /\ r \in Seq(Int) => Below(r, items)
  <2>1. Ascending(items) /\ UpTo(items, n + size)
    BY <1>1, <1>4 DEF Ascending, UpTo
  <2>2. ASSUME NEW r, UpTo(r, n), r \in Seq(Int) PROVE Below(r, items)
    <3>1. \A j \in DOMAIN r : r[j] \in Int /\ r[j] <= n
      BY <2>2 DEF UpTo
    <3> QED BY <1>1, <1>4, <3>1 DEF Below
  <2> QED BY <2>1, <2>2
<1>6. ASSUME NEW r, UpTo(r, n), r \in Seq(Int) PROVE UpTo(r, n + size)
  <2>1. \A j \in DOMAIN r : r[j] \in Int
    BY <1>6
  <2> QED BY <1>1, <1>6, <2>1 DEF UpTo
<1>7. /\ seen \in Seq(Int) /\ Queued \in Seq(Int) /\ Posted \in Seq(Int)
      /\ \A k \in DOMAIN wire : wire[k].items \in Seq(Int)
  <2>1. seen \in Seq(Int)
    BY MessageAssumption DEF TypeOK, DispatcherTypeOK, Items
  <2>2. queue \in Seq(Messages) /\ posting["loop"] \in Seq(Messages)
    BY DEF TypeOK, BridgeTypeOK, Threads
  <2>3. Queued \in Seq(Nat) /\ Posted \in Seq(Nat)
    BY <2>2, NumbersOf DEF Queued, Posted
  <2>4. \A k \in DOMAIN wire : wire[k].items \in Seq(Int)
    BY <1>1, MessageAssumption DEF Signals, Items
  <2> QED BY <2>1, <2>3, <2>4
<1>8. Queued' = Queued /\ Posted' = Posted /\ seen' = seen
  BY DEF Queued, Posted
<1>9. Rising'
  BY <1>8 DEF OrderInv, Rising
<1>10. WasSent'
  BY <1>2, <1>3, <1>5, <1>6, <1>7, <1>8 DEF OrderInv, WasSent
<1>11. WireRising'
  <2>1. \A k \in DOMAIN wire' : /\ Ascending(wire'[k].items) /\ Below(seen, wire'[k].items)
                                /\ Below(Queued, wire'[k].items) /\ Below(Posted, wire'[k].items)
    BY <1>3, <1>5, <1>7 DEF OrderInv, WireRising, WasSent
  <2>2. \A j, k \in DOMAIN wire' : j < k => Below(wire'[j].items, wire'[k].items)
    <3> SUFFICES ASSUME NEW j \in DOMAIN wire', NEW k \in DOMAIN wire', j < k
                 PROVE  Below(wire'[j].items, wire'[k].items)
      OBVIOUS
    <3>1. j \in DOMAIN wire /\ wire'[j] = wire[j]
      BY <1>3
    <3> QED BY <1>3, <1>5, <1>7, <3>1 DEF OrderInv, WireRising, WasSent
  <2> QED BY <1>8, <2>1, <2>2 DEF WireRising
<1> QED BY <1>9, <1>10, <1>11 DEF OrderInv, DartPostsNoItem

(* A signal without items does not disturb it.                             *)
LEMMA SilentOrder ==
  ASSUME TypeOK, OrderInv, UNCHANGED <<seen, queue, posting, emitted>>,
         wire' = wire \/ \E form, exit : wire' = Append(wire, Signal(form, <<>>, exit))
  PROVE  OrderInv'
<1>1. wire \in Seq(Signals)
  BY DEF TypeOK, DaemonTypeOK
<1>2. \A k \in DOMAIN wire' : \/ k \in DOMAIN wire /\ wire'[k] = wire[k]
                              \/ wire'[k].items = <<>>
  <2>1. CASE wire' = wire
    BY <2>1
  <2>2. ASSUME NEW form, NEW exit, wire' = Append(wire, Signal(form, <<>>, exit))
        PROVE  \A k \in DOMAIN wire' : \/ k \in DOMAIN wire /\ wire'[k] = wire[k]
                                       \/ wire'[k].items = <<>>
    <3>1. Signal(form, <<>>, exit).items = <<>>
      BY DEF Signal
    <3> QED BY <1>1, <2>2, <3>1
  <2> QED BY <2>1, <2>2
<1>3. \A j \in DOMAIN wire' : j \in DOMAIN wire => wire'[j] = wire[j]
  BY <1>1
<1>4. /\ Ascending(<<>>) /\ \A n : UpTo(<<>>, n)
      /\ \A r : Below(r, <<>>) /\ Below(<<>>, r)
  BY DEF Ascending, UpTo, Below
<1>5. Queued' = Queued /\ Posted' = Posted
  BY DEF Queued, Posted
<1>6. WireRising'
  BY <1>2, <1>3, <1>4, <1>5 DEF OrderInv, WireRising
<1>7. WasSent'
  BY <1>2, <1>4, <1>5 DEF OrderInv, WasSent
<1> QED BY <1>5, <1>6, <1>7 DEF OrderInv, Rising, DartPostsNoItem

(* Every step keeps the order.                                             *)
LEMMA OrderStep ==
  ASSUME TypeOK, EndInv, OrderInv, [Next]_vars PROVE OrderInv'
<1>1. CASE HandleMessage
  BY <1>1, HandleOrder
<1>2. CASE PostFromDart \/ PostFromLoop
  BY <1>2, PostOrder DEF PostFromDart, PostFromLoop, Threads
<1>3. CASE TakeSignal
  BY <1>3, TakeOrder
<1>4. CASE DaemonStep
  <2>1. UNCHANGED <<seen, queue, posting>>
    BY <1>4 DEF DaemonStep, bridgeVars, dispatcherVars
  <2>2. ASSUME NEW form \in DaemonForms, Emit(form) PROVE OrderInv'
    BY <2>1, <2>2, EmitOrder
  <2>3. CASE Accept \/ Refuse \/ Crash
    BY <2>1, <2>3, SilentOrder DEF Accept, Refuse, Crash
  <2>4. CASE Destroy
    BY <2>1, <2>4, SilentOrder DEF Destroy
  <2>5. ASSUME NEW exit \in DaemonExits, Finish(exit) PROVE OrderInv'
    BY <2>1, <2>5, SilentOrder DEF Finish
  <2> QED BY <1>4, <2>2, <2>3, <2>4, <2>5 DEF DaemonStep, DaemonTurn
<1>5. CASE CallThrows
  <2>1. posting'["dart"] = PostError /\ posting'["loop"] = posting["loop"]
    BY <1>5 DEF CallThrows, StartPosting, Threads, TypeOK, BridgeTypeOK
  <2>2. UNCHANGED <<seen, queue, wire, emitted>>
    BY <1>5 DEF CallThrows, Replied, TimedOut, dispatcherVars
  <2>3. DartPostsNoItem'
    <3>1. \A k \in 1..3 : PostError[k].item = 0
      BY PostErrorType DEF DataMessage, FinMessage, SentinelMessage, Message
    <3> QED BY <2>1, <3>1, PostErrorType DEF DartPostsNoItem
  <2> QED BY <2>1, <2>2, <2>3 DEF OrderInv, Rising, WireRising, WasSent, Queued, Posted
<1>6. CASE CreateSucceeds \/ CreateFails \/ Call \/ CallReturns \/ Microtask \/ DestroyBridge
           \/ Cancel \/ UNCHANGED vars
  <2>1. UNCHANGED <<posting, queue, wire, seen, emitted>>
    BY <1>6 DEF CreateSucceeds, NewTransaction, CreateFails, Call, Request, CallReturns, Replied,
       Microtask, RunMicrotask, DestroyBridge, Free, Cancel, vars, daemonVars, bridgeVars,
       dispatcherVars
  <2> QED BY <2>1, SilentOrder
<1> QED BY <1>1, <1>2, <1>3, <1>4, <1>5, <1>6 DEF Next, DartThread, LoopThread

(* The streams deliver each item at most once and in the order in which    *)
(* the daemon sent it, wherever the bridge's own errors fall.              *)
THEOREM OrderKept == SafetySpec => []OrderedDelivery
<1>1. Init => OrderInv
  <2> SUFFICES ASSUME Init PROVE OrderInv
    OBVIOUS
  <2>1. /\ seen = <<>> /\ queue = <<>> /\ wire = <<>>
        /\ posting["loop"] = <<>> /\ posting["dart"] = <<>>
    BY DEF Init, DaemonInit, BridgeInit, DispatcherInit, Threads
  <2>2. Queued = <<>> /\ Posted = <<>>
    BY <2>1 DEF Queued, Posted, Numbers
  <2> QED BY <2>1, <2>2 DEF OrderInv, Rising, WireRising, WasSent, DartPostsNoItem, Ascending,
       Below, UpTo
<1>2. TypeOK /\ EndInv /\ OrderInv /\ [Next]_vars => OrderInv'
  BY OrderStep
<1>3. OrderInv => OrderedDelivery
  BY DEF OrderInv, Rising, Ascending, OrderedDelivery
<1> QED BY <1>1, <1>2, <1>3, TypeCorrect, EndInvariant, PTL DEF SafetySpec
=============================================================================
