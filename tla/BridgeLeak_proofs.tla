-------------------------- MODULE BridgeLeak_proofs -------------------------
(***************************************************************************)
(* The bridge of an ordinary transaction is never dropped: not in some     *)
(* interleaving only, as one counterexample to BridgeIsDropped shows, but  *)
(* in every one, as long as no call fails, none is cancelled and every     *)
(* payload decodes.                                                        *)
(*                                                                         *)
(* CallInv says that the two calls of _startQuery succeed, LastInv that    *)
(* the sentinel is the last message at every station it passes: the        *)
(* handler's remaining messages, the queue, the microtasks.  When the      *)
(* streams have ended, then, no message is left that could wake closeAll.  *)
(***************************************************************************)
EXTENDS PkTransaction_proofs

(* A transaction without failures, cancels and undecodable payloads.       *)
CleanTransaction == Faults = {} /\ MaxCancels = 0 /\ "bad" \notin DaemonForms

(* Hints and the method reach a daemon that can accept them.               *)
CallInv ==
  /\ posting["dart"] = <<>>
  /\ call # "error"
  /\ pc \notin {"cancel", "destroy"}
  /\ pc = "start" => daemon = "none"
  /\ pc \notin Requests => inbox = <<>>
  /\ pc \in Requests =>
       \/ call = "none" /\ inbox = <<>> /\ daemon = "new"
       \/ call = "waiting" /\ inbox = <<pc>> /\ daemon = "new"
       \/ call = "ok" /\ inbox = <<>> /\ (pc = "hints" => daemon = "new")

(* Nothing on the wire has anything to post.                               *)
Quiet == \A i \in DOMAIN wire : wire[i].form = "destroy"

Closing == finished \/ \E i \in DOMAIN microtasks : microtasks[i] = "close"

WireLast ==
  \A i \in DOMAIN wire :
    /\ wire[i].form # "bad"
    /\ wire[i].form = "finished" =>
         \A j \in DOMAIN wire : j > i => wire[j].form = "destroy"

LoopLast ==
  \A i \in DOMAIN posting["loop"] :
    /\ posting["loop"][i].kind # "bad"
    /\ posting["loop"][i].kind = "sentinel" => i = Len(posting["loop"]) /\ Quiet

QueueLast ==
  \A i \in DOMAIN queue :
    /\ queue[i].kind # "bad"
    /\ queue[i].kind = "sentinel" => i = Len(queue) /\ posting["loop"] = <<>> /\ Quiet

ClosingLast == Closing => queue = <<>> /\ posting["loop"] = <<>> /\ Quiet

(* A daemon that may still send has not sent its end.                      *)
NotYetSent ==
  /\ daemon = "none" => wire = <<>>
  /\ daemon \in {"new", "running"} =>
       /\ ~Closing
       /\ \A i \in DOMAIN wire : wire[i].form # "finished"
       /\ \A i \in DOMAIN posting["loop"] : posting["loop"][i].kind # "sentinel"
       /\ \A i \in DOMAIN queue : queue[i].kind # "sentinel"

LastInv == WireLast /\ LoopLast /\ QueueLast /\ ClosingLast /\ NotYetSent

(* Bridge and port stay as they were created.                              *)
Undropped == bridge # "freed" /\ (bridge = "live" => port)

-----------------------------------------------------------------------------
(* The calls of _startQuery.                                               *)

(* No step makes a call fail or starts one of another kind.                *)
LEMMA CallStep ==
  ASSUME CleanTransaction, TypeOK, LifeInv, CallInv, QueueLast, ClosingLast, [Next]_vars
  PROVE  CallInv'
<1> USE DEF Requests, CleanTransaction
<1>0. /\ posting \in [Threads -> Seq(Messages)] /\ inbox \in Seq({"hints", "invoke", "cancel"})
      /\ queue \in Seq(Messages)
  BY DEF TypeOK, BridgeTypeOK, DaemonTypeOK
<1>a. /\ Len(<<pc>>) = 1 /\ Head(<<pc>>) = pc /\ Tail(<<pc>>) = <<>> /\ Append(<<>>, pc) = <<pc>>
      /\ <<pc>> # <<>>
  OBVIOUS
<1>1. CASE CreateSucceeds
  BY <1>1 DEF CallInv, LifeInv, CreateSucceeds, NewTransaction
<1>2. CASE CreateFails
  BY <1>2 DEF CallInv, LifeInv, CreateFails, daemonVars
<1>3. CASE Call
  BY <1>3, <1>a DEF CallInv, Call, Request, bridgeVars
<1>4. CASE CallReturns
  BY <1>4 DEF CallInv, CallReturns, Replied, Following, bridgeVars
<1>5. ~CallThrows
  <2>1. ~Replied("error") /\ ~TimedOut
    BY DEF Replied, TimedOut, CallInv
  <2> QED BY <2>1 DEF CallThrows
<1>6. ~PostFromDart
  BY DEF PostFromDart, Post, CallInv
<1>7. CASE HandleMessage
  <2>1. ~finished
    BY <1>7 DEF HandleMessage, ClosingLast, Closing
  <2> QED BY <1>7, <2>1 DEF CallInv, HandleMessage, daemonVars
<1>8. ~DestroyBridge
  BY DEF DestroyBridge, CallInv
<1>9. ~Cancel
  BY DEF Cancel, TypeOK
<1>10. CASE TakeSignal
  <2>1. posting'["dart"] = posting["dart"]
    BY <1>0, <1>10 DEF TakeSignal, StartPosting
  <2> QED BY <1>10, <2>1 DEF CallInv, TakeSignal
<1>11. CASE PostFromLoop
  <2>1. posting'["dart"] = posting["dart"]
    BY <1>0, <1>11 DEF PostFromLoop, Post
  <2> QED BY <1>11, <2>1 DEF CallInv, PostFromLoop, daemonVars
<1>12. CASE DaemonStep
  <2>1. UNCHANGED <<posting, pc>>
    BY <1>12 DEF DaemonStep, bridgeVars
  <2>2. CASE Accept
    <3>1. pc \in {"hints", "invoke"} /\ call = "waiting" /\ inbox = <<pc>> /\ daemon = "new"
      BY <2>2 DEF Accept, CallInv
    <3>2. call' = "ok" /\ inbox' = <<>> /\ daemon' = IF pc = "invoke" THEN "running" ELSE daemon
      BY <2>2, <3>1, <1>a DEF Accept, Answer
    <3> QED BY <2>1, <3>1, <3>2 DEF CallInv
  <2>3. ~Refuse
    BY <1>a DEF Refuse, CanAccept, CallInv
  <2>4. ASSUME UNCHANGED <<inbox, call>>, daemon \in {"running", "done"} PROVE CallInv'
    BY <2>1, <2>4 DEF CallInv
  <2>5. ASSUME NEW form \in DaemonForms, Emit(form) PROVE CallInv'
    BY <2>4, <2>5 DEF Emit
  <2>6. ASSUME NEW exit \in DaemonExits, Finish(exit) PROVE CallInv'
    BY <2>4, <2>6 DEF Finish
  <2>7. CASE Destroy
    BY <2>4, <2>7 DEF Destroy
  <2>8. ~Crash
    BY DEF Crash
  <2> QED BY <1>12, <2>2, <2>3, <2>5, <2>6, <2>7, <2>8 DEF DaemonStep, DaemonTurn
<1>13. CASE Microtask \/ UNCHANGED vars
  BY <1>13 DEF CallInv, Microtask, vars, daemonVars, bridgeVars
<1> QED BY <1>1, <1>2, <1>3, <1>4, <1>5, <1>6, <1>7, <1>8, <1>9, <1>10, <1>11, <1>12, <1>13
    DEF Next, DartThread, LoopThread

-----------------------------------------------------------------------------
(* The sentinel is the last of everything.                                 *)

(* What the handler of a signal posts ends with the sentinel, if at all.   *)
LEMMA OnSignalLast ==
  ASSUME NEW s \in Signals, s.form # "bad"
  PROVE  /\ s.form = "destroy" => OnSignal(s) = <<>>
         /\ \A i \in DOMAIN OnSignal(s) :
              /\ OnSignal(s)[i].kind # "bad"
              /\ OnSignal(s)[i].kind = "sentinel" => s.form = "finished" /\ i = Len(OnSignal(s))
<1>1. CASE s.form \in {"data", "batch"}
  BY <1>1 DEF OnSignal, DataMessage, Message
<1>2. CASE s.form = "finished"
  <2>1. OnSignal(s) = <<FinMessage(s.exit), SentinelMessage>>
    BY <1>2 DEF OnSignal, PostFinished
  <2> QED BY <1>2, <2>1 DEF FinMessage, SentinelMessage, Message
<1>3. CASE s.form \notin {"data", "batch", "finished"}
  BY <1>3 DEF OnSignal
<1> QED BY <1>1, <1>2, <1>3

(* What the daemon adds to the wire.                                       *)
LEMMA DaemonLast ==
  ASSUME CleanTransaction, TypeOK, CallInv, LastInv, DaemonStep
  PROVE  LastInv'
<1> USE DEF CleanTransaction
<1>0. wire \in Seq(Signals)
  BY DEF TypeOK, DaemonTypeOK
<1>1. UNCHANGED <<posting, queue, finished, microtasks>>
  BY DEF DaemonStep, bridgeVars, dispatcherVars
<1>2. ASSUME daemon = "running",
             NEW s, wire' = Append(wire, s), s.form # "bad",
             (daemon' = "running" /\ s.form # "finished") \/ daemon' = "done"
      PROVE  LastInv'
  <2>1. /\ ~Closing
        /\ \A i \in DOMAIN wire : wire[i].form # "finished"
        /\ \A i \in DOMAIN posting["loop"] : posting["loop"][i].kind # "sentinel"
        /\ \A i \in DOMAIN queue : queue[i].kind # "sentinel"
    BY <1>2 DEF LastInv, NotYetSent
  <2>2. /\ Len(wire') = Len(wire) + 1 /\ Len(wire) \in Nat
        /\ DOMAIN wire' = 1..Len(wire') /\ DOMAIN wire = 1..Len(wire)
        /\ \A i \in DOMAIN wire : wire'[i] = wire[i]
        /\ wire'[Len(wire')] = s
    BY <1>0, <1>2
  <2>3. WireLast'
    BY <1>2, <2>1, <2>2 DEF LastInv, WireLast
  <2>4. LoopLast' /\ QueueLast' /\ ClosingLast'
    BY <1>1, <2>1 DEF LastInv, LoopLast, QueueLast, ClosingLast, Closing
  <2>5. NotYetSent'
    BY <1>1, <1>2, <2>1, <2>2 DEF NotYetSent, Closing
  <2> QED BY <2>3, <2>4, <2>5 DEF LastInv
<1>3. CASE Accept
  BY <1>1, <1>3 DEF Accept, CanAccept, CallInv, LastInv, WireLast, LoopLast, QueueLast,
     ClosingLast, NotYetSent, Closing, Quiet
<1>4. CASE Refuse
  BY <1>1, <1>4 DEF Refuse, LastInv, WireLast, LoopLast, QueueLast, ClosingLast, NotYetSent,
     Closing, Quiet
<1>5. ASSUME NEW form \in DaemonForms, Emit(form) PROVE LastInv'
  <2>1. PICK items : wire' = Append(wire, Signal(form, items, NoExit))
    BY <1>5 DEF Emit
  <2>2. Signal(form, items, NoExit).form \notin {"bad", "finished"}
    BY DaemonAssumption DEF Signal, Forms
  <2>3. daemon = "running" /\ daemon' = "running"
    BY <1>5 DEF Emit
  <2> QED BY <1>2, <2>1, <2>2, <2>3
<1>6. ASSUME NEW exit \in DaemonExits, Finish(exit) PROVE LastInv'
  <2>1. Signal("finished", <<>>, exit).form # "bad"
    BY DEF Signal
  <2> QED BY <1>2, <1>6, <2>1 DEF Finish
<1>7. CASE Destroy
  <2> DEFINE s == Signal("destroy", <<>>, NoExit)
  <2>1. wire' = Append(wire, s) /\ daemon' = "gone" /\ s.form = "destroy"
    BY <1>7 DEF Destroy, Signal
  <2>2. /\ Len(wire') = Len(wire) + 1 /\ Len(wire) \in Nat
        /\ DOMAIN wire' = 1..Len(wire') /\ DOMAIN wire = 1..Len(wire)
        /\ \A i \in DOMAIN wire : wire'[i] = wire[i]
        /\ wire'[Len(wire')].form = "destroy"
    <3> HIDE DEF s
    <3> QED BY <1>0, <2>1
  <2>3. Quiet => Quiet'
    BY <2>2 DEF Quiet
  <2>4. WireLast'
    BY <2>2 DEF LastInv, WireLast
  <2>5. LoopLast' /\ QueueLast' /\ ClosingLast' /\ NotYetSent'
    BY <1>1, <2>1, <2>3 DEF LastInv, LoopLast, QueueLast, ClosingLast, Closing, NotYetSent
  <2> QED BY <2>4, <2>5 DEF LastInv
<1>8. ~Crash
  BY DEF Crash
<1> QED BY <1>3, <1>4, <1>5, <1>6, <1>7, <1>8 DEF DaemonStep, DaemonTurn

(* A signal moves from the wire to its handler.                            *)
LEMMA TakeLast ==
  ASSUME TypeOK, LastInv, TakeSignal PROVE LastInv'
<1> DEFINE s == Head(wire)
<1>1. /\ wire \in Seq(Signals) /\ wire # <<>> /\ s \in Signals /\ s = wire[1] /\ 1 \in DOMAIN wire
      /\ posting \in [Threads -> Seq(Messages)]
  BY DEF TypeOK, DaemonTypeOK, BridgeTypeOK, TakeSignal
<1>2. wire' = Tail(wire) /\ posting["loop"] = <<>> /\ posting'["loop"] = OnSignal(s)
  BY <1>1 DEF TakeSignal, StartPosting, Threads
<1>3. UNCHANGED <<daemon, queue, finished, microtasks>>
  BY DEF TakeSignal, dispatcherVars
<1>4. \A i \in DOMAIN wire' : i + 1 \in DOMAIN wire /\ wire'[i] = wire[i + 1] /\ i \in Nat \ {0}
  BY <1>1, <1>2
<1>5. s.form # "bad"
  BY <1>1 DEF LastInv, WireLast
<1>6. Quiet => Quiet' /\ posting'["loop"] = <<>>
  <2>1. Quiet => s.form = "destroy"
    BY <1>1 DEF Quiet
  <2> QED BY <1>1, <1>2, <1>4, <1>5, <2>1, OnSignalLast DEF Quiet
<1>7. s.form = "finished" => Quiet'
  BY <1>1, <1>4 DEF LastInv, WireLast, Quiet
<1>8. WireLast'
  <2>1. \A i, j \in DOMAIN wire' : j > i => j + 1 > i + 1
    BY <1>4
  <2> QED BY <1>4, <2>1 DEF LastInv, WireLast
<1>9. LoopLast'
  BY <1>1, <1>2, <1>5, <1>7, OnSignalLast DEF LoopLast
<1>10. QueueLast' /\ ClosingLast'
  BY <1>3, <1>6 DEF LastInv, QueueLast, ClosingLast, Closing
<1>11. NotYetSent'
  <2>1. daemon # "none"
    BY <1>1 DEF LastInv, NotYetSent
  <2>2. daemon \in {"new", "running"} => s.form # "finished"
    BY <1>1 DEF LastInv, NotYetSent
  <2>3. daemon \in {"new", "running"} =>
          \A i \in DOMAIN posting'["loop"] : posting'["loop"][i].kind # "sentinel"
    BY <1>1, <1>2, <1>5, <2>2, OnSignalLast
  <2> QED BY <1>3, <1>4, <2>1, <2>3 DEF LastInv, NotYetSent, Closing
<1> QED BY <1>8, <1>9, <1>10, <1>11 DEF LastInv

(* A message moves from the handler to the port.                           *)
LEMMA PostLast ==
  ASSUME TypeOK, LastInv, PostFromLoop PROVE LastInv'
<1> DEFINE s == posting["loop"]
<1>1. /\ posting \in [Threads -> Seq(Messages)] /\ queue \in Seq(Messages)
      /\ s \in Seq(Messages) /\ s # <<>> /\ Head(s) = s[1] /\ 1 \in DOMAIN s /\ Len(s) \in Nat
  BY DEF TypeOK, BridgeTypeOK, PostFromLoop, Post, Threads
<1>2. posting'["loop"] = Tail(s) /\ (queue' = Append(queue, s[1]) \/ queue' = queue)
  BY <1>1 DEF PostFromLoop, Post, Threads
<1>3. UNCHANGED <<daemon, wire, finished, microtasks>>
  BY DEF PostFromLoop, daemonVars, dispatcherVars
<1>4. ~Closing /\ \A i \in DOMAIN queue : queue[i].kind \notin {"sentinel", "bad"}
  BY <1>1 DEF LastInv, ClosingLast, QueueLast
<1>5. /\ Len(Tail(s)) = Len(s) - 1
      /\ \A i \in DOMAIN Tail(s) :
           i + 1 \in DOMAIN s /\ Tail(s)[i] = s[i + 1] /\ (i + 1 = Len(s) => i = Len(Tail(s)))
  BY <1>1
<1>6. \A i \in DOMAIN queue' : \/ i \in DOMAIN queue /\ queue'[i] = queue[i]
                               \/ i = Len(queue') /\ queue'[i] = s[1]
  BY <1>1, <1>2
<1>7. s[1].kind # "bad" /\ (s[1].kind = "sentinel" => Tail(s) = <<>> /\ Quiet)
  <2>1. s[1].kind # "bad" /\ (s[1].kind = "sentinel" => Len(s) = 1 /\ Quiet)
    BY <1>1 DEF LastInv, LoopLast
  <2>2. Len(s) = 1 => Tail(s) = <<>>
    <3> HIDE DEF s
    <3> QED BY <1>1, <1>5, HeadTailProperties, EmptySeq
  <2> QED BY <2>1, <2>2
<1>8. WireLast' /\ ClosingLast'
  BY <1>3, <1>4 DEF LastInv, WireLast, ClosingLast, Closing
<1>9. LoopLast'
  <2>2. \A i \in DOMAIN s :
          s[i].kind # "bad" /\ (s[i].kind = "sentinel" => i = Len(s) /\ Quiet)
    BY DEF LastInv, LoopLast
  <2>3. Quiet' = Quiet
    BY <1>3 DEF Quiet
  <2>4. \A i \in DOMAIN Tail(s) :
          Tail(s)[i].kind # "bad" /\ (Tail(s)[i].kind = "sentinel" => i = Len(Tail(s)) /\ Quiet)
    <3> HIDE DEF s
    <3> QED BY <1>5, <2>2
  <2> QED BY <1>2, <2>3, <2>4 DEF LoopLast
<1>10. QueueLast'
  BY <1>2, <1>3, <1>4, <1>6, <1>7 DEF QueueLast, Quiet
<1>11. NotYetSent'
  BY <1>1, <1>2, <1>3, <1>5, <1>6 DEF LastInv, NotYetSent, Closing
<1> QED BY <1>8, <1>9, <1>10, <1>11 DEF LastInv

(* The isolate handles a message, and closes after the last one.           *)
LEMMA HandleLast ==
  ASSUME TypeOK, LastInv, HandleMessage PROVE LastInv'
<1> DEFINE m == queue[1]
<1>1. /\ queue \in Seq(Messages) /\ queue # <<>> /\ Head(queue) = m /\ 1 \in DOMAIN queue
      /\ m \in Messages /\ Dispatch(m) /\ microtasks = <<>> /\ Len(queue) \in Nat
  BY DEF TypeOK, BridgeTypeOK, HandleMessage
<1>2. ~Closing /\ ~finished
  BY <1>1 DEF LastInv, ClosingLast, Closing
<1>3. queue' = Tail(queue) /\ UNCHANGED <<daemon, wire, posting>>
  BY <1>2 DEF HandleMessage, daemonVars
<1>4. m.kind # "bad"
  BY <1>1 DEF LastInv, QueueLast
<1>5. ~finished' /\ (m.kind # "sentinel" => \A i \in DOMAIN microtasks' : microtasks'[i] # "close")
  <2>1. CASE m.kind = "data"
    BY <1>1, <1>2, <2>1 DEF Dispatch, Add
  <2>2. CASE m.kind = "fin"
    <3>1. microtasks' = <<>> \/ microtasks' = Append(<<>>, "report")
      BY <1>1, <2>2 DEF Dispatch, CompleteWith
    <3>2. \A i \in DOMAIN microtasks' : microtasks'[i] # "close"
      BY <3>1
    <3> QED BY <1>1, <1>2, <2>2, <3>2 DEF Dispatch
  <2>3. CASE m.kind = "sentinel"
    BY <1>1, <1>2, <2>3 DEF Dispatch, ScheduleClose
  <2> QED BY <1>1, <1>4, <2>1, <2>2, <2>3 DEF Messages
<1>6. /\ Len(Tail(queue)) = Len(queue) - 1
      /\ \A i \in DOMAIN Tail(queue) :
           i + 1 \in DOMAIN queue /\ Tail(queue)[i] = queue[i + 1] /\ i \in Nat
  BY <1>1
<1>7. m.kind = "sentinel" => queue' = <<>> /\ posting["loop"] = <<>> /\ Quiet
  <2>1. m.kind = "sentinel" => Len(queue) = 1 /\ posting["loop"] = <<>> /\ Quiet
    BY <1>1 DEF LastInv, QueueLast
  <2>2. Len(queue) = 1 => Tail(queue) = <<>>
    BY <1>1, <1>6, HeadTailProperties, EmptySeq
  <2> QED BY <1>3, <2>1, <2>2
<1>8. Closing' => m.kind = "sentinel"
  BY <1>5 DEF Closing
<1>9. WireLast' /\ LoopLast'
  BY <1>3 DEF LastInv, WireLast, LoopLast, Quiet
<1>10. QueueLast'
  <2>1. \A i \in DOMAIN Tail(queue) : i + 1 = Len(queue) => i = Len(Tail(queue))
    BY <1>1, <1>6
  <2> QED BY <1>3, <1>6, <2>1 DEF LastInv, QueueLast, Quiet
<1>11. ClosingLast'
  BY <1>3, <1>7, <1>8 DEF ClosingLast, Quiet
<1>12. NotYetSent'
  BY <1>1, <1>3, <1>6, <1>8 DEF LastInv, NotYetSent
<1> QED BY <1>9, <1>10, <1>11, <1>12 DEF LastInv

(* No step sends, posts, queues or schedules anything behind an end.       *)
LEMMA LastStep ==
  ASSUME CleanTransaction, TypeOK, LifeInv, CallInv, LastInv, [Next]_vars
  PROVE  LastInv'
<1> USE DEF Requests, Threads
<1>1. CASE CreateSucceeds
  <2>1. /\ UNCHANGED <<wire, posting, queue, finished, microtasks>>
        /\ ~finished /\ microtasks = <<>> /\ queue = <<>> /\ posting["loop"] = <<>>
        /\ wire = <<>>
    BY <1>1 DEF CreateSucceeds, NewTransaction, dispatcherVars, LifeInv, CallInv, LastInv, NotYetSent
  <2> QED BY <2>1 DEF LastInv, WireLast, LoopLast, QueueLast, ClosingLast, NotYetSent, Closing
<1>2. CASE CreateFails
  <2>1. /\ UNCHANGED <<daemon, wire, posting, queue>>
        /\ queue = <<>> /\ posting["loop"] = <<>> /\ wire = <<>> /\ daemon = "none"
    BY <1>2 DEF CreateFails, daemonVars, LifeInv, CallInv, LastInv, NotYetSent
  <2> QED BY <2>1 DEF LastInv, WireLast, LoopLast, QueueLast, ClosingLast, NotYetSent, Quiet
<1>3. ASSUME UNCHANGED <<daemon, wire, posting, queue, finished, microtasks>> PROVE LastInv'
  BY <1>3 DEF LastInv, WireLast, LoopLast, QueueLast, ClosingLast, NotYetSent, Closing, Quiet
<1>4. CASE Call \/ CallReturns \/ UNCHANGED vars
  BY <1>3, <1>4 DEF Call, Request, CallReturns, Replied, vars, daemonVars, bridgeVars, dispatcherVars
<1>5. ~CallThrows
  <2>1. ~Replied("error") /\ ~TimedOut
    BY DEF Replied, TimedOut, CallInv, CleanTransaction
  <2> QED BY <2>1 DEF CallThrows
<1>6. ~PostFromDart /\ ~DestroyBridge /\ ~Cancel
  BY DEF PostFromDart, Post, DestroyBridge, Cancel, CallInv, TypeOK, CleanTransaction
<1>7. CASE Microtask
  <2>1. UNCHANGED <<daemon, wire, posting, queue>>
    BY <1>7 DEF Microtask, daemonVars, bridgeVars
  <2>2. Closing' => Closing
    <3> DEFINE more == IF Head(microtasks) = "close" /\ ~awaiting THEN <<"listen">> ELSE <<>>
    <3>1. /\ microtasks \in Seq(Tasks) /\ microtasks # <<>>
          /\ microtasks[1] = Head(microtasks) /\ 1 \in DOMAIN microtasks
      BY <1>7 DEF Microtask, RunMicrotask, TypeOK, DispatcherTypeOK
    <3>2. more \in Seq({"listen"})
      <4>1. <<>> \in Seq({"listen"}) /\ <<"listen">> \in Seq({"listen"})
        OBVIOUS
      <4> QED BY <4>1, Zenon
    <3>3. /\ microtasks' = Tail(microtasks) \o more
          /\ finished' = (finished \/ Head(microtasks) = "close")
      BY <1>7 DEF Microtask, RunMicrotask
    <3>4. \A i \in DOMAIN microtasks' :
            \/ i + 1 \in DOMAIN microtasks /\ microtasks'[i] = microtasks[i + 1]
            \/ microtasks'[i] = "listen"
      <4> HIDE DEF more
      <4> QED BY <3>1, <3>2, <3>3
    <3> QED BY <3>1, <3>3, <3>4 DEF Closing
  <2> QED BY <2>1, <2>2 DEF LastInv, WireLast, LoopLast, QueueLast, ClosingLast, NotYetSent, Quiet
<1> QED BY <1>1, <1>2, <1>4, <1>5, <1>6, <1>7, DaemonLast, TakeLast, PostLast, HandleLast
    DEF Next, DartThread, LoopThread

-----------------------------------------------------------------------------
(* The bridge.                                                             *)

(* No step frees the bridge or closes the port.                            *)
LEMMA UndroppedStep ==
  ASSUME LifeInv, CallInv, LastInv, Undropped, [Next]_vars
  PROVE  Undropped'
<1>1. CASE CreateSucceeds \/ CreateFails
  BY <1>1 DEF CreateSucceeds, CreateFails, Create, Undropped
<1>2. CASE HandleMessage
  <2>1. ~finished
    BY <1>2 DEF HandleMessage, LastInv, ClosingLast, Closing
  <2> QED BY <1>2, <2>1 DEF HandleMessage, Undropped
<1>3. ~DestroyBridge
  BY DEF DestroyBridge, CallInv
<1>4. CASE PostFromDart \/ PostFromLoop
  BY <1>4 DEF PostFromDart, PostFromLoop, Post, Undropped
<1>5. CASE Call \/ CallReturns \/ CallThrows \/ Microtask \/ Cancel \/ TakeSignal \/ DaemonStep
           \/ UNCHANGED vars
  BY <1>5 DEF Call, CallReturns, CallThrows, Microtask, Cancel, TakeSignal, DaemonStep, vars,
     bridgeVars, Undropped
<1> QED BY <1>1, <1>2, <1>3, <1>4, <1>5 DEF Next, DartThread, LoopThread

(* "The Dart layer will drop the bridge after receiving the sentinel"      *)
(* holds of no transaction that runs without a fault: bridge and port stay *)
(* for good, however many items there were, whatever the daemon's exit and *)
(* however the two threads interleaved.                                    *)
THEOREM EveryBridgeLeaks ==
  ASSUME CleanTransaction PROVE SafetySpec => []Undropped
<1>1. Init => CallInv /\ LastInv
  BY DEF Init, DaemonInit, BridgeInit, DispatcherInit, CallInv, LastInv, WireLast, LoopLast,
     QueueLast, ClosingLast, Closing, NotYetSent, Requests, Threads
<1>2. TypeOK /\ LifeInv /\ CallInv /\ LastInv /\ [Next]_vars => CallInv' /\ LastInv'
  BY CallStep, LastStep DEF LastInv
<1>3. Init => Undropped
  BY DEF Init, BridgeInit, Undropped
<1>4. LifeInv /\ CallInv /\ LastInv /\ Undropped /\ [Next]_vars => Undropped'
  BY UndroppedStep
<1> QED BY <1>1, <1>2, <1>3, <1>4, LifeInvariant, PTL DEF SafetySpec
=============================================================================
