------------------------- MODULE TransactionMessages -------------------------
(***************************************************************************)
(* The vocabulary of one PackageKit transaction: how it can end, what the  *)
(* daemon signals, and the byte messages the native bridge posts to the    *)
(* Dart port.                                                              *)
(*                                                                         *)
(* A payload is abstracted to its number: the daemon's items are numbered  *)
(* 1, 2, ... in the order it sends them, and 0 is the ErrorCode message    *)
(* that the bridge itself makes up when a D-Bus call fails.                *)
(***************************************************************************)
EXTENDS Naturals, Sequences

CONSTANTS
  MaxItems,      \* bound: items the daemon emits in one transaction
  DaemonExits    \* the exit codes it may finish with

NoExit == "none"

ASSUME MessageAssumption ==
  /\ MaxItems \in Nat
  /\ NoExit \notin DaemonExits

(* The values of enum PkExit, fromInt's fallback "unknown" among them.     *)
KnownExits ==
  {"unknown", "success", "failed", "cancelled", "keyRequired", "eulaRequired",
   "killed", "mediaRequired", "needUntrusted", "cancelledPriority",
   "skipTransaction", "repairRequired"}

(* PkExit.fromInt on the exit code of a Finished message: a code that is   *)
(* not in the enum becomes PkExit.unknown.                                 *)
UncheckedFromInt(e) == e
LenientFromInt(e)   == IF e \in KnownExits THEN e ELSE "success"

FromInt(e) == IF e \in KnownExits THEN e ELSE "unknown"

-----------------------------------------------------------------------------
(* How an item reaches the bridge: "data" arrives as its own signal,       *)
(* "batch" in a Packages array of two, "bad" carries a payload that Dart   *)
(* cannot decode (a package id without four parts), "mistyped" makes the   *)
(* native handler throw (a Variant of another type in Details).            *)
Forms == {"data", "batch", "bad", "mistyped"}

Signal(form, items, exit) == [form |-> form, items |-> items, exit |-> exit]

(* The three kinds of posted messages: 0x01..0x0B with a payload (one that *)
(* decodes, or one that does not), 0x20 Finished, and the 0xFF sentinel.   *)
Message(kind, item, exit) == [kind |-> kind, item |-> item, exit |-> exit]

DataMessage(i)   == Message("data", i, NoExit)
BadMessage(i)    == Message("bad", i, NoExit)
FinMessage(exit) == Message("fin", 0, exit)
SentinelMessage  == Message("sentinel", 0, NoExit)

Items == 1..MaxItems

AnyExit == KnownExits \cup DaemonExits \cup {NoExit}

Messages ==
  [kind : {"data", "bad", "fin", "sentinel"}, item : {0} \cup Items, exit : AnyExit]

Signals ==
  {s \in [form : Forms \cup {"finished", "destroy"}, items : Seq(Items), exit : AnyExit] :
     s.form \in Forms => s.items # <<>>}
=============================================================================
