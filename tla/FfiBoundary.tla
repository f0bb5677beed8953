----------------------------- MODULE FfiBoundary -----------------------------
(***************************************************************************)
(* Both directions of the FFI boundary, on the isolate's thread: the call  *)
(* of an operation goes down (NativeCalls), and a message of the           *)
(* transaction comes up (GlazeCodec).  No message is decoded before the    *)
(* call has returned, since the bindings are synchronous.                  *)
(***************************************************************************)
EXTENDS GlazeCodec, NativeCalls

CONSTANT
  AnyInput       \* the message that follows every call

ASSUME BoundaryAssumption == AnyInput \in Inputs

boundaryVars == <<vars, callVars>>

(* Neither direction reads the other's state, so that it is enough to      *)
(* follow every call by one message, and one call by every message.        *)
BoundaryInit ==
  \/ input = AnyInput /\ start = 0 /\ Init /\ length = Len(buffer) /\ CallInit
  \/ /\ Init
     /\ call = [op |-> "getDistroUpgrades", args |-> <<>>, interactive |-> TRUE]
     /\ refused = {"setHints", "getDistroUpgrades"}
     /\ todo = <<>> /\ step = "dart" /\ heap = <<>> /\ params = <<>> /\ bus = <<>>

CallReturned == todo = <<>>

(* _startQuery: the port's listener runs when the call has returned.       *)
BoundaryNext ==
  \/ CallNext /\ UNCHANGED vars
  \/ CallReturned /\ Next /\ UNCHANGED callVars

BoundarySpec == BoundaryInit /\ [][BoundaryNext]_boundaryVars
=============================================================================
