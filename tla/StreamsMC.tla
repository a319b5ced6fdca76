------------------------------ MODULE StreamsMC ------------------------------
(***************************************************************************)
(* What a gift passes on its way from the room into the account's state,   *)
(* for TLC: the shared connection of the room, the processor, and the gate *)
(* of the account; and, in the local program, the connection, the inbox    *)
(* and the animations.  They share no variable; a behaviour is one of      *)
(* either, chosen at the start, and the others stay where they begin,      *)
(* where none of the actions is enabled that fairness would insist on.     *)
(***************************************************************************)
EXTENDS OperationGateMC, EventProcessor, RoomSource, PanelRuntime, TLC

CONSTANTS roomA, roomB, sweets

MCRoomOf == sweets :> roomA

VARIABLE part  \* the component of this behaviour

streamVars == <<part, vars, giftVars, sourceVars, panelVars>>

StreamInit ==
  /\ part \in {"gate", "gifts", "source", "panel"}
  /\ Init /\ GiftInit /\ SourceInit /\ PanelInit
  /\ room = IF part = "panel" THEN roomA ELSE NoRoom

StreamNext ==
  /\ UNCHANGED part
  /\ \/ part = "gate" /\ Next /\ UNCHANGED <<giftVars, sourceVars, panelVars>>
     \/ part = "gifts" /\ GiftNext /\ UNCHANGED <<vars, sourceVars, panelVars>>
     \/ part = "source" /\ SourceNext /\ UNCHANGED <<vars, giftVars, panelVars>>
     \/ part = "panel" /\ PanelNext /\ UNCHANGED <<vars, giftVars, sourceVars>>

StreamSpec ==
  /\ StreamInit /\ [][StreamNext]_streamVars
  /\ \A t \in Threads : WF_vars(Progress(t))
  /\ GiftFairness /\ SourceFairness /\ PanelFairness
==============================================================================
