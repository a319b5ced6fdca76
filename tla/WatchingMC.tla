------------------------------ MODULE WatchingMC ------------------------------
(***************************************************************************)
(* The watching of the rooms, the requests to Bilibili that it is made of  *)
(* and the credential of those requests, for TLC.  They share no variable; *)
(* a behaviour is one of them, chosen at the start.                        *)
(***************************************************************************)
EXTENDS RoomMonitorMC, Gateway, ServiceCredential

VARIABLE part  \* the component of this behaviour

watchingVars == <<part, vars, gatewayVars, credentialVars>>

WatchingInit ==
  /\ part \in {"rooms", "gateway", "credential"}
  /\ MCCrashed /\ GatewayInit /\ CredentialInit
  /\ part # "rooms" => references = <<{u1}, {}>>

WatchingNext ==
  /\ UNCHANGED part
  /\ \/ part = "rooms" /\ RoomNext /\ UNCHANGED <<gatewayVars, credentialVars>>
     \/ part = "gateway" /\ GatewayNext /\ UNCHANGED <<vars, credentialVars>>
     \/ part = "credential" /\ CredentialNext /\ UNCHANGED <<vars, gatewayVars>>

WatchingSpec == WatchingInit /\ [][WatchingNext]_watchingVars
=============================================================================
