------------------------------ MODULE RecordsMC ------------------------------
(***************************************************************************)
(* What must survive the process, for TLC: the ownership and session rows, *)
(* the accounts and their invitations, the administrator's credentials,    *)
(* migrations, the changes of a room, and the files of the local program.  *)
(* They share no variable; a behaviour is one of them, chosen at the start.*)
(***************************************************************************)
EXTENDS SessionOwnershipMC, GiftLedger, Registration, AdminRecovery, Migration,
        RoomMutation

VARIABLE part  \* the component of this behaviour

recordVars == <<part, vars, ledgerVars, signUpVars, adminVars, migrationVars, mutationVars>>

RecordInit ==
  /\ part \in {"ownership", "ledger", "sign-up", "admin", "migration", "room"}
  /\ Init /\ LedgerInit /\ SignUpInit /\ AdminInit /\ MigrationInit /\ MutationInit
  /\ part # "ownership" => \A a \in Accounts : guard[a] = NoSession
  /\ part # "migration" => versions = <<>>
  /\ part # "room" => streamer = [enabled |-> TRUE, target |-> NoTarget]

RecordNext ==
  /\ UNCHANGED part
  /\ \/ part = "ownership" /\ Next
        /\ UNCHANGED <<ledgerVars, signUpVars, adminVars, migrationVars, mutationVars>>
     \/ part = "ledger" /\ LedgerNext
        /\ UNCHANGED <<vars, signUpVars, adminVars, migrationVars, mutationVars>>
     \/ part = "sign-up" /\ SignUpNext
        /\ UNCHANGED <<vars, ledgerVars, adminVars, migrationVars, mutationVars>>
     \/ part = "admin" /\ AdminNext
        /\ UNCHANGED <<vars, ledgerVars, signUpVars, migrationVars, mutationVars>>
     \/ part = "migration" /\ MigrationNext
        /\ UNCHANGED <<vars, ledgerVars, signUpVars, adminVars, mutationVars>>
     \/ part = "room" /\ MutationNext
        /\ UNCHANGED <<vars, ledgerVars, signUpVars, adminVars, migrationVars>>

RecordSpec == RecordInit /\ [][RecordNext]_recordVars
==============================================================================
