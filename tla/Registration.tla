----------------------------- MODULE Registration -----------------------------
(***************************************************************************)
(* From a QR challenge to an account and its site sessions: the identity   *)
(* service (identity/service.go, repository.go, admin.go) and the          *)
(* redemption of invitations (invitation/service.go).                      *)
(*                                                                         *)
(* One Bilibili user scans several challenges and redeems several          *)
(* invitations, in requests that run at once.  A step is a section under   *)
(* service.mu, a statement of Redeem's transaction, or a whole transaction *)
(* of another request; a row that Redeem has read FOR UPDATE is locked     *)
(* until its transaction ends.  The timers of a challenge and of an intent *)
(* remove them, and whatever is overdue is treated as removed.             *)
(***************************************************************************)
EXTENDS Integers, Sequences, SequencesExt, FiniteSets

CONSTANTS
  Challenges,  \* QR challenges, all of one user
  Codes,       \* invitations
  Permanent,   \* those without expires_at (GenerateAdministratorBatch)
  Redeemers,   \* requests of Redeem
  MaxDisables, \* bound of DisableAccount
  SignUpFaults \* bound of the database's errors

ASSUME RegistrationAssumption ==
  /\ IsFiniteSet(Challenges) /\ IsFiniteSet(Codes) /\ Permanent \subseteq Codes
  /\ {"none", "free"} \cap Redeemers = {}
  /\ MaxDisables \in Nat /\ SignUpFaults \in Nat

VARIABLES
  challenge,  \* Service.challenges: how far each one is, and the account it proved
  asking,     \* what each Poll has found outside the lock
  intent,     \* Service.registrations
  redeem,     \* each Redeem
  login,      \* each Login that has taken its challenge and not created its session
  invitation, \* invitations: the status (due: active, and expires_at has passed) and the account
  accounts,   \* streamer_accounts with their bindings to the user
  sessions,   \* site_sessions that are not revoked
  shut,       \* Service.closed
  uses,       \* history: how often a verified challenge was turned into something
  signUpFaults

signUpVars == <<challenge, asking, intent, redeem, login, invitation, accounts, sessions, shut,
                uses, signUpFaults>>

NoProof == [account |-> 0, epoch |-> 0, disables |-> 0]
NoRedeem == [at |-> "idle", by |-> "none", code |-> "none", answer |-> "none", failed |-> FALSE]

\* Begin has opened the challenges.
SignUpInit ==
  /\ challenge = [c \in Challenges |-> [stage |-> "polling", proof |-> NoProof]]
  /\ asking = [c \in Challenges |-> [at |-> "idle", proof |-> NoProof]]
  /\ intent = [c \in Challenges |-> "none"]
  /\ redeem = [r \in Redeemers |-> NoRedeem]
  /\ login = [c \in Challenges |-> NoProof]
  /\ invitation = [i \in Codes |-> [status |-> "active", account |-> 0]]
  /\ accounts = <<>> /\ sessions = {} /\ shut = FALSE
  /\ uses = [c \in Challenges |-> 0]
  /\ signUpFaults = SignUpFaults

Faulty == signUpFaults > 0 /\ signUpFaults' = signUpFaults - 1
Used(c) == uses' = [uses EXCEPT ![c] = @ + 1]

-----------------------------------------------------------------------------
(***************************************************************************)
(* Poll, Cancel, the timers, Close                                         *)
(***************************************************************************)
\* pollInProgress is set, the verifier has confirmed the user, and the account is read.
PollFinds(c) ==
  /\ challenge[c].stage = "polling" /\ asking[c].at = "idle" /\ ~shut
  /\ asking' = [asking EXCEPT ![c] =
       IF accounts = <<>> THEN [at |-> "unbound", proof |-> NoProof]
       ELSE [at |-> IF accounts[1].disabled THEN "refused" ELSE "bound",
             proof |-> [account |-> 1, epoch |-> accounts[1].epoch,
                        disables |-> accounts[1].disables]]]
  /\ UNCHANGED <<challenge, intent, redeem, login, invitation, accounts, sessions, shut, uses,
                 signUpFaults>>

\* The verified challenge is for a login, or is exchanged for a registration intent,
\* unless it went away in between.
PollEnds(c) ==
  /\ asking[c].at # "idle"
  /\ asking' = [asking EXCEPT ![c] = [at |-> "idle", proof |-> NoProof]]
  /\ CASE challenge[c].stage # "polling" \/ shut -> UNCHANGED <<challenge, intent>>
       [] OTHER ->
            CASE asking[c].at = "refused" ->
                   /\ challenge' = [challenge EXCEPT ![c].stage = "gone"]
                   /\ UNCHANGED intent
              [] asking[c].at = "bound" ->
                   /\ challenge' = [challenge EXCEPT ![c] =
                                      [stage |-> "ready", proof |-> asking[c].proof]]
                   /\ UNCHANGED intent
              [] asking[c].at = "unbound" ->
                   /\ challenge' = [challenge EXCEPT ![c].stage = "gone"]
                   /\ intent' = [intent EXCEPT ![c] = "free"]
  /\ UNCHANGED <<redeem, login, invitation, accounts, sessions, shut, uses, signUpFaults>>

\* Cancel, a terminal answer of the verifier, or the timer.
ChallengeGoes(c) ==
  /\ challenge[c].stage \in {"polling", "ready"}
  /\ challenge' = [challenge EXCEPT ![c] = [stage |-> "gone", proof |-> NoProof]]
  /\ UNCHANGED <<asking, intent, redeem, login, invitation, accounts, sessions, shut, uses,
                 signUpFaults>>

\* expireRegistration: a reservation is destroyed with its intent.
IntentExpires(c) ==
  /\ intent[c] # "none" /\ intent' = [intent EXCEPT ![c] = "none"]
  /\ UNCHANGED <<challenge, asking, redeem, login, invitation, accounts, sessions, shut, uses,
                 signUpFaults>>

Shut ==
  /\ ~shut /\ shut' = TRUE
  /\ challenge' = [c \in Challenges |-> [stage |-> "gone", proof |-> NoProof]]
  /\ intent' = [c \in Challenges |-> "none"]
  /\ UNCHANGED <<asking, redeem, login, invitation, accounts, sessions, uses, signUpFaults>>

-----------------------------------------------------------------------------
(***************************************************************************)
(* Redeem                                                                  *)
(***************************************************************************)
\* Another transaction waits for a row that is locked.
InTransaction == {"locked", "checked", "written", "commits"}
Free(i) == \A r \in Redeemers : redeem[r].at \in InTransaction => redeem[r].code # i

\* registrationReservation.Valid
ReservationHolds(r) == \E c \in Challenges : redeem[r].by = c /\ intent[c] = r

Moves(r, to) ==
  /\ redeem' = [redeem EXCEPT ![r].at = to]
  /\ UNCHANGED <<challenge, asking, intent, login, invitation, accounts, sessions, shut, uses,
                 signUpFaults>>

\* The transaction is rolled back; the reservation is given back after it.
Refuses(r, answer) ==
  /\ redeem' = [redeem EXCEPT ![r].at = "aborts", ![r].answer = answer]
  /\ UNCHANGED <<challenge, asking, intent, login, invitation, accounts, sessions, shut, uses,
                 signUpFaults>>

Errs(r) ==
  /\ redeem[r].at \in {"reserved", "locked", "checked", "written"}
  /\ Faulty
  /\ redeem' = [redeem EXCEPT ![r].at = "aborts", ![r].answer = "unavailable", ![r].failed = TRUE]
  /\ UNCHANGED <<challenge, asking, intent, login, invitation, accounts, sessions, shut, uses>>

\* ReserveRegistrationIntent: one reservation at a time.
Reserve(r, c, i) ==
  /\ redeem[r].at = "idle" /\ intent[c] = "free" /\ ~shut
  /\ intent' = [intent EXCEPT ![c] = r]
  /\ redeem' = [redeem EXCEPT ![r] = [NoRedeem EXCEPT !.at = "reserved", !.by = c, !.code = i]]
  /\ UNCHANGED <<challenge, asking, login, invitation, accounts, sessions, shut, uses,
                 signUpFaults>>

\* reservation.Identity, and the invitation's row FOR UPDATE.
ReadsInvitation(r) ==
  /\ redeem[r].at = "reserved"
  /\ IF ~ReservationHolds(r) THEN Refuses(r, "invalid")
     ELSE Free(redeem[r].code) /\ Moves(r, "locked")

\* expires_at is scanned into a time.Time, which a NULL is not.
MisreadsExpiry(r) ==
  /\ redeem[r].at = "locked" /\ redeem[r].code \in Permanent
  /\ Refuses(r, "unavailable")

Redeemable(r) ==
  invitation[redeem[r].code].status = "active"

\* The binding, the reservation and the row are looked at.
ChecksRedemption(r) ==
  /\ redeem[r].at = "locked" /\ redeem[r].code \notin Permanent
  /\ IF accounts = <<>> /\ ReservationHolds(r) /\ Redeemable(r) THEN Moves(r, "checked")
     ELSE Refuses(r, "invalid")

\* Mutant: uid_lookup is not unique.
BoundTwice == FALSE

\* The unique key of uid_lookup: bound by a transaction that has committed.
Bound == accounts # <<>>

\* The rows are written.  Of two transactions that have both locked the gap where the
\* binding belongs, one waits for the other or is chosen to fail.
WritesAccount(r) ==
  /\ redeem[r].at = "checked"
  /\ IF Bound THEN Refuses(r, "invalid")
     ELSE /\ \A s \in Redeemers : redeem[s].at \notin {"written", "commits"}
          /\ Moves(r, "written")

Deadlocks(r) ==
  /\ redeem[r].at = "checked"
  /\ \E s \in Redeemers \ {r} : redeem[s].at \in {"checked", "written", "commits"}
  /\ redeem' = [redeem EXCEPT ![r].at = "aborts", ![r].answer = "unavailable", ![r].failed = TRUE]
  /\ UNCHANGED <<challenge, asking, intent, login, invitation, accounts, sessions, shut, uses,
                 signUpFaults>>

\* The second look at the reservation and at both deadlines.
StillRedeemable(r) == ReservationHolds(r) /\ Redeemable(r)

ChecksAgain(r) ==
  /\ redeem[r].at = "written"
  /\ IF StillRedeemable(r) THEN Moves(r, "commits") ELSE Refuses(r, "invalid")

\* COMMIT, whose reply may be lost; or it fails.
CommitsAccount(r) ==
  /\ redeem[r].at = "commits"
  /\ \/ /\ accounts' = Append(accounts, [epoch |-> 1, disabled |-> FALSE, disables |-> 0])
        /\ invitation' = [invitation EXCEPT ![redeem[r].code].status = "used",
                                            ![redeem[r].code].account = Len(accounts')]
        /\ sessions' = sessions \cup
             {[by |-> redeem[r].by, account |-> Len(accounts'), epoch |-> 1, disables |-> 0]}
        /\ Used(redeem[r].by)
        /\ \/ /\ redeem' = [redeem EXCEPT ![r].at = "consumes", ![r].answer = "session"]
              /\ UNCHANGED signUpFaults
           \/ /\ Faulty
              /\ redeem' = [redeem EXCEPT ![r].at = "aborts", ![r].answer = "unavailable",
                                          ![r].failed = TRUE]
     \/ /\ Faulty
        /\ redeem' = [redeem EXCEPT ![r].at = "aborts", ![r].answer = "unavailable",
                                    ![r].failed = TRUE]
        /\ UNCHANGED <<accounts, invitation, sessions, uses>>
  /\ UNCHANGED <<challenge, asking, intent, login, shut>>

\* reservation.Commit destroys the intent, Abort frees it for another try.
ReservationEnds(r) ==
  /\ redeem[r].at \in {"consumes", "aborts"}
  /\ redeem' = [redeem EXCEPT ![r] = NoRedeem]
  /\ intent' = [c \in Challenges |->
       IF intent[c] # r THEN intent[c]
       ELSE IF redeem[r].at = "aborts" /\ ~shut THEN "free" ELSE "none"]
  /\ UNCHANGED <<challenge, asking, login, invitation, accounts, sessions, shut, uses,
                 signUpFaults>>

-----------------------------------------------------------------------------
(***************************************************************************)
(* The other writers of an invitation                                      *)
(***************************************************************************)
InvitationFallsDue(i) ==
  /\ i \notin Permanent /\ invitation[i].status = "active"
  /\ invitation' = [invitation EXCEPT ![i].status = "due"]
  /\ UNCHANGED <<challenge, asking, intent, redeem, login, accounts, sessions, shut, uses,
                 signUpFaults>>

\* Revoke, RevokeAdministrator
RevokeInvitation(i) ==
  /\ Free(i) /\ invitation[i].status \in {"active", "due"}
  /\ invitation' = [invitation EXCEPT ![i].status = "revoked"]
  /\ UNCHANGED <<challenge, asking, intent, redeem, login, accounts, sessions, shut, uses,
                 signUpFaults>>

\* Expire, and List for the invitations of its account
ExpireInvitation(i) ==
  /\ Free(i) /\ invitation[i].status = "due"
  /\ invitation' = [invitation EXCEPT ![i].status = "expired"]
  /\ UNCHANGED <<challenge, asking, intent, redeem, login, accounts, sessions, shut, uses,
                 signUpFaults>>

-----------------------------------------------------------------------------
(***************************************************************************)
(* Login, ConsumeAccountProof; an administrator disables and enables the   *)
(* account.                                                                *)
(***************************************************************************)
TakeChallenge(c) ==
  /\ challenge[c].stage = "ready" /\ ~shut
  /\ challenge' = [challenge EXCEPT ![c] = [stage |-> "gone", proof |-> NoProof]]

LoginTakes(c) ==
  /\ TakeChallenge(c)
  /\ login' = [login EXCEPT ![c] = challenge[c].proof]
  /\ UNCHANGED <<asking, intent, redeem, invitation, accounts, sessions, shut, uses, signUpFaults>>

\* A proof for another operation of the account.
ConsumeAccountProof(c) ==
  /\ TakeChallenge(c) /\ Used(c)
  /\ UNCHANGED <<asking, intent, redeem, login, invitation, accounts, sessions, shut,
                 signUpFaults>>

\* Mutant: the session takes the epoch the account has now.
AdmitsAnyEpoch(proof) == ~accounts[proof.account].disabled

\* The WHERE of the INSERT.
AdmitsProof(proof) ==
  ~accounts[proof.account].disabled /\ accounts[proof.account].epoch = proof.epoch

CreateSession(c) ==
  /\ login[c] # NoProof
  /\ login' = [login EXCEPT ![c] = NoProof]
  /\ IF AdmitsProof(login[c])
     THEN /\ sessions' = sessions \cup
               {[by |-> c, account |-> login[c].account,
                 epoch |-> accounts[login[c].account].epoch, disables |-> login[c].disables]}
          /\ Used(c)
     ELSE UNCHANGED <<sessions, uses>>
  /\ UNCHANGED <<challenge, asking, intent, redeem, invitation, accounts, shut, signUpFaults>>

DisableSignedUp(a) ==
  /\ ~accounts[a].disabled /\ accounts[a].disables < MaxDisables
  /\ accounts' = [accounts EXCEPT ![a] = [epoch |-> @.epoch + 1, disabled |-> TRUE,
                                          disables |-> @.disables + 1]]
  /\ sessions' = {s \in sessions : s.account # a}
  /\ UNCHANGED <<challenge, asking, intent, redeem, login, invitation, shut, uses, signUpFaults>>

EnableSignedUp(a) ==
  /\ accounts[a].disabled
  /\ accounts' = [accounts EXCEPT ![a].disabled = FALSE]
  /\ UNCHANGED <<challenge, asking, intent, redeem, login, invitation, sessions, shut, uses,
                 signUpFaults>>

SignUpNext ==
  \/ \E c \in Challenges :
       \/ PollFinds(c) \/ PollEnds(c) \/ ChallengeGoes(c)
       \/ IntentExpires(c) \/ LoginTakes(c) \/ ConsumeAccountProof(c) \/ CreateSession(c)
       \/ \E r \in Redeemers, i \in Codes : Reserve(r, c, i)
  \/ \E r \in Redeemers :
       \/ Errs(r) \/ ReadsInvitation(r) \/ MisreadsExpiry(r) \/ ChecksRedemption(r)
       \/ WritesAccount(r) \/ Deadlocks(r) \/ ChecksAgain(r) \/ CommitsAccount(r)
       \/ ReservationEnds(r)
  \/ \E i \in Codes : InvitationFallsDue(i) \/ RevokeInvitation(i) \/ ExpireInvitation(i)
  \/ \E a \in DOMAIN accounts : DisableSignedUp(a) \/ EnableSignedUp(a)
  \/ Shut

SignUpSpec == SignUpInit /\ [][SignUpNext]_signUpVars

-----------------------------------------------------------------------------
(***************************************************************************)
(* Properties                                                              *)
(***************************************************************************)
Spent == {i \in Codes : invitation[i].status = "used"}

\* findSessionByHash accepts it.
SessionIsGood(s) == ~accounts[s.account].disabled /\ s.epoch = accounts[s.account].epoch

\* The user gets one account for one invitation, although challenges, intents and
\* redemptions run at once, fail, lose the reply of their commit and are tried again;
\* and an invitation that was used, revoked or expired stays what it is.  A session that
\* is accepted was verified after the account was last disabled: a challenge that was
\* confirmed before, or a login under way, does not survive it, even when the account is
\* enabled again.  And a verification is good for one thing.
UsersAreVerifiedOnce ==
  /\ [][/\ Len(accounts') <= 1 /\ Cardinality(Spent') = Len(accounts')
        /\ \A i \in Codes : invitation[i].status \notin {"active", "due"} =>
             invitation'[i].status = invitation[i].status]_signUpVars
  /\ [](\A s \in sessions : SessionIsGood(s) => s.disables = accounts[s.account].disables)
  /\ [](\A c \in Challenges : uses[c] <= 1)
=============================================================================
