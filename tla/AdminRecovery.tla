----------------------------- MODULE AdminRecovery -----------------------------
(***************************************************************************)
(* The administrator's credentials (adminidentity/service.go): the hand-   *)
(* over of a new TOTP secret and new recovery codes, for the first time or *)
(* after a recovery code was presented; the rotation of the codes; and the *)
(* sessions and authorizations that live under a credential epoch.         *)
(*                                                                         *)
(* A step is a transaction, a statement outside one, or a mail.  Any       *)
(* instance of the service may serve a request, and end in the middle.     *)
(* A package is the secret, the codes and the archive generated together.  *)
(***************************************************************************)
EXTENDS Integers, Sequences, SequencesExt, FiniteSets

CONSTANTS
  Requests,    \* requests of Initialize, PrepareRecovery or SendRecovery
  CodeNumbers, \* the recovery codes of a package
  MaxPackages, \* bound of the packages
  MaxLogins,   \* bound of the sessions
  MailFaults   \* bound of the calls and mails that fail, and of the crashes

ASSUME AdminAssumption ==
  /\ IsFiniteSet(Requests) /\ IsFiniteSet(CodeNumbers) /\ CodeNumbers # {}
  /\ MaxPackages \in Nat /\ MaxLogins \in Nat /\ MailFaults \in Nat

VARIABLES
  admin,      \* admin_identity, admin_totp: the epoch (0: none yet) and the secret's package
  recovery,   \* admin_recovery_codes that are neither used nor invalidated
  handoffs,   \* admin_credential_handoffs
  request,    \* each request
  packages,   \* those generated so far
  mailed,     \* history: the packages whose archive was accepted by the mail server
  answered,   \* history: the handoffs whose token was answered
  emailLogin, \* Service.emailLogins: one challenge, and its VerifyEmailLogin
  adminSessions, \* site_sessions of the administrator
  confirmed,  \* history: the recoveries confirmed
  mailFaults

adminVars == <<admin, recovery, handoffs, request, packages, mailed, answered, emailLogin,
               adminSessions, confirmed, mailFaults>>

NoRequest == [at |-> "idle", epoch |-> 0, code |-> <<0, 0>>, handoff |-> 0, package |-> 0]
NoEmailLogin == [at |-> "idle", epoch |-> 0, since |-> 0]

AdminInit ==
  /\ admin = [epoch |-> 0, secret |-> 0]
  /\ recovery = {} /\ handoffs = <<>>
  /\ request = [q \in Requests |-> NoRequest]
  /\ packages = 0 /\ mailed = {} /\ answered = {}
  /\ emailLogin = NoEmailLogin
  /\ adminSessions = <<>> /\ confirmed = 0
  /\ mailFaults = MailFaults

MailFails == mailFaults > 0 /\ mailFaults' = mailFaults - 1
CodesOf(p) == {<<p, k>> : k \in CodeNumbers}
SessionLives(s) == ~s.revoked /\ s.epoch = admin.epoch
Pending == {h \in DOMAIN handoffs : handoffs[h].state = "pending"}

-----------------------------------------------------------------------------
(***************************************************************************)
(* Initialize and PrepareRecovery                                          *)
(***************************************************************************)
\* None for an initialization; a recovery may come with any code ever generated.
PresentedCodes ==
  IF admin.epoch = 0 THEN {<<0, 0>>} ELSE UNION {CodesOf(p) : p \in 1..packages}

\* A request looks at the identity, with a recovery code when there is one, and
\* generates a package.
Prepares(q) ==
  /\ request[q].at = "idle" /\ packages < MaxPackages
  /\ packages' = packages + 1
  /\ \E code \in PresentedCodes :
       request' = [request EXCEPT ![q] =
         [at |-> "prepares", epoch |-> admin.epoch, code |-> code, handoff |-> 0,
          package |-> packages']]
  /\ UNCHANGED <<admin, recovery, handoffs, mailed, answered, emailLogin, adminSessions,
                 confirmed, mailFaults>>

Ends(q) == request' = [request EXCEPT ![q] = NoRequest]

\* The pending handoff of another code is in the way until it expires.
MayExpire(h) == handoffs[h].overdue

\* The identity has changed, the code is not in force, or another handoff is pending.
RefusesHandoff(q) ==
  \/ request[q].epoch # admin.epoch
  \/ request[q].epoch > 0 /\ request[q].code \notin recovery
  \/ \E h \in Pending : ~MayExpire(h) /\ handoffs[h].code # request[q].code

\* What was pending and overdue is expired with it.
WithHandoff(q) ==
  Append([h \in DOMAIN handoffs |->
            IF h \in Pending THEN [handoffs[h] EXCEPT !.state = "expired"] ELSE handoffs[h]],
         [state |-> "pending", package |-> request[q].package, code |-> request[q].code,
          overdue |-> FALSE, delivered |-> FALSE])

\* PrepareInitialization, PrepareRecoveryHandoff: a repeated request gets the handoff
\* that is pending, others are refused; the reply of the commit may be lost.
PrepareHandoff(q) ==
  /\ request[q].at = "prepares"
  /\ IF RefusesHandoff(q) THEN Ends(q) /\ UNCHANGED <<handoffs, mailFaults>>
     ELSE LET repeated == {h \in Pending : ~MayExpire(h)} IN
          /\ handoffs' = IF repeated # {} THEN handoffs ELSE WithHandoff(q)
          /\ \/ /\ request' = [request EXCEPT ![q].at = "prepared", ![q].handoff =
                       IF repeated # {} THEN CHOOSE h \in repeated : TRUE ELSE Len(handoffs')]
                /\ UNCHANGED mailFaults
             \/ MailFails /\ Ends(q)
  /\ UNCHANGED <<admin, recovery, packages, mailed, answered, emailLogin, adminSessions, confirmed>>

\* The archive's material is loaded from the handoff, not taken from the request.
PackageOf(q) == handoffs[request[q].handoff].package
Answers(q) == answered' = answered \cup {request[q].handoff}

\* AcquireHandoffMailClaim: GET_LOCK, held by one request at a time, and the handoff is
\* still pending.
ClaimsMail(q) ==
  /\ request[q].at = "prepared"
  /\ \A r \in Requests : request[r].at \in {"claimed", "sent", "unsent"} =>
       request[r].handoff # request[q].handoff
  /\ LET h == request[q].handoff IN
     IF handoffs[h].state # "pending" THEN Ends(q) /\ UNCHANGED answered
     ELSE IF handoffs[h].delivered THEN Ends(q) /\ Answers(q)
     ELSE request' = [request EXCEPT ![q].at = "claimed"] /\ UNCHANGED answered
  /\ UNCHANGED <<admin, recovery, handoffs, packages, mailed, emailLogin, adminSessions, confirmed,
                 mailFaults>>

SendsArchive(q) ==
  /\ request[q].at = "claimed"
  /\ \/ /\ mailed' = mailed \cup {PackageOf(q)}
        /\ request' = [request EXCEPT ![q].at = "sent"] /\ UNCHANGED mailFaults
     \/ MailFails /\ request' = [request EXCEPT ![q].at = "unsent"] /\ UNCHANGED mailed
  /\ UNCHANGED <<admin, recovery, handoffs, packages, answered, emailLogin, adminSessions, confirmed>>

\* Mutant: the attempt is marked as a delivery.
AnyAttempt(q) == TRUE

\* Only a mail that was accepted is marked as delivered.
WasSent(q) == request[q].at = "sent"

\* MarkAttempt, and the answer when everything went well.
MarksAttempt(q) ==
  /\ request[q].at \in {"sent", "unsent"}
  /\ Ends(q)
  /\ LET h == request[q].handoff IN
     \/ /\ handoffs[h].state = "pending" /\ ~handoffs[h].delivered
        /\ handoffs' = [handoffs EXCEPT ![h].delivered = WasSent(q)]
        /\ IF request[q].at = "sent" THEN Answers(q) ELSE UNCHANGED answered
        /\ UNCHANGED mailFaults
     \/ /\ handoffs[h].state # "pending" \/ handoffs[h].delivered
        /\ UNCHANGED <<handoffs, answered, mailFaults>>
     \/ MailFails /\ UNCHANGED <<handoffs, answered>>
  /\ UNCHANGED <<admin, recovery, packages, mailed, emailLogin, adminSessions, confirmed>>

-----------------------------------------------------------------------------
(***************************************************************************)
(* ConfirmHandoff: the token, with a code of the new secret                *)
(***************************************************************************)
Confirmable(h) == h \in answered \cap Pending /\ ~handoffs[h].overdue

ConfirmInitialization(h) ==
  /\ Confirmable(h)
  /\ handoffs[h].code = <<0, 0>> /\ admin.epoch = 0
  /\ admin' = [epoch |-> 1, secret |-> handoffs[h].package]
  /\ recovery' = CodesOf(handoffs[h].package)
  /\ handoffs' = [handoffs EXCEPT ![h].state = "confirmed"]
  /\ UNCHANGED <<request, packages, mailed, answered, emailLogin, adminSessions, confirmed, mailFaults>>

AdvancedEpoch == admin.epoch + 1

\* The reserved code is used, the other codes and every session are void.
ConfirmRecovery(h) ==
  /\ Confirmable(h)
  /\ admin.epoch > 0 /\ handoffs[h].code \in recovery
  /\ admin' = [epoch |-> AdvancedEpoch, secret |-> handoffs[h].package]
  /\ recovery' = CodesOf(handoffs[h].package)
  /\ adminSessions' = [n \in DOMAIN adminSessions |-> [adminSessions[n] EXCEPT !.revoked = TRUE]]
  /\ handoffs' = [handoffs EXCEPT ![h].state = "confirmed"]
  /\ confirmed' = confirmed + 1
  /\ UNCHANGED <<request, packages, mailed, answered, emailLogin, mailFaults>>

HandoffFallsDue(h) ==
  /\ h \in Pending /\ ~handoffs[h].overdue
  /\ handoffs' = [handoffs EXCEPT ![h].overdue = TRUE]
  /\ UNCHANGED <<admin, recovery, request, packages, mailed, answered, emailLogin, adminSessions,
                 confirmed, mailFaults>>

\* CleanupExpiredHandoffs, and the expiry by a confirmation that comes too late.
CleansUpHandoff(h) ==
  /\ h \in Pending /\ handoffs[h].overdue
  /\ handoffs' = [handoffs EXCEPT ![h].state = "expired"]
  /\ UNCHANGED <<admin, recovery, request, packages, mailed, answered, emailLogin, adminSessions,
                 confirmed, mailFaults>>

-----------------------------------------------------------------------------
(***************************************************************************)
(* SendRecovery: the archive is mailed, then the codes are rotated by a    *)
(* session that is still good and was verified recently.                   *)
(***************************************************************************)
MailsRotation(q) ==
  /\ request[q].at = "idle" /\ packages < MaxPackages
  /\ \E n \in DOMAIN adminSessions : SessionLives(adminSessions[n])
  /\ packages' = packages + 1
  /\ \/ /\ mailed' = mailed \cup {packages'}
        /\ request' = [request EXCEPT ![q] = [NoRequest EXCEPT !.at = "rotates",
                                                              !.package = packages']]
        /\ UNCHANGED mailFaults
     \/ MailFails /\ UNCHANGED <<mailed, request>>
  /\ UNCHANGED <<admin, recovery, handoffs, answered, emailLogin, adminSessions, confirmed>>

RotateRecoveryCodes(q) ==
  /\ request[q].at = "rotates"
  /\ Ends(q)
  /\ recovery' \in IF \E n \in DOMAIN adminSessions : SessionLives(adminSessions[n])
                   THEN {recovery, CodesOf(request[q].package)} ELSE {recovery}
  /\ UNCHANGED <<admin, handoffs, packages, mailed, answered, emailLogin, adminSessions, confirmed,
                 mailFaults>>

-----------------------------------------------------------------------------
(***************************************************************************)
(* BeginEmailLogin, VerifyEmailLogin, the sessions                         *)
(***************************************************************************)
BeginsEmailLogin ==
  /\ emailLogin.at = "idle" /\ admin.epoch > 0 /\ Len(adminSessions) < MaxLogins
  /\ emailLogin' = [at |-> "mailed", epoch |-> admin.epoch, since |-> confirmed]
  /\ UNCHANGED <<admin, recovery, handoffs, request, packages, mailed, answered, adminSessions,
                 confirmed, mailFaults>>

\* The code is right: the identity is read, and the challenge consumed.
VerifiesEmail ==
  /\ emailLogin.at = "mailed"
  /\ emailLogin' = IF emailLogin.epoch = admin.epoch THEN [emailLogin EXCEPT !.at = "verified"]
                   ELSE NoEmailLogin
  /\ UNCHANGED <<admin, recovery, handoffs, request, packages, mailed, answered, adminSessions,
                 confirmed, mailFaults>>

\* Mutant: the session is created under the epoch that is current.
AnyEpoch == TRUE

ExpectedEpoch == emailLogin.epoch = admin.epoch

\* CreateAdminSession
CreatesAdminSession ==
  /\ emailLogin.at = "verified"
  /\ emailLogin' = NoEmailLogin
  /\ adminSessions' =
       IF ExpectedEpoch
       THEN Append(adminSessions,
                   [epoch |-> admin.epoch, since |-> emailLogin.since, revoked |-> FALSE,
                    authorized |-> FALSE])
       ELSE adminSessions
  /\ UNCHANGED <<admin, recovery, handoffs, request, packages, mailed, answered, confirmed, mailFaults>>

\* CreateOperationAuthorization, ConsumeOperationAuthorization in the operation's own
\* transaction, RevokeAdminSession
AuthorizesOperation(n) ==
  /\ SessionLives(adminSessions[n]) /\ ~adminSessions[n].authorized
  /\ adminSessions' = [adminSessions EXCEPT ![n].authorized = TRUE]
  /\ UNCHANGED <<admin, recovery, handoffs, request, packages, mailed, answered, emailLogin,
                 confirmed, mailFaults>>

ConsumesOperation(n) ==
  /\ SessionLives(adminSessions[n]) /\ adminSessions[n].authorized
  /\ adminSessions' = [adminSessions EXCEPT ![n].authorized = FALSE]
  /\ UNCHANGED <<admin, recovery, handoffs, request, packages, mailed, answered, emailLogin,
                 confirmed, mailFaults>>

RevokesAdminSession(n) ==
  /\ \E m \in DOMAIN adminSessions \ {n} : SessionLives(adminSessions[m])
  /\ SessionLives(adminSessions[n])
  /\ adminSessions' = [adminSessions EXCEPT ![n].revoked = TRUE]
  /\ UNCHANGED <<admin, recovery, handoffs, request, packages, mailed, answered, emailLogin,
                 confirmed, mailFaults>>

LogsOut(n) ==
  /\ SessionLives(adminSessions[n])
  /\ adminSessions' = [adminSessions EXCEPT ![n].revoked = TRUE]
  /\ UNCHANGED <<admin, recovery, handoffs, request, packages, mailed, answered, emailLogin,
                 confirmed, mailFaults>>

\* An instance ends: its requests and its login challenge with it; MySQL releases the
\* claim with the connection.
InstanceEnds ==
  /\ MailFails
  /\ request' = [q \in Requests |-> NoRequest]
  /\ emailLogin' = NoEmailLogin
  /\ UNCHANGED <<admin, recovery, handoffs, packages, mailed, answered, adminSessions, confirmed>>

AdminNext ==
  \/ \E q \in Requests :
       \/ Prepares(q) \/ PrepareHandoff(q) \/ ClaimsMail(q) \/ SendsArchive(q) \/ MarksAttempt(q)
       \/ MailsRotation(q) \/ RotateRecoveryCodes(q)
  \/ \E h \in DOMAIN handoffs :
       \/ ConfirmInitialization(h) \/ ConfirmRecovery(h)
       \/ HandoffFallsDue(h) \/ CleansUpHandoff(h)
  \/ BeginsEmailLogin \/ VerifiesEmail \/ CreatesAdminSession
  \/ \E n \in DOMAIN adminSessions :
       AuthorizesOperation(n) \/ ConsumesOperation(n) \/ RevokesAdminSession(n) \/ LogsOut(n)
  \/ InstanceEnds

AdminSpec == AdminInit /\ [][AdminNext]_adminVars

-----------------------------------------------------------------------------
(***************************************************************************)
(* Properties                                                              *)
(***************************************************************************)
\* The codes that are in force, and the secret, are ones that were mailed to the
\* administrator, whichever mail fails, reply is lost, request comes at once or crash
\* comes between the mail and its mark.  (The password of a mailed archive is in a reply
\* of its own: who loses that recovers again.)  And a session that is accepted began
\* after the last recovery, however its login and the recovery interleave.
RecoveryIsFinal ==
  /\ \A code \in recovery : code[1] \in mailed
  /\ admin.epoch > 0 => \E h \in answered : handoffs[h].package = admin.secret
  /\ \A n \in DOMAIN adminSessions :
       SessionLives(adminSessions[n]) => adminSessions[n].since = confirmed
=============================================================================
