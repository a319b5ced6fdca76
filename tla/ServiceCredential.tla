--------------------------- MODULE ServiceCredential ---------------------------
(***************************************************************************)
(* How the administrator replaces the credential with which the service    *)
(* asks Bilibili: a QR code that the page polls (identity/biliqr), an      *)
(* authorization of one operation, confirmed by a TOTP code                *)
(* (adminidentity), and the transaction that spends both                   *)
(* (biligateway/http.go Replace, credential.go).                           *)
(*                                                                         *)
(* A step is a section under the adapter's mutex, a statement or a COMMIT. *)
(* The lifetime of a code may end at any time, by its timer: what a        *)
(* section does that finds it ended is the timer's step and its own.       *)
(***************************************************************************)
EXTENDS Integers, Sequences, SequencesExt, FiniteSetsExt

CONSTANTS
  Codes,      \* QR codes, a hosted challenge each
  Confirmed,  \* operation authorizations, of a TOTP step each
  Replacers,  \* requests of Replace
  Pollers     \* requests of PollChallenge

ASSUME CredentialAssumption == Replacers \cap Pollers = {}

VARIABLES
  code,       \* adapter.challenges, and how each ended
  spent,      \* admin_operation_authorizations: its consumed_at, its expiry
  loggedIn,   \* the administrator's session: expires_at, revoked_at, its epoch
  credentials, \* the rows of bili_service_credentials
  request,    \* each request: how far, of what, is its context cancelled
  closed      \* adapter.closed

credentialVars == <<code, spent, loggedIn, credentials, request, closed>>

Requests == Replacers \cup Pollers
NoOne == "nobody"
NewCode == [ended |-> "new", cookies |-> FALSE, polling |-> FALSE, consuming |-> FALSE,
            cancel |-> NoOne]
NoRequest == [at |-> "idle", code |-> NoOne, by |-> NoOne, cancelled |-> FALSE, version |-> 0]

CredentialInit ==
  /\ code = [q \in Codes |-> NewCode]
  /\ spent = [a \in Confirmed |-> "new"]
  /\ loggedIn = TRUE /\ credentials = <<>> /\ closed = FALSE
  /\ request = [r \in Requests |-> NoRequest]

Open(q) == code[q].ended = "open" /\ ~closed

Moves(r, to) == request' = [request EXCEPT ![r].at = to]
Returns(r) == request' = [request EXCEPT ![r] = NoRequest]

-----------------------------------------------------------------------------
(***************************************************************************)
(* The administrator                                                       *)
(***************************************************************************)
\* Begin.
ShowsCode(q) ==
  /\ code[q].ended = "new" /\ ~closed
  /\ code' = [code EXCEPT ![q].ended = "open"]
  /\ UNCHANGED <<spent, loggedIn, credentials, request, closed>>

\* The row of the identity, that each of its transactions locks.
IdentityIsFree ==
  \A r \in Replacers : request[r].at \in {"idle", "begun"}

\* AuthorizeOperation: a session that stands, a TOTP step that has no row yet.
Authorizable(a) == spent[a] = "new" /\ loggedIn

\* CreateOperationAuthorization.
Authorizes(a) ==
  /\ Authorizable(a) /\ IdentityIsFree
  /\ spent' = [spent EXCEPT ![a] = "valid"]
  /\ UNCHANGED <<code, loggedIn, credentials, request, closed>>

AuthorizationExpires(a) ==
  /\ spent[a] = "valid"
  /\ \A r \in Replacers : request[r].by = a => request[r].at \in {"idle", "begun"}
  /\ spent' = [spent EXCEPT ![a] = "overdue"]
  /\ UNCHANGED <<code, loggedIn, credentials, request, closed>>

\* A logout, a login elsewhere, a recovery; the other operations of the console.
SessionEnds ==
  /\ loggedIn /\ IdentityIsFree /\ loggedIn' = FALSE
  /\ UNCHANGED <<code, spent, credentials, request, closed>>

-----------------------------------------------------------------------------
(***************************************************************************)
(* A poll of the code, by the page or by Replace                           *)
(***************************************************************************)
\* destroyLocked: who holds the code is cancelled, and it is gone.
Destroys(q, cause, others) ==
  /\ code' = [code EXCEPT ![q] = [NewCode EXCEPT !.ended = cause]]
  /\ request' = [r \in Requests |->
       IF r = code[q].cancel THEN [others[r] EXCEPT !.cancelled = others[r].at # "idle"]
       ELSE others[r]]

Returned(r) == [request EXCEPT ![r] = NoRequest]

StartsPolling(r) ==
  /\ r \in Pollers /\ request[r].at = "idle"
  /\ \E q \in Codes : request' = [request EXCEPT ![r] = [NoRequest EXCEPT !.at = "asks", !.code = q]]
  /\ UNCHANGED <<code, spent, loggedIn, credentials, closed>>

\* What follows a verified code: the page is told, Replace goes on.
IsVerified(r) == IF r \in Replacers THEN Moves(r, "reserves") ELSE Returns(r)

\* The first section: a code that has its cookies is verified; one that is being
\* polled, consumed or was polled just now is not asked again.
Asks(r) ==
  LET q == request[r].code IN
  /\ request[r].at = "asks"
  /\ \/ Open(q) /\ code[q].cookies /\ IsVerified(r) /\ UNCHANGED code
     \/ ~(Open(q) /\ code[q].cookies) /\ Returns(r) /\ UNCHANGED code
     \/ /\ Open(q) /\ ~code[q].cookies /\ ~code[q].polling /\ ~code[q].consuming
        /\ code' = [code EXCEPT ![q].polling = TRUE, ![q].cancel = r]
        /\ Moves(r, "upstream")
  /\ UNCHANGED <<spent, loggedIn, credentials, closed>>

\* finishTransientPoll.
Released(q) ==
  IF code[q].ended = "open" THEN [code EXCEPT ![q].polling = FALSE, ![q].cancel = NoOne]
  ELSE code

\* Nobody has scanned it, or the request fails.
StaysUnverified(r) ==
  /\ request[r].at = "upstream"
  /\ code' = Released(request[r].code) /\ Returns(r)
  /\ UNCHANGED <<spent, loggedIn, credentials, closed>>

\* Bilibili answers that the code has ended, or something else than expected.
UpstreamRefuses(r) ==
  /\ request[r].at = "upstream"
  /\ IF code[request[r].code].ended = "open"
     THEN Destroys(request[r].code, "refused", Returned(r))
     ELSE Returns(r) /\ UNCHANGED code
  /\ UNCHANGED <<spent, loggedIn, credentials, closed>>

\* storeCookies.
IsScanned(r) ==
  LET q == request[r].code IN
  /\ request[r].at = "upstream"
  /\ IF Open(q)
     THEN code' = [code EXCEPT ![q].cookies = TRUE] /\ Moves(r, "stored")
     ELSE Returns(r) /\ UNCHANGED code
  /\ UNCHANGED <<spent, loggedIn, credentials, closed>>

FinishesPoll(r) ==
  /\ request[r].at = "stored"
  /\ code' = Released(request[r].code) /\ Moves(r, "checks")
  /\ UNCHANGED <<spent, loggedIn, credentials, closed>>

ChecksCode(r) ==
  /\ request[r].at = "checks"
  /\ IF Open(request[r].code) THEN IsVerified(r) ELSE Returns(r)
  /\ UNCHANGED <<code, spent, loggedIn, credentials, closed>>

-----------------------------------------------------------------------------
(***************************************************************************)
(* Replace                                                                 *)
(***************************************************************************)
BeginsReplacing(r) ==
  /\ r \in Replacers /\ request[r].at = "idle"
  /\ \E q \in Codes, a \in Confirmed :
       request' = [request EXCEPT ![r] =
                     [NoRequest EXCEPT !.at = "begun", !.code = q, !.by = a]]
  /\ UNCHANGED <<code, spent, loggedIn, credentials, closed>>

\* ConsumeOperation: the authorization, the session and the identity are locked and
\* read; the UPDATE is seen with the COMMIT.
ConsumesOperation(r) ==
  /\ request[r].at = "begun" /\ IdentityIsFree
  /\ IF spent[request[r].by] = "valid" /\ loggedIn THEN Moves(r, "asks") ELSE Returns(r)
  /\ UNCHANGED <<code, spent, loggedIn, credentials, closed>>

\* consumeCredential and reserveCredentialConsumer.
Reserves(r) ==
  LET q == request[r].code IN
  /\ request[r].at = "reserves"
  /\ IF Open(q) /\ ~code[q].consuming /\ code[q].cookies
     THEN /\ code' = [code EXCEPT ![q].consuming = TRUE, ![q].cancel = r]
          /\ Moves(r, "writes")
     ELSE Returns(r) /\ UNCHANGED code
  /\ UNCHANGED <<spent, loggedIn, credentials, closed>>

\* CredentialStore.Replace: the version after the active one's, which it revokes.
WritesCredential(r) ==
  /\ request[r].at = "writes" /\ ~request[r].cancelled
  /\ request' = [request EXCEPT ![r].at = "written", ![r].version = Len(credentials) + 1]
  /\ UNCHANGED <<code, spent, loggedIn, credentials, closed>>

\* A statement fails; a cancelled one always does.
WritingFails(r) ==
  /\ request[r].at = "writes" /\ Moves(r, "failed")
  /\ UNCHANGED <<code, spent, loggedIn, credentials, closed>>

\* Mutant: after the consumer only its context is asked, not the code.
UncancelledYet(q, r) == ~request[r].cancelled

StillExpected(q, r) == Open(q)

\* consumeStoredCredential: a consumer that has written has the code destroyed, before
\* the caller commits; one that failed leaves it for another attempt.
EndsConsumption(r) ==
  LET q == request[r].code IN
  /\ request[r].at \in {"written", "failed"}
  /\ IF ~StillExpected(q, r) THEN Returns(r) /\ UNCHANGED code
     ELSE IF request[r].at = "failed"
     THEN /\ code' = [code EXCEPT ![q].consuming = FALSE, ![q].cancel = NoOne]
          /\ Returns(r)
     ELSE /\ code' = IF code[q].ended = "open"
                     THEN [code EXCEPT ![q] = [NewCode EXCEPT !.ended = "consumed"]] ELSE code
          /\ Moves(r, "commits")
  /\ UNCHANGED <<spent, loggedIn, credentials, closed>>

\* COMMIT, whose reply may be lost.
CommitsCredential(r) ==
  /\ request[r].at = "commits" /\ Returns(r)
  /\ spent' = [spent EXCEPT ![request[r].by] = "consumed"]
  /\ credentials' =
       Append([n \in DOMAIN credentials |-> [credentials[n] EXCEPT !.active = FALSE]],
              [version |-> request[r].version, active |-> TRUE,
               code |-> request[r].code, by |-> request[r].by])
  /\ UNCHANGED <<code, loggedIn, closed>>

CommitOfCredentialFails(r) ==
  /\ request[r].at = "commits" /\ Returns(r)
  /\ UNCHANGED <<code, spent, loggedIn, credentials, closed>>

-----------------------------------------------------------------------------
(***************************************************************************)
(* What ends a code otherwise                                              *)
(***************************************************************************)
\* Forget, by the page that is closed; expireChallenge.
CodeEnds(q) ==
  /\ code[q].ended = "open"
  /\ \E cause \in {"forgotten", "expired"} : Destroys(q, cause, request)
  /\ UNCHANGED <<spent, loggedIn, credentials, closed>>

\* Close destroys every code; its callers see closed.
AdapterCloses ==
  /\ ~closed /\ closed' = TRUE
  /\ code' = [q \in Codes |-> IF code[q].ended = "open"
                              THEN [NewCode EXCEPT !.ended = "forgotten"] ELSE code[q]]
  /\ request' = [r \in Requests |->
       IF \E q \in Codes : code[q].ended = "open" /\ code[q].cancel = r
       THEN [request[r] EXCEPT !.cancelled = TRUE] ELSE request[r]]
  /\ UNCHANGED <<spent, loggedIn, credentials>>

\* The process ends, at any time, and another one is started: what was not committed is
\* rolled back.
ServiceRestarts ==
  /\ closed' = FALSE
  /\ request' = [r \in Requests |-> NoRequest]
  /\ code' = [q \in Codes |-> IF code[q].ended = "open"
                              THEN [NewCode EXCEPT !.ended = "forgotten"] ELSE code[q]]
  /\ UNCHANGED <<spent, loggedIn, credentials>>

CredentialNext ==
  \/ \E q \in Codes : ShowsCode(q) \/ CodeEnds(q)
  \/ \E a \in Confirmed : Authorizes(a) \/ AuthorizationExpires(a)
  \/ SessionEnds \/ AdapterCloses \/ ServiceRestarts
  \/ \E r \in Requests :
       \/ StartsPolling(r) \/ Asks(r) \/ StaysUnverified(r) \/ UpstreamRefuses(r) \/ IsScanned(r)
       \/ FinishesPoll(r) \/ ChecksCode(r)
       \/ BeginsReplacing(r) \/ ConsumesOperation(r) \/ Reserves(r) \/ WritesCredential(r)
       \/ WritingFails(r) \/ EndsConsumption(r) \/ CommitsCredential(r)
       \/ CommitOfCredentialFails(r)

CredentialSpec == CredentialInit /\ [][CredentialNext]_credentialVars

-----------------------------------------------------------------------------
(***************************************************************************)
(* Properties                                                              *)
(***************************************************************************)
\* Every credential was taken from a code of its own that nobody had given up, for an
\* authorization of its own, and the newest is the one in force; and a code that waits
\* for a poll or for its consumer has one that will give it back, so that no request
\* that is cancelled, answered late or overtaken makes a scanned code useless.
ReplacementsAreWhole ==
  /\ \A n \in DOMAIN credentials :
       /\ credentials[n].version = n
       /\ credentials[n].active <=> n = Len(credentials)
       /\ code[credentials[n].code].ended = "consumed"
       /\ \A m \in DOMAIN credentials : m # n => credentials[m].code # credentials[n].code
  /\ {a \in Confirmed : spent[a] = "consumed"} = {credentials[n].by : n \in DOMAIN credentials}
  /\ Cardinality({credentials[n].by : n \in DOMAIN credentials}) = Len(credentials)
  /\ \A q \in Codes : Open(q) =>
       /\ code[q].polling => \E r \in Requests :
            request[r].code = q /\ request[r].at \in {"upstream", "stored"}
       /\ code[q].consuming => \E r \in Replacers :
            request[r].code = q /\ request[r].at \in {"writes", "written", "failed"}
=============================================================================
