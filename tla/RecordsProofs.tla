---------------------------- MODULE RecordsProofs ----------------------------
(***************************************************************************)
(* The records of the hosted server that requests race for: the            *)
(* administrator's credentials, the accounts with their sessions, the      *)
(* migrations of an account and the changes of its room, for any number of *)
(* requests, mails, users' challenges, jobs, receipts, faults and          *)
(* processes.                                                              *)
(***************************************************************************)
EXTENDS AdminRecovery, Registration, Migration, RoomMutation, FiniteSetTheorems, SequenceTheorems, TLAPS

-----------------------------------------------------------------------------
(* The administrator's credentials. *)

RecoveryCodes == {<<0, 0>>} \cup UNION {CodesOf(p) : p \in Nat}
Handoffs ==
  [state : {"pending", "expired", "confirmed"}, package : Nat, code : RecoveryCodes,
   overdue : BOOLEAN, delivered : BOOLEAN]
AdminRequests ==
  [at : {"idle", "prepares", "prepared", "claimed", "sent", "unsent", "rotates"}, epoch : Nat,
   code : RecoveryCodes, handoff : Nat, package : Nat]
EmailLogins == [at : {"idle", "mailed", "verified"}, epoch : Nat, since : Nat]
AdminSessions == [epoch : Nat, since : Nat, revoked : BOOLEAN, authorized : BOOLEAN]

AdminTypes ==
  /\ admin \in [epoch : Nat, secret : Nat]
  /\ recovery \subseteq RecoveryCodes
  /\ handoffs \in Seq(Handoffs)
  /\ request \in [Requests -> AdminRequests]
  /\ packages \in Nat /\ mailed \subseteq Nat
  /\ answered \subseteq DOMAIN handoffs
  /\ emailLogin \in EmailLogins
  /\ adminSessions \in Seq(AdminSessions)
  /\ confirmed \in Nat

\* What is marked as delivered or was answered was mailed; so was what a request that
\* says so has sent.
Mailed ==
  /\ \A h \in DOMAIN handoffs : handoffs[h].delivered \/ h \in answered => handoffs[h].package \in mailed
  /\ \A q \in Requests :
       /\ request[q].at \in {"prepared", "claimed", "sent", "unsent"} => request[q].handoff \in DOMAIN handoffs
       /\ request[q].at = "sent" => handoffs[request[q].handoff].package \in mailed
       /\ request[q].at = "rotates" => request[q].package \in mailed
  /\ \A code \in recovery : code[1] \in mailed

\* The secret in force came with a token that was answered.
Held == admin.epoch > 0 => \E h \in answered : handoffs[h].package = admin.secret

\* No login and no session is ahead of the identity, and one of its epoch began after
\* the last recovery.
Current(epoch, since) == epoch <= admin.epoch /\ (epoch = admin.epoch => since = confirmed)
Followed ==
  /\ emailLogin.at # "idle" => Current(emailLogin.epoch, emailLogin.since)
  /\ \A n \in DOMAIN adminSessions : Current(adminSessions[n].epoch, adminSessions[n].since)

AdminInv == AdminTypes /\ Mailed /\ Held /\ Followed

LEMMA Rewritten ==
  ASSUME NEW S, NEW s \in Seq(S), NEW f, f = [i \in DOMAIN s |-> f[i]], \A i \in DOMAIN s : f[i] \in S
  PROVE  f \in Seq(S) /\ DOMAIN f = DOMAIN s /\ Len(f) = Len(s)
<1>1. DOMAIN s = 1..Len(s) /\ Len(s) \in Nat
  OBVIOUS
<1>2. f \in [1..Len(s) -> S]
  BY <1>1
<1>3. f \in Seq(S)
  BY <1>1, <1>2
<1> QED BY <1>1, <1>3

LEMMA Appended ==
  ASSUME NEW S, NEW s \in Seq(S), NEW e \in S
  PROVE  /\ Append(s, e) \in Seq(S)
         /\ Len(Append(s, e)) = Len(s) + 1
         /\ DOMAIN Append(s, e) = DOMAIN s \cup {Len(s) + 1}
         /\ \A i \in DOMAIN s : Append(s, e)[i] = s[i]
         /\ Append(s, e)[Len(s) + 1] = e
         /\ Len(s) + 1 \notin DOMAIN s
OBVIOUS

LEMMA CodeFacts ==
  ASSUME NEW p \in Nat
  PROVE  CodesOf(p) \subseteq RecoveryCodes /\ \A code \in CodesOf(p) : code[1] = p
BY DEF CodesOf, RecoveryCodes

LEMMA AdminFacts ==
  ASSUME AdminTypes
  PROVE  /\ admin.epoch \in Nat /\ admin.secret \in Nat
         /\ \A h \in DOMAIN handoffs : handoffs[h] \in Handoffs /\ handoffs[h].package \in Nat /\ handoffs[h].code \in RecoveryCodes
         /\ DOMAIN handoffs = 1..Len(handoffs) /\ Len(handoffs) \in Nat
         /\ \A q \in Requests : request[q] \in AdminRequests /\ request[q].package \in Nat /\ request[q].code \in RecoveryCodes
         /\ NoRequest \in AdminRequests /\ NoEmailLogin \in EmailLogins
         /\ \A n \in DOMAIN adminSessions : adminSessions[n] \in AdminSessions
<1>1. NoRequest \in AdminRequests /\ NoEmailLogin \in EmailLogins
  BY DEF NoRequest, AdminRequests, RecoveryCodes, NoEmailLogin, EmailLogins
<1>2. \A h \in DOMAIN handoffs : handoffs[h] \in Handoffs
  BY DEF AdminTypes
<1>3. \A n \in DOMAIN adminSessions : adminSessions[n] \in AdminSessions
  BY DEF AdminTypes
<1> QED BY <1>1, <1>2, <1>3 DEF AdminTypes, Handoffs, AdminRequests

\* A request moves, and nothing else: what it was sent is not less than before.
LEMMA RequestMoves ==
  ASSUME AdminInv, NEW q \in Requests, NEW step \in AdminRequests,
         request' = [request EXCEPT ![q] = step],
         mailed \subseteq mailed', mailed' \subseteq Nat, packages' \in Nat,
         answered \subseteq answered', answered' \subseteq DOMAIN handoffs,
         \A h \in answered' \ answered : handoffs[h].package \in mailed,
         UNCHANGED <<admin, recovery, handoffs, emailLogin, adminSessions, confirmed>>,
         step.at \in {"prepared", "claimed", "sent", "unsent"} => step.handoff \in DOMAIN handoffs,
         step.at = "sent" => handoffs[step.handoff].package \in mailed',
         step.at = "rotates" => step.package \in mailed'
  PROVE  AdminInv'
<1>1. AdminTypes'
  BY DEF AdminInv, AdminTypes
<1>2. \A r \in Requests : request'[r] = IF r = q THEN step ELSE request[r]
  BY DEF AdminInv, AdminTypes
<1>3. Mailed'
  <2>1. \A h \in DOMAIN handoffs : handoffs[h].delivered \/ h \in answered' => handoffs[h].package \in mailed'
    BY DEF AdminInv, Mailed
  <2>2. \A r \in Requests :
          /\ request'[r].at \in {"prepared", "claimed", "sent", "unsent"} => request'[r].handoff \in DOMAIN handoffs
          /\ request'[r].at = "sent" => handoffs[request'[r].handoff].package \in mailed'
          /\ request'[r].at = "rotates" => request'[r].package \in mailed'
    BY <1>2 DEF AdminInv, Mailed
  <2> QED BY <2>1, <2>2 DEF AdminInv, Mailed
<1>4. Held' /\ Followed'
  BY DEF AdminInv, Held, Followed, Current
<1> QED BY <1>1, <1>3, <1>4 DEF AdminInv

\* Handoffs are added or marked, and keep their packages.
LEMMA HandoffsMove ==
  ASSUME AdminInv, handoffs' \in Seq(Handoffs), DOMAIN handoffs \subseteq DOMAIN handoffs',
         request' \in [Requests -> AdminRequests],
         \A h \in DOMAIN handoffs : handoffs'[h].package = handoffs[h].package,
         \A h \in DOMAIN handoffs' : handoffs'[h].delivered => h \in DOMAIN handoffs /\ handoffs[h].package \in mailed,
         answered \subseteq answered', answered' \subseteq DOMAIN handoffs,
         \A h \in answered' : handoffs[h].package \in mailed,
         \A q \in Requests :
           \/ request'[q] = request[q] \/ request'[q] = NoRequest
           \/ request'[q].at = "prepared" /\ request'[q].handoff \in DOMAIN handoffs',
         UNCHANGED <<packages, mailed, emailLogin>>
  PROVE  /\ UNCHANGED <<admin, recovery, adminSessions, confirmed>> => AdminInv'
         /\ (admin' \in [epoch : Nat, secret : Nat] /\ recovery' \subseteq RecoveryCodes
             /\ adminSessions' \in Seq(AdminSessions) /\ confirmed' \in Nat
             /\ (\A code \in recovery' : code[1] \in mailed) /\ Held' /\ Followed') => AdminInv'
<1>1. Mailed'  <=> \A code \in recovery' : code[1] \in mailed
  <2>1. \A h \in DOMAIN handoffs' : handoffs'[h].delivered \/ h \in answered' => handoffs'[h].package \in mailed'
    OBVIOUS
  <2>2. \A r \in Requests :
          /\ request'[r].at \in {"prepared", "claimed", "sent", "unsent"} => request'[r].handoff \in DOMAIN handoffs'
          /\ request'[r].at = "sent" => handoffs'[request'[r].handoff].package \in mailed'
          /\ request'[r].at = "rotates" => request'[r].package \in mailed'
    BY DEF AdminInv, Mailed, NoRequest
  <2> QED BY <2>1, <2>2 DEF Mailed
<1>2. CASE UNCHANGED <<admin, recovery, adminSessions, confirmed>>
  <2>1. AdminTypes' /\ Mailed'
    BY <1>1, <1>2 DEF AdminInv, AdminTypes, Mailed
  <2>2. Held'
    BY <1>2 DEF AdminInv, AdminTypes, Held
  <2>3. Followed'
    BY <1>2 DEF AdminInv, Followed, Current
  <2> QED BY <2>1, <2>2, <2>3 DEF AdminInv
<1>3. ASSUME admin' \in [epoch : Nat, secret : Nat], recovery' \subseteq RecoveryCodes,
             adminSessions' \in Seq(AdminSessions), confirmed' \in Nat,
             \A code \in recovery' : code[1] \in mailed, Held', Followed'
      PROVE  AdminInv'
  <2>1. AdminTypes' /\ Mailed'
    BY <1>1, <1>3 DEF AdminInv, AdminTypes
  <2> QED BY <1>3, <2>1 DEF AdminInv
<1> QED BY <1>2, <1>3

LEMMA AdminRequestStep ==
  ASSUME AdminInv, NEW q \in Requests,
         \/ Prepares(q) \/ ClaimsMail(q) \/ SendsArchive(q)
         \/ MailsRotation(q) \/ RotateRecoveryCodes(q)
  PROVE  AdminInv'
<1>1. AdminTypes /\ request[q] \in AdminRequests /\ NoRequest \in AdminRequests /\ packages \in Nat /\ mailed \subseteq Nat
      /\ answered \subseteq DOMAIN handoffs
  BY AdminFacts DEF AdminInv, AdminTypes
<1>2. CASE Prepares(q)
  <2>1. PICK code \in PresentedCodes :
          request' = [request EXCEPT ![q] = [at |-> "prepares", epoch |-> admin.epoch, code |-> code, handoff |-> 0,
                                             package |-> packages']]
    BY <1>2 DEF Prepares
  <2>2. code \in RecoveryCodes
    <3>1. <<0, 0>> \in RecoveryCodes /\ UNION {CodesOf(p) : p \in 1..packages} \subseteq RecoveryCodes
      BY <1>1 DEF RecoveryCodes
    <3> QED BY <3>1 DEF PresentedCodes
  <2>3. packages' \in Nat
    BY <1>1, <1>2 DEF Prepares
  <2> DEFINE step == [at |-> "prepares", epoch |-> admin.epoch, code |-> code, handoff |-> 0, package |-> packages']
  <2>4. step \in AdminRequests /\ step.at = "prepares"
    BY <1>1, <2>2, <2>3, AdminFacts DEF AdminRequests
  <2> HIDE DEF step
  <2>5. request' = [request EXCEPT ![q] = step]
    BY <2>1 DEF step
  <2> QED BY <1>1, <1>2, <2>3, <2>4, <2>5, RequestMoves DEF Prepares
<1>3. CASE ClaimsMail(q)
  <2> DEFINE h == request[q].handoff
  <2>1. h \in DOMAIN handoffs
    BY <1>3 DEF ClaimsMail, AdminInv, Mailed
  <2>2. CASE handoffs[h].state # "pending" \/ handoffs[h].delivered
    <3>1. request' = [request EXCEPT ![q] = NoRequest]
      BY <1>3, <2>2 DEF ClaimsMail, Ends
    <3>2. answered' = answered \/ (answered' = answered \cup {h} /\ handoffs[h].package \in mailed)
      BY <1>3, <2>1 DEF ClaimsMail, Answers, AdminInv, Mailed
    <3>3. NoRequest.at = "idle"
      BY DEF NoRequest
    <3> QED BY <1>1, <1>3, <2>1, <3>1, <3>2, <3>3, RequestMoves DEF ClaimsMail
  <2>3. CASE ~(handoffs[h].state # "pending" \/ handoffs[h].delivered)
    <3>1. UNCHANGED answered
      BY <1>3, <2>3 DEF ClaimsMail
    <3> DEFINE step == [request[q] EXCEPT !.at = "claimed"]
    <3>2. step \in AdminRequests /\ step.at = "claimed" /\ step.handoff = h
      BY <1>1 DEF AdminRequests
    <3>3. request' = [request EXCEPT ![q] = step]
      BY <1>3, <2>3 DEF ClaimsMail
    <3> HIDE DEF step
    <3> QED BY <1>1, <1>3, <2>1, <3>1, <3>2, <3>3, RequestMoves DEF ClaimsMail
  <2> QED BY <2>2, <2>3
<1>4. CASE SendsArchive(q)
  <2> DEFINE h == request[q].handoff
  <2>1. h \in DOMAIN handoffs /\ handoffs[h].package \in Nat
    BY <1>1, <1>4, AdminFacts DEF SendsArchive, AdminInv, Mailed
  <2>2. PICK at \in {"sent", "unsent"} :
          /\ request' = [request EXCEPT ![q].at = at]
          /\ mailed' = IF at = "sent" THEN mailed \cup {handoffs[h].package} ELSE mailed
    BY <1>4 DEF SendsArchive, PackageOf
  <2> DEFINE step == [request[q] EXCEPT !.at = at]
  <2>3. step \in AdminRequests /\ step.at = at /\ step.handoff = h
    BY <1>1 DEF AdminRequests
  <2>4. request' = [request EXCEPT ![q] = step]
    BY <2>2
  <2> HIDE DEF step
  <2>5. /\ mailed \subseteq mailed' /\ mailed' \subseteq Nat
        /\ at = "sent" => handoffs[h].package \in mailed'
    BY <1>1, <2>1, <2>2
  <2> QED BY <1>1, <1>4, <2>1, <2>3, <2>4, <2>5, RequestMoves DEF SendsArchive
<1>5. CASE MailsRotation(q)
  <2>1. packages' = packages + 1 /\ packages' \in Nat
    BY <1>1, <1>5 DEF MailsRotation
  <2>2. \/ mailed' = mailed \cup {packages'} /\ request' = [request EXCEPT ![q] = [NoRequest EXCEPT !.at = "rotates", !.package = packages']]
        \/ UNCHANGED <<mailed, request>>
    BY <1>5 DEF MailsRotation
  <2> DEFINE step == IF UNCHANGED <<mailed, request>> THEN request[q] ELSE [NoRequest EXCEPT !.at = "rotates", !.package = packages']
  <2>3. CASE UNCHANGED <<mailed, request>>
    <3>1. request' = [request EXCEPT ![q] = request[q]]
      BY <1>1, <2>3 DEF AdminTypes
    <3> QED BY <1>1, <1>5, <2>1, <2>3, <3>1, RequestMoves DEF MailsRotation, AdminInv, Mailed
  <2>4. CASE ~UNCHANGED <<mailed, request>>
    <3> DEFINE next == [NoRequest EXCEPT !.at = "rotates", !.package = packages']
    <3>1. next \in AdminRequests /\ next.at = "rotates" /\ next.package = packages'
      BY <1>1, <2>1 DEF AdminRequests, NoRequest
    <3>2. request' = [request EXCEPT ![q] = next] /\ mailed' = mailed \cup {packages'}
      BY <2>2, <2>4
    <3> HIDE DEF next
    <3> QED BY <1>1, <1>5, <2>1, <3>1, <3>2, RequestMoves DEF MailsRotation
  <2> QED BY <2>3, <2>4
<1>6. CASE RotateRecoveryCodes(q)
  <2>1. request' = [request EXCEPT ![q] = NoRequest] /\ request' \in [Requests -> AdminRequests]
    BY <1>1, <1>6 DEF RotateRecoveryCodes, Ends, AdminTypes
  <2>2. recovery' = recovery \/ (recovery' = CodesOf(request[q].package) /\ request[q].package \in mailed /\ request[q].package \in Nat)
    BY <1>1, <1>6, AdminFacts DEF RotateRecoveryCodes, AdminInv, Mailed
  <2>3. recovery' \subseteq RecoveryCodes /\ \A code \in recovery' : code[1] \in mailed
    BY <1>1, <2>2, CodeFacts DEF AdminInv, AdminTypes, Mailed
  <2>4. \A r \in Requests : request'[r] = request[r] \/ request'[r] = NoRequest
    BY <1>1, <2>1 DEF AdminTypes
  <2>5. Held' /\ Followed'
    BY <1>6 DEF RotateRecoveryCodes, AdminInv, Held, Followed, Current
  <2>6. UNCHANGED <<admin, handoffs, packages, mailed, answered, emailLogin, adminSessions, confirmed>>
    BY <1>6 DEF RotateRecoveryCodes
  <2>7. \A h \in DOMAIN handoffs : handoffs[h].delivered \/ h \in answered => handoffs[h].package \in mailed
    BY DEF AdminInv, Mailed
  <2> QED BY <1>1, <2>1, <2>3, <2>4, <2>5, <2>6, <2>7, HandoffsMove DEF AdminTypes
<1> QED BY <1>2, <1>3, <1>4, <1>5, <1>6

LEMMA PrepareStep ==
  ASSUME AdminInv, NEW q \in Requests, PrepareHandoff(q)
  PROVE  AdminInv'
<1>1. /\ AdminTypes /\ request[q] \in AdminRequests /\ NoRequest \in AdminRequests /\ NoRequest.at = "idle"
      /\ \A h \in DOMAIN handoffs : handoffs[h].delivered \/ h \in answered => handoffs[h].package \in mailed
      /\ packages \in Nat /\ mailed \subseteq Nat /\ answered \subseteq DOMAIN handoffs
  BY AdminFacts DEF AdminInv, AdminTypes, NoRequest, Mailed
<1>2. UNCHANGED <<admin, recovery, packages, mailed, answered, emailLogin, adminSessions, confirmed>>
  BY DEF PrepareHandoff
<1>3. CASE RefusesHandoff(q)
  <2>1. request' = [request EXCEPT ![q] = NoRequest] /\ UNCHANGED handoffs
    BY <1>3 DEF PrepareHandoff, Ends
  <2> QED BY <1>1, <1>2, <2>1, RequestMoves
<1>4. CASE ~RefusesHandoff(q)
  <2> DEFINE repeated == {h \in Pending : ~MayExpire(h)}
             chosen == IF repeated # {} THEN CHOOSE h \in repeated : TRUE ELSE Len(handoffs')
  <2>1. /\ handoffs' = IF repeated # {} THEN handoffs ELSE WithHandoff(q)
        /\ \/ request' = [request EXCEPT ![q].at = "prepared", ![q].handoff = chosen]
           \/ request' = [request EXCEPT ![q] = NoRequest]
    BY <1>4 DEF PrepareHandoff, Ends
  <2>2. /\ handoffs' \in Seq(Handoffs) /\ DOMAIN handoffs \subseteq DOMAIN handoffs'
        /\ \A h \in DOMAIN handoffs : handoffs'[h].package = handoffs[h].package
        /\ \A h \in DOMAIN handoffs' : handoffs'[h].delivered => h \in DOMAIN handoffs /\ handoffs[h].package \in mailed
        /\ Len(handoffs') \in Nat /\ DOMAIN handoffs' = 1..Len(handoffs')
        /\ repeated = {} => Len(handoffs') \in DOMAIN handoffs'
    <3>1. CASE repeated # {}
      BY <1>1, <2>1, <3>1, AdminFacts DEF AdminTypes
    <3>2. CASE repeated = {}
      <4> DEFINE old == [h \in DOMAIN handoffs |->
                           IF h \in Pending THEN [handoffs[h] EXCEPT !.state = "expired"] ELSE handoffs[h]]
                 new == [state |-> "pending", package |-> request[q].package, code |-> request[q].code,
                         overdue |-> FALSE, delivered |-> FALSE]
      <4>1. handoffs' = Append(old, new)
        BY <2>1, <3>2 DEF WithHandoff
      <4>2. new \in Handoffs /\ ~new.delivered
        BY <1>1, AdminFacts DEF Handoffs
      <4>3. \A h \in DOMAIN handoffs : old[h] \in Handoffs /\ old[h].package = handoffs[h].package /\ old[h].delivered = handoffs[h].delivered
        BY <1>1, AdminFacts DEF Handoffs
      <4>4. old \in Seq(Handoffs) /\ DOMAIN old = DOMAIN handoffs
        <5>1. old = [h \in DOMAIN handoffs |-> old[h]]
          OBVIOUS
        <5> HIDE DEF old
        <5> QED BY <1>1, <4>3, <5>1, Rewritten DEF AdminTypes
      <4> HIDE DEF old, new, repeated
      <4>5. /\ handoffs' \in Seq(Handoffs) /\ DOMAIN handoffs' = DOMAIN handoffs \cup {Len(old) + 1}
            /\ Len(handoffs') = Len(old) + 1 /\ \A h \in DOMAIN handoffs : handoffs'[h] = old[h]
            /\ handoffs'[Len(old) + 1] = new
        BY <4>1, <4>2, <4>4, Appended
      <4>6. Len(handoffs') \in Nat /\ DOMAIN handoffs' = 1..Len(handoffs')
        BY <4>5
      <4> QED BY <1>1, <4>2, <4>3, <4>5, <4>6
    <3> QED BY <3>1, <3>2
  <2>3. chosen \in DOMAIN handoffs' /\ chosen \in Nat
    <3>1. repeated # {} => (CHOOSE h \in repeated : TRUE) \in repeated
      OBVIOUS
    <3>2. repeated \subseteq DOMAIN handoffs
      BY DEF Pending
    <3> HIDE DEF repeated
    <3> QED BY <2>2, <3>1, <3>2
  <2> HIDE DEF chosen, repeated
  <2>4. /\ request' \in [Requests -> AdminRequests]
        /\ \A r \in Requests :
             \/ request'[r] = request[r] \/ request'[r] = NoRequest
             \/ request'[r].at = "prepared" /\ request'[r].handoff \in DOMAIN handoffs'
    <3> DEFINE step == [request[q] EXCEPT !.at = "prepared", !.handoff = chosen]
    <3>1. step \in AdminRequests /\ step.at = "prepared" /\ step.handoff = chosen
      BY <1>1, <2>3 DEF AdminRequests
    <3>2. request' = [request EXCEPT ![q] = step] \/ request' = [request EXCEPT ![q] = NoRequest]
      BY <2>1
    <3> HIDE DEF step
    <3> QED BY <1>1, <2>3, <3>1, <3>2 DEF AdminTypes
  <2> QED BY <1>1, <1>2, <2>2, <2>4, HandoffsMove
<1> QED BY <1>3, <1>4

\* A handoff is marked in place.
LEMMA MarkedHandoff ==
  ASSUME AdminInv, NEW h \in DOMAIN handoffs, NEW mark \in Handoffs, mark.package = handoffs[h].package,
         mark.delivered => handoffs[h].delivered \/ handoffs[h].package \in mailed,
         handoffs' = [handoffs EXCEPT ![h] = mark]
  PROVE  /\ handoffs' \in Seq(Handoffs) /\ DOMAIN handoffs' = DOMAIN handoffs
         /\ \A k \in DOMAIN handoffs : handoffs'[k].package = handoffs[k].package
         /\ \A k \in DOMAIN handoffs : handoffs'[k].delivered => handoffs[k].package \in mailed
<1>1. handoffs \in Seq(Handoffs) /\ \A k \in DOMAIN handoffs : handoffs[k] \in Handoffs
  BY AdminFacts DEF AdminInv, AdminTypes
<1>2. /\ \A k \in DOMAIN handoffs : handoffs'[k] = IF k = h THEN mark ELSE handoffs[k]
      /\ handoffs' = [k \in DOMAIN handoffs |-> handoffs'[k]]
  BY <1>1
<1>3. handoffs' \in Seq(Handoffs) /\ DOMAIN handoffs' = DOMAIN handoffs
  BY <1>1, <1>2, Rewritten
<1> QED BY <1>2, <1>3 DEF AdminInv, Mailed

LEMMA MarksStep ==
  ASSUME AdminInv, NEW q \in Requests, MarksAttempt(q)
  PROVE  AdminInv'
<1> DEFINE h == request[q].handoff
<1>1. /\ AdminTypes /\ request[q] \in AdminRequests /\ NoRequest \in AdminRequests
      /\ h \in DOMAIN handoffs /\ handoffs[h] \in Handoffs /\ request[q].at \in {"sent", "unsent"}
      /\ request[q].at = "sent" => handoffs[h].package \in mailed
      /\ \A k \in DOMAIN handoffs : handoffs[k].delivered \/ k \in answered => handoffs[k].package \in mailed
      /\ answered \subseteq DOMAIN handoffs
  BY AdminFacts DEF AdminInv, AdminTypes, Mailed, MarksAttempt
<1>2. /\ request' = [request EXCEPT ![q] = NoRequest]
      /\ UNCHANGED <<admin, recovery, packages, mailed, emailLogin, adminSessions, confirmed>>
  BY DEF MarksAttempt, Ends
<1>3. /\ request' \in [Requests -> AdminRequests]
      /\ \A r \in Requests : request'[r] = request[r] \/ request'[r] = NoRequest
  BY <1>1, <1>2 DEF AdminTypes
<1>4. /\ answered \subseteq answered' /\ answered' \subseteq DOMAIN handoffs
      /\ \A k \in answered' : handoffs[k].package \in mailed
  BY <1>1 DEF MarksAttempt, Answers
<1>5. \/ UNCHANGED handoffs
      \/ handoffs' = [handoffs EXCEPT ![h].delivered = request[q].at = "sent"]
  BY DEF MarksAttempt, WasSent
<1>6. CASE UNCHANGED handoffs
  BY <1>1, <1>2, <1>3, <1>4, <1>6, HandoffsMove DEF AdminTypes
<1>7. CASE handoffs' = [handoffs EXCEPT ![h].delivered = request[q].at = "sent"]
  <2> DEFINE mark == [handoffs[h] EXCEPT !.delivered = request[q].at = "sent"]
  <2>1. mark \in Handoffs /\ mark.package = handoffs[h].package
    BY <1>1 DEF Handoffs
  <2>2. mark.delivered => handoffs[h].package \in mailed
    <3>1. mark.delivered = (request[q].at = "sent")
      BY <1>1 DEF Handoffs
    <3> HIDE DEF mark
    <3> QED BY <1>1, <3>1
  <2>3. handoffs' = [handoffs EXCEPT ![h] = mark]
    BY <1>7
  <2> HIDE DEF mark
  <2>4. /\ handoffs' \in Seq(Handoffs) /\ DOMAIN handoffs' = DOMAIN handoffs
        /\ \A k \in DOMAIN handoffs : handoffs'[k].package = handoffs[k].package
        /\ \A k \in DOMAIN handoffs : handoffs'[k].delivered => handoffs[k].package \in mailed
    BY <1>1, <2>1, <2>2, <2>3, MarkedHandoff
  <2> QED BY <1>2, <1>3, <1>4, <2>4, HandoffsMove
<1> QED BY <1>5, <1>6, <1>7

LEMMA HandoffStep ==
  ASSUME AdminInv, NEW h \in DOMAIN handoffs,
         ConfirmInitialization(h) \/ ConfirmRecovery(h) \/ HandoffFallsDue(h) \/ CleansUpHandoff(h)
  PROVE  AdminInv'
<1>1. /\ AdminTypes /\ handoffs[h] \in Handoffs /\ handoffs[h].package \in Nat
      /\ \A k \in DOMAIN handoffs : handoffs[k].delivered \/ k \in answered => handoffs[k].package \in mailed
      /\ answered \subseteq DOMAIN handoffs /\ admin.epoch \in Nat /\ confirmed \in Nat
      /\ request \in [Requests -> AdminRequests]
      /\ recovery \subseteq RecoveryCodes /\ adminSessions \in Seq(AdminSessions)
      /\ \A code \in recovery : code[1] \in mailed
  BY AdminFacts DEF AdminInv, AdminTypes, Mailed
<1>2. UNCHANGED <<request, packages, mailed, answered, emailLogin>>
  BY DEF ConfirmInitialization, ConfirmRecovery, HandoffFallsDue, CleansUpHandoff
<1>3. PICK mark \in Handoffs :
        /\ handoffs' = [handoffs EXCEPT ![h] = mark]
        /\ mark.package = handoffs[h].package /\ mark.delivered = handoffs[h].delivered
  <2>1. PICK state \in {"pending", "expired", "confirmed"}, overdue \in BOOLEAN :
          handoffs' = [handoffs EXCEPT ![h] = [handoffs[h] EXCEPT !.state = state, !.overdue = overdue]]
    <3>1. CASE HandoffFallsDue(h)
      <4>1. handoffs' = [handoffs EXCEPT ![h] = [handoffs[h] EXCEPT !.overdue = TRUE]]
        BY <3>1 DEF HandoffFallsDue
      <4>2. [handoffs[h] EXCEPT !.overdue = TRUE] = [handoffs[h] EXCEPT !.state = handoffs[h].state, !.overdue = TRUE]
        BY <1>1 DEF Handoffs
      <4>3. handoffs[h].state \in {"pending", "expired", "confirmed"}
        BY <1>1 DEF Handoffs
      <4> QED BY <4>1, <4>2, <4>3
    <3>2. CASE ~HandoffFallsDue(h)
      <4>1. PICK state \in {"expired", "confirmed"} : handoffs' = [handoffs EXCEPT ![h] = [handoffs[h] EXCEPT !.state = state]]
        BY <3>2 DEF ConfirmInitialization, ConfirmRecovery, CleansUpHandoff
      <4>2. [handoffs[h] EXCEPT !.state = state] = [handoffs[h] EXCEPT !.state = state, !.overdue = handoffs[h].overdue]
        BY <1>1 DEF Handoffs
      <4>3. handoffs[h].overdue \in BOOLEAN
        BY <1>1 DEF Handoffs
      <4> QED BY <4>1, <4>2, <4>3
    <3> QED BY <3>1, <3>2
  <2> DEFINE mark == [handoffs[h] EXCEPT !.state = state, !.overdue = overdue]
  <2>2. mark \in Handoffs /\ mark.package = handoffs[h].package /\ mark.delivered = handoffs[h].delivered
    BY <1>1 DEF Handoffs
  <2> QED BY <2>1, <2>2
<1>4. /\ handoffs' \in Seq(Handoffs) /\ DOMAIN handoffs' = DOMAIN handoffs
      /\ \A k \in DOMAIN handoffs : handoffs'[k].package = handoffs[k].package
      /\ \A k \in DOMAIN handoffs : handoffs'[k].delivered => handoffs[k].package \in mailed
  BY <1>3, MarkedHandoff
<1>5. CASE HandoffFallsDue(h) \/ CleansUpHandoff(h)
  <2>1. UNCHANGED <<admin, recovery, adminSessions, confirmed>>
    BY <1>5 DEF HandoffFallsDue, CleansUpHandoff
  <2> QED BY <1>1, <1>2, <1>4, <2>1, HandoffsMove
<1>6. CASE ConfirmInitialization(h) \/ ConfirmRecovery(h)
  <2> DEFINE p == handoffs[h].package
  <2>1. /\ h \in answered /\ p \in mailed /\ recovery' = CodesOf(p)
        /\ admin' = [epoch |-> admin.epoch + 1, secret |-> p]
    BY <1>1, <1>6 DEF ConfirmInitialization, ConfirmRecovery, Confirmable, AdvancedEpoch
  <2>2. /\ admin' \in [epoch : Nat, secret : Nat] /\ recovery' \subseteq RecoveryCodes
        /\ \A code \in recovery' : code[1] \in mailed
    BY <1>1, <2>1, CodeFacts
  <2>3. admin'.epoch = admin.epoch + 1 /\ admin'.secret = p
    BY <2>1
  <2>4. Held'
    BY <1>1, <1>2, <1>4, <2>1, <2>3 DEF Held
  <2>5. /\ adminSessions' \in Seq(AdminSessions) /\ confirmed' \in Nat
        /\ DOMAIN adminSessions' = DOMAIN adminSessions
        /\ \A n \in DOMAIN adminSessions : adminSessions'[n].epoch = adminSessions[n].epoch
    <3>1. CASE ConfirmInitialization(h)
      BY <1>1, <3>1 DEF ConfirmInitialization
    <3>2. CASE ConfirmRecovery(h)
      <4>1. adminSessions' = [n \in DOMAIN adminSessions |-> [adminSessions[n] EXCEPT !.revoked = TRUE]] /\ confirmed' = confirmed + 1
        BY <3>2 DEF ConfirmRecovery
      <4>2. \A n \in DOMAIN adminSessions : /\ adminSessions'[n] \in AdminSessions
                                            /\ adminSessions'[n].epoch = adminSessions[n].epoch
        BY <1>1, <4>1, AdminFacts DEF AdminSessions
      <4>3. adminSessions' = [n \in DOMAIN adminSessions |-> adminSessions'[n]]
        BY <4>1
      <4> QED BY <1>1, <4>1, <4>2, <4>3, Rewritten
    <3> QED BY <1>6, <3>1, <3>2
  <2>6. Followed'
    <3>1. /\ emailLogin.at # "idle" => emailLogin.epoch \in Nat /\ emailLogin.epoch <= admin.epoch
          /\ \A n \in DOMAIN adminSessions : adminSessions[n].epoch \in Nat /\ adminSessions[n].epoch <= admin.epoch
      BY <1>1, AdminFacts DEF AdminInv, Followed, Current, AdminTypes, EmailLogins, AdminSessions
    <3>2. \A e \in Nat : e <= admin.epoch => e <= admin'.epoch /\ e # admin'.epoch
      BY <1>1, <2>3
    <3>3. emailLogin'.at # "idle" => emailLogin'.epoch <= admin'.epoch /\ emailLogin'.epoch # admin'.epoch
      BY <1>2, <3>1, <3>2
    <3>4. \A n \in DOMAIN adminSessions' :
            adminSessions'[n].epoch <= admin'.epoch /\ adminSessions'[n].epoch # admin'.epoch
      BY <2>5, <3>1, <3>2
    <3> QED BY <3>3, <3>4 DEF Followed, Current
  <2> QED BY <1>1, <1>2, <1>4, <2>2, <2>4, <2>5, <2>6, HandoffsMove
<1> QED BY <1>5, <1>6

LEMMA SessionStep ==
  ASSUME AdminInv,
         \/ BeginsEmailLogin \/ VerifiesEmail \/ CreatesAdminSession
         \/ \E n \in DOMAIN adminSessions :
              AuthorizesOperation(n) \/ ConsumesOperation(n) \/ RevokesAdminSession(n) \/ LogsOut(n)
  PROVE  AdminInv'
<1>1. /\ AdminTypes /\ admin.epoch \in Nat /\ confirmed \in Nat /\ emailLogin \in EmailLogins
      /\ adminSessions \in Seq(AdminSessions) /\ NoEmailLogin \in EmailLogins /\ NoEmailLogin.at = "idle"
      /\ \A n \in DOMAIN adminSessions : adminSessions[n] \in AdminSessions
      /\ Followed
  BY AdminFacts DEF AdminInv, AdminTypes, NoEmailLogin
<1>2. UNCHANGED <<admin, recovery, handoffs, request, packages, mailed, answered, confirmed>>
  BY DEF BeginsEmailLogin, VerifiesEmail, CreatesAdminSession, AuthorizesOperation, ConsumesOperation,
         RevokesAdminSession, LogsOut
<1>3. emailLogin' \in EmailLogins /\ (emailLogin'.at # "idle" => Current(emailLogin'.epoch, emailLogin'.since))
  <2>1. CASE BeginsEmailLogin
    <3>1. emailLogin' = [at |-> "mailed", epoch |-> admin.epoch, since |-> confirmed]
      BY <2>1 DEF BeginsEmailLogin
    <3> QED BY <1>1, <3>1 DEF EmailLogins, Current
  <2>2. CASE VerifiesEmail
    <3>1. \/ emailLogin' = NoEmailLogin
          \/ emailLogin.at = "mailed" /\ emailLogin' = [emailLogin EXCEPT !.at = "verified"]
      BY <2>2 DEF VerifiesEmail
    <3> QED BY <1>1, <3>1 DEF EmailLogins, Followed, Current
  <2>3. CASE ~BeginsEmailLogin /\ ~VerifiesEmail
    <3>1. emailLogin' \in {emailLogin, NoEmailLogin}
      BY <2>3 DEF CreatesAdminSession, AuthorizesOperation, ConsumesOperation, RevokesAdminSession, LogsOut
    <3> QED BY <1>1, <3>1 DEF Followed, Current
  <2> QED BY <2>1, <2>2, <2>3
<1> DEFINE Fine ==
      /\ adminSessions' \in Seq(AdminSessions)
      /\ \A n \in DOMAIN adminSessions' : Current(adminSessions'[n].epoch, adminSessions'[n].since)
<1>4. Fine
  <2>1. CASE UNCHANGED adminSessions
    BY <1>1, <2>1 DEF Followed
  <2>2. ASSUME CreatesAdminSession, ExpectedEpoch
        PROVE  Fine
    <3> DEFINE new == [epoch |-> admin.epoch, since |-> emailLogin.since, revoked |-> FALSE, authorized |-> FALSE]
    <3>1. adminSessions' = Append(adminSessions, new)
      BY <2>2 DEF CreatesAdminSession
    <3>2. new \in AdminSessions /\ Current(new.epoch, new.since)
      BY <1>1, <2>2 DEF CreatesAdminSession, ExpectedEpoch, AdminSessions, EmailLogins, Followed, Current
    <3> HIDE DEF new
    <3> QED BY <1>1, <3>1, <3>2, Appended DEF Followed
  <2>3. ASSUME NEW n \in DOMAIN adminSessions,
               AuthorizesOperation(n) \/ ConsumesOperation(n) \/ RevokesAdminSession(n) \/ LogsOut(n)
        PROVE  Fine
    <3>1. /\ adminSessions' = [k \in DOMAIN adminSessions |-> adminSessions'[k]]
          /\ \A k \in DOMAIN adminSessions :
               /\ adminSessions'[k] \in AdminSessions
               /\ adminSessions'[k].epoch = adminSessions[k].epoch /\ adminSessions'[k].since = adminSessions[k].since
      <4>1. PICK r \in BOOLEAN, a \in BOOLEAN :
              adminSessions' = [adminSessions EXCEPT ![n] = [adminSessions[n] EXCEPT !.revoked = r, !.authorized = a]]
        <5>1. \A s \in AdminSessions, b \in BOOLEAN :
                /\ [s EXCEPT !.authorized = b] = [s EXCEPT !.revoked = s.revoked, !.authorized = b]
                /\ [s EXCEPT !.revoked = b] = [s EXCEPT !.revoked = b, !.authorized = s.authorized]
                /\ s.revoked \in BOOLEAN /\ s.authorized \in BOOLEAN
          BY DEF AdminSessions
        <5>2. \E b \in BOOLEAN :
                \/ adminSessions' = [adminSessions EXCEPT ![n] = [adminSessions[n] EXCEPT !.revoked = b]]
                \/ adminSessions' = [adminSessions EXCEPT ![n] = [adminSessions[n] EXCEPT !.authorized = b]]
          BY <2>3 DEF AuthorizesOperation, ConsumesOperation, RevokesAdminSession, LogsOut
        <5>3. PICK b \in BOOLEAN :
                \/ adminSessions' = [adminSessions EXCEPT ![n] = [adminSessions[n] EXCEPT !.revoked = b]]
                \/ adminSessions' = [adminSessions EXCEPT ![n] = [adminSessions[n] EXCEPT !.authorized = b]]
          BY <5>2
        <5>4. adminSessions[n] \in AdminSessions
          BY <1>1
        <5>5. CASE adminSessions' = [adminSessions EXCEPT ![n] = [adminSessions[n] EXCEPT !.revoked = b]]
          BY <5>1, <5>4, <5>5
        <5>6. CASE adminSessions' = [adminSessions EXCEPT ![n] = [adminSessions[n] EXCEPT !.authorized = b]]
          BY <5>1, <5>4, <5>6
        <5> QED BY <5>3, <5>5, <5>6
      <4>2. [adminSessions[n] EXCEPT !.revoked = r, !.authorized = a] \in AdminSessions
        BY <1>1 DEF AdminSessions
      <4>3. /\ [adminSessions[n] EXCEPT !.revoked = r, !.authorized = a].epoch = adminSessions[n].epoch
            /\ [adminSessions[n] EXCEPT !.revoked = r, !.authorized = a].since = adminSessions[n].since
        BY <1>1 DEF AdminSessions
      <4> QED BY <1>1, <4>1, <4>2, <4>3
    <3>2. adminSessions' \in Seq(AdminSessions) /\ DOMAIN adminSessions' = DOMAIN adminSessions
      BY <1>1, <3>1, Rewritten
    <3> QED BY <1>1, <3>1, <3>2 DEF Followed
  <2>4. \/ UNCHANGED adminSessions \/ (CreatesAdminSession /\ ExpectedEpoch)
        \/ \E n \in DOMAIN adminSessions :
             AuthorizesOperation(n) \/ ConsumesOperation(n) \/ RevokesAdminSession(n) \/ LogsOut(n)
    BY DEF BeginsEmailLogin, VerifiesEmail, CreatesAdminSession
  <2> QED BY <2>1, <2>2, <2>3, <2>4
<1>5. AdminTypes' /\ Followed'
  BY <1>1, <1>2, <1>3, <1>4 DEF AdminTypes, Followed, Current
<1>6. Mailed' /\ Held'
  BY <1>2 DEF AdminInv, Mailed, Held
<1> QED BY <1>5, <1>6 DEF AdminInv

LEMMA AdminStep == ASSUME AdminInv, [AdminNext]_adminVars PROVE AdminInv'
<1>1. CASE UNCHANGED adminVars
  BY <1>1 DEF adminVars, AdminInv, AdminTypes, Mailed, Held, Followed, Current
<1>2. ASSUME NEW q \in Requests,
             \/ Prepares(q) \/ PrepareHandoff(q) \/ ClaimsMail(q) \/ SendsArchive(q) \/ MarksAttempt(q)
             \/ MailsRotation(q) \/ RotateRecoveryCodes(q)
      PROVE  AdminInv'
  BY <1>2, AdminRequestStep, PrepareStep, MarksStep
<1>3. ASSUME NEW h \in DOMAIN handoffs,
             ConfirmInitialization(h) \/ ConfirmRecovery(h) \/ HandoffFallsDue(h) \/ CleansUpHandoff(h)
      PROVE  AdminInv'
  BY <1>3, HandoffStep
<1>4. CASE InstanceEnds
  <2>1. /\ request' = [q \in Requests |-> NoRequest] /\ emailLogin' = NoEmailLogin
        /\ UNCHANGED <<admin, recovery, handoffs, packages, mailed, answered, adminSessions, confirmed>>
    BY <1>4 DEF InstanceEnds
  <2>2. AdminTypes'
    BY <2>1, AdminFacts DEF AdminInv, AdminTypes
  <2>3. Mailed' /\ Held'
    BY <2>1 DEF AdminInv, Mailed, Held, NoRequest
  <2>4. Followed'
    BY <2>1 DEF AdminInv, Followed, Current, NoEmailLogin
  <2> QED BY <2>2, <2>3, <2>4 DEF AdminInv
<1> QED BY <1>1, <1>2, <1>3, <1>4, SessionStep DEF AdminNext

LEMMA AdminInvariant == AdminSpec => []AdminInv
<1>1. ASSUME AdminInit PROVE AdminInv
  <2>1. AdminTypes
    <3>1. NoRequest \in AdminRequests /\ NoEmailLogin \in EmailLogins
      BY DEF NoRequest, AdminRequests, RecoveryCodes, NoEmailLogin, EmailLogins
    <3> QED BY <1>1, <3>1 DEF AdminInit, AdminTypes
  <2>2. Mailed /\ Held /\ Followed
    BY <1>1 DEF AdminInit, Mailed, Held, Followed, NoRequest, NoEmailLogin
  <2> QED BY <2>1, <2>2 DEF AdminInv
<1> QED BY <1>1, AdminStep, PTL DEF AdminSpec

\* The recovery codes and the secret in force are ones the administrator was sent, and a
\* session that is accepted began after the last recovery (adminidentity/service.go),
\* whichever mails, replies and instances are lost and however many requests race.
THEOREM RecoveryStaysFinal == AdminSpec => []RecoveryIsFinal
<1>1. ASSUME AdminInv PROVE RecoveryIsFinal
  BY <1>1 DEF AdminInv, Mailed, Held, Followed, Current, RecoveryIsFinal, SessionLives
<1> QED BY <1>1, AdminInvariant, PTL

-----------------------------------------------------------------------------
(* The accounts and their sessions. *)

Proofs == [account : Nat, epoch : Nat, disables : Nat]
Redemptions ==
  [at : {"idle", "reserved", "locked", "checked", "written", "commits", "consumes", "aborts"},
   by : Challenges \cup {"none"}, code : Codes \cup {"none"},
   answer : {"none", "invalid", "unavailable", "session"}, failed : BOOLEAN]
Accounts == [epoch : Nat, disabled : BOOLEAN, disables : Nat]

SignUpTypes ==
  /\ challenge \in [Challenges -> [stage : {"polling", "ready", "gone"}, proof : Proofs]]
  /\ asking \in [Challenges -> [at : {"idle", "unbound", "refused", "bound"}, proof : Proofs]]
  /\ intent \in [Challenges -> {"none", "free"} \cup Redeemers]
  /\ redeem \in [Redeemers -> Redemptions]
  /\ login \in [Challenges -> Proofs]
  /\ invitation \in [Codes -> [status : {"active", "due", "used", "revoked", "expired"}, account : Nat]]
  /\ accounts \in Seq(Accounts)
  /\ sessions \subseteq [by : Challenges, account : Nat, epoch : Nat, disables : Nat]
  /\ uses \in [Challenges -> Nat]

\* The user has one account at most, for the one invitation that is used.
OneAccount ==
  /\ Len(accounts) <= 1
  /\ accounts = <<>> => Spent = {}
  /\ accounts # <<>> => \E i \in Codes : Spent = {i}

\* The epoch counts what the account was disabled; so does whatever was proved of it.
InStep(p) == accounts # <<>> /\ p.account = 1 /\ p.epoch = p.disables + 1
Proved ==
  /\ accounts # <<>> => accounts[1].epoch = accounts[1].disables + 1
  /\ \A s \in sessions : InStep(s)
  /\ \A c \in Challenges :
       /\ asking[c].at = "bound" => InStep(asking[c].proof)
       /\ challenge[c].stage = "ready" => InStep(challenge[c].proof)
       /\ login[c] # NoProof => InStep(login[c])

\* A redemption past its checks holds a row that may be used; one writes at a time, and
\* only while there is no account.
Writing(r) == redeem[r].at \in {"written", "commits"}
Locks ==
  /\ \A r \in Redeemers :
       /\ redeem[r].at # "idle" => redeem[r].by \in Challenges /\ redeem[r].code \in Codes
       /\ redeem[r].at \in {"checked", "written", "commits"} => invitation[redeem[r].code].status \in {"active", "due"}
       /\ Writing(r) => accounts = <<>>
  /\ \A r, s \in Redeemers : r # s =>
       /\ ~(Writing(r) /\ Writing(s))
       /\ redeem[r].at \in InTransaction /\ redeem[s].at \in InTransaction => redeem[r].code # redeem[s].code

\* A challenge that may still be verified, or is with a login, was used for nothing else.
Fresh(c) ==
  uses[c] = 0 /\ intent[c] = "none" /\ \A r \in Redeemers : redeem[r].at # "idle" => redeem[r].by # c
UsedOnce ==
  \A c \in Challenges :
    /\ challenge[c].stage # "gone" \/ login[c] # NoProof => Fresh(c)
    /\ login[c] # NoProof => challenge[c].stage = "gone"
    /\ uses[c] <= 1
    /\ uses[c] # 0 => accounts # <<>>

SignUpInv == SignUpTypes /\ OneAccount /\ Proved /\ Locks /\ UsedOnce

LEMMA ProofTypes ==
  /\ NoProof \in Proofs
  /\ SignUpTypes => \A c \in Challenges : challenge[c].proof \in Proofs /\ asking[c].proof \in Proofs /\ login[c] \in Proofs
BY DEF NoProof, Proofs, SignUpTypes

\* The challenges on their way to a proof.
LEMMA PollStep ==
  ASSUME SignUpInv, NEW c \in Challenges,
         PollFinds(c) \/ PollEnds(c) \/ ChallengeGoes(c) \/ IntentExpires(c) \/ LoginTakes(c)
  PROVE  SignUpInv'
<1>1. /\ SignUpTypes /\ NoProof \in Proofs /\ challenge[c].proof \in Proofs /\ asking[c].proof \in Proofs
      /\ UNCHANGED <<redeem, invitation, accounts, sessions, uses>>
      /\ Len(accounts) \in Nat /\ accounts \in Seq(Accounts)
  <2>1. UNCHANGED <<redeem, invitation, accounts, sessions, uses>>
    BY DEF PollFinds, PollEnds, ChallengeGoes, IntentExpires, LoginTakes
  <2>2. SignUpTypes /\ NoProof \in Proofs /\ challenge[c].proof \in Proofs /\ asking[c].proof \in Proofs
    BY ProofTypes DEF SignUpInv
  <2>3. accounts \in Seq(Accounts) /\ Len(accounts) \in Nat
    BY <2>2 DEF SignUpTypes
  <2> QED BY <2>1, <2>2, <2>3
<1>2. OneAccount' /\ Locks'
  BY <1>1 DEF SignUpInv, OneAccount, Spent, Locks, Writing
<1>3. CASE PollFinds(c)
  <2> DEFINE found == IF accounts = <<>> THEN [at |-> "unbound", proof |-> NoProof]
                      ELSE [at |-> IF accounts[1].disabled THEN "refused" ELSE "bound",
                            proof |-> [account |-> 1, epoch |-> accounts[1].epoch, disables |-> accounts[1].disables]]
  <2>1. asking' = [asking EXCEPT ![c] = found] /\ UNCHANGED <<challenge, intent, login>>
    BY <1>3 DEF PollFinds
  <2>2. accounts # <<>> => accounts[1] \in Accounts
    BY <1>1
  <2>3. found \in [at : {"idle", "unbound", "refused", "bound"}, proof : Proofs]
    BY <1>1, <2>2 DEF Proofs, Accounts
  <2>4. found.at = "bound" => InStep(found.proof)
    BY <2>2 DEF SignUpInv, Proved, InStep
  <2> HIDE DEF found
  <2>5. SignUpTypes'
    BY <1>1, <2>1, <2>3 DEF SignUpTypes
  <2>6. \A d \in Challenges : asking'[d] = IF d = c THEN found ELSE asking[d]
    BY <1>1, <2>1 DEF SignUpTypes
  <2>7. Proved'
    BY <1>1, <2>1, <2>4, <2>6 DEF SignUpInv, Proved, InStep
  <2>8. UsedOnce'
    BY <1>1, <2>1 DEF SignUpInv, UsedOnce, Fresh
  <2> QED BY <1>2, <2>5, <2>7, <2>8 DEF SignUpInv
<1>4. CASE PollEnds(c)
  <2> DEFINE idle == [at |-> "idle", proof |-> NoProof]
  <2>1. /\ asking' = [asking EXCEPT ![c] = idle] /\ UNCHANGED login
        /\ \/ UNCHANGED <<challenge, intent>>
           \/ challenge[c].stage = "polling" /\ challenge' = [challenge EXCEPT ![c].stage = "gone"] /\ UNCHANGED intent
           \/ /\ challenge[c].stage = "polling" /\ UNCHANGED intent /\ asking[c].at = "bound"
              /\ challenge' = [challenge EXCEPT ![c] = [stage |-> "ready", proof |-> asking[c].proof]]
           \/ /\ challenge[c].stage = "polling" /\ intent' = [intent EXCEPT ![c] = "free"]
              /\ challenge' = [challenge EXCEPT ![c].stage = "gone"]
    <3>1. asking[c].at \in {"unbound", "refused", "bound"}
      BY <1>1, <1>4 DEF PollEnds, SignUpTypes
    <3>2. CASE challenge[c].stage # "polling" \/ shut
      BY <1>4, <3>2 DEF PollEnds
    <3>3. CASE ~(challenge[c].stage # "polling" \/ shut)
      <4>1. CASE asking[c].at = "refused"
        BY <1>4, <3>3, <4>1 DEF PollEnds
      <4>2. CASE asking[c].at = "bound"
        BY <1>4, <3>3, <4>2 DEF PollEnds
      <4>3. CASE asking[c].at = "unbound"
        BY <1>4, <3>3, <4>3 DEF PollEnds
      <4> QED BY <3>1, <4>1, <4>2, <4>3
    <3> QED BY <3>2, <3>3
  <2>2. idle \in [at : {"idle", "unbound", "refused", "bound"}, proof : Proofs] /\ idle.at = "idle"
    BY <1>1
  <2> HIDE DEF idle
  <2>3. /\ \A d \in Challenges : asking'[d] = IF d = c THEN idle ELSE asking[d]
        /\ asking' \in [Challenges -> [at : {"idle", "unbound", "refused", "bound"}, proof : Proofs]]
    BY <1>1, <2>1, <2>2 DEF SignUpTypes
  <2>4. /\ challenge' \in [Challenges -> [stage : {"polling", "ready", "gone"}, proof : Proofs]]
        /\ intent' \in [Challenges -> {"none", "free"} \cup Redeemers]
    <3>1. challenge[c] \in [stage : {"polling", "ready", "gone"}, proof : Proofs]
      BY <1>1 DEF SignUpTypes
    <3>2. /\ [challenge[c] EXCEPT !.stage = "gone"] \in [stage : {"polling", "ready", "gone"}, proof : Proofs]
          /\ [stage |-> "ready", proof |-> asking[c].proof] \in [stage : {"polling", "ready", "gone"}, proof : Proofs]
      BY <1>1, <3>1
    <3>3. \/ UNCHANGED challenge
          \/ challenge' = [challenge EXCEPT ![c] = [challenge[c] EXCEPT !.stage = "gone"]]
          \/ challenge' = [challenge EXCEPT ![c] = [stage |-> "ready", proof |-> asking[c].proof]]
      BY <2>1
    <3>4. intent' = intent \/ intent' = [intent EXCEPT ![c] = "free"]
      BY <2>1
    <3>5. /\ challenge \in [Challenges -> [stage : {"polling", "ready", "gone"}, proof : Proofs]]
          /\ intent \in [Challenges -> {"none", "free"} \cup Redeemers]
      BY <1>1 DEF SignUpTypes
    <3>6. challenge' \in [Challenges -> [stage : {"polling", "ready", "gone"}, proof : Proofs]]
      BY <3>2, <3>3, <3>5
    <3>7. intent' \in [Challenges -> {"none", "free"} \cup Redeemers]
      BY <3>4, <3>5
    <3> QED BY <3>6, <3>7
  <2>5. /\ \A d \in Challenges \ {c} : challenge'[d] = challenge[d] /\ intent'[d] = intent[d]
        /\ \/ challenge'[c] = challenge[c] /\ intent'[c] = intent[c]
           \/ challenge[c].stage = "polling" /\ challenge'[c].stage = "gone"
           \/ /\ challenge[c].stage = "polling" /\ challenge'[c].stage = "ready" /\ intent'[c] = intent[c]
              /\ challenge'[c].proof = asking[c].proof /\ asking[c].at = "bound"
    BY <1>1, <2>1 DEF SignUpTypes
  <2>6. SignUpTypes'
    BY <1>1, <2>1, <2>3, <2>4 DEF SignUpTypes
  <2>7. Proved'
    BY <1>1, <2>1, <2>2, <2>3, <2>5 DEF SignUpInv, Proved, InStep
  <2>8. UsedOnce'
    <3> SUFFICES ASSUME NEW d \in Challenges
                 PROVE  /\ challenge'[d].stage # "gone" \/ login[d] # NoProof => Fresh(d)'
                        /\ login[d] # NoProof => challenge'[d].stage = "gone"
                        /\ uses[d] <= 1
                        /\ uses[d] # 0 => accounts # <<>>
      BY <1>1, <2>1 DEF UsedOnce
    <3>1. CASE d # c
      BY <1>1, <2>5, <3>1 DEF SignUpInv, UsedOnce, Fresh
    <3>2. CASE d = c
      BY <1>1, <2>5, <3>2 DEF SignUpInv, UsedOnce, Fresh
    <3> QED BY <3>1, <3>2
  <2> QED BY <1>2, <2>6, <2>7, <2>8 DEF SignUpInv
<1>5. CASE ChallengeGoes(c) \/ LoginTakes(c)
  <2> DEFINE gone == [stage |-> "gone", proof |-> NoProof]
  <2>1. /\ challenge' = [challenge EXCEPT ![c] = gone] /\ UNCHANGED <<asking, intent>>
        /\ \/ UNCHANGED login
           \/ challenge[c].stage = "ready" /\ login' = [login EXCEPT ![c] = challenge[c].proof]
    BY <1>5 DEF ChallengeGoes, LoginTakes, TakeChallenge
  <2>2. gone \in [stage : {"polling", "ready", "gone"}, proof : Proofs] /\ gone.stage = "gone"
    BY <1>1
  <2>3. challenge[c].stage # "gone"
    BY <1>5 DEF ChallengeGoes, LoginTakes, TakeChallenge
  <2> HIDE DEF gone
  <2>4. SignUpTypes'
    BY <1>1, <2>1, <2>2 DEF SignUpTypes
  <2>5. /\ \A d \in Challenges : challenge'[d] = IF d = c THEN gone ELSE challenge[d]
        /\ \A d \in Challenges \ {c} : login'[d] = login[d]
        /\ login'[c] = login[c] \/ (challenge[c].stage = "ready" /\ login'[c] = challenge[c].proof)
    BY <1>1, <2>1 DEF SignUpTypes
  <2>6. Proved'
    BY <1>1, <2>1, <2>2, <2>5 DEF SignUpInv, Proved, InStep
  <2>7. UsedOnce'
    BY <1>1, <2>1, <2>2, <2>3, <2>5 DEF SignUpInv, UsedOnce, Fresh
  <2> QED BY <1>2, <2>4, <2>6, <2>7 DEF SignUpInv
<1>6. CASE IntentExpires(c)
  <2>1. intent' = [intent EXCEPT ![c] = "none"] /\ UNCHANGED <<challenge, asking, login>>
    BY <1>6 DEF IntentExpires
  <2>2. SignUpTypes'
    BY <1>1, <2>1 DEF SignUpTypes
  <2>3. \A d \in Challenges : intent[d] = "none" => intent'[d] = "none"
    BY <1>1, <2>1 DEF SignUpTypes
  <2>4. Proved'
    BY <1>1, <2>1 DEF SignUpInv, Proved, InStep
  <2>5. UsedOnce'
    BY <1>1, <2>1, <2>3 DEF SignUpInv, UsedOnce, Fresh
  <2> QED BY <1>2, <2>2, <2>4, <2>5 DEF SignUpInv
<1> QED BY <1>3, <1>4, <1>5, <1>6

LEMMA ShutStep ==
  ASSUME SignUpInv, Shut
  PROVE  SignUpInv'
<1>1. /\ SignUpTypes /\ NoProof \in Proofs
      /\ challenge' = [c \in Challenges |-> [stage |-> "gone", proof |-> NoProof]]
      /\ intent' = [c \in Challenges |-> "none"]
      /\ UNCHANGED <<asking, redeem, login, invitation, accounts, sessions, uses>>
  BY ProofTypes DEF SignUpInv, Shut
<1>2. SignUpTypes'
  BY <1>1 DEF SignUpTypes
<1>3. OneAccount' /\ Locks'
  BY <1>1 DEF SignUpInv, OneAccount, Spent, Locks, Writing
<1>4. Proved' /\ UsedOnce'
  BY <1>1 DEF SignUpInv, Proved, InStep, UsedOnce, Fresh
<1> QED BY <1>2, <1>3, <1>4 DEF SignUpInv

\* A redemption moves on; the invitations, the accounts and the challenges stay.
LEMMA RedeemMoves ==
  ASSUME SignUpInv, NEW r \in Redeemers, NEW step \in Redemptions, redeem' = [redeem EXCEPT ![r] = step],
         UNCHANGED <<challenge, asking, login, invitation, accounts, sessions, uses>>,
         intent' \in [Challenges -> {"none", "free"} \cup Redeemers],
         step.at # "idle" => step.by \in Challenges /\ step.code \in Codes /\ ~Fresh(step.by),
         step.at \in {"checked", "written", "commits"} => invitation[step.code].status \in {"active", "due"},
         step.at \in {"written", "commits"} => accounts = <<>> /\ \A s \in Redeemers \ {r} : ~Writing(s),
         step.at \in InTransaction =>
           \A s \in Redeemers \ {r} : redeem[s].at \in InTransaction => redeem[s].code # step.code,
         \A c \in Challenges : Fresh(c) => intent'[c] = "none"
  PROVE  SignUpInv'
<1>1. SignUpTypes /\ \A s \in Redeemers : redeem'[s] = IF s = r THEN step ELSE redeem[s]
  BY DEF SignUpInv, SignUpTypes
<1>2. SignUpTypes'
  BY <1>1 DEF SignUpTypes
<1>3. OneAccount' /\ Proved'
  BY DEF SignUpInv, OneAccount, Spent, Proved, InStep
<1>4. Locks'
  <2>1. \A s \in Redeemers : Writing(s)' <=> IF s = r THEN step.at \in {"written", "commits"} ELSE Writing(s)
    BY <1>1 DEF Writing
  <2>2. \A s \in Redeemers :
       /\ redeem'[s].at # "idle" => redeem'[s].by \in Challenges /\ redeem'[s].code \in Codes
       /\ redeem'[s].at \in {"checked", "written", "commits"} => invitation'[redeem'[s].code].status \in {"active", "due"}
       /\ Writing(s)' => accounts' = <<>>
    BY <1>1, <2>1 DEF SignUpInv, Locks
  <2>3. \A s, q \in Redeemers : s # q =>
       /\ ~(Writing(s)' /\ Writing(q)')
       /\ redeem'[s].at \in InTransaction /\ redeem'[q].at \in InTransaction => redeem'[s].code # redeem'[q].code
    BY <1>1, <2>1 DEF SignUpInv, Locks
  <2> QED BY <2>2, <2>3 DEF Locks
<1>5. UsedOnce'
  <2>1. \A c \in Challenges : Fresh(c) => Fresh(c)'
    BY <1>1 DEF Fresh
  <2> QED BY <2>1 DEF SignUpInv, UsedOnce
<1> QED BY <1>2, <1>3, <1>4, <1>5 DEF SignUpInv

LEMMA RedeemFacts ==
  ASSUME SignUpInv, NEW r \in Redeemers
  PROVE  /\ SignUpTypes /\ redeem[r] \in Redemptions /\ NoRedeem \in Redemptions /\ NoRedeem.at = "idle"
         /\ intent \in [Challenges -> {"none", "free"} \cup Redeemers]
         /\ \A c \in Challenges : Fresh(c) => intent[c] = "none"
         /\ redeem[r].at # "idle" => redeem[r].by \in Challenges /\ redeem[r].code \in Codes /\ ~Fresh(redeem[r].by)
         /\ \A at \in {"idle", "reserved", "locked", "checked", "written", "commits", "consumes", "aborts"} :
              /\ [redeem[r] EXCEPT !.at = at] \in Redemptions
              /\ [redeem[r] EXCEPT !.at = at].at = at
              /\ [redeem[r] EXCEPT !.at = at].by = redeem[r].by
              /\ [redeem[r] EXCEPT !.at = at].code = redeem[r].code
<1>1. SignUpTypes /\ redeem[r] \in Redemptions /\ NoRedeem \in Redemptions /\ NoRedeem.at = "idle"
  BY DEF SignUpInv, SignUpTypes, NoRedeem, Redemptions
<1>2. \A at \in {"idle", "reserved", "locked", "checked", "written", "commits", "consumes", "aborts"} :
        /\ [redeem[r] EXCEPT !.at = at] \in Redemptions
        /\ [redeem[r] EXCEPT !.at = at].at = at
        /\ [redeem[r] EXCEPT !.at = at].by = redeem[r].by
        /\ [redeem[r] EXCEPT !.at = at].code = redeem[r].code
  BY <1>1 DEF Redemptions
<1>3. redeem[r].at # "idle" => redeem[r].by \in Challenges /\ redeem[r].code \in Codes /\ ~Fresh(redeem[r].by)
  BY DEF SignUpInv, Locks, Fresh
<1> QED BY <1>1, <1>2, <1>3 DEF SignUpTypes, Fresh

\* It goes on within its transaction.
LEMMA MovesStep ==
  ASSUME SignUpInv, NEW r \in Redeemers, NEW at \in {"locked", "checked", "written", "commits"}, Moves(r, at),
         redeem[r].at # "idle",
         at \in {"checked", "written", "commits"} => invitation[redeem[r].code].status \in {"active", "due"},
         at \in {"written", "commits"} => accounts = <<>> /\ \A s \in Redeemers \ {r} : ~Writing(s),
         \A s \in Redeemers \ {r} : redeem[s].at \in InTransaction => redeem[s].code # redeem[r].code
  PROVE  SignUpInv'
<1> DEFINE step == [redeem[r] EXCEPT !.at = at]
<1>1. step \in Redemptions /\ step.at = at /\ step.by = redeem[r].by /\ step.code = redeem[r].code
  <2>1. redeem[r] \in Redemptions
    BY RedeemFacts
  <2> QED BY <2>1 DEF Redemptions
<1>2. redeem' = [redeem EXCEPT ![r] = step] /\ UNCHANGED <<challenge, asking, intent, login, invitation, accounts, sessions, uses>>
  BY DEF Moves
<1>3. /\ intent' \in [Challenges -> {"none", "free"} \cup Redeemers]
      /\ \A c \in Challenges : Fresh(c) => intent'[c] = "none"
      /\ redeem[r].by \in Challenges /\ redeem[r].code \in Codes /\ ~Fresh(redeem[r].by)
  BY <1>2, RedeemFacts
<1> HIDE DEF step
<1> QED BY <1>1, <1>2, <1>3, RedeemMoves

\* It fails, whatever it has done before.
LEMMA RefusesStep ==
  ASSUME SignUpInv, NEW r \in Redeemers, NEW answer \in {"invalid", "unavailable"}, NEW failed \in BOOLEAN,
         redeem[r].at # "idle",
         redeem' = [redeem EXCEPT ![r] = [redeem[r] EXCEPT !.at = "aborts", !.answer = answer, !.failed = failed]],
         UNCHANGED <<challenge, asking, intent, login, invitation, accounts, sessions, uses>>
  PROVE  SignUpInv'
<1> DEFINE step == [redeem[r] EXCEPT !.at = "aborts", !.answer = answer, !.failed = failed]
<1>1. step \in Redemptions /\ step.at = "aborts" /\ step.by = redeem[r].by /\ step.code = redeem[r].code
  <2>1. redeem[r] \in Redemptions
    BY RedeemFacts
  <2> QED BY <2>1 DEF Redemptions
<1>2. redeem' = [redeem EXCEPT ![r] = step]
  OBVIOUS
<1> HIDE DEF step
<1>3. step.at \notin InTransaction \cup {"checked", "written", "commits"}
  BY <1>1 DEF InTransaction
<1>4. /\ intent' \in [Challenges -> {"none", "free"} \cup Redeemers]
      /\ \A c \in Challenges : Fresh(c) => intent'[c] = "none"
      /\ redeem[r].by \in Challenges /\ redeem[r].code \in Codes /\ ~Fresh(redeem[r].by)
  BY RedeemFacts
<1> QED BY <1>1, <1>2, <1>3, <1>4, RedeemMoves

LEMMA RedeemStep ==
  ASSUME SignUpInv, NEW r \in Redeemers,
         \/ Errs(r) \/ ReadsInvitation(r) \/ MisreadsExpiry(r) \/ ChecksRedemption(r)
         \/ WritesAccount(r) \/ Deadlocks(r) \/ ChecksAgain(r)
  PROVE  SignUpInv'
<1>1. redeem[r].at # "idle"
  BY DEF Errs, ReadsInvitation, MisreadsExpiry, ChecksRedemption, WritesAccount, Deadlocks, ChecksAgain
<1>2. redeem[r].at \in InTransaction => \A s \in Redeemers \ {r} : redeem[s].at \in InTransaction => redeem[s].code # redeem[r].code
  BY DEF SignUpInv, Locks
<1>3. redeem[r] \in Redemptions /\ redeem[r].failed \in BOOLEAN
      /\ \A answer \in {"invalid", "unavailable"} :
           [redeem[r] EXCEPT !.at = "aborts", !.answer = answer] =
             [redeem[r] EXCEPT !.at = "aborts", !.answer = answer, !.failed = redeem[r].failed]
  BY RedeemFacts DEF Redemptions
<1>4. ASSUME NEW answer \in {"invalid", "unavailable"}, Refuses(r, answer) PROVE SignUpInv'
  <2>1. /\ redeem' = [redeem EXCEPT ![r] = [redeem[r] EXCEPT !.at = "aborts", !.answer = answer]]
        /\ UNCHANGED <<challenge, asking, intent, login, invitation, accounts, sessions, uses>>
    BY <1>4 DEF Refuses
  <2> QED BY <1>1, <1>3, <2>1, RefusesStep
<1>5. CASE Errs(r) \/ Deadlocks(r)
  <2>1. /\ redeem' = [redeem EXCEPT ![r] = [redeem[r] EXCEPT !.at = "aborts", !.answer = "unavailable", !.failed = TRUE]]
        /\ UNCHANGED <<challenge, asking, intent, login, invitation, accounts, sessions, uses>>
    BY <1>5 DEF Errs, Deadlocks
  <2> QED BY <1>1, <2>1, RefusesStep
<1>6. CASE ReadsInvitation(r)
  <2>1. CASE Refuses(r, "invalid")
    BY <1>4, <2>1
  <2>2. CASE Free(redeem[r].code) /\ Moves(r, "locked")
    BY <1>1, <2>2, MovesStep DEF Free
  <2> QED BY <1>6, <2>1, <2>2 DEF ReadsInvitation
<1>7. CASE MisreadsExpiry(r)
  BY <1>4, <1>7 DEF MisreadsExpiry
<1>8. CASE ChecksRedemption(r)
  <2>1. CASE Refuses(r, "invalid")
    BY <1>4, <2>1
  <2>2. CASE Redeemable(r) /\ Moves(r, "checked")
    <3>1. redeem[r].at \in InTransaction
      BY <1>8 DEF ChecksRedemption, InTransaction
    <3> QED BY <1>1, <1>2, <2>2, <3>1, MovesStep DEF Redeemable
  <2> QED BY <1>8, <2>1, <2>2 DEF ChecksRedemption
<1>9. CASE WritesAccount(r)
  <2>1. CASE Refuses(r, "invalid")
    BY <1>4, <2>1
  <2>2. CASE ~Bound /\ (\A s \in Redeemers : redeem[s].at \notin {"written", "commits"}) /\ Moves(r, "written")
    <3>1. redeem[r].at \in InTransaction /\ invitation[redeem[r].code].status \in {"active", "due"}
      BY <1>9 DEF WritesAccount, InTransaction, SignUpInv, Locks
    <3> QED BY <1>1, <1>2, <2>2, <3>1, MovesStep DEF Bound, Writing
  <2> QED BY <1>9, <2>1, <2>2 DEF WritesAccount
<1>10. CASE ChecksAgain(r)
  <2>1. CASE Refuses(r, "invalid")
    BY <1>4, <2>1
  <2>2. CASE StillRedeemable(r) /\ Moves(r, "commits")
    <3>1. redeem[r].at \in InTransaction /\ Writing(r) /\ invitation[redeem[r].code].status \in {"active", "due"}
      BY <1>10, <2>2 DEF ChecksAgain, InTransaction, Writing, StillRedeemable, Redeemable
    <3>2. accounts = <<>> /\ \A s \in Redeemers \ {r} : ~Writing(s)
      BY <3>1 DEF SignUpInv, Locks
    <3> QED BY <1>1, <1>2, <2>2, <3>1, <3>2, MovesStep
  <2> QED BY <1>10, <2>1, <2>2 DEF ChecksAgain
<1> QED BY <1>5, <1>6, <1>7, <1>8, <1>9, <1>10

LEMMA ReserveStep ==
  ASSUME SignUpInv, NEW r \in Redeemers, NEW c \in Challenges, NEW i \in Codes, Reserve(r, c, i)
  PROVE  SignUpInv'
<1> DEFINE step == [NoRedeem EXCEPT !.at = "reserved", !.by = c, !.code = i]
<1>1. /\ redeem' = [redeem EXCEPT ![r] = step] /\ intent' = [intent EXCEPT ![c] = r] /\ intent[c] = "free"
      /\ UNCHANGED <<challenge, asking, login, invitation, accounts, sessions, uses>>
  BY DEF Reserve
<1>2. step \in Redemptions /\ step.at = "reserved" /\ step.by = c /\ step.code = i
  BY DEF NoRedeem, Redemptions
<1> HIDE DEF step
<1>3. intent' \in [Challenges -> {"none", "free"} \cup Redeemers]
  BY <1>1, RedeemFacts
<1>4. ~Fresh(c) /\ \A d \in Challenges : Fresh(d) => intent'[d] = "none"
  BY <1>1, RedeemFacts DEF Fresh
<1>5. step.at \notin InTransaction
  BY <1>2 DEF InTransaction
<1> QED BY <1>1, <1>2, <1>3, <1>4, <1>5, RedeemMoves

LEMMA ReservationStep ==
  ASSUME SignUpInv, NEW r \in Redeemers, ReservationEnds(r)
  PROVE  SignUpInv'
<1>1. /\ redeem' = [redeem EXCEPT ![r] = NoRedeem]
      /\ intent' = [c \in Challenges |->
           IF intent[c] # r THEN intent[c]
           ELSE IF redeem[r].at = "aborts" /\ ~shut THEN "free" ELSE "none"]
      /\ UNCHANGED <<challenge, asking, login, invitation, accounts, sessions, uses>>
  BY DEF ReservationEnds
<1>2. intent' \in [Challenges -> {"none", "free"} \cup Redeemers]
  BY <1>1, RedeemFacts
<1>3. \A c \in Challenges : Fresh(c) => intent'[c] = "none"
  <2>1. r # "none"
    BY RegistrationAssumption
  <2>2. \A c \in Challenges : Fresh(c) => intent[c] = "none"
    BY RedeemFacts
  <2> QED BY <1>1, <2>1, <2>2
<1>4. NoRedeem.at \notin InTransaction
  BY DEF NoRedeem, InTransaction
<1> QED BY <1>1, <1>2, <1>3, <1>4, RedeemFacts, RedeemMoves

\* COMMIT: the account, its session and the used invitation appear at once.
LEMMA CommitStep ==
  ASSUME SignUpInv, NEW r \in Redeemers, CommitsAccount(r)
  PROVE  SignUpInv'
<1> DEFINE by == redeem[r].by
           code == redeem[r].code
           born == [epoch |-> 1, disabled |-> FALSE, disables |-> 0]
           first == [by |-> by, account |-> 1, epoch |-> 1, disables |-> 0]
<1>1. /\ SignUpTypes /\ redeem[r].at = "commits" /\ accounts = <<>> /\ by \in Challenges /\ code \in Codes
      /\ redeem[r] \in Redemptions /\ ~Fresh(by) /\ Spent = {} /\ uses[by] = 0 /\ uses \in [Challenges -> Nat]
  <2>1. redeem[r].at = "commits"
    BY DEF CommitsAccount
  <2>2. SignUpTypes /\ redeem[r] \in Redemptions /\ by \in Challenges /\ code \in Codes /\ ~Fresh(by)
    BY <2>1, RedeemFacts
  <2>3. accounts = <<>> /\ Spent = {}
    BY <2>1 DEF SignUpInv, Locks, Writing, OneAccount
  <2>4. uses \in [Challenges -> Nat] /\ uses[by] = 0
    BY <2>2, <2>3 DEF SignUpInv, UsedOnce, SignUpTypes
  <2> QED BY <2>1, <2>2, <2>3, <2>4
<1>2. UNCHANGED <<challenge, asking, intent, login, shut>>
  BY DEF CommitsAccount
<1> HIDE DEF by, code
<1>3. CASE /\ accounts' = Append(accounts, born)
           /\ invitation' = [invitation EXCEPT ![code].status = "used", ![code].account = Len(accounts')]
           /\ sessions' = sessions \cup {[by |-> by, account |-> Len(accounts'), epoch |-> 1, disables |-> 0]}
           /\ uses' = [uses EXCEPT ![by] = @ + 1]
           /\ \/ redeem' = [redeem EXCEPT ![r].at = "consumes", ![r].answer = "session"]
              \/ redeem' = [redeem EXCEPT ![r].at = "aborts", ![r].answer = "unavailable", ![r].failed = TRUE]
  <2>1. accounts' = <<born>> /\ Len(accounts') = 1 /\ accounts' # <<>> /\ accounts'[1] = born /\ born \in Accounts
    BY <1>1, <1>3 DEF Accounts
  <2>2. PICK step \in Redemptions :
          /\ redeem' = [redeem EXCEPT ![r] = step] /\ step.at \in {"consumes", "aborts"}
          /\ step.by = by /\ step.code = code
    <3> DEFINE won == [redeem[r] EXCEPT !.at = "consumes", !.answer = "session"]
               lost == [redeem[r] EXCEPT !.at = "aborts", !.answer = "unavailable", !.failed = TRUE]
    <3>1. /\ won \in Redemptions /\ won.at = "consumes" /\ won.by = by /\ won.code = code
          /\ lost \in Redemptions /\ lost.at = "aborts" /\ lost.by = by /\ lost.code = code
      BY <1>1 DEF Redemptions, by, code
    <3>2. redeem' = [redeem EXCEPT ![r] = won] \/ redeem' = [redeem EXCEPT ![r] = lost]
      BY <1>3
    <3> HIDE DEF won, lost
    <3> QED BY <3>1, <3>2
  <2>3. \A s \in Redeemers : redeem'[s] = IF s = r THEN step ELSE redeem[s]
    BY <1>1, <2>2 DEF SignUpTypes
  <2>4. PICK used \in [status : {"active", "due", "used", "revoked", "expired"}, account : Nat] :
          used.status = "used" /\ invitation' = [invitation EXCEPT ![code] = used]
    <3> DEFINE used == [invitation[code] EXCEPT !.status = "used", !.account = 1]
    <3>1. invitation[code] \in [status : {"active", "due", "used", "revoked", "expired"}, account : Nat]
      BY <1>1 DEF SignUpTypes
    <3>2. used \in [status : {"active", "due", "used", "revoked", "expired"}, account : Nat] /\ used.status = "used"
      BY <3>1
    <3>3. invitation' = [invitation EXCEPT ![code] = used]
      BY <1>3, <2>1
    <3> QED BY <3>2, <3>3
  <2>5. \A i \in Codes : invitation'[i] = IF i = code THEN used ELSE invitation[i]
    BY <1>1, <2>4 DEF SignUpTypes
  <2>6. sessions' = sessions \cup {first}
    BY <1>3, <2>1
  <2>7. \A c \in Challenges : uses'[c] = IF c = by THEN 1 ELSE uses[c]
    BY <1>1, <1>3
  <2>8. first \in [by : Challenges, account : Nat, epoch : Nat, disables : Nat] /\ first.account = 1
        /\ first.epoch = first.disables + 1
    BY <1>1
  <2> HIDE DEF born
  <2> HIDE DEF first
  <2>9. SignUpTypes'
    <3>1. challenge' \in [Challenges -> [stage : {"polling", "ready", "gone"}, proof : Proofs]]
          /\ asking' \in [Challenges -> [at : {"idle", "unbound", "refused", "bound"}, proof : Proofs]]
          /\ intent' \in [Challenges -> {"none", "free"} \cup Redeemers] /\ login' \in [Challenges -> Proofs]
      BY <1>1, <1>2 DEF SignUpTypes
    <3>2. redeem' \in [Redeemers -> Redemptions]
      BY <1>1, <2>2 DEF SignUpTypes
    <3>3. invitation' \in [Codes -> [status : {"active", "due", "used", "revoked", "expired"}, account : Nat]]
      BY <1>1, <2>4 DEF SignUpTypes
    <3>4. accounts' \in Seq(Accounts)
      BY <2>1
    <3>5. sessions' \subseteq [by : Challenges, account : Nat, epoch : Nat, disables : Nat]
      BY <1>1, <2>6, <2>8 DEF SignUpTypes
    <3>6. uses' \in [Challenges -> Nat]
      BY <1>1, <1>3
    <3> QED BY <3>1, <3>2, <3>3, <3>4, <3>5, <3>6 DEF SignUpTypes
  <2>10. OneAccount'
    <3>1. Spent' = {code}
      BY <1>1, <2>4, <2>5 DEF Spent
    <3> QED BY <1>1, <2>1, <3>1 DEF OneAccount
  <2>11. Proved'
    <3>1. \A c \in Challenges : asking[c].at # "bound" /\ challenge[c].stage # "ready" /\ login[c] = NoProof
      BY <1>1 DEF SignUpInv, Proved, InStep
    <3>2. \A s \in sessions : FALSE
      BY <1>1 DEF SignUpInv, Proved, InStep
    <3>3. accounts'[1].epoch = accounts'[1].disables + 1
      BY <2>1 DEF born
    <3> QED BY <1>2, <2>1, <2>6, <2>8, <3>1, <3>2, <3>3 DEF Proved, InStep
  <2>12. Locks'
    <3>1. \A s \in Redeemers : s # r => ~Writing(s) /\ (redeem[s].at \in InTransaction => redeem[s].code # code)
      BY <1>1 DEF SignUpInv, Locks, Writing, InTransaction, code
    <3>2. \A s \in Redeemers : Writing(s)' => FALSE
      BY <2>2, <2>3, <3>1 DEF Writing
    <3>3. step.at \notin InTransaction
      BY <2>2 DEF InTransaction
    <3>4. \A s \in Redeemers :
            /\ redeem'[s].at # "idle" => redeem'[s].by \in Challenges /\ redeem'[s].code \in Codes
            /\ redeem'[s].at \in {"checked", "written", "commits"} => invitation'[redeem'[s].code].status \in {"active", "due"}
      <4>1. ASSUME NEW s \in Redeemers, s # r
            PROVE  /\ redeem[s].at # "idle" => redeem[s].by \in Challenges /\ redeem[s].code \in Codes
                   /\ redeem[s].at \in {"checked", "written", "commits"} => invitation'[redeem[s].code].status \in {"active", "due"}
        <5>1. /\ redeem[s].at # "idle" => redeem[s].by \in Challenges /\ redeem[s].code \in Codes
              /\ redeem[s].at \in {"checked", "written", "commits"} => invitation[redeem[s].code].status \in {"active", "due"}
          BY DEF SignUpInv, Locks
        <5>2. redeem[s].at \in {"checked", "written", "commits"} => redeem[s].at \in InTransaction /\ redeem[s].at # "idle"
          BY DEF InTransaction
        <5> QED BY <2>5, <3>1, <4>1, <5>1, <5>2
      <4> QED BY <1>1, <2>2, <2>3, <4>1
    <3>5. \A s, q \in Redeemers : s # q =>
            (redeem'[s].at \in InTransaction /\ redeem'[q].at \in InTransaction => redeem'[s].code # redeem'[q].code)
      BY <2>3, <3>3 DEF SignUpInv, Locks
    <3> QED BY <3>2, <3>4, <3>5 DEF Locks
  <2>13. UsedOnce'
    <3>1. \A c \in Challenges : Fresh(c) => Fresh(c)'
      BY <1>1, <1>2, <2>2, <2>3, <2>7 DEF Fresh
    <3>2. \A c \in Challenges : uses'[c] <= 1
      BY <2>7 DEF SignUpInv, UsedOnce
    <3> QED BY <1>2, <2>1, <3>1, <3>2 DEF SignUpInv, UsedOnce
  <2> QED BY <2>9, <2>10, <2>11, <2>12, <2>13 DEF SignUpInv
<1>4. CASE redeem' = [redeem EXCEPT ![r] = [redeem[r] EXCEPT !.at = "aborts", !.answer = "unavailable", !.failed = TRUE]]
           /\ UNCHANGED <<accounts, invitation, sessions, uses>>
  BY <1>1, <1>2, <1>4, RefusesStep
<1> QED
  <2> DEFINE gets == /\ accounts' = Append(accounts, born)
                     /\ invitation' = [invitation EXCEPT ![code].status = "used", ![code].account = Len(accounts')]
                     /\ sessions' = sessions \cup {[by |-> by, account |-> Len(accounts'), epoch |-> 1, disables |-> 0]}
                     /\ uses' = [uses EXCEPT ![by] = @ + 1]
                     /\ \/ redeem' = [redeem EXCEPT ![r].at = "consumes", ![r].answer = "session"]
                        \/ redeem' = [redeem EXCEPT ![r].at = "aborts", ![r].answer = "unavailable", ![r].failed = TRUE]
  <2>1. gets \/ (/\ redeem' = [redeem EXCEPT ![r].at = "aborts", ![r].answer = "unavailable", ![r].failed = TRUE]
                 /\ UNCHANGED <<accounts, invitation, sessions, uses>>)
    BY DEF CommitsAccount, Used, by, code
  <2>2. CASE gets
    BY <1>3, <2>2
  <2>3. CASE /\ redeem' = [redeem EXCEPT ![r].at = "aborts", ![r].answer = "unavailable", ![r].failed = TRUE]
             /\ UNCHANGED <<accounts, invitation, sessions, uses>>
    <3>1. redeem' = [redeem EXCEPT ![r] = [redeem[r] EXCEPT !.at = "aborts", !.answer = "unavailable", !.failed = TRUE]]
      BY <2>3
    <3> QED BY <1>4, <2>3, <3>1
  <2> QED BY <2>1, <2>2, <2>3

\* The other writers of an invitation do not touch one that is used or locked.
LEMMA InvitationStep ==
  ASSUME SignUpInv, NEW i \in Codes, InvitationFallsDue(i) \/ RevokeInvitation(i) \/ ExpireInvitation(i)
  PROVE  SignUpInv'
<1>1. PICK to \in {"due", "revoked", "expired"} :
        /\ invitation' = [invitation EXCEPT ![i].status = to] /\ invitation[i].status # "used"
        /\ to = "due" \/ Free(i)
  <2>1. CASE InvitationFallsDue(i)
    BY <2>1 DEF InvitationFallsDue
  <2>2. CASE RevokeInvitation(i)
    BY <2>2 DEF RevokeInvitation
  <2>3. CASE ExpireInvitation(i)
    BY <2>3 DEF ExpireInvitation
  <2> QED BY <2>1, <2>2, <2>3
<1>2. SignUpTypes /\ UNCHANGED <<challenge, asking, intent, redeem, login, accounts, sessions, uses>>
  BY DEF InvitationFallsDue, RevokeInvitation, ExpireInvitation, SignUpInv
<1>3. PICK row \in [status : {"active", "due", "used", "revoked", "expired"}, account : Nat] :
        row.status = to /\ invitation' = [invitation EXCEPT ![i] = row]
  <2> DEFINE row == [invitation[i] EXCEPT !.status = to]
  <2>1. invitation[i] \in [status : {"active", "due", "used", "revoked", "expired"}, account : Nat]
    BY <1>2 DEF SignUpTypes
  <2>2. row \in [status : {"active", "due", "used", "revoked", "expired"}, account : Nat] /\ row.status = to
    BY <2>1
  <2>3. invitation' = [invitation EXCEPT ![i] = row]
    BY <1>1
  <2> QED BY <2>2, <2>3
<1>4. \A j \in Codes : invitation'[j] = IF j = i THEN row ELSE invitation[j]
  BY <1>2, <1>3 DEF SignUpTypes
<1>5. SignUpTypes'
  <2>1. invitation' \in [Codes -> [status : {"active", "due", "used", "revoked", "expired"}, account : Nat]]
    BY <1>2, <1>3 DEF SignUpTypes
  <2> QED BY <1>2, <2>1 DEF SignUpTypes
<1>6. Spent' = Spent
  BY <1>1, <1>3, <1>4 DEF Spent
<1>7. OneAccount' /\ Proved' /\ UsedOnce'
  BY <1>2, <1>6 DEF SignUpInv, OneAccount, Proved, InStep, UsedOnce, Fresh
<1>8. Locks'
  <2>1. \A r \in Redeemers : redeem[r].at \in {"checked", "written", "commits"} => redeem[r].at \in InTransaction
    BY DEF InTransaction
  <2>2. \A r \in Redeemers : redeem[r].at \in {"checked", "written", "commits"} =>
          invitation'[redeem[r].code].status \in {"active", "due"}
    <3> SUFFICES ASSUME NEW r \in Redeemers, redeem[r].at \in {"checked", "written", "commits"}
                 PROVE  invitation'[redeem[r].code].status \in {"active", "due"}
      OBVIOUS
    <3>1. redeem[r].code \in Codes /\ invitation[redeem[r].code].status \in {"active", "due"}
      BY DEF SignUpInv, Locks
    <3>2. redeem[r].code = i => to = "due"
      BY <1>1, <2>1 DEF Free
    <3> QED BY <1>3, <1>4, <3>1, <3>2
  <2> QED BY <1>2, <2>2 DEF SignUpInv, Locks, Writing
<1> QED BY <1>5, <1>7, <1>8 DEF SignUpInv

\* What a verified challenge is for: one operation, or one session.
LEMMA ConsumeStep ==
  ASSUME SignUpInv, NEW c \in Challenges, ConsumeAccountProof(c) \/ CreateSession(c)
  PROVE  SignUpInv'
<1>1. SignUpTypes /\ NoProof \in Proofs /\ login[c] \in Proofs /\ Len(accounts) \in Nat
  BY ProofTypes DEF SignUpInv, SignUpTypes
<1>2. /\ UNCHANGED <<asking, intent, redeem, invitation, accounts>>
      /\ Fresh(c) /\ accounts # <<>> /\ uses[c] = 0
  <2>1. CASE ConsumeAccountProof(c)
    BY <2>1 DEF ConsumeAccountProof, TakeChallenge, SignUpInv, UsedOnce, Proved, InStep, Fresh
  <2>2. CASE CreateSession(c)
    BY <2>2 DEF CreateSession, SignUpInv, UsedOnce, Proved, InStep, Fresh
  <2> QED BY <2>1, <2>2
<1>3. OneAccount' /\ Locks'
  BY <1>2 DEF SignUpInv, OneAccount, Spent, Locks, Writing
<1>4. \A d \in Challenges \ {c} : uses' = [uses EXCEPT ![c] = @ + 1] \/ uses' = uses => uses'[d] = uses[d]
  BY <1>1 DEF SignUpTypes
<1>5. uses' = [uses EXCEPT ![c] = @ + 1] \/ uses' = uses => uses'[c] \in {0, 1} /\ uses' \in [Challenges -> Nat]
  <2>1. uses \in [Challenges -> Nat]
    BY <1>1 DEF SignUpTypes
  <2> QED BY <1>2, <2>1
<1>6. CASE ConsumeAccountProof(c)
  <2> DEFINE gone == [stage |-> "gone", proof |-> NoProof]
  <2>1. /\ challenge' = [challenge EXCEPT ![c] = gone] /\ UNCHANGED <<login, sessions>>
        /\ uses' = [uses EXCEPT ![c] = @ + 1] /\ challenge[c].stage = "ready"
    BY <1>6 DEF ConsumeAccountProof, TakeChallenge, Used
  <2>2. gone \in [stage : {"polling", "ready", "gone"}, proof : Proofs] /\ gone.stage = "gone"
    BY <1>1
  <2> HIDE DEF gone
  <2>3. SignUpTypes'
    BY <1>1, <1>2, <1>5, <2>1, <2>2 DEF SignUpTypes
  <2>4. \A d \in Challenges : challenge'[d] = IF d = c THEN gone ELSE challenge[d]
    BY <1>1, <2>1 DEF SignUpTypes
  <2>5. Proved'
    BY <1>2, <2>1, <2>2, <2>4 DEF SignUpInv, Proved, InStep
  <2>6. login[c] = NoProof
    BY <2>1 DEF SignUpInv, UsedOnce
  <2>7. UsedOnce'
    BY <1>2, <1>4, <1>5, <2>1, <2>2, <2>4, <2>6 DEF SignUpInv, UsedOnce, Fresh
  <2> QED BY <1>3, <2>3, <2>5, <2>7 DEF SignUpInv
<1>7. CASE CreateSession(c)
  <2> DEFINE gets == [by |-> c, account |-> login[c].account,
                      epoch |-> accounts[login[c].account].epoch, disables |-> login[c].disables]
  <2>1. /\ login' = [login EXCEPT ![c] = NoProof] /\ login[c] # NoProof /\ UNCHANGED challenge
        /\ \/ UNCHANGED <<sessions, uses>>
           \/ /\ AdmitsProof(login[c]) /\ sessions' = sessions \cup {gets}
              /\ uses' = [uses EXCEPT ![c] = @ + 1]
    BY <1>7 DEF CreateSession, Used
  <2>2. InStep(login[c]) /\ challenge[c].stage = "gone"
    BY <2>1 DEF SignUpInv, Proved, UsedOnce
  <2>3. AdmitsProof(login[c]) => gets.epoch = login[c].epoch
    BY DEF AdmitsProof
  <2>4. AdmitsProof(login[c]) =>
          /\ gets \in [by : Challenges, account : Nat, epoch : Nat, disables : Nat]
          /\ gets.account = 1 /\ gets.epoch = gets.disables + 1
    BY <1>1, <2>2, <2>3 DEF InStep, Proofs
  <2> HIDE DEF gets
  <2>5. SignUpTypes'
    <3>1. login' \in [Challenges -> Proofs]
      BY <1>1, <2>1 DEF SignUpTypes
    <3>2. sessions' \subseteq [by : Challenges, account : Nat, epoch : Nat, disables : Nat]
      BY <1>1, <2>1, <2>4 DEF SignUpTypes
    <3>3. uses' \in [Challenges -> Nat]
      BY <1>5, <2>1
    <3> QED BY <1>1, <1>2, <2>1, <3>1, <3>2, <3>3 DEF SignUpTypes
  <2>6. \A d \in Challenges : login'[d] = IF d = c THEN NoProof ELSE login[d]
    BY <1>1, <2>1 DEF SignUpTypes
  <2>7. Proved'
    <3>1. \A s \in sessions' : InStep(s)
      BY <2>1, <2>4, <1>2 DEF SignUpInv, Proved, InStep
    <3> QED BY <1>2, <2>1, <2>6, <3>1 DEF SignUpInv, Proved, InStep
  <2>8. UsedOnce'
    BY <1>2, <1>4, <1>5, <2>1, <2>2, <2>6 DEF SignUpInv, UsedOnce, Fresh
  <2> QED BY <1>3, <2>5, <2>7, <2>8 DEF SignUpInv
<1> QED BY <1>6, <1>7

\* An administrator disables and enables the account.
LEMMA SwitchStep ==
  ASSUME SignUpInv, NEW a \in DOMAIN accounts, DisableSignedUp(a) \/ EnableSignedUp(a)
  PROVE  SignUpInv'
<1>1. /\ SignUpTypes /\ accounts \in Seq(Accounts) /\ a = 1 /\ Len(accounts) = 1 /\ accounts # <<>>
      /\ accounts[1] \in Accounts /\ accounts[1].epoch = accounts[1].disables + 1
  <2>1. accounts \in Seq(Accounts) /\ Len(accounts) \in Nat /\ Len(accounts) <= 1 /\ a \in 1 .. Len(accounts)
    BY DEF SignUpInv, SignUpTypes, OneAccount
  <2>2. a = 1 /\ Len(accounts) = 1 /\ accounts # <<>> /\ accounts[1] \in Accounts
    <3>1. a = 1 /\ Len(accounts) = 1
      <4>1. \A n \in Nat : n <= 1 => \A k \in 1 .. n : k = 1 /\ n = 1
        OBVIOUS
      <4> QED BY ONLY <2>1, <4>1
    <3>2. Len(<<>>) = 0
      BY EmptySeq
    <3>3. accounts # <<>>
      BY ONLY <3>1, <3>2
    <3> QED BY <2>1, <3>1, <3>3
  <2> QED BY <2>1, <2>2 DEF SignUpInv, Proved
<1>2. UNCHANGED <<challenge, asking, intent, redeem, login, invitation, uses>> /\ sessions' \subseteq sessions
  BY DEF DisableSignedUp, EnableSignedUp
<1>3. PICK row \in Accounts : accounts' = [accounts EXCEPT ![1] = row] /\ row.epoch = row.disables + 1
  <2>1. CASE DisableSignedUp(a)
    <3> DEFINE row == [epoch |-> accounts[1].epoch + 1, disabled |-> TRUE, disables |-> accounts[1].disables + 1]
    <3>1. row \in Accounts /\ row.epoch = row.disables + 1
      BY <1>1 DEF Accounts
    <3>2. accounts' = [accounts EXCEPT ![1] = row]
      BY <1>1, <2>1 DEF DisableSignedUp
    <3> QED BY <3>1, <3>2
  <2>2. CASE EnableSignedUp(a)
    <3> DEFINE row == [accounts[1] EXCEPT !.disabled = FALSE]
    <3>1. row \in Accounts /\ row.epoch = row.disables + 1
      BY <1>1 DEF Accounts
    <3>2. accounts' = [accounts EXCEPT ![1] = row]
      BY <1>1, <2>2 DEF EnableSignedUp
    <3> QED BY <3>1, <3>2
  <2> QED BY <2>1, <2>2
<1>4. accounts' \in Seq(Accounts) /\ Len(accounts') = 1 /\ accounts' # <<>> /\ accounts'[1] = row
  BY <1>1, <1>3
<1>5. SignUpTypes'
  BY <1>1, <1>2, <1>4 DEF SignUpTypes
<1>6. OneAccount' /\ Proved' /\ UsedOnce'
  <2>1. OneAccount' /\ UsedOnce'
    BY <1>1, <1>2, <1>4 DEF SignUpInv, OneAccount, Spent, UsedOnce, Fresh
  <2>2. Proved'
    BY <1>1, <1>2, <1>3, <1>4 DEF SignUpInv, Proved, InStep
  <2> QED BY <2>1, <2>2
<1>7. Locks'
  BY <1>1, <1>2 DEF SignUpInv, Locks, Writing
<1> QED BY <1>5, <1>6, <1>7 DEF SignUpInv

LEMMA SignUpStep == ASSUME SignUpInv, [SignUpNext]_signUpVars PROVE SignUpInv'
<1>1. CASE UNCHANGED signUpVars
  <2>1. SignUpTypes' /\ OneAccount' /\ Proved'
    BY <1>1 DEF signUpVars, SignUpInv, SignUpTypes, OneAccount, Spent, Proved, InStep
  <2>2. Locks' /\ UsedOnce'
    BY <1>1 DEF signUpVars, SignUpInv, Locks, Writing, UsedOnce, Fresh
  <2> QED BY <2>1, <2>2 DEF SignUpInv
<1>2. ASSUME NEW c \in Challenges,
             \/ PollFinds(c) \/ PollEnds(c) \/ ChallengeGoes(c)
             \/ IntentExpires(c) \/ LoginTakes(c) \/ ConsumeAccountProof(c) \/ CreateSession(c)
             \/ \E r \in Redeemers, i \in Codes : Reserve(r, c, i)
      PROVE  SignUpInv'
  BY <1>2, PollStep, ConsumeStep, ReserveStep
<1>3. ASSUME NEW r \in Redeemers,
             \/ Errs(r) \/ ReadsInvitation(r) \/ MisreadsExpiry(r) \/ ChecksRedemption(r)
             \/ WritesAccount(r) \/ Deadlocks(r) \/ ChecksAgain(r) \/ CommitsAccount(r)
             \/ ReservationEnds(r)
      PROVE  SignUpInv'
  BY <1>3, RedeemStep, CommitStep, ReservationStep
<1> QED BY <1>1, <1>2, <1>3, ShutStep, InvitationStep, SwitchStep DEF SignUpNext

LEMMA SignUpInvariant == SignUpSpec => []SignUpInv
<1>1. ASSUME SignUpInit PROVE SignUpInv
  <2>1. SignUpTypes
    <3>1. NoProof \in Proofs /\ NoRedeem \in Redemptions
      BY DEF NoProof, Proofs, NoRedeem, Redemptions
    <3> QED BY <1>1, <3>1 DEF SignUpInit, SignUpTypes
  <2>2. OneAccount /\ Proved
    BY <1>1 DEF SignUpInit, OneAccount, Spent, Proved
  <2>3. Locks /\ UsedOnce
    BY <1>1 DEF SignUpInit, Locks, Writing, UsedOnce, Fresh, NoRedeem, InTransaction
  <2> QED BY <2>1, <2>2, <2>3 DEF SignUpInv
<1> QED BY <1>1, SignUpStep, PTL DEF SignUpSpec

\* The user gets one account for one invitation, an invitation that has ended stays what it
\* is, and a session or a proof that is accepted was verified after the account was last
\* disabled and is good for one thing (identity/service.go, invitation/service.go), however
\* many challenges, intents and redemptions run at once.
THEOREM VerifiedOnce == SignUpSpec => UsersAreVerifiedOnce
<1>1. ASSUME SignUpInv
      PROVE  /\ \A s \in sessions : SessionIsGood(s) => s.disables = accounts[s.account].disables
             /\ \A c \in Challenges : uses[c] <= 1
  <2>1. \A s \in sessions : s.disables \in Nat /\ InStep(s)
    BY <1>1 DEF SignUpInv, SignUpTypes, Proved
  <2>2. accounts # <<>> => accounts[1] \in Accounts /\ accounts[1].epoch = accounts[1].disables + 1
    BY <1>1 DEF SignUpInv, SignUpTypes, Proved
  <2>3. \A s \in sessions : SessionIsGood(s) => s.disables = accounts[s.account].disables
    BY <2>1, <2>2 DEF InStep, SessionIsGood, Accounts
  <2> QED BY <1>1, <2>3 DEF SignUpInv, UsedOnce
<1>2. ASSUME SignUpInv, SignUpInv', [SignUpNext]_signUpVars
      PROVE  [/\ Len(accounts') <= 1 /\ Cardinality(Spent') = Len(accounts')
              /\ \A i \in Codes : invitation[i].status \notin {"active", "due"} =>
                   invitation'[i].status = invitation[i].status]_signUpVars
  <2>1. Len(accounts') <= 1 /\ Cardinality(Spent') = Len(accounts')
    <3>1. Len(accounts') \in Nat /\ accounts' \in Seq(Accounts) /\ Len(accounts') <= 1
      BY <1>2 DEF SignUpInv, SignUpTypes, OneAccount
    <3>2. CASE accounts' = <<>>
      <4>1. Spent' = {}
        BY <1>2, <3>2 DEF SignUpInv, OneAccount
      <4> QED BY <3>1, <3>2, <4>1, FS_EmptySet
    <3>3. CASE accounts' # <<>>
      <4>1. PICK i \in Codes : Spent' = {i}
        BY <1>2, <3>3 DEF SignUpInv, OneAccount
      <4>2. Len(accounts') = 1
        BY <3>1, <3>3, EmptySeq
      <4> QED BY <3>1, <4>1, <4>2, FS_Singleton
    <3> QED BY <3>2, <3>3
  <2>2. ASSUME NEW i \in Codes, invitation[i].status \notin {"active", "due"}
        PROVE  invitation'[i].status = invitation[i].status
    <3>1. CASE UNCHANGED invitation
      BY <3>1
    <3>2. ASSUME NEW j \in Codes, InvitationFallsDue(j) \/ RevokeInvitation(j) \/ ExpireInvitation(j)
          PROVE  invitation'[i].status = invitation[i].status
      <4>1. i # j /\ \E to \in {"due", "revoked", "expired"} : invitation' = [invitation EXCEPT ![j].status = to]
        BY <2>2, <3>2 DEF InvitationFallsDue, RevokeInvitation, ExpireInvitation
      <4> QED BY <1>2, <4>1 DEF SignUpInv, SignUpTypes
    <3>3. ASSUME NEW r \in Redeemers, CommitsAccount(r)
          PROVE  invitation'[i].status = invitation[i].status
      <4>1. redeem[r].code # i
        BY <1>2, <2>2, <3>3 DEF CommitsAccount, SignUpInv, Locks
      <4>2. UNCHANGED invitation \/ invitation' = [invitation EXCEPT ![redeem[r].code].status = "used",
                                                                     ![redeem[r].code].account = Len(accounts')]
        BY <3>3 DEF CommitsAccount
      <4> QED BY <1>2, <4>1, <4>2 DEF SignUpInv, SignUpTypes
    <3>4. \/ UNCHANGED invitation
          \/ \E j \in Codes : InvitationFallsDue(j) \/ RevokeInvitation(j) \/ ExpireInvitation(j)
          \/ \E r \in Redeemers : CommitsAccount(r)
      <4>1. CASE UNCHANGED signUpVars \/ Shut
        BY <4>1 DEF signUpVars, Shut
      <4>2. ASSUME NEW c \in Challenges,
                   \/ PollFinds(c) \/ PollEnds(c) \/ ChallengeGoes(c)
                   \/ IntentExpires(c) \/ LoginTakes(c) \/ ConsumeAccountProof(c) \/ CreateSession(c)
                   \/ \E r \in Redeemers, k \in Codes : Reserve(r, c, k)
            PROVE  UNCHANGED invitation
        BY <4>2 DEF PollFinds, PollEnds, ChallengeGoes, IntentExpires, LoginTakes, ConsumeAccountProof, CreateSession, Reserve
      <4>3. ASSUME NEW r \in Redeemers,
                   \/ Errs(r) \/ ReadsInvitation(r) \/ MisreadsExpiry(r) \/ ChecksRedemption(r)
                   \/ WritesAccount(r) \/ Deadlocks(r) \/ ChecksAgain(r) \/ ReservationEnds(r)
            PROVE  UNCHANGED invitation
        BY <4>3 DEF Errs, ReadsInvitation, MisreadsExpiry, ChecksRedemption, WritesAccount, Deadlocks, ChecksAgain,
                    ReservationEnds, Refuses, Moves
      <4>4. ASSUME NEW a \in DOMAIN accounts, DisableSignedUp(a) \/ EnableSignedUp(a)
            PROVE  UNCHANGED invitation
        BY <4>4 DEF DisableSignedUp, EnableSignedUp
      <4> QED BY <1>2, <4>1, <4>2, <4>3, <4>4 DEF SignUpNext
    <3> QED BY <3>1, <3>2, <3>3, <3>4
  <2> QED BY <2>1, <2>2
<1> QED BY <1>1, <1>2, SignUpInvariant, PTL DEF UsersAreVerifiedOnce, SignUpSpec

-----------------------------------------------------------------------------
(* The migrations of an account. *)

Contents == Packages \cup Nat
Shown == {<<>>} \cup (Contents \X Contents)
MigrationJobs ==
  [package : Packages, status : {"previewed", "pending", "applied", "expired", "cancelled", "rolled_back"},
   base : [version : Nat, revision : Nat], seen : Shown, undo : [version : Nat, runtime : Contents],
   applied : Nat, replaced : Shown]
ActiveRows == [active : Nat, revision : Nat, runtime : Contents]

MigrationRows ==
  /\ jobs \in Seq(MigrationJobs) /\ versions \in Seq(Contents) /\ writes \in Nat
  /\ account \in ActiveRows /\ account.active <= Len(versions)

MigrationActors ==
  /\ starter \in [Panels -> [at : {"idle", "claimed", "found", "ready", "running"}, job : Nat]]
  /\ tab \in [Tabs -> [at : {"idle", "apply", "rollback", "applying", "rolling back"}, job : Nat]]
  /\ \A p \in Panels : starter[p].at = "found" => starter[p].job \in DOMAIN jobs
  /\ \A t \in Tabs : tab[t].at # "idle" => tab[t].job \in DOMAIN jobs

\* A version is in force without a break, and its revision grows with whatever changes:
\* the base of a job tells what its owner was shown, although revisions begin anew after
\* a rollback to no configuration.
BasesTell ==
  \A j \in DOMAIN jobs :
    /\ jobs[j].base.version <= Len(versions)
    /\ jobs[j].base.version = 0 => jobs[j].seen = <<>>
    /\ jobs[j].base.version = account.active /\ account.active # 0 =>
         /\ jobs[j].base.revision <= account.revision
         /\ jobs[j].base.revision = account.revision => jobs[j].seen = Displayed

\* What an applied job keeps is what it had replaced.
UndosKeep ==
  \A j \in DOMAIN jobs : jobs[j].status = "applied" =>
    /\ jobs[j].applied \in DOMAIN versions /\ versions[jobs[j].applied] = jobs[j].package
    /\ jobs[j].undo.version <= Len(versions)
    /\ jobs[j].replaced = IF jobs[j].undo.version = 0 THEN <<>>
                          ELSE <<versions[jobs[j].undo.version], jobs[j].undo.runtime>>

Recorded == MigrationRows /\ BasesTell /\ UndosKeep
MigrationInv == Recorded /\ MigrationActors

LEMMA MigrationFacts ==
  ASSUME Recorded
  PROVE  /\ Len(jobs) \in Nat /\ Len(versions) \in Nat /\ DOMAIN jobs = 1..Len(jobs) /\ DOMAIN versions = 1..Len(versions)
         /\ account.active \in Nat /\ account.revision \in Nat /\ account.runtime \in Contents
         /\ account.active # 0 => account.active \in DOMAIN versions /\ versions[account.active] \in Contents
         /\ Displayed \in Shown /\ Base \in [version : Nat, revision : Nat]
         /\ Base.version = account.active /\ Base.revision = account.revision
         /\ \A j \in DOMAIN jobs : jobs[j] \in MigrationJobs
<1>1. /\ Len(jobs) \in Nat /\ Len(versions) \in Nat /\ DOMAIN jobs = 1..Len(jobs) /\ DOMAIN versions = 1..Len(versions)
      /\ \A j \in DOMAIN jobs : jobs[j] \in MigrationJobs
      /\ \A v \in DOMAIN versions : versions[v] \in Contents
  BY DEF Recorded, MigrationRows
<1>2. account.active \in Nat /\ account.revision \in Nat /\ account.runtime \in Contents /\ account.active <= Len(versions)
  BY DEF Recorded, MigrationRows, ActiveRows
<1>3. account.active # 0 => account.active \in DOMAIN versions /\ versions[account.active] \in Contents
  BY <1>1, <1>2
<1>4. Displayed \in Shown
  BY <1>2, <1>3 DEF Displayed, Shown
<1>5. Base \in [version : Nat, revision : Nat] /\ Base.version = account.active /\ Base.revision = account.revision
  BY <1>2 DEF Base
<1> QED BY <1>1, <1>2, <1>3, <1>4, <1>5

\* A transaction: versions are only added; what is in force stays, is a new version, is
\* nothing, or has a greater revision; the jobs keep what they were shown and what they undo.
LEMMA Transacted ==
  ASSUME Recorded, jobs' \in Seq(MigrationJobs), DOMAIN jobs \subseteq DOMAIN jobs', writes' \in Nat,
         versions' \in Seq(Contents), Len(versions) <= Len(versions'),
         \A v \in DOMAIN versions : versions'[v] = versions[v],
         account' \in ActiveRows, account'.active <= Len(versions'),
         \/ account' = account
         \/ account'.active = 0
         \/ account'.active > Len(versions)
         \/ account'.active = account.active /\ account'.revision > account.revision,
         \A k \in DOMAIN jobs' :
           \/ k \in DOMAIN jobs /\ jobs'[k].base = jobs[k].base /\ jobs'[k].seen = jobs[k].seen
           \/ account' = account /\ jobs'[k].base = Base /\ jobs'[k].seen = Displayed,
         \A k \in DOMAIN jobs' : jobs'[k].status = "applied" =>
           \/ /\ k \in DOMAIN jobs /\ jobs[k].status = "applied"
              /\ jobs'[k].package = jobs[k].package /\ jobs'[k].applied = jobs[k].applied
              /\ jobs'[k].undo = jobs[k].undo /\ jobs'[k].replaced = jobs[k].replaced
           \/ /\ jobs'[k].applied \in DOMAIN versions' /\ versions'[jobs'[k].applied] = jobs'[k].package
              /\ jobs'[k].undo.version = account.active /\ jobs'[k].undo.runtime = account.runtime
              /\ jobs'[k].replaced = Displayed
  PROVE  Recorded'
<1>1. MigrationRows'
  BY DEF MigrationRows
<1>2. /\ Len(versions) \in Nat /\ Len(versions') \in Nat
      /\ DOMAIN versions = 1..Len(versions) /\ DOMAIN versions' = 1..Len(versions')
      /\ account.active \in Nat /\ account.revision \in Nat /\ account.active <= Len(versions)
      /\ account'.active \in Nat /\ account'.revision \in Nat
      /\ account.active # 0 => account.active \in DOMAIN versions
      /\ Base.version = account.active /\ Base.revision = account.revision
  BY MigrationFacts DEF Recorded, MigrationRows, ActiveRows
<1>3. \A k \in DOMAIN jobs : jobs[k] \in MigrationJobs
  BY MigrationFacts
<1>4. account' = account => Displayed' = Displayed
  BY <1>2 DEF Displayed
<1>5. BasesTell'
  <2> SUFFICES ASSUME NEW k \in DOMAIN jobs'
               PROVE  /\ jobs'[k].base.version <= Len(versions')
                      /\ jobs'[k].base.version = 0 => jobs'[k].seen = <<>>
                      /\ jobs'[k].base.version = account'.active /\ account'.active # 0 =>
                           /\ jobs'[k].base.revision <= account'.revision
                           /\ jobs'[k].base.revision = account'.revision => jobs'[k].seen = Displayed'
    BY DEF BasesTell
  <2>1. CASE k \in DOMAIN jobs /\ jobs'[k].base = jobs[k].base /\ jobs'[k].seen = jobs[k].seen
    <3>1. /\ jobs[k].base.version \in Nat /\ jobs[k].base.revision \in Nat
          /\ jobs[k].base.version <= Len(versions)
          /\ jobs[k].base.version = 0 => jobs[k].seen = <<>>
          /\ jobs[k].base.version = account.active /\ account.active # 0 =>
               /\ jobs[k].base.revision <= account.revision
               /\ jobs[k].base.revision = account.revision => jobs[k].seen = Displayed
      BY <1>3, <2>1 DEF Recorded, BasesTell, MigrationJobs
    <3> QED BY <1>2, <1>4, <2>1, <3>1
  <2>2. CASE account' = account /\ jobs'[k].base = Base /\ jobs'[k].seen = Displayed
    <3>1. account.active = 0 => Displayed = <<>>
      BY DEF Displayed
    <3> QED BY <1>2, <1>4, <2>2, <3>1
  <2> QED BY <2>1, <2>2
<1>6. UndosKeep'
  <2> SUFFICES ASSUME NEW k \in DOMAIN jobs', jobs'[k].status = "applied"
               PROVE  /\ jobs'[k].applied \in DOMAIN versions' /\ versions'[jobs'[k].applied] = jobs'[k].package
                      /\ jobs'[k].undo.version <= Len(versions')
                      /\ jobs'[k].replaced = IF jobs'[k].undo.version = 0 THEN <<>>
                                             ELSE <<versions'[jobs'[k].undo.version], jobs'[k].undo.runtime>>
    BY DEF UndosKeep
  <2>1. CASE /\ k \in DOMAIN jobs /\ jobs[k].status = "applied"
             /\ jobs'[k].package = jobs[k].package /\ jobs'[k].applied = jobs[k].applied
             /\ jobs'[k].undo = jobs[k].undo /\ jobs'[k].replaced = jobs[k].replaced
    <3>1. /\ jobs[k].undo.version \in Nat
          /\ jobs[k].applied \in DOMAIN versions /\ versions[jobs[k].applied] = jobs[k].package
          /\ jobs[k].undo.version <= Len(versions)
          /\ jobs[k].replaced = IF jobs[k].undo.version = 0 THEN <<>>
                                ELSE <<versions[jobs[k].undo.version], jobs[k].undo.runtime>>
      BY <1>3, <2>1 DEF Recorded, UndosKeep, MigrationJobs
    <3>2. jobs[k].undo.version # 0 => jobs[k].undo.version \in DOMAIN versions
      BY <1>2, <3>1
    <3>3. /\ jobs[k].applied \in DOMAIN versions' /\ versions'[jobs[k].applied] = jobs[k].package
          /\ jobs[k].undo.version <= Len(versions')
      BY <1>2, <3>1
    <3>4. CASE jobs[k].undo.version = 0
      BY <2>1, <3>1, <3>3, <3>4
    <3>5. CASE jobs[k].undo.version # 0
      <4>1. versions'[jobs[k].undo.version] = versions[jobs[k].undo.version]
        BY <3>2, <3>5
      <4> QED BY <2>1, <3>1, <3>3, <3>5, <4>1
    <3> QED BY <3>4, <3>5
  <2>2. CASE /\ jobs'[k].applied \in DOMAIN versions' /\ versions'[jobs'[k].applied] = jobs'[k].package
             /\ jobs'[k].undo.version = account.active /\ jobs'[k].undo.runtime = account.runtime
             /\ jobs'[k].replaced = Displayed
    <3>1. jobs'[k].undo.version <= Len(versions')
      BY <1>2, <2>2
    <3>2. account.active # 0 => versions'[account.active] = versions[account.active]
      BY <1>2
    <3>3. jobs'[k].replaced = IF jobs'[k].undo.version = 0 THEN <<>>
                              ELSE <<versions'[jobs'[k].undo.version], jobs'[k].undo.runtime>>
      BY <2>2, <3>2 DEF Displayed
    <3> QED BY <2>2, <3>1, <3>3
  <2> QED BY <2>1, <2>2
<1> QED BY <1>1, <1>5, <1>6 DEF Recorded

\* A job ends or waits without having been applied.
LEMMA StatusStep ==
  ASSUME Recorded, NEW j \in DOMAIN jobs, NEW status \in {"pending", "expired", "cancelled", "rolled_back"},
         jobs' = [jobs EXCEPT ![j].status = status]
  PROVE  /\ jobs' \in Seq(MigrationJobs) /\ DOMAIN jobs' = DOMAIN jobs
         /\ jobs'[j].status = status
         /\ \A k \in DOMAIN jobs : k # j => jobs'[k] = jobs[k]
         /\ \A k \in DOMAIN jobs :
              /\ jobs'[k].base = jobs[k].base /\ jobs'[k].seen = jobs[k].seen /\ jobs'[k].package = jobs[k].package
              /\ jobs'[k].applied = jobs[k].applied /\ jobs'[k].undo = jobs[k].undo
              /\ jobs'[k].replaced = jobs[k].replaced
              /\ jobs'[k].status = "applied" => jobs[k].status = "applied"
<1> DEFINE row == [jobs[j] EXCEPT !.status = status]
<1>1. jobs \in Seq(MigrationJobs) /\ jobs[j] \in MigrationJobs
  BY MigrationFacts DEF Recorded, MigrationRows
<1>2. /\ row \in MigrationJobs /\ row.base = jobs[j].base /\ row.seen = jobs[j].seen /\ row.package = jobs[j].package
      /\ row.applied = jobs[j].applied /\ row.undo = jobs[j].undo /\ row.replaced = jobs[j].replaced /\ row.status = status
  BY <1>1 DEF MigrationJobs
<1>3. jobs' = [jobs EXCEPT ![j] = row]
  OBVIOUS
<1> HIDE DEF row
<1>4. jobs' = [k \in DOMAIN jobs |-> jobs'[k]] /\ \A k \in DOMAIN jobs : jobs'[k] = IF k = j THEN row ELSE jobs[k]
  BY <1>1, <1>3
<1>5. \A k \in DOMAIN jobs : jobs'[k] \in MigrationJobs
  BY <1>2, <1>4, MigrationFacts
<1>6. jobs' \in Seq(MigrationJobs) /\ DOMAIN jobs' = DOMAIN jobs
  BY <1>1, <1>4, <1>5, Rewritten
<1> QED BY <1>2, <1>4, <1>6

LEMMA StatusTransaction ==
  ASSUME Recorded, NEW j \in DOMAIN jobs, NEW status \in {"pending", "expired", "cancelled"},
         jobs' = [jobs EXCEPT ![j].status = status], UNCHANGED <<versions, account, writes>>
  PROVE  Recorded' /\ DOMAIN jobs' = DOMAIN jobs
<1>1. writes \in Nat /\ versions \in Seq(Contents) /\ account \in ActiveRows /\ account.active <= Len(versions)
  BY DEF Recorded, MigrationRows
<1>2. Len(versions) \in Nat
  BY MigrationFacts
<1>3. /\ jobs' \in Seq(MigrationJobs) /\ DOMAIN jobs' = DOMAIN jobs
      /\ \A k \in DOMAIN jobs :
           /\ jobs'[k].base = jobs[k].base /\ jobs'[k].seen = jobs[k].seen /\ jobs'[k].package = jobs[k].package
           /\ jobs'[k].applied = jobs[k].applied /\ jobs'[k].undo = jobs[k].undo
           /\ jobs'[k].replaced = jobs[k].replaced
           /\ jobs'[k].status = "applied" => jobs[k].status = "applied"
  BY StatusStep
<1> QED BY <1>1, <1>2, <1>3, Transacted

\* applyLockedMigration: the package becomes the version in force.
LEMMA MigrateStep ==
  ASSUME Recorded, NEW j \in DOMAIN jobs, Migrate(j), UNCHANGED writes
  PROVE  Recorded' /\ DOMAIN jobs' = DOMAIN jobs
<1> DEFINE undo == [version |-> account.active, runtime |-> account.runtime]
           row == [jobs[j] EXCEPT !.status = "applied", !.applied = Len(versions) + 1, !.undo = undo,
                                  !.replaced = Displayed]
           now == [active |-> Len(versions) + 1, revision |-> account.revision + 1, runtime |-> jobs[j].package]
<1>1. jobs \in Seq(MigrationJobs) /\ jobs[j] \in MigrationJobs /\ versions \in Seq(Contents) /\ writes \in Nat
  BY MigrationFacts DEF Recorded, MigrationRows
<1>2. jobs[j].package \in Contents /\ jobs[j].package \in Packages
  BY <1>1 DEF MigrationJobs, Contents
<1>3. /\ versions' = Append(versions, jobs[j].package) /\ versions' \in Seq(Contents) /\ Len(versions') = Len(versions) + 1
      /\ \A v \in DOMAIN versions : versions'[v] = versions[v]
      /\ versions'[Len(versions) + 1] = jobs[j].package /\ Len(versions) + 1 \in DOMAIN versions'
  <2>1. versions' = Append(versions, jobs[j].package)
    BY DEF Migrate
  <2> QED BY <1>1, <1>2, <2>1, Appended
<1>4. jobs' = [jobs EXCEPT ![j] = row] /\ account' = now
  BY <1>3 DEF Migrate
<1>5. /\ row \in MigrationJobs /\ row.base = jobs[j].base /\ row.seen = jobs[j].seen /\ row.package = jobs[j].package
      /\ row.applied = Len(versions) + 1 /\ row.undo = undo /\ row.replaced = Displayed
  <2>1. undo \in [version : Nat, runtime : Contents] /\ Displayed \in Shown /\ Len(versions) + 1 \in Nat
    BY MigrationFacts
  <2> HIDE DEF undo
  <2> QED BY <1>1, <2>1 DEF MigrationJobs
<1>6. undo.version = account.active /\ undo.runtime = account.runtime
  OBVIOUS
<1>7. now \in ActiveRows /\ now.active = Len(versions) + 1
  BY <1>2, MigrationFacts DEF ActiveRows
<1> HIDE DEF row, now, undo
<1>8. jobs' = [k \in DOMAIN jobs |-> jobs'[k]] /\ \A k \in DOMAIN jobs : jobs'[k] = IF k = j THEN row ELSE jobs[k]
  BY <1>1, <1>4
<1>9. \A k \in DOMAIN jobs : jobs'[k] \in MigrationJobs
  BY <1>5, <1>8, MigrationFacts
<1>10. jobs' \in Seq(MigrationJobs) /\ DOMAIN jobs' = DOMAIN jobs
  BY <1>1, <1>8, <1>9, Rewritten
<1>11. Len(versions) \in Nat /\ writes' \in Nat
  BY <1>1, MigrationFacts
<1>12. \A k \in DOMAIN jobs' :
         /\ jobs'[k].base = jobs[k].base /\ jobs'[k].seen = jobs[k].seen
         /\ jobs'[k].status = "applied" =>
              \/ /\ k \in DOMAIN jobs /\ jobs[k].status = "applied"
                 /\ jobs'[k].package = jobs[k].package /\ jobs'[k].applied = jobs[k].applied
                 /\ jobs'[k].undo = jobs[k].undo /\ jobs'[k].replaced = jobs[k].replaced
              \/ /\ jobs'[k].applied \in DOMAIN versions' /\ versions'[jobs'[k].applied] = jobs'[k].package
                 /\ jobs'[k].undo.version = account.active /\ jobs'[k].undo.runtime = account.runtime
                 /\ jobs'[k].replaced = Displayed
  BY <1>3, <1>5, <1>6, <1>8, <1>10
<1>13. Len(versions) <= Len(versions') /\ account' \in ActiveRows /\ account'.active <= Len(versions')
       /\ account'.active > Len(versions)
  BY <1>3, <1>4, <1>7, <1>11
<1> QED BY <1>3, <1>10, <1>11, <1>12, <1>13, Transacted

LEMMA CountStep ==
  ASSUME Recorded, CountGift \/ SaveConfiguration
  PROVE  Recorded' /\ UNCHANGED <<jobs, starter, tab>>
<1>1. /\ jobs \in Seq(MigrationJobs) /\ versions \in Seq(Contents) /\ writes \in Nat
      /\ account \in ActiveRows /\ account.active <= Len(versions) /\ Len(versions) \in Nat
  BY MigrationFacts DEF Recorded, MigrationRows
<1>2. CASE CountGift
  <2> DEFINE now == [account EXCEPT !.revision = @ + 1, !.runtime = writes + 1]
  <2>1. account' = now /\ writes' = writes + 1 /\ UNCHANGED <<jobs, versions, starter, tab>>
    BY <1>2 DEF CountGift
  <2>2. now \in ActiveRows /\ now.active = account.active /\ now.revision = account.revision + 1
        /\ account.revision \in Nat /\ writes + 1 \in Nat
    <3>1. account.revision \in Nat /\ account.revision + 1 \in Nat /\ writes + 1 \in Nat /\ writes + 1 \in Contents
      BY <1>1 DEF ActiveRows, Contents
    <3>2. account \in ActiveRows
      BY <1>1
    <3> QED BY <3>1, <3>2 DEF ActiveRows
  <2> HIDE DEF now
  <2>3. now.revision > account.revision
    BY <2>2
  <2> QED BY <1>1, <2>1, <2>2, <2>3, Transacted
<1>3. CASE SaveConfiguration
  <2> DEFINE now == [active |-> Len(versions) + 1, revision |-> account.revision + 1,
                     runtime |-> IF account.active = 0 THEN 0 ELSE account.runtime]
  <2>1. versions' = Append(versions, writes + 1) /\ writes' = writes + 1 /\ UNCHANGED <<jobs, starter, tab>>
    BY <1>3 DEF SaveConfiguration
  <2>2. writes + 1 \in Contents /\ writes + 1 \in Nat
    BY <1>1 DEF Contents
  <2>3. versions' \in Seq(Contents) /\ Len(versions') = Len(versions) + 1 /\ \A v \in DOMAIN versions : versions'[v] = versions[v]
    BY <1>1, <2>1, <2>2, Appended
  <2>4. account' = now
    BY <1>3, <2>3 DEF SaveConfiguration
  <2>5. now \in ActiveRows /\ now.active = Len(versions) + 1
    BY <1>1 DEF ActiveRows, Contents
  <2> HIDE DEF now
  <2>6. now.active > Len(versions) /\ now.active <= Len(versions') /\ Len(versions) <= Len(versions')
    BY <1>1, <2>3, <2>5
  <2> QED BY <1>1, <2>1, <2>2, <2>3, <2>4, <2>5, <2>6, Transacted
<1> QED BY <1>2, <1>3

LEMMA PreviewStep ==
  ASSUME Recorded, NEW p \in Packages, Preview(p)
  PROVE  Recorded' /\ UNCHANGED <<starter, tab>> /\ DOMAIN jobs \subseteq DOMAIN jobs'
         /\ \A j \in DOMAIN jobs : jobs'[j].status \in {jobs[j].status, "expired"}
<1> DEFINE same == {j \in DOMAIN jobs : jobs[j].package = p /\ jobs[j].status \in Unfinished}
           older == [j \in DOMAIN jobs |-> IF j \in same THEN [jobs[j] EXCEPT !.status = "expired"] ELSE jobs[j]]
           new == [package |-> p, status |-> "previewed", base |-> Base, seen |-> Displayed,
                   undo |-> NoUndo, applied |-> 0, replaced |-> <<>>]
<1>1. jobs' = Append(older, new) /\ UNCHANGED <<versions, account, starter, tab, writes>>
  BY DEF Preview
<1>2. /\ jobs \in Seq(MigrationJobs) /\ versions \in Seq(Contents) /\ writes \in Nat
      /\ account \in ActiveRows /\ account.active <= Len(versions) /\ Len(versions) \in Nat
      /\ Displayed \in Shown /\ Base \in [version : Nat, revision : Nat]
      /\ \A j \in DOMAIN jobs : jobs[j] \in MigrationJobs
  BY MigrationFacts DEF Recorded, MigrationRows
<1>3. new \in MigrationJobs /\ new.base = Base /\ new.seen = Displayed /\ new.status = "previewed"
  <2>1. NoUndo \in [version : Nat, runtime : Contents] /\ <<>> \in Shown
    BY DEF NoUndo, Contents, Shown
  <2> QED BY <1>2, <2>1 DEF MigrationJobs
<1> HIDE DEF same, new
<1>4. \A j \in DOMAIN jobs :
        /\ older[j] \in MigrationJobs /\ older[j].base = jobs[j].base /\ older[j].seen = jobs[j].seen
        /\ older[j].package = jobs[j].package /\ older[j].applied = jobs[j].applied
        /\ older[j].undo = jobs[j].undo /\ older[j].replaced = jobs[j].replaced
        /\ older[j].status \in {jobs[j].status, "expired"}
  <2> SUFFICES ASSUME NEW j \in DOMAIN jobs
               PROVE  /\ older[j] \in MigrationJobs /\ older[j].base = jobs[j].base /\ older[j].seen = jobs[j].seen
                      /\ older[j].package = jobs[j].package /\ older[j].applied = jobs[j].applied
                      /\ older[j].undo = jobs[j].undo /\ older[j].replaced = jobs[j].replaced
                      /\ older[j].status \in {jobs[j].status, "expired"}
    OBVIOUS
  <2> DEFINE ended == [jobs[j] EXCEPT !.status = "expired"]
  <2>1. jobs[j] \in MigrationJobs
    BY <1>2
  <2>2. /\ ended \in MigrationJobs /\ ended.base = jobs[j].base /\ ended.seen = jobs[j].seen
        /\ ended.package = jobs[j].package /\ ended.applied = jobs[j].applied
        /\ ended.undo = jobs[j].undo /\ ended.replaced = jobs[j].replaced /\ ended.status = "expired"
    BY <2>1 DEF MigrationJobs
  <2>3. older[j] = ended \/ older[j] = jobs[j]
    OBVIOUS
  <2> HIDE DEF ended, older
  <2> QED BY <2>1, <2>2, <2>3
<1>5. older = [j \in DOMAIN jobs |-> older[j]]
  OBVIOUS
<1> HIDE DEF older
<1>6. older \in Seq(MigrationJobs) /\ DOMAIN older = DOMAIN jobs /\ Len(older) = Len(jobs)
  BY <1>2, <1>4, <1>5, Rewritten
<1>7. /\ jobs' \in Seq(MigrationJobs) /\ DOMAIN jobs' = DOMAIN jobs \cup {Len(jobs) + 1}
      /\ jobs'[Len(jobs) + 1] = new /\ \A j \in DOMAIN jobs : jobs'[j] = older[j]
  BY <1>1, <1>3, <1>6, Appended
<1>8. \A j \in DOMAIN jobs' :
        /\ \/ j \in DOMAIN jobs /\ jobs'[j].base = jobs[j].base /\ jobs'[j].seen = jobs[j].seen
           \/ account' = account /\ jobs'[j].base = Base /\ jobs'[j].seen = Displayed
        /\ jobs'[j].status = "applied" =>
             /\ j \in DOMAIN jobs /\ jobs[j].status = "applied"
             /\ jobs'[j].package = jobs[j].package /\ jobs'[j].applied = jobs[j].applied
             /\ jobs'[j].undo = jobs[j].undo /\ jobs'[j].replaced = jobs[j].replaced
  BY <1>1, <1>3, <1>4, <1>7
<1>9. Recorded'
  BY <1>1, <1>2, <1>7, <1>8, Transacted
<1> QED BY <1>1, <1>4, <1>7, <1>9

\* Rollback: what the migration had replaced is in force again.
LEMMA RollbackStep ==
  ASSUME Recorded, NEW j \in DOMAIN jobs, Rollbackable(j), RestoreNothing(j) \/ Restore(j),
         jobs' = [jobs EXCEPT ![j].status = "rolled_back"], UNCHANGED writes
  PROVE  Recorded' /\ DOMAIN jobs' = DOMAIN jobs /\ Displayed[1] = jobs[j].package /\ Displayed' = jobs[j].replaced
<1>1. /\ jobs \in Seq(MigrationJobs) /\ versions \in Seq(Contents) /\ writes \in Nat
      /\ account \in ActiveRows /\ account.active <= Len(versions) /\ Len(versions) \in Nat
      /\ account.revision \in Nat /\ DOMAIN versions = 1..Len(versions)
      /\ jobs[j] \in MigrationJobs
  BY MigrationFacts DEF Recorded, MigrationRows
<1>2. /\ jobs[j].applied = account.active /\ account.active # 0 /\ versions[jobs[j].applied] = jobs[j].package
      /\ jobs[j].undo.version \in Nat /\ jobs[j].undo.runtime \in Contents /\ jobs[j].undo.version <= Len(versions)
      /\ jobs[j].replaced = IF jobs[j].undo.version = 0 THEN <<>>
                            ELSE <<versions[jobs[j].undo.version], jobs[j].undo.runtime>>
  <2>1. jobs[j].status = "applied" /\ jobs[j].applied = account.active /\ account.active # 0
    BY DEF Rollbackable, Undoes
  <2> QED BY <1>1, <2>1 DEF Recorded, UndosKeep, MigrationJobs
<1>3. /\ jobs' \in Seq(MigrationJobs) /\ DOMAIN jobs' = DOMAIN jobs
      /\ \A k \in DOMAIN jobs :
           /\ jobs'[k].base = jobs[k].base /\ jobs'[k].seen = jobs[k].seen /\ jobs'[k].package = jobs[k].package
           /\ jobs'[k].applied = jobs[k].applied /\ jobs'[k].undo = jobs[k].undo
           /\ jobs'[k].replaced = jobs[k].replaced
           /\ jobs'[k].status = "applied" => jobs[k].status = "applied"
  BY StatusStep
<1>4. Displayed[1] = jobs[j].package
  BY <1>2 DEF Displayed
<1>5. CASE RestoreNothing(j)
  <2> DEFINE now == [active |-> 0, revision |-> 0, runtime |-> 0]
  <2>1. account' = now /\ versions' = versions /\ jobs[j].undo.version = 0
    BY <1>5 DEF RestoreNothing
  <2>2. now \in ActiveRows /\ now.active = 0
    BY DEF ActiveRows, Contents
  <2> HIDE DEF now
  <2>3. Displayed' = jobs[j].replaced
    BY <1>2, <2>1, <2>2 DEF Displayed
  <2>4. Recorded'
    BY <1>1, <1>3, <2>1, <2>2, Transacted
  <2> QED BY <1>3, <1>4, <2>3, <2>4
<1>6. CASE Restore(j)
  <2> DEFINE old == versions[jobs[j].undo.version]
             now == [active |-> Len(versions) + 1, revision |-> account.revision + 1, runtime |-> jobs[j].undo.runtime]
  <2>1. versions' = Append(versions, old) /\ jobs[j].undo.version # 0
    BY <1>6 DEF Restore
  <2>2. old \in Contents
    BY <1>1, <1>2, <2>1
  <2> HIDE DEF old
  <2>3. /\ versions' \in Seq(Contents) /\ Len(versions') = Len(versions) + 1 /\ versions'[Len(versions) + 1] = old
        /\ \A v \in DOMAIN versions : versions'[v] = versions[v]
    BY <1>1, <2>1, <2>2, Appended
  <2>4. account' = now
    BY <1>6, <2>3 DEF Restore
  <2>5. now \in ActiveRows /\ now.active = Len(versions) + 1 /\ now.runtime = jobs[j].undo.runtime
    BY <1>1, <1>2 DEF ActiveRows
  <2> HIDE DEF now
  <2>6. now.active > Len(versions) /\ now.active <= Len(versions') /\ Len(versions) <= Len(versions') /\ now.active # 0
    BY <1>1, <2>3, <2>5
  <2>7. Displayed' = jobs[j].replaced
    BY <1>2, <2>1, <2>3, <2>4, <2>5, <2>6 DEF Displayed, old
  <2>8. Recorded'
    BY <1>1, <1>3, <2>3, <2>4, <2>5, <2>6, Transacted
  <2> QED BY <1>3, <1>4, <2>7, <2>8
<1> QED BY <1>5, <1>6

\* Every step either leaves the rows alone or is one of these transactions.
LEMMA TransactionOf ==
  ASSUME MigrationInv, MigrationNext
  PROVE  \/ CountGift \/ SaveConfiguration \/ (\E p \in Packages : Preview(p))
         \/ UNCHANGED <<jobs, versions, account, writes>>
         \/ \E j \in DOMAIN jobs, status \in {"pending", "expired", "cancelled"} :
              jobs' = [jobs EXCEPT ![j].status = status] /\ UNCHANGED <<versions, account, writes>>
         \/ \E j \in DOMAIN jobs : SameBase(j) /\ Migrate(j) /\ UNCHANGED writes
         \/ \E j \in DOMAIN jobs :
              /\ Rollbackable(j) /\ (RestoreNothing(j) \/ Restore(j))
              /\ jobs' = [jobs EXCEPT ![j].status = "rolled_back"] /\ UNCHANGED writes
<1> DEFINE Goal == \/ UNCHANGED <<jobs, versions, account, writes>>
                   \/ \E j \in DOMAIN jobs, status \in {"pending", "expired", "cancelled"} :
                        jobs' = [jobs EXCEPT ![j].status = status] /\ UNCHANGED <<versions, account, writes>>
                   \/ \E j \in DOMAIN jobs : SameBase(j) /\ Migrate(j) /\ UNCHANGED writes
                   \/ \E j \in DOMAIN jobs :
                        /\ Rollbackable(j) /\ (RestoreNothing(j) \/ Restore(j))
                        /\ jobs' = [jobs EXCEPT ![j].status = "rolled_back"] /\ UNCHANGED writes
<1>1. ASSUME NEW j \in DOMAIN jobs, Cancel(j) \/ LookAt(j) PROVE Goal
  BY <1>1 DEF Cancel, LookAt, Expires
<1>2. ASSUME NEW t \in Tabs, NEW j \in DOMAIN jobs, PreauthorizeApply(t, j) \/ PreauthorizeRollback(t, j) PROVE Goal
  BY <1>2 DEF PreauthorizeApply, PreauthorizeRollback, Looked
<1>3. ASSUME NEW t \in Tabs, ConsumeProof(t) \/ GiveUp(t) PROVE Goal
  BY <1>3 DEF ConsumeProof, GiveUp, EndsRequest
<1>4. ASSUME NEW t \in Tabs, Apply(t) PROVE Goal
  <2>1. tab[t].job \in DOMAIN jobs /\ UNCHANGED writes
    BY <1>4 DEF Apply, EndsRequest, MigrationInv, MigrationActors
  <2>2. \/ Expires(tab[t].job) /\ UNCHANGED <<versions, account>>
        \/ jobs' = [jobs EXCEPT ![tab[t].job].status = "pending"] /\ UNCHANGED <<versions, account>>
        \/ SameBase(tab[t].job) /\ Migrate(tab[t].job)
        \/ UNCHANGED <<jobs, versions, account>>
    BY <1>4 DEF Apply
  <2> QED BY <2>1, <2>2 DEF Expires
<1>5. ASSUME NEW t \in Tabs, Rollback(t) PROVE Goal
  <2>1. tab[t].job \in DOMAIN jobs /\ UNCHANGED writes
    BY <1>5 DEF Rollback, EndsRequest, MigrationInv, MigrationActors
  <2> QED BY <1>5, <2>1 DEF Rollback
<1>6. ASSUME NEW p \in Panels, ClaimsOwner(p) \/ FindPending(p) \/ SessionStarts(p) \/ GiveBack(p) \/ SessionEnds(p)
      PROVE  Goal
  BY <1>6 DEF ClaimsOwner, FindPending, SessionStarts, GiveBack, SessionEnds, Step, GivesUp
<1>7. ASSUME NEW p \in Panels, ApplyPending(p) PROVE Goal
  <2>1. starter[p].job \in DOMAIN jobs
    BY <1>7 DEF ApplyPending, MigrationInv, MigrationActors
  <2>2. UNCHANGED writes
    BY <1>7 DEF ApplyPending, GivesUp, Proceeds, Step
  <2>3. \/ Expires(starter[p].job) /\ UNCHANGED <<versions, account>>
        \/ SameBase(starter[p].job) /\ Migrate(starter[p].job)
        \/ UNCHANGED <<jobs, versions, account>>
    BY <1>7 DEF ApplyPending, Applicable
  <2> QED BY <2>1, <2>2, <2>3 DEF Expires
<1> QED BY <1>1, <1>2, <1>3, <1>4, <1>5, <1>6, <1>7 DEF MigrationNext

LEMMA RecordedStep ==
  ASSUME MigrationInv, MigrationNext
  PROVE  Recorded' /\ DOMAIN jobs \subseteq DOMAIN jobs'
<1>1. Recorded
  BY DEF MigrationInv
<1>2. CASE UNCHANGED <<jobs, versions, account, writes>>
  BY <1>1, <1>2 DEF Recorded, MigrationRows, BasesTell, UndosKeep, Displayed
<1> QED BY <1>1, <1>2, TransactionOf, CountStep, PreviewStep, StatusTransaction, MigrateStep, RollbackStep

LEMMA ActorsStep ==
  ASSUME MigrationInv, MigrationNext, DOMAIN jobs \subseteq DOMAIN jobs'
  PROVE  MigrationActors'
<1> DEFINE Starting == [at : {"idle", "claimed", "found", "ready", "running"}, job : Nat]
           Asking == [at : {"idle", "apply", "rollback", "applying", "rolling back"}, job : Nat]
<1>1. /\ starter \in [Panels -> Starting] /\ tab \in [Tabs -> Asking]
      /\ \A p \in Panels : starter[p].at = "found" => starter[p].job \in DOMAIN jobs
      /\ \A t \in Tabs : tab[t].at # "idle" => tab[t].job \in DOMAIN jobs
      /\ DOMAIN jobs \subseteq Nat
  <2>1. DOMAIN jobs \subseteq Nat
    BY MigrationFacts DEF MigrationInv
  <2> QED BY <2>1 DEF MigrationInv, MigrationActors
<1>2. ASSUME NEW p \in Panels, NEW next \in Starting, next.at = "found" => next.job \in DOMAIN jobs,
             starter' = [starter EXCEPT ![p] = next], UNCHANGED tab
      PROVE  MigrationActors'
  BY <1>1, <1>2 DEF MigrationActors
<1>3. ASSUME NEW t \in Tabs, NEW next \in Asking, next.at # "idle" => next.job \in DOMAIN jobs,
             tab' = [tab EXCEPT ![t] = next], UNCHANGED starter
      PROVE  MigrationActors'
  BY <1>1, <1>3 DEF MigrationActors
<1>4. CASE UNCHANGED <<starter, tab>>
  BY <1>1, <1>4 DEF MigrationActors
<1>5. AtRest \in Starting /\ AtRest \in Asking /\ AtRest.at = "idle"
  BY DEF AtRest
<1>6. \A at \in {"claimed", "ready", "running"} :
        [AtRest EXCEPT !.at = at] \in Starting /\ [AtRest EXCEPT !.at = at].at = at
  BY DEF AtRest
<1>7. CASE \/ CountGift \/ SaveConfiguration \/ (\E p \in Packages : Preview(p))
           \/ \E j \in DOMAIN jobs : Cancel(j) \/ LookAt(j)
  BY <1>4, <1>7 DEF CountGift, SaveConfiguration, Preview, Cancel, LookAt
<1>8. ASSUME NEW t \in Tabs, NEW j \in DOMAIN jobs, PreauthorizeApply(t, j) \/ PreauthorizeRollback(t, j)
      PROVE  MigrationActors'
  <2>1. PICK goal \in {"apply", "rollback"} : tab' = [tab EXCEPT ![t] = [at |-> goal, job |-> j]] /\ UNCHANGED starter
    BY <1>8 DEF PreauthorizeApply, PreauthorizeRollback, Looked
  <2>2. [at |-> goal, job |-> j] \in Asking
    BY <1>1
  <2> QED BY <1>3, <2>1, <2>2
<1>9. ASSUME NEW t \in Tabs, ConsumeProof(t) PROVE MigrationActors'
  <2> DEFINE next == [tab[t] EXCEPT !.at = IF @ = "apply" THEN "applying" ELSE "rolling back"]
  <2>1. tab' = [tab EXCEPT ![t] = next] /\ UNCHANGED starter /\ tab[t].at # "idle"
    BY <1>9 DEF ConsumeProof
  <2>2. next \in Asking /\ next.job = tab[t].job
    <3>1. tab[t] \in Asking
      BY <1>1
    <3> QED BY <3>1
  <2> HIDE DEF next
  <2> QED BY <1>1, <1>3, <2>1, <2>2
<1>10. ASSUME NEW t \in Tabs, Apply(t) \/ Rollback(t) \/ GiveUp(t) PROVE MigrationActors'
  <2>1. tab' = [tab EXCEPT ![t] = AtRest] /\ UNCHANGED starter
    BY <1>10 DEF Apply, Rollback, GiveUp, EndsRequest
  <2> QED BY <1>3, <1>5, <2>1
<1>11. ASSUME NEW p \in Panels, FindPending(p) PROVE MigrationActors'
  <2>1. CASE starter' = [starter EXCEPT ![p] = [at |-> "ready", job |-> 0]] /\ UNCHANGED tab
    BY <1>2, <2>1
  <2>2. ASSUME NEW j \in PendingJobs, starter' = [starter EXCEPT ![p] = [at |-> "found", job |-> j]] /\ UNCHANGED tab
        PROVE  MigrationActors'
    <3>1. j \in DOMAIN jobs /\ [at |-> "found", job |-> j] \in Starting
      BY <1>1 DEF PendingJobs
    <3> QED BY <1>2, <2>2, <3>1
  <2> QED BY <1>11, <2>1, <2>2 DEF FindPending, Step
<1>12. ASSUME NEW p \in Panels, ClaimsOwner(p) \/ ApplyPending(p) \/ SessionStarts(p) \/ GiveBack(p) \/ SessionEnds(p)
       PROVE  MigrationActors'
  <2>1. \/ starter' = [starter EXCEPT ![p] = AtRest] /\ UNCHANGED tab
        \/ \E at \in {"claimed", "ready", "running"} :
             starter' = [starter EXCEPT ![p] = [AtRest EXCEPT !.at = at]] /\ UNCHANGED tab
    BY <1>12 DEF ClaimsOwner, ApplyPending, SessionStarts, GiveBack, SessionEnds, Step, GivesUp, Proceeds
  <2> QED BY <1>2, <1>5, <1>6, <2>1
<1> QED BY <1>7, <1>8, <1>9, <1>10, <1>11, <1>12 DEF MigrationNext

LEMMA MigrationStep == ASSUME MigrationInv, [MigrationNext]_migrationVars PROVE MigrationInv'
<1>1. CASE UNCHANGED migrationVars
  BY <1>1 DEF migrationVars, MigrationInv, Recorded, MigrationRows, BasesTell, UndosKeep, Displayed, MigrationActors
<1>2. CASE MigrationNext
  BY <1>2, RecordedStep, ActorsStep DEF MigrationInv
<1> QED BY <1>1, <1>2

LEMMA MigrationInvariant == MigrationSpec => []MigrationInv
<1>1. ASSUME MigrationInit PROVE MigrationInv
  <2>1. jobs = <<>> /\ writes = 0
    BY <1>1 DEF MigrationInit
  <2>2. jobs \in Seq(MigrationJobs) /\ DOMAIN jobs = {}
    BY <2>1
  <2>3. versions \in Seq(Contents) /\ account \in ActiveRows /\ account.active <= Len(versions)
    <3>1. CASE versions = <<>> /\ account = [active |-> 0, revision |-> 0, runtime |-> 0]
      BY <3>1 DEF Contents, ActiveRows
    <3>2. CASE versions = <<0>> /\ account = [active |-> 1, revision |-> 1, runtime |-> 0]
      BY <3>2 DEF Contents, ActiveRows
    <3> QED BY <1>1, <3>1, <3>2 DEF MigrationInit
  <2>4. MigrationActors
    BY <1>1 DEF MigrationInit, MigrationActors, AtRest
  <2> QED BY <2>1, <2>2, <2>3, <2>4 DEF MigrationInv, Recorded, MigrationRows, BasesTell, UndosKeep
<1> QED BY <1>1, MigrationStep, PTL DEF MigrationSpec

\* A migration replaces exactly what its owner was shown, and a rollback undoes its own
\* migration and leads back to what that had replaced (hosted/migration), for any number of
\* packages, requests, processes, gifts and edits.
THEOREM NothingLostByMigration == MigrationSpec => MigrationsLoseNothing
<1>1. ASSUME MigrationInv, [MigrationNext]_migrationVars
      PROVE  [\A j \in DOMAIN jobs :
                /\ Becomes(j, "applied") => Displayed = jobs[j].seen
                /\ Becomes(j, "rolled_back") => Displayed[1] = jobs[j].package /\ Displayed' = jobs[j].replaced]_migrationVars
  <2> SUFFICES ASSUME MigrationNext, NEW j \in DOMAIN jobs
               PROVE  /\ Becomes(j, "applied") => Displayed = jobs[j].seen
                      /\ Becomes(j, "rolled_back") => Displayed[1] = jobs[j].package /\ Displayed' = jobs[j].replaced
    BY <1>1
  <2>1. Recorded /\ jobs \in Seq(MigrationJobs) /\ DOMAIN jobs = 1..Len(jobs) /\ Len(jobs) \in Nat
    BY <1>1, MigrationFacts DEF MigrationInv, Recorded, MigrationRows
  <2>2. CASE CountGift \/ SaveConfiguration \/ UNCHANGED <<jobs, versions, account, writes>>
    BY <2>2 DEF CountGift, SaveConfiguration, Becomes
  <2>3. ASSUME NEW p \in Packages, Preview(p)
        PROVE  ~Becomes(j, "applied") /\ ~Becomes(j, "rolled_back")
    BY <2>1, <2>3, PreviewStep DEF Becomes
  <2>4. ASSUME NEW k \in DOMAIN jobs, NEW status \in {"pending", "expired", "cancelled"},
               jobs' = [jobs EXCEPT ![k].status = status]
        PROVE  ~Becomes(j, "applied") /\ ~Becomes(j, "rolled_back")
    BY <2>1, <2>4, StatusStep DEF Becomes
  <2>5. ASSUME NEW k \in DOMAIN jobs, SameBase(k), Migrate(k)
        PROVE  (Becomes(j, "applied") => Displayed = jobs[j].seen) /\ ~Becomes(j, "rolled_back")
    <3>1. jobs[k].seen = Displayed
      <4>1. jobs[k].base.version = account.active /\ jobs[k].base.revision = account.revision
        BY <2>1, <2>5, MigrationFacts DEF SameBase
      <4>2. account.active = 0 => Displayed = <<>>
        BY DEF Displayed
      <4> QED BY <2>1, <4>1, <4>2 DEF Recorded, BasesTell
    <3>2. CASE j # k
      <4>1. jobs'[j] = jobs[j]
        BY <2>1, <2>5, <3>2 DEF Migrate
      <4> QED BY <4>1 DEF Becomes
    <3>3. CASE j = k
      <4>1. jobs'[j].status = "applied"
        <5> DEFINE row == [jobs[k] EXCEPT !.status = "applied", !.applied = Len(versions'),
                             !.undo = [version |-> account.active, runtime |-> account.runtime], !.replaced = Displayed]
        <5>1. jobs' = [jobs EXCEPT ![k] = row]
          BY <2>5 DEF Migrate
        <5>2. jobs[k] \in MigrationJobs
          BY <2>1, MigrationFacts
        <5>3. row.status = "applied"
          BY <5>2 DEF MigrationJobs
        <5> HIDE DEF row
        <5> QED BY <2>1, <3>3, <5>1, <5>3
      <4> QED BY <3>1, <3>3, <4>1 DEF Becomes
    <3> QED BY <3>2, <3>3
  <2>6. ASSUME NEW k \in DOMAIN jobs, Rollbackable(k), RestoreNothing(k) \/ Restore(k),
               jobs' = [jobs EXCEPT ![k].status = "rolled_back"], UNCHANGED writes
        PROVE  /\ ~Becomes(j, "applied")
               /\ Becomes(j, "rolled_back") => Displayed[1] = jobs[j].package /\ Displayed' = jobs[j].replaced
    <3>1. CASE j = k
      BY <2>1, <2>6, <3>1, RollbackStep, StatusStep DEF Becomes
    <3>2. CASE j # k
      BY <2>1, <2>6, <3>2, StatusStep DEF Becomes
    <3> QED BY <3>1, <3>2
  <2> QED BY <1>1, <2>2, <2>3, <2>4, <2>5, <2>6, TransactionOf
<1> QED BY <1>1, MigrationInvariant, PTL DEF MigrationSpec, MigrationsLoseNothing

-----------------------------------------------------------------------------
(***************************************************************************)
(* The audit trail of an account's rooms.                                  *)
(*                                                                         *)
(* An event is written when its receipt is the last one and the references *)
(* have been synchronized for it.  That the watcher has left the old room  *)
(* rests on two things the rows do not tell: a refresh under way has read  *)
(* the account since its request has the receipt, and while the last       *)
(* receipt is unfinished the account's room stays.                         *)
(***************************************************************************)

Rooms == Targets \cup {NoTarget}
Stages == {"idle", "persists", "refreshes", "advances", "audits", "answered", "refused"}
Phases == {"target_persisted", "references_synced", "audited"}
ReceiptType == [old : Rooms, new : Rooms, phase : Phases]
EventType == [old : Rooms, new : Rooms]
ChangeType == [at : Stages, desired : Rooms, enabled : BOOLEAN, receipt : Nat]
RefreshType == [held : BOOLEAN, read : Rooms]

MutationTypes ==
  /\ streamer \in [enabled : BOOLEAN, target : Rooms]
  /\ receipts \in Seq(ReceiptType)
  /\ trail \in Seq(EventType)
  /\ watched \in Rooms
  /\ refreshing \in [Administrators \cup {Cadence} -> RefreshType]
  /\ change \in [Changers -> ChangeType]
  /\ setbacks \in Nat

\* Whoever works on a receipt has one; only a request that refreshes has the lock.
RequestsHaveReceipts ==
  \A x \in Changers : change[x].at \in {"refreshes", "advances", "audits"} =>
    x \in Administrators /\ change[x].receipt \in DOMAIN receipts

OneRefreshes ==
  \A t, u \in DOMAIN refreshing : refreshing[t].held /\ refreshing[u].held => t = u

\* The rooms that the references may name once the last change has been applied.
Allowed == {streamer.target, NoTarget}

RefreshersReadTheChange ==
  \A t \in Administrators : refreshing[t].held =>
    /\ change[t].at = "refreshes"
    /\ change[t].receipt = Len(receipts) => refreshing[t].read \in Allowed

\* The references have been synchronized since the last receipt was written.
Synchronized ==
  receipts # <<>> /\ \/ Last(receipts).phase \in {"references_synced", "audited"}
                     \/ \E x \in Changers : change[x].at = "advances" /\ change[x].receipt = Len(receipts)

SynchronizedIsCurrent ==
  Synchronized => /\ watched \in Allowed
                  /\ \A t \in DOMAIN refreshing : refreshing[t].held => refreshing[t].read \in Allowed

MutationInv ==
  /\ MutationTypes /\ ChangesFollowEachOther /\ TrailIsComplete
  /\ RequestsHaveReceipts /\ OneRefreshes /\ RefreshersReadTheChange /\ SynchronizedIsCurrent

-----------------------------------------------------------------------------
LEMMA AppendFacts ==
  ASSUME NEW S, NEW s \in Seq(S), NEW e \in S
  PROVE  /\ Append(s, e) \in Seq(S)
         /\ Len(Append(s, e)) = Len(s) + 1
         /\ \A i \in 1 .. Len(s) : Append(s, e)[i] = s[i]
         /\ Append(s, e)[Len(s) + 1] = e
OBVIOUS

LEMMA LastFacts ==
  ASSUME NEW S, NEW s \in Seq(S), s # <<>>
  PROVE  /\ Len(s) \in Nat \ {0} /\ DOMAIN s = 1 .. Len(s)
         /\ Last(s) = s[Len(s)] /\ Last(s) \in S
BY DEF Last

LEMMA MutationStarts == MutationInit => MutationInv
<1> SUFFICES ASSUME MutationInit PROVE MutationInv
  OBVIOUS
<1>1. /\ receipts = <<>> /\ trail = <<>> /\ Len(receipts) = 0 /\ Len(trail) = 0
      /\ DOMAIN receipts = {} /\ DOMAIN trail = {}
  BY DEF MutationInit
<1>2. \A x \in Changers : change[x].at = "idle"
  BY DEF MutationInit, NoChange
<1>3. \A t \in DOMAIN refreshing : ~refreshing[t].held
  BY DEF MutationInit, NoRefresh
<1>4. MutationTypes
  <2>1. streamer \in [enabled : BOOLEAN, target : Rooms] /\ watched \in Rooms
    BY DEF MutationInit, Rooms
  <2>2. receipts \in Seq(ReceiptType) /\ trail \in Seq(EventType) /\ setbacks \in Nat
    BY <1>1 DEF MutationInit
  <2>3. refreshing \in [Administrators \cup {Cadence} -> RefreshType]
    BY DEF MutationInit, NoRefresh, RefreshType, Rooms
  <2>4. change \in [Changers -> ChangeType]
    BY DEF MutationInit, NoChange, ChangeType, Stages, Rooms
  <2> QED BY <2>1, <2>2, <2>3, <2>4 DEF MutationTypes
<1>5. ChangesFollowEachOther /\ TrailIsComplete
  BY <1>1 DEF ChangesFollowEachOther, TrailIsComplete, Underway
<1>6. RequestsHaveReceipts /\ OneRefreshes
  BY <1>2, <1>3 DEF RequestsHaveReceipts, OneRefreshes
<1>7. RefreshersReadTheChange
  BY <1>3 DEF RefreshersReadTheChange, MutationInit
<1>8. SynchronizedIsCurrent
  BY <1>1 DEF SynchronizedIsCurrent, Synchronized
<1> QED BY <1>4, <1>5, <1>6, <1>7, <1>8 DEF MutationInv

-----------------------------------------------------------------------------
(* Types. *)

\* A receipt moves on to another phase.
LEMMA PhaseFacts ==
  ASSUME NEW s \in Seq(ReceiptType), NEW i \in DOMAIN s, NEW p \in Phases
  PROVE  LET r == [s EXCEPT ![i].phase = p]
         IN  /\ r \in Seq(ReceiptType) /\ Len(r) = Len(s) /\ DOMAIN r = DOMAIN s
             /\ \A j \in DOMAIN s \ {i} : r[j] = s[j]
             /\ r[i].phase = p /\ r[i].old = s[i].old /\ r[i].new = s[i].new
<1> DEFINE e == [s[i] EXCEPT !.phase = p]
           r == [s EXCEPT ![i] = e]
<1>1. s[i] \in ReceiptType
  OBVIOUS
<1>2. e \in ReceiptType /\ e.phase = p /\ e.old = s[i].old /\ e.new = s[i].new
  BY <1>1 DEF ReceiptType, Phases
<1>3. [s EXCEPT ![i].phase = p] = r
  OBVIOUS
<1> HIDE DEF e
<1>4. r \in Seq(ReceiptType) /\ Len(r) = Len(s) /\ DOMAIN r = DOMAIN s
      /\ (\A j \in DOMAIN s \ {i} : r[j] = s[j]) /\ r[i] = e
  BY <1>2
<1> HIDE DEF r
<1> QED BY <1>2, <1>3, <1>4

LEMMA MoveType ==
  ASSUME change \in [Changers -> ChangeType], NEW x \in Changers, NEW to \in Stages
  PROVE  /\ Goes(x, to) => change' \in [Changers -> ChangeType]
         /\ Leaves(x) => change' \in [Changers -> ChangeType]
<1>1. NoChange \in ChangeType
  BY DEF NoChange, ChangeType, Stages, Rooms
<1>2. [change[x] EXCEPT !.at = to] \in ChangeType
  BY DEF ChangeType
<1>3. Goes(x, to) => change' = [change EXCEPT ![x] = [change[x] EXCEPT !.at = to]]
  BY DEF Goes
<1> QED BY <1>1, <1>2, <1>3 DEF Leaves

LEMMA RequestsKeepTypes ==
  ASSUME MutationTypes, NEW x \in Changers, NEW to \in Stages,
         Committed(x, to) \/ (Goes(x, to) /\ UNCHANGED setbacks)
                          \/ (Leaves(x) /\ (SetBack \/ UNCHANGED setbacks))
  PROVE  /\ change' \in [Changers -> ChangeType]
         /\ setbacks' \in Nat
<1>1. setbacks' \in Nat
  BY DEF MutationTypes, Committed, SetBack
<1>2. change' \in [Changers -> ChangeType]
  BY MoveType DEF MutationTypes, Committed
<1> QED BY <1>1, <1>2

LEMMA MutationKeepsTypes ==
  ASSUME MutationTypes, RequestsHaveReceipts, MutationNext
  PROVE  MutationTypes'
<1> DEFINE Changing == [Changers -> ChangeType]
           Refreshing == [Administrators \cup {Cadence} -> RefreshType]
<1>1. ASSUME NEW x \in Changers, RequestFails(x) PROVE MutationTypes'
  <2>1. change' \in Changing /\ setbacks' \in Nat
    BY <1>1, RequestsKeepTypes DEF RequestFails, Stages
  <2>2. refreshing' \in Refreshing
    BY <1>1 DEF RequestFails, MutationTypes, NoRefresh, RefreshType, Rooms
  <2> QED BY <1>1, <2>1, <2>2 DEF RequestFails, MutationTypes
<1>2. ASSUME NEW x \in Changers, AsksForRoom(x) PROVE MutationTypes'
  <2>1. PICK room \in Targets :
          change' = [change EXCEPT ![x] = [NoChange EXCEPT
                       !.at = "persists", !.desired = room, !.enabled = streamer.enabled]]
    BY <1>2 DEF AsksForRoom
  <2>2. [NoChange EXCEPT !.at = "persists", !.desired = room, !.enabled = streamer.enabled]
          \in ChangeType
    BY DEF NoChange, ChangeType, Stages, Rooms, MutationTypes
  <2> QED BY <1>2, <2>1, <2>2 DEF AsksForRoom, MutationTypes
<1>3. ASSUME NEW x \in Changers, PersistsTarget(x) PROVE MutationTypes'
  <2>1. NewReceipt(x) \in ReceiptType
    BY DEF NewReceipt, ReceiptType, Phases, ChangeType, MutationTypes
  <2>2. receipts' \in Seq(ReceiptType) /\ Len(receipts') \in Nat
    BY <1>3, <2>1, AppendFacts DEF PersistsTarget, MutationTypes
  <2>3. streamer' \in [enabled : BOOLEAN, target : Rooms]
    BY <1>3 DEF PersistsTarget, ChangeType, MutationTypes
  <2>4. AfterReceipt(x, NewReceipt(x)) \in Stages
    BY DEF AfterReceipt, Stages
  <2>5. change' \in Changing /\ setbacks' \in Nat
    <3>1. CASE Leaves(x) /\ SetBack
      BY <3>1, RequestsKeepTypes DEF Stages
    <3>2. CASE ~(Leaves(x) /\ SetBack)
      <4>1. PICK at \in Stages, n \in Nat :
              change' = [change EXCEPT ![x] = [change[x] EXCEPT !.at = at, !.receipt = n]]
        <5>1. change' = [change EXCEPT ![x].at = AfterReceipt(x, NewReceipt(x)),
                                       ![x].receipt = Len(receipts')]
          BY <1>3, <3>2 DEF PersistsTarget
        <5> QED BY <2>2, <2>4, <5>1
      <4>2. [change[x] EXCEPT !.at = at, !.receipt = n] \in ChangeType
        BY DEF MutationTypes, ChangeType
      <4>3. UNCHANGED setbacks
        BY <1>3, <3>2 DEF PersistsTarget
      <4> QED BY <4>1, <4>2, <4>3 DEF MutationTypes
    <3> QED BY <3>1, <3>2
  <2> QED BY <1>3, <2>2, <2>3, <2>5 DEF PersistsTarget, MutationTypes
<1>4. ASSUME NEW x \in Changers, AnswersReceipt(x) PROVE MutationTypes'
  <2>1. AfterReceipt(x, Last(receipts)) \in Stages /\ Len(receipts) \in Nat
    BY DEF AfterReceipt, Stages, MutationTypes
  <2>2. PICK at \in Stages, n \in Nat :
          change' = [change EXCEPT ![x] = [change[x] EXCEPT !.at = at, !.receipt = n]]
    BY <1>4, <2>1 DEF AnswersReceipt
  <2>3. [change[x] EXCEPT !.at = at, !.receipt = n] \in ChangeType
    BY DEF MutationTypes, ChangeType
  <2> QED BY <1>4, <2>2, <2>3 DEF AnswersReceipt, MutationTypes
<1>5. ASSUME NEW x \in Changers, RefusesChange(x) \/ FindsAccountChanged(x) \/ HasAnswer(x)
      PROVE  MutationTypes'
  <2>1. change' \in Changing /\ setbacks' \in Nat
    BY <1>5, RequestsKeepTypes DEF RefusesChange, FindsAccountChanged, HasAnswer, Stages
  <2> QED BY <1>5, <2>1 DEF RefusesChange, FindsAccountChanged, HasAnswer, MutationTypes
<1>6. ASSUME NEW x \in Administrators, AdvancesReceipt(x) PROVE MutationTypes'
  <2>1. x \in Changers /\ change[x].receipt \in DOMAIN receipts
    BY <1>6 DEF AdvancesReceipt, RequestsHaveReceipts, Changers
  <2>2. change' \in Changing /\ setbacks' \in Nat
    BY <1>6, <2>1, RequestsKeepTypes DEF AdvancesReceipt, Stages
  <2>3. receipts' \in Seq(ReceiptType)
    BY <1>6, <2>1, PhaseFacts DEF AdvancesReceipt, MutationTypes, Phases
  <2> QED BY <1>6, <2>2, <2>3 DEF AdvancesReceipt, MutationTypes
<1>7. ASSUME NEW x \in Administrators, AuditsChange(x) PROVE MutationTypes'
  <2>1. x \in Changers /\ change[x].receipt \in DOMAIN receipts
    BY <1>7 DEF AuditsChange, RequestsHaveReceipts, Changers
  <2>2. change' \in Changing /\ setbacks' \in Nat
    BY <1>7, <2>1, RequestsKeepTypes DEF AuditsChange, Stages
  <2>3. receipts' \in Seq(ReceiptType)
    <3>1. \/ receipts' = receipts
          \/ receipts' = [receipts EXCEPT ![change[x].receipt].phase = "audited"]
      BY <1>7 DEF AuditsChange, Audited
    <3>2. receipts \in Seq(ReceiptType) /\ "audited" \in Phases
      BY DEF MutationTypes, Phases
    <3>3. [receipts EXCEPT ![change[x].receipt].phase = "audited"] \in Seq(ReceiptType)
      BY <2>1, <3>2, PhaseFacts
    <3> QED BY <3>1, <3>2, <3>3
  <2>4. [old |-> Receipt(x).old, new |-> Receipt(x).new] \in EventType
    <3>1. Receipt(x) \in ReceiptType
      BY <2>1 DEF Receipt, MutationTypes
    <3> QED BY <3>1 DEF ReceiptType, EventType
  <2>5. trail' \in Seq(EventType)
    <3>1. \/ trail' = trail
          \/ trail' = Append(trail, [old |-> Receipt(x).old, new |-> Receipt(x).new])
      BY <1>7 DEF AuditsChange, Audited
    <3> QED BY <2>4, <3>1, AppendFacts DEF MutationTypes
  <2> QED BY <1>7, <2>2, <2>3, <2>5 DEF AuditsChange, MutationTypes
<1>8. ASSUME NEW t \in DOMAIN refreshing, ReadsReferences(t) PROVE MutationTypes'
  <2>1. [held |-> TRUE, read |-> IF streamer.enabled THEN streamer.target ELSE NoTarget] \in RefreshType
    BY DEF RefreshType, MutationTypes, Rooms
  <2> QED BY <1>8, <2>1 DEF ReadsReferences, MutationTypes
<1>9. ASSUME NEW t \in DOMAIN refreshing, SyncsReferences(t) PROVE MutationTypes'
  <2>1. t \in Administrators \cup {Cadence}
    BY DEF MutationTypes
  <2>2. change' \in Changing /\ setbacks' \in Nat
    <3>1. CASE t = Cadence
      BY <1>9, <3>1 DEF SyncsReferences, MutationTypes
    <3>2. CASE t # Cadence
      BY <1>9, <2>1, <3>2, RequestsKeepTypes DEF SyncsReferences, Changers, Stages
    <3> QED BY <3>1, <3>2
  <2>3. watched' \in Rooms /\ refreshing' \in Refreshing
    BY <1>9, <2>1 DEF SyncsReferences, MutationTypes, NoRefresh, RefreshType, Rooms
  <2> QED BY <1>9, <2>2, <2>3 DEF SyncsReferences, MutationTypes
<1>10. ASSUME CadenceRefreshFails PROVE MutationTypes'
  BY <1>10 DEF CadenceRefreshFails, MutationTypes, NoRefresh, RefreshType, Rooms
<1>11. ASSUME TogglesAccount PROVE MutationTypes'
  <2>1. setbacks' \in Nat
    BY <1>11 DEF TogglesAccount, SetBack, MutationTypes
  <2>2. streamer' \in [enabled : BOOLEAN, target : Rooms]
    <3> DEFINE on == ~streamer.enabled
    <3>1. on \in BOOLEAN
      BY Zenon
    <3>2. streamer' = [streamer EXCEPT !.enabled = on]
      BY <1>11 DEF TogglesAccount
    <3> HIDE DEF on
    <3> QED BY <3>1, <3>2 DEF MutationTypes
  <2> QED BY <1>11, <2>1, <2>2 DEF TogglesAccount, MutationTypes
<1>12. ASSUME ServerStops PROVE MutationTypes'
  <2>1. NoChange \in ChangeType /\ NoRefresh \in RefreshType
    BY DEF NoChange, NoRefresh, ChangeType, RefreshType, Stages, Rooms
  <2> QED BY <1>12, <2>1 DEF ServerStops, SetBack, MutationTypes
<1> QED
  BY <1>1, <1>2, <1>3, <1>4, <1>5, <1>6, <1>7, <1>8, <1>9, <1>10, <1>11, <1>12 DEF MutationNext

-----------------------------------------------------------------------------
(* The steps that leave the rows of the change alone.                      *)

LEMMA OnlyRefreshersHold ==
  ASSUME MutationInv, NEW x \in Changers, change[x].at # "refreshes", x \in DOMAIN refreshing
  PROVE  ~refreshing[x].held
<1>1. x \in Administrators
  BY MutationAssumption DEF MutationAssumption, MutationInv, MutationTypes, Changers
<1> QED BY <1>1 DEF MutationInv, RefreshersReadTheChange

\* Receipts, trail and watcher stay; no request gets a receipt that is not there, and
\* nobody takes the lock or comes to "advances".
LEMMA QuietStep ==
  ASSUME MutationInv, MutationTypes', UNCHANGED <<receipts, trail, watched>>,
         streamer'.target = streamer.target, RequestsHaveReceipts',
         \A t \in DOMAIN refreshing :
           refreshing'[t].held => refreshing[t].held /\ refreshing'[t] = refreshing[t],
         \A t \in Administrators : refreshing'[t].held => change'[t] = change[t],
         \A x \in Changers : change'[x].at = "advances" => change'[x] = change[x]
  PROVE  MutationInv'
<1>1. DOMAIN refreshing' = DOMAIN refreshing /\ Administrators \subseteq DOMAIN refreshing
  BY DEF MutationInv, MutationTypes
<1>2. Underway' = Underway /\ Allowed' = Allowed
  BY DEF Underway, Allowed
<1>3. ChangesFollowEachOther' /\ TrailIsComplete'
  BY <1>2 DEF MutationInv, ChangesFollowEachOther, TrailIsComplete
<1>4. OneRefreshes'
  BY <1>1 DEF MutationInv, OneRefreshes
<1>5. RefreshersReadTheChange'
  BY <1>1, <1>2 DEF MutationInv, RefreshersReadTheChange
<1>6. Synchronized' => Synchronized
  BY DEF Synchronized
<1>7. SynchronizedIsCurrent'
  BY <1>1, <1>2, <1>6 DEF MutationInv, SynchronizedIsCurrent
<1> QED BY <1>3, <1>4, <1>5, <1>7 DEF MutationInv

\* A request that is not refreshing goes on, without coming to "advances".
LEMMA RequestGoesOn ==
  ASSUME MutationInv, MutationTypes', UNCHANGED <<streamer, receipts, trail, watched, refreshing>>,
         NEW x \in Changers, change[x].at # "refreshes",
         \A y \in Changers \ {x} : change'[y] = change[y],
         change'[x].at # "advances",
         change'[x].at \in {"refreshes", "audits"} =>
           x \in Administrators /\ change'[x].receipt \in DOMAIN receipts
  PROVE  MutationInv'
<1>1. RequestsHaveReceipts'
  BY DEF MutationInv, RequestsHaveReceipts
<1>2. ASSUME NEW t \in Administrators, refreshing'[t].held
      PROVE  change'[t] = change[t]
  <2>1. t \in Changers /\ t \in DOMAIN refreshing
    BY DEF Changers, MutationInv, MutationTypes
  <2>2. t # x
    BY <1>2, <2>1, OnlyRefreshersHold
  <2> QED BY <2>1, <2>2
<1>3. \A y \in Changers : change'[y].at = "advances" => change'[y] = change[y]
  OBVIOUS
<1>4. \A t \in DOMAIN refreshing :
        refreshing'[t].held => refreshing[t].held /\ refreshing'[t] = refreshing[t]
  OBVIOUS
<1> QED BY <1>1, <1>2, <1>3, <1>4, QuietStep

LEMMA QuietSteps ==
  ASSUME MutationInv, MutationTypes',
         \/ \E x \in Changers : \/ AsksForRoom(x) \/ AnswersReceipt(x) \/ RefusesChange(x)
                                 \/ FindsAccountChanged(x) \/ HasAnswer(x) \/ RequestFails(x)
         \/ CadenceRefreshFails \/ TogglesAccount \/ ServerStops
  PROVE  MutationInv'
<1>0. /\ DOMAIN refreshing = Administrators \cup {Cadence}
      /\ Changers \subseteq DOMAIN change /\ Cadence \notin Changers
      /\ change \in [Changers -> ChangeType] /\ receipts \in Seq(ReceiptType)
  BY MutationAssumption DEF MutationAssumption, MutationInv, MutationTypes, Changers
<1>1. ASSUME NEW x \in Changers, AsksForRoom(x) PROVE MutationInv'
  <2>1. /\ UNCHANGED <<receipts, trail, watched, streamer, refreshing>>
        /\ change[x].at = "idle" /\ change'[x].at = "persists"
        /\ \A y \in Changers \ {x} : change'[y] = change[y]
    <3>1. PICK room \in Targets :
            change' = [change EXCEPT ![x] = [NoChange EXCEPT
                         !.at = "persists", !.desired = room, !.enabled = streamer.enabled]]
      BY <1>1 DEF AsksForRoom
    <3> QED BY <1>0, <1>1, <3>1 DEF AsksForRoom, NoChange
  <2> QED BY <2>1, RequestGoesOn
<1>2. ASSUME NEW x \in Changers, AnswersReceipt(x) PROVE MutationInv'
  <2>1. /\ UNCHANGED <<receipts, trail, watched, streamer, refreshing>>
        /\ change[x].at = "persists"
        /\ change'[x].at = AfterReceipt(x, Last(receipts)) /\ change'[x].receipt = Len(receipts)
        /\ \A y \in Changers \ {x} : change'[y] = change[y]
    BY <1>0, <1>2 DEF AnswersReceipt, ChangeType
  <2>2. Len(receipts) \in DOMAIN receipts
    BY <1>0, <1>2, LastFacts DEF AnswersReceipt, Repeats
  <2>3. change'[x].at # "advances" /\ (change'[x].at # "answered" => x \in Administrators)
    BY <2>1 DEF AfterReceipt, Changers
  <2> QED BY <2>1, <2>2, <2>3, RequestGoesOn
<1>3. ASSUME NEW x \in Changers, RefusesChange(x) \/ FindsAccountChanged(x) \/ HasAnswer(x)
      PROVE  MutationInv'
  <2>1. /\ UNCHANGED <<receipts, trail, watched, streamer, refreshing>>
        /\ change[x].at \in {"persists", "answered", "refused"}
        /\ change'[x].at \in {"refused", "idle"}
        /\ \A y \in Changers \ {x} : change'[y] = change[y]
    BY <1>0, <1>3 DEF RefusesChange, FindsAccountChanged, HasAnswer, Goes, Leaves, NoChange, ChangeType
  <2> QED BY <2>1, RequestGoesOn
<1>4. ASSUME NEW x \in Changers, RequestFails(x) PROVE MutationInv'
  <2>1. /\ UNCHANGED <<receipts, trail, watched, streamer>>
        /\ change'[x].at = "idle" /\ \A y \in Changers \ {x} : change'[y] = change[y]
        /\ \A t \in DOMAIN refreshing :
              refreshing'[t].held => t # x /\ refreshing'[t] = refreshing[t]
    BY <1>0, <1>4 DEF RequestFails, Leaves, NoChange, NoRefresh
  <2> QED BY <2>1, QuietStep, <1>0 DEF MutationInv, RequestsHaveReceipts, Changers
<1>5. CASE CadenceRefreshFails
  <2>1. /\ UNCHANGED <<receipts, trail, watched, streamer, change>>
        /\ \A t \in DOMAIN refreshing : refreshing'[t].held => refreshing'[t] = refreshing[t]
    BY <1>5 DEF CadenceRefreshFails, NoRefresh
  <2> QED BY <2>1, QuietStep DEF MutationInv, RequestsHaveReceipts
<1>6. CASE TogglesAccount
  <2>1. /\ UNCHANGED <<receipts, trail, watched, refreshing, change>>
        /\ streamer'.target = streamer.target
    BY <1>6 DEF TogglesAccount, MutationInv, MutationTypes
  <2> QED BY <2>1, QuietStep DEF MutationInv, RequestsHaveReceipts
<1>7. CASE ServerStops
  <2>1. /\ UNCHANGED <<receipts, trail, watched, streamer>>
        /\ \A x \in Changers : change'[x].at = "idle"
        /\ \A t \in DOMAIN refreshing : ~refreshing'[t].held
    BY <1>7 DEF ServerStops, NoChange, NoRefresh
  <2> QED BY <2>1, <1>0, QuietStep DEF MutationInv, RequestsHaveReceipts, Changers
<1> QED BY <1>1, <1>2, <1>3, <1>4, <1>5, <1>6, <1>7

-----------------------------------------------------------------------------
(* The steps of the lock, and those that write the rows.                   *)

LEMMA ReadsStep ==
  ASSUME MutationInv, MutationTypes', NEW t \in DOMAIN refreshing, ReadsReferences(t)
  PROVE  MutationInv'
<1>1. /\ UNCHANGED <<streamer, receipts, trail, watched, change>>
      /\ \A u \in DOMAIN refreshing : ~refreshing[u].held
      /\ refreshing' = [refreshing EXCEPT ![t] =
           [held |-> TRUE, read |-> IF streamer.enabled THEN streamer.target ELSE NoTarget]]
      /\ t # Cadence => change[t].at = "refreshes"
  BY DEF ReadsReferences, ReferencesAreFree
<1>2. DOMAIN refreshing' = DOMAIN refreshing /\ refreshing'[t].read \in Allowed
      /\ \A u \in DOMAIN refreshing : refreshing'[u].held => u = t
  BY <1>1 DEF Allowed
<1>3. Underway' = Underway /\ Allowed' = Allowed /\ Synchronized' = Synchronized
  BY <1>1 DEF Underway, Allowed, Synchronized
<1>4. ChangesFollowEachOther' /\ TrailIsComplete' /\ RequestsHaveReceipts'
  BY <1>1, <1>3 DEF MutationInv, ChangesFollowEachOther, TrailIsComplete, RequestsHaveReceipts
<1>5. OneRefreshes'
  BY <1>2 DEF OneRefreshes
<1>6. Administrators \subseteq DOMAIN refreshing /\ Cadence \notin Administrators
  BY MutationAssumption DEF MutationAssumption, MutationInv, MutationTypes
<1>7. RefreshersReadTheChange'
  BY <1>1, <1>2, <1>3, <1>6 DEF RefreshersReadTheChange
<1>8. SynchronizedIsCurrent'
  BY <1>1, <1>2, <1>3 DEF MutationInv, SynchronizedIsCurrent
<1> QED BY <1>4, <1>5, <1>7, <1>8 DEF MutationInv

LEMMA SyncsStep ==
  ASSUME MutationInv, MutationTypes', NEW t \in DOMAIN refreshing, SyncsReferences(t)
  PROVE  MutationInv'
<1>0. /\ DOMAIN refreshing = Administrators \cup {Cadence}
      /\ Administrators \subseteq Changers /\ change \in [Changers -> ChangeType]
      /\ Cadence \notin Changers
  BY MutationAssumption DEF MutationAssumption, MutationInv, MutationTypes, Changers
<1>1. /\ UNCHANGED <<streamer, receipts, trail>> /\ refreshing[t].held
      /\ watched' = refreshing[t].read /\ refreshing' = [refreshing EXCEPT ![t] = NoRefresh]
  BY DEF SyncsReferences
<1>2. \A u \in DOMAIN refreshing : ~refreshing'[u].held
  BY <1>1 DEF MutationInv, OneRefreshes, NoRefresh
<1>3. DOMAIN refreshing' = DOMAIN refreshing
  BY <1>1
<1>4. Underway' = Underway /\ Allowed' = Allowed
  BY <1>1 DEF Underway, Allowed
<1>5. /\ \A x \in Changers \ {t} : change'[x] = change[x]
      /\ t # Cadence => \/ change'[t].at = "idle"
                         \/ /\ change'[t].at = "advances"
                            /\ change'[t].receipt = change[t].receipt
  <2>1. CASE t = Cadence
    BY <1>0, <1>1, <2>1 DEF SyncsReferences
  <2>2. CASE t # Cadence
    <3>1. t \in Changers /\ Committed(t, "advances")
      BY <1>0, <2>2 DEF SyncsReferences
    <3> QED BY <1>0, <3>1 DEF Committed, Goes, Leaves, NoChange, ChangeType
  <2> QED BY <2>1, <2>2
<1>6. ChangesFollowEachOther' /\ TrailIsComplete'
  BY <1>1, <1>4 DEF MutationInv, ChangesFollowEachOther, TrailIsComplete
<1>7. t # Cadence => t \in Administrators /\ change[t].at = "refreshes"
  BY <1>0, <1>1 DEF MutationInv, RefreshersReadTheChange
<1>8. RequestsHaveReceipts'
  BY <1>0, <1>1, <1>5, <1>7 DEF MutationInv, RequestsHaveReceipts
<1>9. OneRefreshes' /\ RefreshersReadTheChange'
  BY <1>0, <1>2, <1>3 DEF OneRefreshes, RefreshersReadTheChange
<1>10. SynchronizedIsCurrent'
  <2> SUFFICES ASSUME Synchronized' PROVE watched' \in Allowed
    BY <1>2, <1>3, <1>4 DEF SynchronizedIsCurrent
  <2>1. CASE Synchronized
    BY <1>1, <2>1 DEF MutationInv, SynchronizedIsCurrent
  <2>2. CASE ~Synchronized
    <3>1. t # Cadence /\ change'[t].at = "advances" /\ change[t].receipt = Len(receipts)
      BY <1>0, <1>1, <1>5, <2>2 DEF Synchronized
    <3> QED BY <1>1, <1>7, <3>1 DEF MutationInv, RefreshersReadTheChange
  <2> QED BY <2>1, <2>2
<1> QED BY <1>6, <1>8, <1>9, <1>10 DEF MutationInv

\* A receipt that is not the last is audited.
LEMMA OnlyTheLastIsUnaudited ==
  ASSUME MutationInv, NEW i \in DOMAIN receipts, receipts[i].phase # "audited"
  PROVE  /\ i = Len(receipts) /\ receipts # <<>> /\ Last(receipts) = receipts[i] /\ Underway
<1>1. i = Len(receipts)
  BY DEF MutationInv, ChangesFollowEachOther
<1>2. receipts # <<>> /\ Last(receipts) = receipts[i]
  BY <1>1, LastFacts DEF MutationInv, MutationTypes
<1> QED BY <1>1, <1>2 DEF Underway

\* A step of a request that leaves "advances" or "audits", with the last receipt's
\* phase moved on or not.
LEMMA ReceiptMovesOn ==
  ASSUME MutationInv, MutationTypes', UNCHANGED <<streamer, watched, refreshing>>,
         NEW x \in Administrators, change[x].at \in {"advances", "audits"},
         \A y \in Changers \ {x} : change'[y] = change[y],
         change'[x].at \in {"idle", "audits", "answered"},
         change'[x].at = "audits" => change'[x].receipt = change[x].receipt,
         ChangesFollowEachOther', TrailIsComplete', Len(receipts') = Len(receipts),
         DOMAIN receipts' = DOMAIN receipts, Synchronized' => Synchronized
  PROVE  MutationInv'
<1>0. /\ DOMAIN refreshing = Administrators \cup {Cadence} /\ x \in Changers
      /\ Administrators \subseteq Changers
  BY DEF MutationInv, MutationTypes, Changers
<1>1. Allowed' = Allowed
  BY DEF Allowed
<1>2. RequestsHaveReceipts'
  BY DEF MutationInv, RequestsHaveReceipts
<1>3. \A t \in Administrators : refreshing[t].held => change'[t] = change[t]
  BY <1>0, OnlyRefreshersHold
<1>4. OneRefreshes' /\ RefreshersReadTheChange'
  BY <1>0, <1>1, <1>3 DEF MutationInv, OneRefreshes, RefreshersReadTheChange
<1>5. SynchronizedIsCurrent'
  BY <1>1 DEF MutationInv, SynchronizedIsCurrent
<1> QED BY <1>2, <1>4, <1>5 DEF MutationInv

LEMMA AdvancesStep ==
  ASSUME MutationInv, MutationTypes', NEW x \in Administrators, AdvancesReceipt(x)
  PROVE  MutationInv'
<1>0. PICK i : i = change[x].receipt
  OBVIOUS
<1>1. /\ x \in Changers /\ i \in DOMAIN receipts /\ receipts \in Seq(ReceiptType)
      /\ change \in [Changers -> ChangeType] /\ change[x].at = "advances"
      /\ UNCHANGED <<streamer, trail, watched, refreshing>>
  BY <1>0 DEF AdvancesReceipt, MutationInv, MutationTypes, RequestsHaveReceipts, Changers
<1>2. /\ \A y \in Changers \ {x} : change'[y] = change[y]
      /\ change'[x].at \in {"idle", "audits"}
      /\ change'[x].at = "audits" => change'[x].receipt = i
  BY <1>0, <1>1 DEF AdvancesReceipt, Committed, Goes, Leaves, NoChange, ChangeType
<1>3. receipts[i] \in ReceiptType /\ receipts[i].phase \in Phases
  <2>1. receipts[i] \in ReceiptType
    BY <1>1
  <2> QED BY <2>1 DEF ReceiptType
<1>4. CASE receipts' = receipts
  <2>1. Underway' = Underway /\ (Synchronized' => Synchronized)
    BY <1>0, <1>1, <1>2, <1>4 DEF Underway, Synchronized
  <2>2. ChangesFollowEachOther' /\ TrailIsComplete'
    BY <1>1, <1>4, <2>1 DEF MutationInv, ChangesFollowEachOther, TrailIsComplete
  <2> QED BY <1>1, <1>2, <1>4, <2>1, <2>2, ReceiptMovesOn, <1>0
<1>5. CASE /\ receipts[i].phase = "target_persisted"
           /\ receipts' = [receipts EXCEPT ![i].phase = "references_synced"]
  <2>1. i = Len(receipts) /\ receipts # <<>> /\ Underway
    BY <1>1, <1>5, OnlyTheLastIsUnaudited
  <2>2. /\ receipts' \in Seq(ReceiptType) /\ Len(receipts') = Len(receipts)
        /\ DOMAIN receipts' = DOMAIN receipts
        /\ \A j \in DOMAIN receipts \ {i} : receipts'[j] = receipts[j]
        /\ receipts'[i].phase = "references_synced"
        /\ receipts'[i].old = receipts[i].old /\ receipts'[i].new = receipts[i].new
    <3>1. "references_synced" \in Phases
      BY DEF Phases
    <3> QED BY <1>1, <1>5, <3>1, PhaseFacts
  <2>3. receipts' # <<>> /\ Last(receipts') = receipts'[i] /\ Underway'
    BY <2>1, <2>2, LastFacts DEF Underway
  <2>4. ChangesFollowEachOther'
    BY <1>1, <2>1, <2>2, LastFacts DEF MutationInv, ChangesFollowEachOther
  <2>5. TrailIsComplete'
    <3>1. \A j \in DOMAIN trail : j \in DOMAIN receipts
      BY <1>1, <2>1, LastFacts DEF MutationInv, MutationTypes, TrailIsComplete
    <3> QED BY <1>1, <2>1, <2>2, <2>3, <3>1 DEF MutationInv, TrailIsComplete
  <2>6. Synchronized
    BY <1>0, <1>1, <2>1 DEF Synchronized
  <2> QED BY <1>1, <1>2, <2>2, <2>4, <2>5, <2>6, ReceiptMovesOn, <1>0
<1> QED BY <1>0, <1>3, <1>4, <1>5 DEF AdvancesReceipt, Receipt, Rank, Phases

LEMMA AuditsStep ==
  ASSUME MutationInv, MutationTypes', NEW x \in Administrators, AuditsChange(x)
  PROVE  MutationInv'
<1>0. PICK i : i = change[x].receipt
  OBVIOUS
<1> DEFINE event == [old |-> receipts[i].old, new |-> receipts[i].new]
<1>1. /\ x \in Changers /\ i \in DOMAIN receipts /\ receipts \in Seq(ReceiptType)
      /\ change \in [Changers -> ChangeType] /\ change[x].at = "audits"
      /\ UNCHANGED <<streamer, watched, refreshing>> /\ Audited(x)
  BY <1>0 DEF AuditsChange, MutationInv, MutationTypes, RequestsHaveReceipts, Changers
<1>2. /\ \A y \in Changers \ {x} : change'[y] = change[y]
      /\ change'[x].at \in {"idle", "answered"}
  BY <1>1 DEF AuditsChange, Committed, Goes, Leaves, NoChange, ChangeType
<1>3. CASE UNCHANGED <<trail, receipts>>
  <2>1. Underway' = Underway /\ (Synchronized' => Synchronized)
    BY <1>0, <1>1, <1>2, <1>3 DEF Underway, Synchronized
  <2>2. ChangesFollowEachOther' /\ TrailIsComplete'
    BY <1>1, <1>3, <2>1 DEF MutationInv, ChangesFollowEachOther, TrailIsComplete
  <2> QED BY <1>1, <1>2, <1>3, <2>1, <2>2, ReceiptMovesOn, <1>0
<1>4. CASE /\ receipts[i].phase = "references_synced" /\ trail' = Append(trail, event)
           /\ receipts' = [receipts EXCEPT ![i].phase = "audited"]
  <2>1. /\ i = Len(receipts) /\ receipts # <<>> /\ Last(receipts) = receipts[i]
        /\ Underway /\ Len(receipts) \in Nat \ {0} /\ DOMAIN receipts = 1 .. Len(receipts)
    BY <1>1, <1>4, OnlyTheLastIsUnaudited, LastFacts
  <2>2. /\ receipts' \in Seq(ReceiptType) /\ Len(receipts') = Len(receipts)
        /\ DOMAIN receipts' = DOMAIN receipts
        /\ \A j \in DOMAIN receipts \ {i} : receipts'[j] = receipts[j]
        /\ receipts'[i].phase = "audited"
        /\ receipts'[i].old = receipts[i].old /\ receipts'[i].new = receipts[i].new
    <3>1. "audited" \in Phases
      BY DEF Phases
    <3> QED BY <1>1, <1>4, <3>1, PhaseFacts
  <2>3. receipts' # <<>> /\ Last(receipts') = receipts'[i] /\ ~Underway'
    BY <2>1, <2>2, LastFacts DEF Underway
  <2>4. ChangesFollowEachOther'
    BY <1>1, <2>1, <2>2 DEF MutationInv, ChangesFollowEachOther
  <2>5. TrailIsComplete'
    <3>1. Len(trail) = Len(receipts) - 1 /\ trail \in Seq(EventType)
      BY <2>1 DEF MutationInv, MutationTypes, TrailIsComplete
    <3>2. event \in EventType
      <4>1. receipts[i] \in ReceiptType
        BY <1>1
      <4> QED BY <4>1 DEF ReceiptType, EventType
    <3>3. /\ trail' \in Seq(EventType) /\ Len(trail') = Len(receipts)
          /\ \A j \in 1 .. Len(receipts) - 1 : trail'[j] = trail[j]
          /\ trail'[Len(receipts)] = event
      <4> HIDE DEF event
      <4>1. Len(trail) + 1 = Len(receipts)
        BY <2>1, <3>1
      <4> QED BY <1>4, <3>1, <3>2, <4>1, AppendFacts
    <3>4. DOMAIN trail = 1 .. Len(receipts) - 1 /\ DOMAIN trail' = 1 .. Len(receipts)
      BY <3>1, <3>3
    <3>5. \A j \in 1 .. Len(receipts) - 1 :
            trail'[j] = [old |-> receipts'[j].old, new |-> receipts'[j].new]
      <4> SUFFICES ASSUME NEW j \in 1 .. Len(receipts) - 1
                   PROVE  trail'[j] = [old |-> receipts'[j].old, new |-> receipts'[j].new]
        OBVIOUS
      <4>1. j \in DOMAIN receipts \ {i}
        BY <2>1
      <4>2. trail[j] = [old |-> receipts[j].old, new |-> receipts[j].new]
        BY <3>4 DEF MutationInv, TrailIsComplete
      <4> QED BY <2>2, <3>3, <4>1, <4>2
    <3>6. trail'[i] = [old |-> receipts'[i].old, new |-> receipts'[i].new]
      BY <2>1, <2>2, <3>3
    <3>7. \A j \in 1 .. Len(receipts) : j \in 1 .. Len(receipts) - 1 \/ j = i
      BY <2>1
    <3>8. Len(trail') = Len(receipts') - (IF Underway' THEN 1 ELSE 0)
      BY <2>1, <2>2, <2>3, <3>3
    <3>9. \A j \in DOMAIN trail' : trail'[j] = [old |-> receipts'[j].old, new |-> receipts'[j].new]
      BY <3>4, <3>5, <3>6, <3>7
    <3> QED BY <3>8, <3>9 DEF TrailIsComplete
  <2>6. Synchronized
    BY <1>4, <2>1 DEF Synchronized
  <2> QED BY <1>1, <1>2, <2>2, <2>4, <2>5, <2>6, ReceiptMovesOn, <1>0
<1> QED BY <1>0, <1>1, <1>3, <1>4 DEF Audited, Receipt

LEMMA PersistsStep ==
  ASSUME MutationInv, MutationTypes', NEW x \in Changers, PersistsTarget(x)
  PROVE  MutationInv'
<1> DEFINE r == NewReceipt(x)
           n == Len(receipts)
<1>1. /\ receipts \in Seq(ReceiptType) /\ change \in [Changers -> ChangeType]
      /\ streamer \in [enabled : BOOLEAN, target : Rooms] /\ trail \in Seq(EventType)
      /\ change[x].at = "persists" /\ ~Underway
      /\ UNCHANGED <<trail, watched, refreshing>>
      /\ receipts' = Append(receipts, r) /\ streamer'.target = change[x].desired
  BY DEF PersistsTarget, MutationInv, MutationTypes
<1>2. r \in ReceiptType /\ r.old = streamer.target /\ r.new = change[x].desired
      /\ r.phase = "target_persisted"
  BY <1>1 DEF NewReceipt, ReceiptType, Phases, ChangeType
<1>3. /\ receipts' \in Seq(ReceiptType) /\ Len(receipts') = n + 1 /\ n \in Nat
      /\ DOMAIN receipts' = 1 .. n + 1 /\ DOMAIN receipts = 1 .. n
      /\ \A i \in 1 .. n : receipts'[i] = receipts[i]
      /\ receipts'[n + 1] = r /\ receipts' # <<>> /\ Last(receipts') = r
  <2> HIDE DEF r
  <2>1. receipts' \in Seq(ReceiptType) /\ Len(receipts') = n + 1 /\ n \in Nat
        /\ (\A i \in 1 .. n : receipts'[i] = receipts[i]) /\ receipts'[n + 1] = r
    BY <1>1, <1>2, AppendFacts
  <2>2. receipts' # <<>>
    BY <2>1
  <2>3. DOMAIN receipts' = 1 .. n + 1 /\ DOMAIN receipts = 1 .. n
    BY <1>1, <2>1
  <2>4. Last(receipts') = receipts'[n + 1]
    BY <2>1, <2>2, LastFacts
  <2> QED BY <2>1, <2>2, <2>3, <2>4
<1>4. /\ \A y \in Changers \ {x} : change'[y] = change[y]
      /\ change'[x].at \in {"idle", "answered", "refreshes"}
      /\ change'[x].at = "refreshes" =>
           x \in Administrators /\ change'[x].receipt \in DOMAIN receipts'
  <2>1. CASE Leaves(x) /\ SetBack
    BY <1>1, <2>1 DEF Leaves, NoChange
  <2>2. CASE change' = [change EXCEPT ![x].at = AfterReceipt(x, r), ![x].receipt = Len(receipts')]
    <3>1. change'[x].at = AfterReceipt(x, r) /\ change'[x].receipt = n + 1
      BY <1>1, <1>3, <2>2 DEF ChangeType
    <3>2. \A y \in Changers \ {x} : change'[y] = change[y]
      BY <1>1, <2>2
    <3>3. n + 1 \in DOMAIN receipts'
      BY <1>3
    <3> HIDE DEF r
    <3> QED BY <1>2, <3>1, <3>2, <3>3 DEF AfterReceipt, Changers
  <2> QED BY <2>1, <2>2 DEF PersistsTarget
<1>5. n # 0 => receipts # <<>> /\ Last(receipts) = receipts[n] /\ receipts[n].phase = "audited"
  BY <1>1, LastFacts DEF Underway
<1>6. ChangesFollowEachOther'
  <2> SUFFICES ASSUME NEW i \in 1 .. n + 1
               PROVE  IF i = n + 1 THEN receipts'[i].new = streamer'.target
                      ELSE receipts'[i].phase = "audited" /\ receipts'[i].new = receipts'[i + 1].old
    BY <1>3 DEF ChangesFollowEachOther
  <2>1. CASE i = n + 1
    BY <1>1, <1>2, <1>3, <2>1
  <2>2. CASE i = n
    <3> HIDE DEF r
    <3>1. n # 0 /\ n \in DOMAIN receipts /\ n # n + 1
      <4>1. n \in Nat /\ DOMAIN receipts = 1 .. n
        BY <1>3
      <4> HIDE DEF n
      <4> QED BY <2>2, <4>1
    <3>2. receipts[n].new = streamer.target
      BY <3>1 DEF MutationInv, ChangesFollowEachOther
    <3> QED BY <1>2, <1>3, <1>5, <2>2, <3>1, <3>2
  <2>3. CASE i < n
    <3>1. i \in DOMAIN receipts /\ i # n /\ i + 1 \in 1 .. n
      <4>1. n \in Nat /\ DOMAIN receipts = 1 .. n
        BY <1>3
      <4> HIDE DEF n
      <4> QED BY <2>3, <4>1
    <3> QED BY <1>3, <2>3, <3>1 DEF MutationInv, ChangesFollowEachOther
  <2>4. i = n + 1 \/ i = n \/ i < n
    <3>1. n \in Nat
      BY <1>3
    <3> HIDE DEF n
    <3> QED BY <3>1
  <2> QED BY <2>1, <2>2, <2>3, <2>4
<1>7. Underway'
  BY <1>2, <1>3 DEF Underway
<1>8. TrailIsComplete'
  <2>1. Len(trail) = n
    BY <1>1, <1>3 DEF MutationInv, TrailIsComplete
  <2> QED BY <1>1, <1>3, <1>7, <2>1 DEF MutationInv, TrailIsComplete
<1>9. RequestsHaveReceipts'
  BY <1>3, <1>4 DEF MutationInv, RequestsHaveReceipts
<1>10. OneRefreshes'
  BY <1>1 DEF MutationInv, OneRefreshes
<1>11. RefreshersReadTheChange'
  <2> SUFFICES ASSUME NEW t \in Administrators, refreshing[t].held
               PROVE  change'[t].at = "refreshes" /\ change'[t].receipt # n + 1
    BY <1>1, <1>3 DEF RefreshersReadTheChange
  <2>1. t \in Changers /\ change[t].at = "refreshes"
    BY DEF MutationInv, RefreshersReadTheChange, Changers
  <2> QED BY <1>1, <1>3, <1>4, <2>1 DEF MutationInv, RequestsHaveReceipts
<1>12. ~Synchronized'
  <2> SUFFICES ASSUME NEW y \in Changers, change'[y].at = "advances", change'[y].receipt = n + 1
               PROVE  FALSE
    BY <1>2, <1>3 DEF Synchronized
  <2> QED BY <1>3, <1>4 DEF MutationInv, RequestsHaveReceipts
<1> QED BY <1>6, <1>8, <1>9, <1>10, <1>11, <1>12 DEF MutationInv, SynchronizedIsCurrent

-----------------------------------------------------------------------------
LEMMA MutationStep == MutationInv /\ [MutationNext]_mutationVars => MutationInv'
<1> SUFFICES ASSUME MutationInv, [MutationNext]_mutationVars PROVE MutationInv'
  OBVIOUS
<1>1. CASE UNCHANGED mutationVars
  BY <1>1 DEF mutationVars, MutationInv, MutationTypes, ChangesFollowEachOther, TrailIsComplete,
              Underway, RequestsHaveReceipts, OneRefreshes, RefreshersReadTheChange,
              SynchronizedIsCurrent, Synchronized, Allowed
<1>2. CASE MutationNext
  <2>1. MutationTypes'
    BY <1>2, MutationKeepsTypes DEF MutationInv
  <2> QED
    BY <1>2, <2>1, QuietSteps, ReadsStep, SyncsStep, AdvancesStep, AuditsStep, PersistsStep
    DEF MutationNext
<1> QED BY <1>1, <1>2

LEMMA MutationInvariant == MutationSpec => []MutationInv
BY MutationStarts, MutationStep, PTL DEF MutationSpec

\* The audit trail of the console is the history of the account's room, however
\* many administrators, streamers, rooms and failures there are; and once the
\* references are recorded as synchronized (or the event is written) the watcher
\* has left the old room.
THEOREM ChangesAlwaysAudited == MutationSpec => []ChangesAreAudited
<1>1. MutationInv => ChangesAreAudited
  <2> SUFFICES ASSUME MutationInv PROVE OldRoomsAreLeft
    BY DEF MutationInv, ChangesAreAudited
  <2> SUFFICES ASSUME receipts # <<>>, Rank[Last(receipts).phase] >= Rank.references_synced
               PROVE  watched \in {streamer.target, NoTarget}
    BY DEF OldRoomsAreLeft
  <2>1. Last(receipts).phase \in Phases
    <3>1. Last(receipts) \in ReceiptType
      BY LastFacts DEF MutationInv, MutationTypes
    <3> QED BY <3>1 DEF ReceiptType
  <2>2. Synchronized
    BY <2>1 DEF Synchronized, Rank, Phases
  <2> QED BY <2>2 DEF MutationInv, SynchronizedIsCurrent, Allowed
<1> QED BY <1>1, MutationInvariant, PTL
=============================================================================
