----------------------------- MODULE ClaimProofs ------------------------------
(***************************************************************************)
(* The safety properties of the claim and the users, for any requests,     *)
(* organisations and bounds.                                               *)
(*                                                                         *)
(* TypeOK is inductive by itself, and PendingExcludesUsers given TypeOK.   *)
(* Each of the other three properties needs a strengthening of its own:    *)
(* CallerInv, AnswerInv and AdminInv.                                      *)
(***************************************************************************)
EXTENDS Claim, TLAPS

Ended == {"idle", "answered", "unanswered"}

(* The two differ in nothing but the pc. *)
Carried(new, old) ==
  /\ new.token = old.token /\ new.row = old.row /\ new.caller = old.caller
  /\ new.id = old.id /\ new.reg = old.reg

(* What an INSERT does. *)
LEMMA InsertEffect ==
  ASSUME TypeOK, NEW id \in UserIds, NEW org \in Orgs, NEW role \in Roles,
         DrawToken, InsertUser(id, org, role)
  PROVE  /\ lastToken' = lastToken + 1 /\ lastToken' \in Nat
         /\ ~ Exists(id)
         /\ users' \in [UserIds -> User \cup {NoUser}]
         /\ users'[id] = [org |-> org, role |-> role, token |-> lastToken', reg |-> lastToken']
         /\ users'[id] \in User
         /\ \A i \in UserIds : i # id => users'[i] = users[i]
         /\ seated' \in SUBSET Orgs
         /\ seated' \subseteq seated \cup {org} /\ seated \subseteq seated'
         /\ org \in seated' \ seated => role = "owner"
<1> DEFINE row == [org |-> org, role |-> role, token |-> lastToken', reg |-> lastToken']
<1>1. lastToken' = lastToken + 1 /\ lastToken' \in Nat
  BY DEF DrawToken, TypeOK
<1>2. row \in User
  BY <1>1 DEF User
<1>3. users' = [users EXCEPT ![id] = row]
  BY DEF InsertUser
<1>4. ~ Exists(id)
  <2>1. id \in Nat
    BY ClaimBounds DEF UserIds
  <2>2. QED
    BY <2>1 DEF InsertUser, IsNextId
<1>5. QED
  BY <1>1, <1>2, <1>3, <1>4 DEF InsertUser, TypeOK

(* What an answer does, whether it arrives or not. *)
LEMMA AnswerEffect ==
  ASSUME TypeOK, NEW r \in Requests, NEW token \in Nat, NEW request \in Request,
         Answer(r, token, request)
  PROVE  /\ req' \in [Requests -> Request]
         /\ req'[r].pc \in {"answered", "unanswered"}
         /\ Carried(req'[r], request)
         /\ \A s \in Requests : s # r => req'[s] = req[s]
         /\ known' \in SUBSET Nat
         /\ known \subseteq known' /\ known' \subseteq known \cup {token}
<1>1. ASSUME NEW end \in {"answered", "unanswered"},
             req' = [req EXCEPT ![r] = [request EXCEPT !.pc = end]]
      PROVE  /\ req' \in [Requests -> Request]
             /\ req'[r].pc = end /\ Carried(req'[r], request)
             /\ \A s \in Requests : s # r => req'[s] = req[s]
  <2>1. [request EXCEPT !.pc = end] \in Request
    BY DEF Request
  <2>2. /\ [request EXCEPT !.pc = end].pc = end
        /\ Carried([request EXCEPT !.pc = end], request)
    BY DEF Request, Carried
  <2>3. QED
    BY <1>1, <2>1, <2>2 DEF TypeOK
<1>2. QED
  BY <1>1 DEF Answer, TypeOK

(* A crash ends every request. *)
LEMMA CrashEffect ==
  ASSUME TypeOK, Crash
  PROVE  /\ req' \in [Requests -> Request]
         /\ InFlight' = {}
         /\ \A r \in Requests :
              IF req[r].pc \in Ended THEN req'[r] = req[r]
              ELSE req'[r] = [req[r] EXCEPT !.pc = "unanswered"]
<1>1. req' = [r \in Requests |->
         IF req[r].pc \in Ended THEN req[r] ELSE [req[r] EXCEPT !.pc = "unanswered"]]
  BY DEF Crash, Ended
<1>2. \A r \in Requests : req[r] \in Request
  BY DEF TypeOK
<1>3. \A r \in Requests :
         req'[r] \in Request /\ req'[r].pc \in Ended
  BY <1>1, <1>2 DEF Request, Ended
<1>4. QED
  BY <1>1, <1>3 DEF InFlight, Ended

LEMMA UserIdRange == \A id \in UserIds : id \in Nat /\ id \in 0 .. MaxUserId
  BY ClaimBounds DEF UserIds

(* What the answer to a claim does. *)
LEMMA ClaimAnswerEffect ==
  ASSUME TypeOK, NEW r \in Requests, ClaimAnswer(r)
  PROVE  /\ req'[r].pc \in {"answered", "unanswered"}
         /\ req'[r].token = req[r].token /\ req'[r].reg = req[r].reg
         /\ req'[r].pc = "answered" =>
              \E id \in UserIds : Exists(id) /\ req'[r].row = users[id]
         /\ \A s \in Requests : s # r => req'[s] = req[s]
         /\ known' \subseteq known \cup {req[r].reg}
<1>0. req[r] \in Request
  BY DEF TypeOK
<1>1. ASSUME NEW id \in UserIds, IsFirstOwner(id),
             Answer(r, req[r].reg, [req[r] EXCEPT !.row = users[id], !.caller = id])
      PROVE  /\ req'[r].pc \in {"answered", "unanswered"}
             /\ req'[r].token = req[r].token /\ req'[r].reg = req[r].reg
             /\ Exists(id) /\ req'[r].row = users[id]
             /\ \A s \in Requests : s # r => req'[s] = req[s]
             /\ known' \subseteq known \cup {req[r].reg}
  <2>1. users[id] \in User /\ Exists(id)
    BY <1>1 DEF TypeOK, IsFirstOwner, IsOwner, Exists
  <2>2. /\ [req[r] EXCEPT !.row = users[id], !.caller = id] \in Request
        /\ [req[r] EXCEPT !.row = users[id], !.caller = id].token = req[r].token
        /\ [req[r] EXCEPT !.row = users[id], !.caller = id].reg = req[r].reg
        /\ [req[r] EXCEPT !.row = users[id], !.caller = id].row = users[id]
        /\ req[r].reg \in Nat
    BY <1>0, <2>1, UserIdRange DEF Request
  <2>3. /\ req'[r].pc \in {"answered", "unanswered"}
        /\ Carried(req'[r], [req[r] EXCEPT !.row = users[id], !.caller = id])
        /\ \A s \in Requests : s # r => req'[s] = req[s]
        /\ known' \subseteq known \cup {req[r].reg}
    BY <1>1, <2>2, AnswerEffect
  <2>4. QED
    BY <2>1, <2>2, <2>3 DEF Carried
<1>2. CASE req' = [req EXCEPT ![r].pc = "unanswered"] /\ UNCHANGED known
  <2>1. /\ [req[r] EXCEPT !.pc = "unanswered"].pc = "unanswered"
        /\ [req[r] EXCEPT !.pc = "unanswered"].token = req[r].token
        /\ [req[r] EXCEPT !.pc = "unanswered"].reg = req[r].reg
    BY <1>0 DEF Request
  <2>2. QED
    BY <1>2, <2>1 DEF TypeOK
<1>3. QED
  BY <1>1, <1>2 DEF ClaimAnswer

-----------------------------------------------------------------------------
(* Types.                                                                  *)

LEMMA TypeInit == Init => TypeOK
<1> SUFFICES ASSUME Init PROVE TypeOK
  OBVIOUS
<1>1. NoRequest \in Request
  BY ClaimBounds DEF NoRequest, NoToken, Request
<1>2. InFlight = {}
  BY DEF Init, InFlight, NoRequest
<1>3. QED
  BY <1>1, <1>2 DEF Init, TypeOK, NoRequest, NoToken

LEMMA TypeStep == TypeOK /\ [Next]_vars => TypeOK'
<1> SUFFICES ASSUME TypeOK, [Next]_vars PROVE TypeOK'
  OBVIOUS
<1> USE ClaimBounds, NoUserAssumption
<1>1. CASE Boot
  <2>1. InFlight = {} /\ InFlight' = {}
    BY <1>1 DEF Boot, TypeOK, InFlight
  <2>2. lastToken' \in Nat /\ pending' \in Nat
    BY <1>1 DEF Boot, DrawToken, TypeOK
  <2>3. QED
    BY <1>1, <2>1, <2>2 DEF Boot, TypeOK, history
<1>2. CASE PrintToken
  <2>1. InFlight' = {}
    BY <1>2 DEF PrintToken, TypeOK, InFlight
  <2>2. QED
    BY <1>2, <2>1 DEF PrintToken, TypeOK, history
<1>3. CASE Crash
  <2>1. \A r \in Requests : req'[r].pc \in Ended
    BY <1>3, CrashEffect DEF InFlight, Ended
  <2>2. QED
    BY <1>3, <2>1, CrashEffect DEF Crash, TypeOK, history, Ended
<1>4. ASSUME NEW r \in Requests, ClaimCompare(r) PROVE TypeOK'
  <2>1. [req[r] EXCEPT !.pc = "matched", !.token = pending] \in Request
    BY DEF TypeOK, Request
  <2>2. QED
    BY <1>4, <2>1 DEF ClaimCompare, TypeOK, history
<1>5. ASSUME NEW r \in Requests, NEW org \in Orgs, ClaimConsume(r, org) PROVE TypeOK'
  <2>1. PICK id \in UserIds :
          /\ InsertUser(id, org, "owner")
          /\ req' = [req EXCEPT ![r].pc = "inserted", ![r].id = id, ![r].reg = lastToken']
    BY <1>5 DEF ClaimConsume
  <2>2. DrawToken
    BY <1>5 DEF ClaimConsume
  <2>3. "owner" \in Roles
    BY DEF Roles
  <2>4. users' \in [UserIds -> User \cup {NoUser}] /\ lastToken' \in Nat /\ seated' \in SUBSET Orgs
    BY <2>1, <2>2, <2>3, InsertEffect
  <2>0. req[r] \in Request
    BY DEF TypeOK
  <2>5. [req[r] EXCEPT !.pc = "inserted", !.id = id, !.reg = lastToken'] \in Request
    BY <2>0, <2>4, UserIdRange DEF Request
  <2>6. boot = "serving"
    BY <1>5 DEF ClaimConsume, TypeOK, InFlight
  <2>7. /\ req' \in [Requests -> Request]
        /\ req'[r].pc = "inserted"
        /\ \A s \in Requests : s # r => req'[s] = req[s]
    <3>1. req' = [req EXCEPT ![r] = [req[r] EXCEPT !.pc = "inserted", !.id = id, !.reg = lastToken']]
      BY <2>1
    <3>2. QED
      BY <2>0, <2>5, <3>1 DEF TypeOK, Request
  <2>8. QED
    BY <1>5, <2>4, <2>6, <2>7 DEF ClaimConsume, TypeOK, NoToken
<1>6. ASSUME NEW r \in Requests, ClaimAnswer(r) PROVE TypeOK'
  <2>1. boot = "serving" /\ UNCHANGED <<pending, users, boot, lastToken, history, crashes>>
    BY <1>6 DEF ClaimAnswer, TypeOK, InFlight
  <2>2. ASSUME NEW id \in UserIds, IsFirstOwner(id),
               Answer(r, req[r].reg, [req[r] EXCEPT !.row = users[id], !.caller = id])
        PROVE  TypeOK'
    <3>0. req[r] \in Request /\ users[id] \in User
      BY <2>2 DEF TypeOK, IsFirstOwner, IsOwner, Exists
    <3>1. [req[r] EXCEPT !.row = users[id], !.caller = id] \in Request /\ req[r].reg \in Nat
      BY <3>0, UserIdRange DEF Request
    <3>2. /\ req' \in [Requests -> Request] /\ known' \in SUBSET Nat
          /\ req'[r].pc \in {"answered", "unanswered"}
          /\ \A s \in Requests : s # r => req'[s] = req[s]
      BY <2>2, <3>0, <3>1, AnswerEffect
    <3>3. QED
      BY <2>1, <3>2 DEF TypeOK, history
  <2>3. CASE req' = [req EXCEPT ![r].pc = "unanswered"] /\ UNCHANGED known
    <3>1. [req[r] EXCEPT !.pc = "unanswered"] \in Request
      BY DEF TypeOK, Request
    <3>2. QED
      BY <2>1, <2>3, <3>1 DEF TypeOK, history
  <2>4. QED
    BY <1>6, <2>2, <2>3 DEF ClaimAnswer
<1>7. ASSUME NEW r \in Requests, NEW id \in UserIds, NEW op \in {"create", "delete", "mint"},
             Authenticate(r, id, op)
      PROVE  TypeOK'
  <2>1. users[id] \in User
    BY <1>7 DEF Authenticate, Exists, TypeOK
  <2>0. req[r] \in Request
    BY DEF TypeOK
  <2>2. [req[r] EXCEPT !.pc = op, !.row = users[id], !.caller = id] \in Request
    BY <2>0, <2>1, UserIdRange DEF Request
  <2>3. QED
    BY <1>7, <2>1, <2>2 DEF Authenticate, TypeOK, history
<1>8. ASSUME NEW r \in Requests, NEW role \in Roles, CreateUser(r, role) PROVE TypeOK'
  <2>1. boot = "serving" /\ req[r] \in Request /\ req[r].row.org \in Orgs
    BY <1>8 DEF CreateUser, TypeOK, InFlight, User
  <2>2. PICK id \in UserIds : InsertUser(id, req[r].row.org, role)
    BY <1>8 DEF CreateUser
  <2>3. users' \in [UserIds -> User \cup {NoUser}] /\ lastToken' \in Nat /\ seated' \in SUBSET Orgs
    BY <1>8, <2>1, <2>2, InsertEffect DEF CreateUser
  <2>4. Answer(r, lastToken', req[r])
    BY <1>8 DEF CreateUser
  <2>5. /\ req' \in [Requests -> Request] /\ known' \in SUBSET Nat
        /\ req'[r].pc \in {"answered", "unanswered"}
        /\ \A s \in Requests : s # r => req'[s] = req[s]
    BY <2>1, <2>3, <2>4, AnswerEffect
  <2>6. QED
    BY <1>8, <2>1, <2>3, <2>5 DEF CreateUser, TypeOK
<1>9. ASSUME NEW r \in Requests, NEW id \in UserIds, DeleteUser(r, id) PROVE TypeOK'
  <2>1. boot = "serving"
    BY <1>9 DEF DeleteUser, TypeOK, InFlight
  <2>2. [req[r] EXCEPT !.pc = "answered"] \in Request
    BY DEF TypeOK, Request
  <2>3. users[id].org \in Orgs
    BY <1>9 DEF DeleteUser, MayDelete, Exists, TypeOK, User
  <2>4. QED
    BY <1>9, <2>1, <2>2, <2>3 DEF DeleteUser, TypeOK
<1>10. ASSUME NEW r \in Requests, NEW id \in UserIds, MintRead(r, id) PROVE TypeOK'
  <2>1. boot = "serving"
    BY <1>10 DEF MintRead, TypeOK, InFlight
  <2>0. req[r] \in Request
    BY DEF TypeOK
  <2>2. [req[r] EXCEPT !.pc = "minting", !.id = id] \in Request
    BY <2>0, UserIdRange DEF Request
  <2>3. QED
    BY <1>10, <2>1, <2>2 DEF MintRead, TypeOK, history
<1>11. ASSUME NEW r \in Requests, MintUpdate(r) PROVE TypeOK'
  <2>1. boot = "serving" /\ req[r] \in Request
    BY <1>11 DEF MintUpdate, TypeOK, InFlight
  <2>2. lastToken' \in Nat
    BY <1>11 DEF MintUpdate, DrawToken, TypeOK
  <2>3. users[req[r].id] \in User
    BY <1>11 DEF MintUpdate, Exists, TypeOK
  <2>4. [users[req[r].id] EXCEPT !.token = lastToken'] \in User
    BY <2>2, <2>3 DEF User
  <2>5. Answer(r, lastToken', req[r])
    BY <1>11 DEF MintUpdate
  <2>6. /\ req' \in [Requests -> Request] /\ known' \in SUBSET Nat
        /\ req'[r].pc \in {"answered", "unanswered"}
        /\ \A s \in Requests : s # r => req'[s] = req[s]
    BY <2>1, <2>2, <2>5, AnswerEffect
  <2>7. users' \in [UserIds -> User \cup {NoUser}]
    <3>1. users' = [users EXCEPT ![req[r].id] = [users[req[r].id] EXCEPT !.token = lastToken']]
      BY <1>11 DEF MintUpdate
    <3>2. QED
      BY <2>4, <3>1 DEF TypeOK
  <2>8. QED
    BY <1>11, <2>1, <2>2, <2>6, <2>7 DEF MintUpdate, TypeOK, history
<1>12. CASE UNCHANGED vars
  BY <1>12 DEF vars, history, TypeOK, InFlight
<1>13. QED
  BY <1>1, <1>2, <1>3, <1>4, <1>5, <1>6, <1>7, <1>8, <1>9, <1>10, <1>11, <1>12
     DEF Next, ClaimRequest, UserRequest

(* Every variable has its type, requests are handled only by a gateway     *)
(* that serves, and a handler that acts for a user has read its row.       *)
THEOREM ClaimTyping == Spec => []TypeOK
<1>1. QED
  BY TypeInit, TypeStep, PTL DEF Spec

-----------------------------------------------------------------------------
(* A pending claim excludes users.                                         *)

LEMMA ExclusionInit == Init => PendingExcludesUsers
  BY DEF Init, PendingExcludesUsers

LEMMA ExclusionStep ==
  TypeOK /\ PendingExcludesUsers /\ [Next]_vars => PendingExcludesUsers'
<1> SUFFICES ASSUME TypeOK, PendingExcludesUsers, [Next]_vars, pending' # NoToken
             PROVE  /\ (\A id \in UserIds : ~ Exists(id))'
                    /\ (\A r \in InFlight : req[r].pc = "matched" /\ req[r].token = pending)'
  BY DEF PendingExcludesUsers
<1> DEFINE NoUsers == \A id \in UserIds : ~ Exists(id)
           OnlyClaims == \A r \in InFlight : req[r].pc = "matched" /\ req[r].token = pending
<1>1. CASE Boot
  <2>1. InFlight' = {}
    BY <1>1 DEF Boot, TypeOK, InFlight
  <2>2. NoUsers
    BY <1>1 DEF Boot, Unclaimed, PendingExcludesUsers
  <2>3. QED
    BY <1>1, <2>1, <2>2 DEF Boot, Exists
<1>2. CASE PrintToken
  BY <1>2 DEF PrintToken, PendingExcludesUsers, Exists, InFlight
<1>3. CASE Crash
  BY <1>3, CrashEffect DEF Crash, PendingExcludesUsers, Exists
<1>4. ASSUME pending # NoToken PROVE NoUsers /\ OnlyClaims
  BY <1>4 DEF PendingExcludesUsers
<1>5. ASSUME NEW r \in Requests, ClaimCompare(r) PROVE NoUsers' /\ OnlyClaims'
  <2>1. NoUsers /\ OnlyClaims /\ UNCHANGED <<pending, users>>
    BY <1>4, <1>5 DEF ClaimCompare
  <2>2. req[r] \in Request /\ req' = [req EXCEPT ![r] = [req[r] EXCEPT !.pc = "matched", !.token = pending]]
    BY <1>5 DEF ClaimCompare, TypeOK
  <2>3. [req[r] EXCEPT !.pc = "matched", !.token = pending].pc = "matched"
        /\ [req[r] EXCEPT !.pc = "matched", !.token = pending].token = pending
    BY <2>2 DEF Request
  <2>4. /\ req'[r].pc = "matched" /\ req'[r].token = pending
        /\ \A s \in Requests : s # r => req'[s] = req[s]
    BY <2>2, <2>3 DEF TypeOK
  <2>5. QED
    BY <2>1, <2>4 DEF InFlight, Exists
<1>6. ASSUME NEW r \in Requests, NEW org \in Orgs, ClaimConsume(r, org) PROVE FALSE
  BY <1>6 DEF ClaimConsume
<1>7. ASSUME NEW r \in Requests,
             req[r].pc \in {"inserted", "create", "delete", "mint", "minting"},
             pending' = pending
      PROVE  FALSE
  BY <1>4, <1>7 DEF InFlight
<1>8. ASSUME NEW id \in UserIds, Exists(id), pending' = pending PROVE FALSE
  BY <1>4, <1>8
<1>9. ASSUME NEW r \in Requests, ClaimAnswer(r) PROVE FALSE
  BY <1>7, <1>9 DEF ClaimAnswer
<1>10. ASSUME NEW r \in Requests, UserRequest(r) PROVE FALSE
  <2>1. ASSUME NEW id \in UserIds, NEW op \in {"create", "delete", "mint"}, Authenticate(r, id, op)
        PROVE  FALSE
    BY <1>8, <2>1 DEF Authenticate
  <2>2. ASSUME NEW role \in Roles, CreateUser(r, role) PROVE FALSE
    BY <1>7, <2>2 DEF CreateUser
  <2>3. ASSUME NEW id \in UserIds, DeleteUser(r, id) PROVE FALSE
    BY <1>7, <2>3 DEF DeleteUser
  <2>4. ASSUME NEW id \in UserIds, MintRead(r, id) PROVE FALSE
    BY <1>7, <2>4 DEF MintRead
  <2>5. ASSUME MintUpdate(r) PROVE FALSE
    BY <1>7, <2>5 DEF MintUpdate
  <2>6. QED
    BY <1>10, <2>1, <2>2, <2>3, <2>4, <2>5 DEF UserRequest
<1>11. CASE UNCHANGED vars
  BY <1>11 DEF vars, PendingExcludesUsers, Exists, InFlight
<1>12. QED
  BY <1>1, <1>2, <1>3, <1>5, <1>6, <1>9, <1>10, <1>11 DEF Next, ClaimRequest

(* A gateway that has a user, or is handling a request of one, cannot be   *)
(* claimed: ensure_pending counts the users, and claims use up the row.    *)
THEOREM Exclusion == Spec => []PendingExcludesUsers
<1>1. QED
  BY TypeInit, TypeStep, ExclusionInit, ExclusionStep, PTL DEF Spec

-----------------------------------------------------------------------------
(* An organisation keeps an owner.                                         *)

(* The handler that deletes holds the row of an owner, which still is in   *)
(* the table as it was read, unless the owner was deleted; and a later     *)
(* row with its id has a later reg.                                        *)
CallerInv ==
  /\ \A id \in UserIds : Exists(id) => users[id].reg <= lastToken
  /\ \A r \in Requests : req[r].pc = "delete" =>
       /\ req[r].row.reg <= lastToken
       /\ req[r].row.role = "owner"
       /\ ~ Deleted(r) => /\ users[req[r].caller].org = req[r].row.org
                          /\ users[req[r].caller].role = "owner"

LEMMA OwnerInit == Init => CallerInv /\ KeepsAnOwner
  BY DEF Init, CallerInv, KeepsAnOwner, Exists, NoRequest

(* Statements that leave the table alone, or change tokens only. *)
LEMMA OwnerFrame ==
  ASSUME TypeOK, CallerInv, KeepsAnOwner,
         lastToken' \in Nat, lastToken' >= lastToken,
         UNCHANGED <<seated, orphaned>>,
         \A i \in UserIds :
           \/ users'[i] = users[i]
           \/ /\ users[i] # NoUser /\ users'[i] # NoUser
              /\ users'[i].reg = users[i].reg /\ users'[i].org = users[i].org
              /\ users'[i].role = users[i].role,
         \A s \in Requests : req'[s].pc = "delete" => req'[s] = req[s]
  PROVE  CallerInv' /\ KeepsAnOwner'
<1>1. \A i \in UserIds : users[i] # NoUser => users[i] \in User /\ users[i].reg \in Nat
  BY DEF TypeOK, User
<1>2. \A i \in UserIds :
        /\ Exists(i)' <=> Exists(i)
        /\ Exists(i) => /\ users'[i].reg = users[i].reg /\ users'[i].org = users[i].org
                        /\ users'[i].role = users[i].role
  BY DEF Exists
<1>3. KeepsAnOwner'
  BY <1>2 DEF KeepsAnOwner, IsOwner
<1>4. \A i \in UserIds : Exists(i)' => users'[i].reg <= lastToken'
  <2>1. lastToken \in Nat
    BY DEF TypeOK
  <2>2. QED
    BY <1>1, <1>2, <2>1 DEF CallerInv, Exists
<1>5. ASSUME NEW r \in Requests, req'[r].pc = "delete"
      PROVE  /\ req'[r].row.reg <= lastToken' /\ req'[r].row.role = "owner"
             /\ ~ Deleted(r)' => /\ users'[req'[r].caller].org = req'[r].row.org
                                /\ users'[req'[r].caller].role = "owner"
  <2>1. req'[r] = req[r]
    BY <1>5
  <2>2. req[r].caller \in UserIds /\ req[r].row \in User /\ lastToken \in Nat
    BY <1>5, <2>1 DEF TypeOK
  <2>3. req[r].row.reg \in Nat
    BY <2>2 DEF User
  <2>4. Deleted(r)' <=> Deleted(r)
    BY <1>2, <2>1, <2>2 DEF Deleted, Exists
  <2>5. ~ Deleted(r) => Exists(req[r].caller)
    BY DEF Deleted
  <2>6. QED
    BY <1>2, <1>5, <2>1, <2>2, <2>3, <2>4, <2>5 DEF CallerInv
<1>6. QED
  BY <1>3, <1>4, <1>5 DEF CallerInv

LEMMA OwnerInsert ==
  ASSUME TypeOK, CallerInv, KeepsAnOwner,
         NEW id \in UserIds, NEW org \in Orgs, NEW role \in Roles,
         DrawToken, InsertUser(id, org, role), UNCHANGED orphaned,
         \A s \in Requests : req'[s].pc = "delete" => req'[s] = req[s]
  PROVE  CallerInv' /\ KeepsAnOwner'
<1>1. /\ lastToken' = lastToken + 1 /\ lastToken \in Nat /\ ~ Exists(id)
      /\ users'[id] \in User
      /\ users'[id].org = org /\ users'[id].role = role /\ users'[id].reg = lastToken'
      /\ \A i \in UserIds : i # id => users'[i] = users[i]
      /\ seated' \subseteq seated \cup {org}
      /\ org \in seated' \ seated => role = "owner"
  <2>1. users'[id] = [org |-> org, role |-> role, token |-> lastToken', reg |-> lastToken']
    BY InsertEffect
  <2>2. users'[id].org = org /\ users'[id].role = role /\ users'[id].reg = lastToken'
    BY <2>1
  <2>3. lastToken \in Nat
    BY DEF TypeOK
  <2>4. QED
    BY <2>2, <2>3, InsertEffect, ZenonT(40)
<1>2. users'[id] # NoUser
  BY <1>1, NoUserAssumption
<1>3. \A i \in UserIds : users[i] # NoUser => users[i].reg \in Nat
  BY DEF TypeOK, User
<1>4. KeepsAnOwner'
  <2>1. ASSUME NEW o \in seated', o \notin orphaned'
        PROVE  \E i \in UserIds : IsOwner(i)' /\ users'[i].org = o
    <3>1. CASE o \in seated
      <4>1. PICK i \in UserIds : IsOwner(i) /\ users[i].org = o
        BY <2>1, <3>1 DEF KeepsAnOwner
      <4>2. i # id
        BY <1>1, <4>1 DEF IsOwner
      <4>3. QED
        BY <1>1, <4>1, <4>2 DEF IsOwner, Exists
    <3>2. CASE o \notin seated
      <4>1. o = org /\ role = "owner"
        BY <1>1, <2>1, <3>2
      <4>2. QED
        BY <1>1, <1>2, <4>1 DEF IsOwner, Exists
    <3>3. QED
      BY <3>1, <3>2
  <2>2. QED
    BY <2>1 DEF KeepsAnOwner
<1>5. \A i \in UserIds : Exists(i)' => users'[i].reg <= lastToken'
  BY <1>1, <1>3 DEF CallerInv, Exists
<1>6. ASSUME NEW r \in Requests, req'[r].pc = "delete"
      PROVE  /\ req'[r].row.reg <= lastToken' /\ req'[r].row.role = "owner"
             /\ ~ Deleted(r)' => /\ users'[req'[r].caller].org = req'[r].row.org
                                /\ users'[req'[r].caller].role = "owner"
  <2>1. req'[r] = req[r]
    BY <1>6
  <2>2. req[r].caller \in UserIds /\ req[r].row \in User
    BY <1>6, <2>1 DEF TypeOK
  <2>3. req[r].row.reg \in Nat /\ req[r].row.reg <= lastToken
    BY <1>6, <2>1, <2>2 DEF User, CallerInv
  <2>4. ASSUME ~ Deleted(r)'
        PROVE  ~ Deleted(r) /\ users'[req[r].caller] = users[req[r].caller]
    <3>1. users'[req[r].caller].reg = req[r].row.reg
      BY <2>1, <2>4 DEF Deleted
    <3>2. req[r].caller # id
      BY <1>1, <2>3, <3>1
    <3>3. QED
      BY <1>1, <2>1, <2>2, <2>4, <3>2 DEF Deleted, Exists
  <2>5. QED
    BY <1>1, <1>6, <2>1, <2>3, <2>4 DEF CallerInv
<1>7. QED
  BY <1>4, <1>5, <1>6 DEF CallerInv

LEMMA OwnerDelete ==
  ASSUME TypeOK, CallerInv, KeepsAnOwner,
         NEW q \in Requests, NEW id \in UserIds, DeleteUser(q, id)
  PROVE  CallerInv' /\ KeepsAnOwner'
<1>1. /\ req[q].pc = "delete" /\ id # req[q].caller
      /\ Exists(id) /\ users[id].org = req[q].row.org
      /\ users'[id] = NoUser /\ \A i \in UserIds : i # id => users'[i] = users[i]
      /\ orphaned' = IF Deleted(q) /\ IsOwner(id)
                     THEN orphaned \cup {users[id].org} ELSE orphaned
      /\ UNCHANGED <<lastToken, seated>>
  BY DEF DeleteUser, MayDelete, TypeOK
<1>2. req[q] \in Request /\ req[q].caller \in UserIds
  BY <1>1 DEF TypeOK
<1>3. \A s \in Requests : req'[s].pc = "delete" => req'[s] = req[s]
  <2>1. [req[q] EXCEPT !.pc = "answered"].pc = "answered"
    BY <1>2 DEF Request
  <2>2. QED
    BY <2>1 DEF DeleteUser, TypeOK
<1>4. \A i \in UserIds : Exists(i)' => Exists(i) /\ users'[i] = users[i]
  BY <1>1 DEF Exists
<1>5. ASSUME NEW o \in seated', o \notin orphaned'
      PROVE  \E i \in UserIds : IsOwner(i)' /\ users'[i].org = o
  <2>1. PICK i \in UserIds : IsOwner(i) /\ users[i].org = o
    BY <1>1, <1>5 DEF KeepsAnOwner
  <2>2. CASE i # id
    BY <1>1, <2>1, <2>2 DEF IsOwner, Exists
  <2>3. CASE i = id
    <3>1. ~ Deleted(q)
      BY <1>1, <1>5, <2>1, <2>3
    <3>2. /\ users[req[q].caller].org = req[q].row.org
          /\ users[req[q].caller].role = "owner"
          /\ Exists(req[q].caller)
      BY <1>1, <3>1 DEF CallerInv, Deleted
    <3> DEFINE k == req[q].caller
    <3>3. k \in UserIds /\ k # id /\ users'[k] = users[k] /\ users[k].org = o
      BY <1>1, <1>2, <2>1, <2>3, <3>2
    <3>4. users'[k] # NoUser /\ users'[k].role = "owner" /\ users'[k].org = o
      BY <3>2, <3>3 DEF Exists
    <3> HIDE DEF k
    <3>5. QED
      BY <3>3, <3>4 DEF IsOwner, Exists
  <2>4. QED
    BY <2>2, <2>3
<1>6. KeepsAnOwner'
  BY <1>5 DEF KeepsAnOwner
<1>7. ASSUME NEW r \in Requests, req'[r].pc = "delete"
      PROVE  /\ req'[r].row.reg <= lastToken' /\ req'[r].row.role = "owner"
             /\ ~ Deleted(r)' => /\ users'[req'[r].caller].org = req'[r].row.org
                                /\ users'[req'[r].caller].role = "owner"
  <2>1. req'[r] = req[r] /\ req[r].caller \in UserIds
    BY <1>3, <1>7 DEF TypeOK
  <2>2. ~ Deleted(r)' => ~ Deleted(r) /\ users'[req[r].caller] = users[req[r].caller]
    BY <1>4, <2>1 DEF Deleted
  <2>3. QED
    BY <1>1, <1>7, <2>1, <2>2 DEF CallerInv
<1>8. \A i \in UserIds : Exists(i)' => users'[i].reg <= lastToken'
  BY <1>1, <1>4 DEF CallerInv
<1>9. QED
  BY <1>6, <1>7, <1>8 DEF CallerInv

LEMMA OwnerStep ==
  TypeOK /\ CallerInv /\ KeepsAnOwner /\ [Next]_vars => CallerInv' /\ KeepsAnOwner'
<1> SUFFICES ASSUME TypeOK, CallerInv, KeepsAnOwner, [Next]_vars
             PROVE  CallerInv' /\ KeepsAnOwner'
  OBVIOUS
<1> DEFINE Deleting == \A s \in Requests : req'[s].pc = "delete" => req'[s] = req[s]
<1>1. CASE Boot
  <2>1. lastToken' \in Nat /\ lastToken' >= lastToken
    BY <1>1 DEF Boot, DrawToken, TypeOK
  <2>2. QED
    BY <1>1, <2>1, OwnerFrame DEF Boot, history
<1>2. CASE PrintToken
  BY <1>2, OwnerFrame DEF PrintToken, history, TypeOK
<1>3. CASE Crash
  <2>1. Deleting
    BY <1>3, CrashEffect DEF TypeOK, InFlight
  <2>2. QED
    BY <1>3, <2>1, OwnerFrame DEF Crash, history, TypeOK
<1>4. ASSUME NEW r \in Requests, ClaimCompare(r) PROVE CallerInv' /\ KeepsAnOwner'
  <2>1. req[r] \in Request
    BY DEF TypeOK
  <2>2. [req[r] EXCEPT !.pc = "matched", !.token = pending].pc = "matched"
    BY <2>1 DEF Request
  <2>3. Deleting
    BY <1>4, <2>2 DEF ClaimCompare, TypeOK
  <2>4. QED
    BY <1>4, <2>3, OwnerFrame DEF ClaimCompare, history, TypeOK
<1>5. ASSUME NEW r \in Requests, NEW org \in Orgs, ClaimConsume(r, org)
      PROVE  CallerInv' /\ KeepsAnOwner'
  <2>1. PICK id \in UserIds :
          /\ InsertUser(id, org, "owner")
          /\ req' = [req EXCEPT ![r].pc = "inserted", ![r].id = id, ![r].reg = lastToken']
    BY <1>5 DEF ClaimConsume
  <2>2. req[r] \in Request
    BY DEF TypeOK
  <2>3. [req[r] EXCEPT !.pc = "inserted", !.id = id, !.reg = lastToken'].pc = "inserted"
    BY <2>2 DEF Request
  <2>4. Deleting
    BY <2>1, <2>3 DEF TypeOK
  <2>5. QED
    BY <1>5, <2>1, <2>4, OwnerInsert DEF ClaimConsume, Roles
<1>6. ASSUME NEW r \in Requests, ClaimAnswer(r) PROVE CallerInv' /\ KeepsAnOwner'
  <2>1. UNCHANGED <<users, lastToken, seated, orphaned>>
    BY <1>6 DEF ClaimAnswer, history
  <2>2. Deleting
    BY <1>6, ClaimAnswerEffect
  <2>3. QED
    BY <2>1, <2>2, OwnerFrame DEF TypeOK
<1>7. ASSUME NEW r \in Requests, NEW id \in UserIds, NEW op \in {"create", "delete", "mint"},
             Authenticate(r, id, op)
      PROVE  CallerInv' /\ KeepsAnOwner'
  <2>1. users[id] \in User /\ users[id].reg \in Nat
    BY <1>7 DEF Authenticate, Exists, TypeOK, User
  <2>2. req[r] \in Request
    BY DEF TypeOK
  <2>3. /\ [req[r] EXCEPT !.pc = op, !.row = users[id], !.caller = id].pc = op
        /\ [req[r] EXCEPT !.pc = op, !.row = users[id], !.caller = id].row = users[id]
        /\ [req[r] EXCEPT !.pc = op, !.row = users[id], !.caller = id].caller = id
    BY <2>2 DEF Request
  <2>4. /\ req'[r].pc = op /\ req'[r].row = users[id] /\ req'[r].caller = id
        /\ \A s \in Requests : s # r => req'[s] = req[s]
    BY <1>7, <2>3 DEF Authenticate, TypeOK
  <2>5. UNCHANGED <<users, lastToken, seated, orphaned>>
    BY <1>7 DEF Authenticate, history
  <2>6. op = "delete" => users[id].role = "owner" /\ users[id].reg <= lastToken
    BY <1>7 DEF Authenticate, CallerInv
  <2>7. CallerInv'
    BY <2>4, <2>5, <2>6 DEF CallerInv, Deleted, Exists
  <2>8. KeepsAnOwner'
    BY <2>5 DEF KeepsAnOwner, IsOwner, Exists
  <2>9. QED
    BY <2>7, <2>8
<1>8. ASSUME NEW r \in Requests, NEW role \in Roles, CreateUser(r, role)
      PROVE  CallerInv' /\ KeepsAnOwner'
  <2>1. req[r] \in Request /\ req[r].row.org \in Orgs /\ lastToken' \in Nat
    BY <1>8 DEF CreateUser, TypeOK, User, DrawToken
  <2>2. PICK id \in UserIds : InsertUser(id, req[r].row.org, role)
    BY <1>8 DEF CreateUser
  <2>3. Deleting
    BY <1>8, <2>1, AnswerEffect DEF CreateUser
  <2>4. DrawToken /\ UNCHANGED orphaned
    BY <1>8 DEF CreateUser
  <2>5. QED
    BY <2>1, <2>2, <2>3, <2>4, OwnerInsert
<1>9. ASSUME NEW r \in Requests, NEW id \in UserIds, DeleteUser(r, id)
      PROVE  CallerInv' /\ KeepsAnOwner'
  BY <1>9, OwnerDelete
<1>10. ASSUME NEW r \in Requests, NEW id \in UserIds, MintRead(r, id)
       PROVE  CallerInv' /\ KeepsAnOwner'
  <2>1. req[r] \in Request
    BY DEF TypeOK
  <2>2. [req[r] EXCEPT !.pc = "minting", !.id = id].pc = "minting"
    BY <2>1 DEF Request
  <2>3. Deleting
    BY <1>10, <2>2 DEF MintRead, TypeOK
  <2>4. QED
    BY <1>10, <2>3, OwnerFrame DEF MintRead, history, TypeOK
<1>11. ASSUME NEW r \in Requests, MintUpdate(r) PROVE CallerInv' /\ KeepsAnOwner'
  <2>1. /\ req[r] \in Request /\ lastToken' = lastToken + 1 /\ lastToken \in Nat
        /\ UNCHANGED <<seated, orphaned>>
    BY <1>11 DEF MintUpdate, TypeOK, DrawToken, history
  <2>2. Deleting
    BY <1>11, <2>1, AnswerEffect DEF MintUpdate
  <2>3. users[req[r].id] \in User /\ req[r].id \in UserIds
    BY <1>11 DEF MintUpdate, Exists, TypeOK
  <2>4. users' = [users EXCEPT ![req[r].id] = [users[req[r].id] EXCEPT !.token = lastToken']]
    BY <1>11 DEF MintUpdate
  <2>5. /\ [users[req[r].id] EXCEPT !.token = lastToken'] \in User
        /\ [users[req[r].id] EXCEPT !.token = lastToken'].reg = users[req[r].id].reg
        /\ [users[req[r].id] EXCEPT !.token = lastToken'].org = users[req[r].id].org
        /\ [users[req[r].id] EXCEPT !.token = lastToken'].role = users[req[r].id].role
    BY <2>1, <2>3 DEF User
  <2>6. \A i \in UserIds :
          \/ users'[i] = users[i]
          \/ /\ users[i] # NoUser /\ users'[i] # NoUser
             /\ users'[i].reg = users[i].reg /\ users'[i].org = users[i].org
             /\ users'[i].role = users[i].role
    BY <2>3, <2>4, <2>5, NoUserAssumption DEF TypeOK
  <2>7. QED
    BY <2>1, <2>2, <2>6, OwnerFrame
<1>12. CASE UNCHANGED vars
  BY <1>12, OwnerFrame DEF vars, history, TypeOK
<1>13. QED
  BY <1>1, <1>2, <1>3, <1>4, <1>5, <1>6, <1>7, <1>8, <1>9, <1>10, <1>11, <1>12
     DEF Next, ClaimRequest, UserRequest

(* An organisation that has had an owner keeps one, unless an owner was    *)
(* deleted by one who had been deleted since authenticating: the handler   *)
(* refuses callers who name themselves, and nothing more.                  *)
THEOREM LastOwner == Spec => []KeepsAnOwner
<1>1. QED
  BY TypeInit, TypeStep, OwnerInit, OwnerStep, PTL DEF Spec

-----------------------------------------------------------------------------
(* The answer to a claim.                                                  *)

(* A claim that has matched consumes the pending row, or another one has.  *)
(* One that has inserted, with no other of its token that has, is alone    *)
(* with its user, whose token nobody knows, and with claims of that token. *)
AnswerInv ==
  /\ pending <= lastToken /\ \A k \in known : k <= lastToken
  /\ \A r \in won : req[r].pc \in {"inserted", "answered", "unanswered"}
  /\ \A r \in Requests : req[r].pc = "inserted" => r \in won /\ req[r].reg <= lastToken
  /\ \A r \in Requests : req[r].pc = "matched" =>
       \/ pending = req[r].token /\ pending # NoToken
       \/ \E s \in won : req[s].token = req[r].token
  /\ \A r \in won : req[r].pc = "inserted" /\ ~ Contested(r) =>
       /\ \A id \in UserIds : Exists(id) =>
            users[id].reg = req[r].reg /\ users[id].token \notin known
       /\ \A s \in InFlight \ {r} :
            req[s].pc = "matched" /\ req[s].token = req[r].token

LEMMA AnswerInit == Init => AnswerInv /\ ClaimAnswerIsOwn
  BY DEF Init, AnswerInv, ClaimAnswerIsOwn, NoRequest, NoToken

(* Claims won, and their tokens, are for good. *)
LEMMA ContestedStays ==
  ASSUME AnswerInv, won \subseteq won', \A s \in won : req'[s].token = req[s].token,
         NEW r \in won, Contested(r)
  PROVE  Contested(r)'
  BY DEF Contested

(* While a claim has inserted and nobody contests it, nobody knows the     *)
(* token of a user, and there are no requests but claims of its token.     *)
LEMMA AloneWithOwner ==
  ASSUME AnswerInv, NEW r \in won, req[r].pc = "inserted", ~ Contested(r)
  PROVE  /\ \A id \in UserIds : Exists(id) =>
              users[id].reg = req[r].reg /\ users[id].token \notin known
         /\ \A s \in InFlight \ {r} :
              req[s].pc = "matched" /\ req[s].token = req[r].token
  BY DEF AnswerInv

(* A request q goes on that is neither a claim nor new: no claim that has  *)
(* inserted is then uncontested.                                           *)
LEMMA AnswerOther ==
  ASSUME TypeOK, AnswerInv, ClaimAnswerIsOwn,
         NEW q \in Requests, req[q].pc \in {"create", "delete", "mint", "minting"},
         req'[q].pc \notin {"matched", "inserted"},
         \A s \in Requests : s # q => req'[s] = req[s],
         UNCHANGED <<pending, won>>,
         lastToken' \in Nat, lastToken' >= lastToken,
         \A k \in known' : k <= lastToken'
  PROVE  AnswerInv' /\ ClaimAnswerIsOwn'
<1>1. q \notin won /\ q \in InFlight
  BY DEF AnswerInv, InFlight
<1>2. \A r \in won : r \in Requests /\ req'[r] = req[r] /\ (Contested(r)' <=> Contested(r))
  BY <1>1 DEF Contested, TypeOK
<1>3. \A r \in won : req[r].pc = "inserted" => Contested(r)
  <2>1. ASSUME NEW r \in won, req[r].pc = "inserted", ~ Contested(r) PROVE FALSE
    <3>1. q \in InFlight \ {r}
      BY <1>1
    <3>2. QED
      BY <2>1, <3>1, AloneWithOwner
  <2>2. QED
    BY <2>1
<1>4. ClaimAnswerIsOwn'
  BY <1>2 DEF ClaimAnswerIsOwn
<1>5. ASSUME NEW r \in Requests, req'[r].pc = "matched"
      PROVE  \/ pending' = req'[r].token /\ pending' # NoToken
             \/ \E s \in won' : req'[s].token = req'[r].token
  BY <1>2, <1>5 DEF AnswerInv
<1>6. ASSUME NEW r \in Requests, req'[r].pc = "inserted"
      PROVE  r \in won' /\ req'[r].reg <= lastToken'
  <2>1. req'[r] = req[r] /\ req[r].reg \in Nat /\ lastToken \in Nat
    BY <1>6 DEF TypeOK, Request
  <2>2. r \in won /\ req[r].reg <= lastToken
    BY <1>6, <2>1 DEF AnswerInv
  <2>3. QED
    BY <2>1, <2>2
<1>7. /\ \A r \in won' : req'[r].pc \in {"inserted", "answered", "unanswered"}
      /\ \A r \in won' : req'[r].pc = "inserted" => Contested(r)'
  BY <1>2, <1>3 DEF AnswerInv
<1>8. pending' <= lastToken'
  BY DEF AnswerInv, TypeOK
<1>9. QED
  BY <1>4, <1>5, <1>6, <1>7, <1>8 DEF AnswerInv

LEMMA AnswerConsume ==
  ASSUME TypeOK, PendingExcludesUsers, AnswerInv, ClaimAnswerIsOwn,
         NEW q \in Requests, NEW org \in Orgs, ClaimConsume(q, org)
  PROVE  AnswerInv' /\ ClaimAnswerIsOwn'
<1>1. /\ req[q].pc = "matched" /\ DrawToken /\ pending' = NoToken
      /\ won' = won \cup {q} /\ known' = known
  BY DEF ClaimConsume
<1>2. PICK id \in UserIds :
        /\ InsertUser(id, org, "owner")
        /\ req' = [req EXCEPT ![q].pc = "inserted", ![q].id = id, ![q].reg = lastToken']
  BY DEF ClaimConsume
<1>3. /\ lastToken \in Nat /\ lastToken' = lastToken + 1
      /\ users'[id].reg = lastToken' /\ users'[id].token = lastToken'
      /\ \A i \in UserIds : i # id => users'[i] = users[i]
  <2>1. users'[id] = [org |-> org, role |-> "owner", token |-> lastToken', reg |-> lastToken']
    BY <1>1, <1>2, InsertEffect DEF Roles
  <2>2. users'[id].reg = lastToken' /\ users'[id].token = lastToken'
    BY <2>1
  <2>3. QED
    BY <1>1, <1>2, <2>2, InsertEffect DEF Roles, TypeOK
<1>4. /\ req'[q].pc = "inserted" /\ req'[q].token = req[q].token /\ req'[q].reg = lastToken'
      /\ \A s \in Requests : s # q => req'[s] = req[s]
  <2>1. req[q] \in Request
    BY DEF TypeOK
  <2>2. /\ [req[q] EXCEPT !.pc = "inserted", !.id = id, !.reg = lastToken'].pc = "inserted"
        /\ [req[q] EXCEPT !.pc = "inserted", !.id = id, !.reg = lastToken'].token = req[q].token
        /\ [req[q] EXCEPT !.pc = "inserted", !.id = id, !.reg = lastToken'].reg = lastToken'
    BY <2>1 DEF Request
  <2>3. req' = [req EXCEPT ![q] = [req[q] EXCEPT !.pc = "inserted", !.id = id, !.reg = lastToken']]
    BY <1>2
  <2>4. QED
    BY <2>2, <2>3 DEF TypeOK
<1>5. q \notin won /\ won \subseteq Requests /\ q \in InFlight
  BY <1>1 DEF AnswerInv, TypeOK, InFlight
<1>6. \A r \in Requests : req'[r].token = req[r].token
  BY <1>4
<1>7. \A r \in won : req'[r] = req[r] /\ (Contested(r) => Contested(r)')
  BY <1>1, <1>4, <1>5, <1>6 DEF Contested
<1>8. \A k \in known' : k <= lastToken /\ k <= lastToken'
  BY <1>1, <1>3 DEF AnswerInv, TypeOK
<1>9. ASSUME NEW r \in won, req[r].pc = "inserted" PROVE Contested(r)'
  <2>1. CASE Contested(r)
    BY <1>7, <2>1
  <2>2. CASE ~ Contested(r)
    <3>1. req[q].token = req[r].token
      BY <1>5, <1>9, <2>2, AloneWithOwner
    <3>2. QED
      BY <1>1, <1>5, <1>6, <3>1 DEF Contested
  <2>3. QED
    BY <2>1, <2>2
<1>10. ASSUME ~ Contested(q)'
       PROVE  /\ \A i \in UserIds : Exists(i)' =>
                   users'[i].reg = req'[q].reg /\ users'[i].token \notin known'
              /\ \A s \in InFlight' \ {q} :
                   req'[s].pc = "matched" /\ req'[s].token = req'[q].token
  <2>1. pending = req[q].token /\ pending # NoToken
    <3>1. ASSUME NEW s \in won, req[s].token = req[q].token PROVE FALSE
      BY <1>1, <1>5, <1>6, <1>10, <3>1 DEF Contested
    <3>2. QED
      BY <1>1, <3>1 DEF AnswerInv
  <2>2. /\ \A i \in UserIds : ~ Exists(i)
        /\ \A s \in InFlight : req[s].pc = "matched" /\ req[s].token = pending
    BY <2>1 DEF PendingExcludesUsers
  <2>3. \A s \in InFlight' \ {q} : s \in InFlight /\ req'[s] = req[s]
    BY <1>4 DEF InFlight
  <2>4. lastToken' \notin known'
    BY <1>1, <1>3, <1>8
  <2>5. QED
    BY <1>3, <1>4, <2>1, <2>2, <2>3, <2>4 DEF Exists
<1>11. ASSUME NEW r \in Requests, req'[r].pc = "matched"
       PROVE  \E s \in won' : req'[s].token = req'[r].token
  <2>1. r # q /\ req[r].pc = "matched" /\ r \in InFlight
    BY <1>4, <1>11 DEF InFlight
  <2>2. CASE pending # NoToken
    <3>1. req[r].token = pending /\ req[q].token = pending
      BY <1>5, <2>1, <2>2 DEF PendingExcludesUsers
    <3>2. QED
      BY <1>1, <1>6, <3>1
  <2>3. CASE pending = NoToken
    <3>1. PICK s \in won : req[s].token = req[r].token
      BY <2>1, <2>3 DEF AnswerInv
    <3>2. QED
      BY <1>1, <1>5, <1>6, <3>1
  <2>4. QED
    BY <2>2, <2>3
<1>12. ClaimAnswerIsOwn'
  <2>1. ASSUME NEW r \in won', req'[r].pc = "answered"
        PROVE  req'[r].row.reg = req'[r].reg \/ Contested(r)'
    <3>1. r \in won /\ req'[r] = req[r]
      BY <1>1, <1>4, <1>7, <2>1
    <3>2. QED
      BY <1>7, <2>1, <3>1 DEF ClaimAnswerIsOwn
  <2>2. QED
    BY <2>1 DEF ClaimAnswerIsOwn
<1>13. \A r \in won' : req'[r].pc \in {"inserted", "answered", "unanswered"}
  BY <1>1, <1>4, <1>7 DEF AnswerInv
<1>14. ASSUME NEW r \in Requests, req'[r].pc = "inserted"
       PROVE  r \in won' /\ req'[r].reg <= lastToken'
  <2>1. CASE r = q
    BY <1>1, <1>3, <1>4, <2>1
  <2>2. CASE r # q
    <3>1. req'[r] = req[r] /\ req[r].reg \in Nat
      BY <1>4, <2>2 DEF TypeOK, Request
    <3>2. r \in won /\ req[r].reg <= lastToken
      BY <1>14, <3>1 DEF AnswerInv
    <3>3. QED
      BY <1>1, <1>3, <3>1, <3>2
  <2>3. QED
    BY <2>1, <2>2
<1>15. \A r \in won' : req'[r].pc = "inserted" /\ ~ Contested(r)' => r = q
  BY <1>1, <1>7, <1>9
<1>16. pending' <= lastToken'
  BY <1>1, <1>3 DEF NoToken
<1>17. QED
  BY <1>8, <1>10, <1>11, <1>12, <1>13, <1>14, <1>15, <1>16 DEF AnswerInv

LEMMA AnswerStep ==
  TypeOK /\ PendingExcludesUsers /\ AnswerInv /\ ClaimAnswerIsOwn /\ [Next]_vars
    => AnswerInv' /\ ClaimAnswerIsOwn'
<1> SUFFICES ASSUME TypeOK, PendingExcludesUsers, AnswerInv, ClaimAnswerIsOwn, [Next]_vars
             PROVE  AnswerInv' /\ ClaimAnswerIsOwn'
  OBVIOUS
<1>0. won \subseteq Requests /\ lastToken \in Nat
  BY DEF TypeOK
<1>1. CASE boot # "serving" /\ UNCHANGED <<users, req, won>> /\ pending' <= lastToken'
        /\ (\A k \in known' : k <= lastToken')
  <2>1. InFlight = {}
    BY <1>1 DEF TypeOK
  <2>2. \A r \in Requests : req[r].pc \notin {"matched", "inserted"}
    BY <2>1 DEF InFlight
  <2>3. \A r \in won : Contested(r)' <=> Contested(r)
    BY <1>1 DEF Contested
  <2>4. QED
    BY <1>0, <1>1, <2>2, <2>3 DEF AnswerInv, ClaimAnswerIsOwn
<1>2. CASE Boot
  <2>1. lastToken' \in Nat /\ lastToken' >= lastToken
    BY <1>2 DEF Boot, DrawToken, TypeOK
  <2>2. \A k \in known' : k <= lastToken'
    BY <1>0, <1>2, <2>1 DEF Boot, AnswerInv, TypeOK
  <2>3. boot # "serving" /\ UNCHANGED <<users, req, won>>
    BY <1>2 DEF Boot, history
  <2>4. pending' <= lastToken'
    BY <1>0, <1>2, <2>1 DEF Boot, AnswerInv, TypeOK
  <2>5. QED
    BY <1>1, <2>2, <2>3, <2>4
<1>3. CASE PrintToken
  <2>1. pending <= lastToken
    BY DEF AnswerInv
  <2>2. boot # "serving" /\ UNCHANGED <<pending, users, req, won, lastToken>>
        /\ known' = known \cup {pending}
    BY <1>3 DEF PrintToken, history
  <2>3. QED
    BY <1>1, <2>1, <2>2 DEF AnswerInv
<1>4. CASE Crash
  <2>1. \A r \in Requests : req'[r].pc \notin {"matched", "inserted"}
    BY <1>4, CrashEffect DEF InFlight
  <2>2. \A r \in Requests : req'[r].token = req[r].token
    <3>1. \A r \in Requests : req[r] \in Request
      BY DEF TypeOK
    <3>2. \A r \in Requests : [req[r] EXCEPT !.pc = "unanswered"].token = req[r].token
      BY <3>1 DEF Request
    <3>3. QED
      BY <1>4, <3>2, CrashEffect
  <2>3. UNCHANGED <<won, known, lastToken, pending, users>>
    BY <1>4 DEF Crash, history
  <2>4. \A r \in won : Contested(r)' <=> Contested(r)
    BY <1>0, <2>2, <2>3 DEF Contested
  <2>5. \A r \in won : req'[r].pc \in {"answered", "unanswered"}
                        /\ (req'[r].pc = "answered" => req'[r] = req[r])
    <3>1. \A r \in Requests : req[r] \in Request
      BY DEF TypeOK
    <3>2. \A r \in Requests : [req[r] EXCEPT !.pc = "unanswered"].pc = "unanswered"
      BY <3>1 DEF Request
    <3>3. ASSUME NEW r \in won
          PROVE  /\ req'[r].pc \in {"answered", "unanswered"}
                 /\ req'[r].pc = "answered" => req'[r] = req[r]
      <4>1. r \in Requests /\ req[r].pc \in {"inserted", "answered", "unanswered"}
        BY <1>0 DEF AnswerInv
      <4>2. IF req[r].pc \in Ended THEN req'[r] = req[r]
            ELSE req'[r] = [req[r] EXCEPT !.pc = "unanswered"]
        BY <1>4, <4>1, CrashEffect
      <4>3. CASE req[r].pc \in Ended
        BY <4>1, <4>2, <4>3 DEF Ended
      <4>4. CASE req[r].pc \notin Ended
        <5>1. req'[r].pc = "unanswered"
          BY <3>2, <4>1, <4>2, <4>4
        <5>2. QED
          BY <5>1
      <4>5. QED
        BY <4>3, <4>4
    <3>4. QED
      BY <3>3
  <2>6. ClaimAnswerIsOwn'
    BY <2>3, <2>4, <2>5 DEF ClaimAnswerIsOwn
  <2>7. QED
    BY <2>1, <2>3, <2>5, <2>6 DEF AnswerInv
<1>5. ASSUME NEW q \in Requests, ClaimCompare(q) PROVE AnswerInv' /\ ClaimAnswerIsOwn'
  <2>1. /\ req[q].pc = "idle" /\ pending # NoToken
        /\ UNCHANGED <<pending, users, known, lastToken, won>>
    BY <1>5 DEF ClaimCompare, history
  <2>2. /\ req'[q].pc = "matched" /\ req'[q].token = pending
        /\ \A s \in Requests : s # q => req'[s] = req[s]
    <3>1. req[q] \in Request
      BY DEF TypeOK
    <3>2. /\ [req[q] EXCEPT !.pc = "matched", !.token = pending].pc = "matched"
          /\ [req[q] EXCEPT !.pc = "matched", !.token = pending].token = pending
      BY <3>1 DEF Request
    <3>3. QED
      BY <1>5, <3>2 DEF ClaimCompare, TypeOK
  <2>3. q \notin won
    BY <2>1 DEF AnswerInv
  <2>4. \A r \in won : req'[r] = req[r] /\ (Contested(r)' <=> Contested(r))
    BY <1>0, <2>1, <2>2, <2>3 DEF Contested
  <2>5. \A r \in won : req[r].pc # "inserted"
    BY <1>0, <2>1 DEF PendingExcludesUsers, InFlight
  <2>6. ClaimAnswerIsOwn'
    BY <2>1, <2>4 DEF ClaimAnswerIsOwn
  <2>7. QED
    BY <2>1, <2>2, <2>4, <2>5, <2>6 DEF AnswerInv
<1>6. ASSUME NEW q \in Requests, NEW org \in Orgs, ClaimConsume(q, org)
      PROVE  AnswerInv' /\ ClaimAnswerIsOwn'
  BY <1>6, AnswerConsume
<1>7. ASSUME NEW q \in Requests, ClaimAnswer(q) PROVE AnswerInv' /\ ClaimAnswerIsOwn'
  <2>1. /\ req[q].pc = "inserted" /\ q \in won /\ q \in InFlight
        /\ UNCHANGED <<pending, users, lastToken, won>>
    BY <1>7 DEF ClaimAnswer, history, AnswerInv, InFlight
  <2>2. /\ req'[q].pc \in {"answered", "unanswered"}
        /\ req'[q].token = req[q].token /\ req'[q].reg = req[q].reg
        /\ req'[q].pc = "answered" =>
             \E id \in UserIds : Exists(id) /\ req'[q].row = users[id]
        /\ \A s \in Requests : s # q => req'[s] = req[s]
    BY <1>7, ClaimAnswerEffect
  <2>3. \A r \in won : Contested(r)' <=> Contested(r)
    BY <1>0, <2>1, <2>2 DEF Contested
  <2>4. \A r \in won \ {q} : req[r].pc = "inserted" => Contested(r)
    <3>1. ASSUME NEW r \in won \ {q}, req[r].pc = "inserted", ~ Contested(r) PROVE FALSE
      BY <2>1, <3>1, AloneWithOwner
    <3>2. QED
      BY <3>1
  <2>5. req'[q].pc = "answered" => req'[q].row.reg = req'[q].reg \/ Contested(q)
    BY <2>1, <2>2, AloneWithOwner
  <2>6. ClaimAnswerIsOwn'
    BY <1>0, <2>1, <2>2, <2>3, <2>5 DEF ClaimAnswerIsOwn
  <2>7. \A k \in known' : k <= lastToken'
    BY <1>7, <2>1, ClaimAnswerEffect DEF AnswerInv
  <2>8. /\ \A r \in won' : req'[r].pc \in {"inserted", "answered", "unanswered"}
        /\ \A r \in Requests : req'[r].pc = "inserted" => r \in won' /\ req'[r].reg <= lastToken'
        /\ \A r \in won' : req'[r].pc = "inserted" => Contested(r)'
    BY <1>0, <2>1, <2>2, <2>3, <2>4 DEF AnswerInv
  <2>9. \A r \in Requests : req'[r].pc = "matched" =>
          \/ pending' = req'[r].token /\ pending' # NoToken
          \/ \E s \in won' : req'[s].token = req'[r].token
    BY <1>0, <2>1, <2>2 DEF AnswerInv
  <2>10. QED
    BY <2>1, <2>6, <2>7, <2>8, <2>9 DEF AnswerInv
<1>8. ASSUME NEW q \in Requests, NEW id \in UserIds, NEW op \in {"create", "delete", "mint"},
             Authenticate(q, id, op)
      PROVE  AnswerInv' /\ ClaimAnswerIsOwn'
  <2>1. /\ req[q].pc = "idle" /\ Exists(id) /\ users[id].token \in known
        /\ UNCHANGED <<pending, users, known, lastToken, won>>
    BY <1>8 DEF Authenticate, history
  <2>2. req'[q].pc = op /\ \A s \in Requests : s # q => req'[s] = req[s]
    <3>1. req[q] \in Request
      BY DEF TypeOK
    <3>2. [req[q] EXCEPT !.pc = op, !.row = users[id], !.caller = id].pc = op
      BY <3>1 DEF Request
    <3>3. QED
      BY <1>8, <3>2 DEF Authenticate, TypeOK
  <2>3. q \notin won
    BY <2>1 DEF AnswerInv
  <2>4. \A r \in won : req'[r] = req[r] /\ (Contested(r)' <=> Contested(r))
    BY <1>0, <2>1, <2>2, <2>3 DEF Contested
  <2>5. \A r \in won : req[r].pc = "inserted" => Contested(r)
    <3>1. ASSUME NEW r \in won, req[r].pc = "inserted", ~ Contested(r) PROVE FALSE
      BY <2>1, <3>1, AloneWithOwner
    <3>2. QED
      BY <3>1
  <2>6. ClaimAnswerIsOwn'
    BY <2>1, <2>4 DEF ClaimAnswerIsOwn
  <2>7. QED
    BY <2>1, <2>2, <2>4, <2>5, <2>6 DEF AnswerInv
<1>9. ASSUME NEW q \in Requests, NEW role \in Roles, CreateUser(q, role)
      PROVE  AnswerInv' /\ ClaimAnswerIsOwn'
  <2>1. /\ req[q] \in Request /\ req[q].pc = "create"
        /\ lastToken' = lastToken + 1 /\ UNCHANGED <<pending, won>>
        /\ Answer(q, lastToken', req[q])
    BY <1>9 DEF CreateUser, TypeOK, DrawToken
  <2>2. QED
    BY <1>0, <2>1, AnswerEffect, AnswerOther DEF AnswerInv
<1>10. ASSUME NEW q \in Requests, NEW id \in UserIds, DeleteUser(q, id)
       PROVE  AnswerInv' /\ ClaimAnswerIsOwn'
  <2>1. /\ req[q] \in Request /\ req[q].pc = "delete"
        /\ UNCHANGED <<pending, known, lastToken, won>>
        /\ req' = [req EXCEPT ![q] = [req[q] EXCEPT !.pc = "answered"]]
    BY <1>10 DEF DeleteUser, TypeOK
  <2>2. [req[q] EXCEPT !.pc = "answered"].pc = "answered"
    BY <2>1 DEF Request
  <2>3. req'[q].pc = "answered" /\ \A s \in Requests : s # q => req'[s] = req[s]
    BY <2>1, <2>2 DEF TypeOK
  <2>4. QED
    BY <1>0, <2>1, <2>3, AnswerOther DEF AnswerInv
<1>11. ASSUME NEW q \in Requests, NEW id \in UserIds, MintRead(q, id)
       PROVE  AnswerInv' /\ ClaimAnswerIsOwn'
  <2>1. /\ req[q] \in Request /\ req[q].pc = "mint"
        /\ UNCHANGED <<pending, known, lastToken, won>>
        /\ req' = [req EXCEPT ![q] = [req[q] EXCEPT !.pc = "minting", !.id = id]]
    BY <1>11 DEF MintRead, TypeOK, history
  <2>2. [req[q] EXCEPT !.pc = "minting", !.id = id].pc = "minting"
    BY <2>1 DEF Request
  <2>3. req'[q].pc = "minting" /\ \A s \in Requests : s # q => req'[s] = req[s]
    BY <2>1, <2>2 DEF TypeOK
  <2>4. QED
    BY <1>0, <2>1, <2>3, AnswerOther DEF AnswerInv
<1>12. ASSUME NEW q \in Requests, MintUpdate(q) PROVE AnswerInv' /\ ClaimAnswerIsOwn'
  <2>1. /\ req[q] \in Request /\ req[q].pc = "minting"
        /\ lastToken' = lastToken + 1 /\ UNCHANGED <<pending, won>>
        /\ Answer(q, lastToken', req[q])
    BY <1>12 DEF MintUpdate, TypeOK, DrawToken, history
  <2>2. QED
    BY <1>0, <2>1, AnswerEffect, AnswerOther DEF AnswerInv
<1>13. CASE UNCHANGED vars
  BY <1>13 DEF vars, history, AnswerInv, ClaimAnswerIsOwn, Contested, Exists, InFlight
<1>14. QED
  BY <1>2, <1>3, <1>4, <1>5, <1>6, <1>7, <1>8, <1>9, <1>10, <1>11, <1>12, <1>13
     DEF Next, ClaimRequest, UserRequest

(* The answer to a claim names the owner the claim inserted, unless two    *)
(* claims of one token went through: until an uncontested claim has been   *)
(* answered, its user is the only one and nobody can act for that user.    *)
THEOREM OwnAnswer == Spec => []ClaimAnswerIsOwn
<1>1. TypeOK /\ PendingExcludesUsers /\ AnswerInv /\ ClaimAnswerIsOwn /\ [Next]_vars
        => TypeOK' /\ PendingExcludesUsers' /\ AnswerInv' /\ ClaimAnswerIsOwn'
  BY TypeStep, ExclusionStep, AnswerStep
<1>2. Init => TypeOK /\ PendingExcludesUsers /\ AnswerInv /\ ClaimAnswerIsOwn
  BY TypeInit, ExclusionInit, AnswerInit
<1>3. QED
  BY <1>1, <1>2, PTL DEF Spec

-----------------------------------------------------------------------------
(* Somebody can administer the gateway.                                    *)

(* The ways to lose the last owner for good: a token that was stored and   *)
(* never arrived, and owners who deleted each other.                       *)
Lost == orphaned # {} \/ \E r \in Requests : AnswerLost(r)

(* An owner has one of these tokens. *)
OwnerHolds(tokens) == \E id \in UserIds : IsOwner(id) /\ users[id].token \in tokens

(* As long as nothing is lost, a claim that has inserted an owner is about *)
(* to tell an owner's token, somebody has the token of a user who exists   *)
(* and is about to delete another one, and somebody has that of an owner   *)
(* or is to get it: from a claim that is pending, that has inserted, or    *)
(* that a first boot has yet to make.                                      *)
HeldInv ==
  /\ \A r \in Requests : req[r].pc = "inserted" => OwnerHolds(known \cup {req[r].reg})
  /\ \A r \in Requests : req[r].pc = "delete" /\ ~ Deleted(r) =>
       users[req[r].caller].token \in known
  /\ \/ pending # NoToken
     \/ OwnerHolds(known)
     \/ \E r \in Requests : req[r].pc = "inserted"
     \/ boot = "starting" /\ Unclaimed

(* A claim that is pending was printed, unless the process died. *)
PrintedInv == pending # NoToken /\ boot # "printing" => pending \in known \/ crashes > 0

AdminInv ==
  /\ \A r \in Requests : req[r].pc = "inserted" => req[r].id # 0
  /\ PrintedInv
  /\ Lost \/ HeldInv

LEMMA AdminInit == Init => AdminInv
  BY DEF Init, AdminInv, PrintedInv, HeldInv, NoRequest, NoToken, Unclaimed, Exists

LEMMA AdminSuffices == TypeOK /\ AdminInv => SomebodyCanAdminister
<1> SUFFICES ASSUME AdminInv, boot = "serving"
             PROVE  \/ pending # NoToken /\ (pending \in known \/ crashes > 0)
                    \/ \E id \in UserIds : IsOwner(id) /\ users[id].token \in known
                    \/ \E r \in Requests : req[r].pc = "inserted" \/ AnswerLost(r)
                    \/ orphaned # {}
  BY DEF SomebodyCanAdminister
<1>1. CASE Lost
  BY <1>1 DEF Lost
<1>2. CASE HeldInv
  BY <1>2 DEF AdminInv, PrintedInv, HeldInv, OwnerHolds
<1>3. QED
  BY <1>1, <1>2 DEF AdminInv

(* What is lost stays lost. *)
LEMMA LostStays ==
  ASSUME Lost, orphaned \subseteq orphaned',
         \A s \in Requests : req[s].pc = "unanswered" => req'[s] = req[s]
  PROVE  Lost'
  BY DEF Lost, AnswerLost

(* A request q goes on, and every owner stays, with a token as good as     *)
(* before: all that is left to show is that those who delete have one too. *)
LEMMA AdminRequest ==
  ASSUME TypeOK, AdminInv, boot = "serving", NEW q \in Requests,
         req[q].pc \notin {"inserted", "unanswered"}, req'[q].pc # "inserted",
         \A s \in Requests : s # q => req'[s] = req[s],
         UNCHANGED <<pending, boot, crashes, orphaned>>, known \subseteq known',
         \A i \in UserIds : IsOwner(i) =>
           IsOwner(i)' /\ (users'[i].token = users[i].token \/ users'[i].token \in known'),
         HeldInv => \A s \in Requests : req'[s].pc = "delete" /\ ~ Deleted(s)' =>
           users'[req'[s].caller].token \in known'
  PROVE  AdminInv'
<1>1. \A s \in Requests : req[s].pc \in {"inserted", "unanswered"} => s # q /\ req'[s] = req[s]
  OBVIOUS
<1>2. \A s \in Requests : req'[s].pc = "inserted" => req[s].pc = "inserted" /\ req'[s] = req[s]
  OBVIOUS
<1>3. CASE Lost
  <2>1. Lost'
    BY <1>1, <1>3, LostStays
  <2>2. QED
    BY <1>2, <2>1 DEF AdminInv, PrintedInv
<1>4. CASE HeldInv
  <2>1. \A t \in SUBSET Nat : OwnerHolds(known \cup t) =>
          \E i \in UserIds : IsOwner(i)' /\ users'[i].token \in known' \cup t
    BY DEF OwnerHolds
  <2>2. ASSUME NEW s \in Requests, req'[s].pc = "inserted"
        PROVE  OwnerHolds(known \cup {req[s].reg})'
    <3>1. req'[s] = req[s] /\ OwnerHolds(known \cup {req[s].reg}) /\ {req[s].reg} \in SUBSET Nat
      BY <1>2, <1>4, <2>2 DEF HeldInv, TypeOK, Request
    <3>2. QED
      BY <2>1, <3>1 DEF OwnerHolds
  <2>3. OwnerHolds(known) => OwnerHolds(known)'
    BY DEF OwnerHolds
  <2>4. (\E s \in Requests : req[s].pc = "inserted") => \E s \in Requests : req'[s].pc = "inserted"
    BY <1>1
  <2>5. HeldInv'
    BY <1>4, <2>2, <2>3, <2>4 DEF HeldInv
  <2>6. QED
    BY <1>2, <2>5 DEF AdminInv, PrintedInv
<1>5. QED
  BY <1>3, <1>4 DEF AdminInv

(* The same where the users are as before, and q does not begin to delete. *)
LEMMA AdminReads ==
  ASSUME TypeOK, AdminInv, boot = "serving", NEW q \in Requests,
         req[q].pc \notin {"inserted", "unanswered"}, req'[q].pc # "inserted",
         req'[q].pc = "delete" => users[req'[q].caller].token \in known,
         \A s \in Requests : s # q => req'[s] = req[s],
         UNCHANGED <<users, pending, boot, crashes, known, orphaned>>
  PROVE  AdminInv'
<1>1. \A i \in UserIds : IsOwner(i) => IsOwner(i)' /\ users'[i].token = users[i].token
  BY DEF IsOwner, Exists
<1>2. HeldInv => \A s \in Requests : req'[s].pc = "delete" /\ ~ Deleted(s)' =>
                   users'[req'[s].caller].token \in known'
  BY DEF HeldInv, Deleted, Exists
<1>3. QED
  BY <1>1, <1>2, AdminRequest

(* An insert leaves the owners as they are, and hands nobody's id on to a  *)
(* request that does not know it.                                          *)
LEMMA InsertKeeps ==
  ASSUME TypeOK, CallerInv,
         NEW id \in UserIds, NEW org \in Orgs, NEW role \in Roles,
         DrawToken, InsertUser(id, org, role)
  PROVE  /\ \A i \in UserIds : IsOwner(i) => IsOwner(i)' /\ users'[i] = users[i]
         /\ \A s \in Requests :
              req'[s] = req[s] /\ req[s].pc = "delete" /\ ~ Deleted(s)' =>
                ~ Deleted(s) /\ users'[req[s].caller] = users[req[s].caller]
<1>1. /\ lastToken' = lastToken + 1 /\ lastToken \in Nat /\ ~ Exists(id)
      /\ users'[id].reg = lastToken'
      /\ \A i \in UserIds : i # id => users'[i] = users[i]
  <2>1. users'[id] = [org |-> org, role |-> role, token |-> lastToken', reg |-> lastToken']
    BY InsertEffect
  <2>2. QED
    BY <2>1, InsertEffect DEF TypeOK
<1>2. \A i \in UserIds : IsOwner(i) => IsOwner(i)' /\ users'[i] = users[i]
  BY <1>1 DEF IsOwner, Exists
<1>3. ASSUME NEW s \in Requests, req'[s] = req[s], req[s].pc = "delete", ~ Deleted(s)'
      PROVE  ~ Deleted(s) /\ users'[req[s].caller] = users[req[s].caller]
  <2>1. req[s].caller \in UserIds /\ req[s].row \in User
    BY <1>3 DEF TypeOK
  <2>2. req[s].row.reg \in Nat /\ req[s].row.reg <= lastToken
    BY <1>3, <2>1 DEF User, CallerInv
  <2>3. users'[req[s].caller].reg = req[s].row.reg
    BY <1>3 DEF Deleted
  <2>4. req[s].caller # id
    BY <1>1, <2>2, <2>3
  <2>5. QED
    BY <1>1, <1>3, <2>1, <2>4 DEF Deleted, Exists
<1>4. QED
  BY <1>2, <1>3

(* A claim that inserts an owner is about to tell the owner's token. *)
LEMMA AdminConsume ==
  ASSUME TypeOK, CallerInv, AdminInv, NEW q \in Requests, NEW org \in Orgs,
         ClaimConsume(q, org)
  PROVE  AdminInv'
<1>1. /\ req[q].pc = "matched" /\ DrawToken /\ pending' = NoToken
      /\ UNCHANGED <<boot, known, orphaned, crashes>>
  BY DEF ClaimConsume
<1>2. PICK id \in UserIds :
        /\ InsertUser(id, org, "owner")
        /\ req' = [req EXCEPT ![q].pc = "inserted", ![q].id = id, ![q].reg = lastToken']
  BY DEF ClaimConsume
<1>3. req[q] \in Request /\ "owner" \in Roles
  BY DEF TypeOK, Roles
<1>4. /\ req'[q].pc = "inserted" /\ req'[q].id = id /\ req'[q].reg = lastToken'
      /\ \A s \in Requests : s # q => req'[s] = req[s]
  <2>1. /\ [req[q] EXCEPT !.pc = "inserted", !.id = id, !.reg = lastToken'].pc = "inserted"
        /\ [req[q] EXCEPT !.pc = "inserted", !.id = id, !.reg = lastToken'].id = id
        /\ [req[q] EXCEPT !.pc = "inserted", !.id = id, !.reg = lastToken'].reg = lastToken'
    BY <1>3 DEF Request
  <2>2. req' = [req EXCEPT ![q] = [req[q] EXCEPT !.pc = "inserted", !.id = id, !.reg = lastToken']]
    BY <1>2
  <2>3. QED
    BY <2>1, <2>2 DEF TypeOK
<1>5. /\ \A i \in UserIds : IsOwner(i) => IsOwner(i)' /\ users'[i] = users[i]
      /\ \A s \in Requests :
           req'[s] = req[s] /\ req[s].pc = "delete" /\ ~ Deleted(s)' =>
             ~ Deleted(s) /\ users'[req[s].caller] = users[req[s].caller]
  BY <1>1, <1>2, <1>3, InsertKeeps
<1>6. IsOwner(id)' /\ users'[id].token = lastToken'
  <2>1. /\ users'[id] = [org |-> org, role |-> "owner", token |-> lastToken', reg |-> lastToken']
        /\ users'[id] \in User
    BY <1>1, <1>2, <1>3, InsertEffect
  <2>2. users'[id].role = "owner" /\ users'[id].token = lastToken'
    BY <2>1
  <2>3. QED
    BY <2>1, <2>2, NoUserAssumption DEF IsOwner, Exists
<1>7. id # 0
  BY ClaimBounds DEF UserIds
<1>8. Lost => Lost'
  <2>1. \A s \in Requests : req[s].pc = "unanswered" => req'[s] = req[s]
    BY <1>1, <1>4
  <2>2. QED
    BY <1>1, <2>1, LostStays
<1>9. ASSUME HeldInv PROVE HeldInv'
  <2>1. ASSUME NEW s \in Requests, req'[s].pc = "inserted"
        PROVE  \E i \in UserIds : IsOwner(i)' /\ users'[i].token \in known' \cup {req'[s].reg}
    <3>1. CASE s = q
      BY <1>4, <1>6, <3>1
    <3>2. CASE s # q
      BY <1>1, <1>4, <1>5, <1>9, <2>1, <3>2 DEF HeldInv, OwnerHolds
    <3>3. QED
      BY <3>1, <3>2
  <2>2. ASSUME NEW s \in Requests, req'[s].pc = "delete", ~ Deleted(s)'
        PROVE  users'[req'[s].caller].token \in known'
    <3>1. s # q /\ req'[s] = req[s]
      BY <1>4, <2>2
    <3>2. ~ Deleted(s) /\ users'[req[s].caller] = users[req[s].caller]
      BY <1>5, <2>2, <3>1
    <3>3. QED
      BY <1>1, <1>9, <2>2, <3>1, <3>2 DEF HeldInv
  <2>3. QED
    BY <1>4, <2>1, <2>2 DEF HeldInv, OwnerHolds
<1>10. QED
  BY <1>1, <1>4, <1>7, <1>8, <1>9 DEF AdminInv, PrintedInv

(* Nobody deletes oneself: an owner that deletes another one stays. *)
LEMMA AdminDelete ==
  ASSUME TypeOK, CallerInv, AdminInv, NEW q \in Requests, NEW id \in UserIds,
         DeleteUser(q, id)
  PROVE  AdminInv'
<1>1. /\ req[q].pc = "delete" /\ id # req[q].caller /\ boot = "serving"
      /\ users'[id] = NoUser /\ \A i \in UserIds : i # id => users'[i] = users[i]
      /\ orphaned' = IF Deleted(q) /\ IsOwner(id)
                     THEN orphaned \cup {users[id].org} ELSE orphaned
      /\ UNCHANGED <<pending, boot, known, crashes>>
  BY DEF DeleteUser, MayDelete, TypeOK, InFlight
<1>2. req'[q].pc = "answered" /\ \A s \in Requests : s # q => req'[s] = req[s]
  <2>1. req[q] \in Request
    BY DEF TypeOK
  <2>2. [req[q] EXCEPT !.pc = "answered"].pc = "answered"
    BY <2>1 DEF Request
  <2>3. QED
    BY <2>2 DEF DeleteUser, TypeOK
<1>3. /\ \A s \in Requests : req[s].pc \in {"inserted", "unanswered"} => req'[s] = req[s]
      /\ \A s \in Requests : req'[s].pc \in {"inserted", "delete"} => req'[s] = req[s]
  BY <1>1, <1>2
<1>4. CASE Lost
  BY <1>1, <1>3, <1>4, LostStays DEF AdminInv, PrintedInv
<1>5. CASE Deleted(q) /\ IsOwner(id)
  <2>1. Lost'
    BY <1>1, <1>5 DEF Lost
  <2>2. QED
    BY <1>1, <1>3, <2>1 DEF AdminInv, PrintedInv
<1>6. CASE HeldInv /\ ~ (Deleted(q) /\ IsOwner(id))
  <2>1. ASSUME NEW tokens, known \subseteq tokens, OwnerHolds(tokens)
        PROVE  \E i \in UserIds : IsOwner(i)' /\ users'[i].token \in tokens
    <3>1. CASE IsOwner(id)
      <4>1. /\ req[q].caller \in UserIds /\ users[req[q].caller].token \in known
            /\ Exists(req[q].caller) /\ users[req[q].caller].role = "owner"
        BY <1>1, <1>6, <3>1 DEF TypeOK, HeldInv, CallerInv, Deleted
      <4>2. PICK k \in UserIds : k = req[q].caller
        BY <4>1
      <4>3. k # id /\ users'[k] = users[k] /\ users[k] # NoUser
            /\ users[k].role = "owner" /\ users[k].token \in tokens
        BY <1>1, <2>1, <4>1, <4>2 DEF Exists
      <4>4. QED
        BY <4>3 DEF IsOwner, Exists
    <3>2. CASE ~ IsOwner(id)
      BY <1>1, <2>1, <3>2 DEF OwnerHolds, IsOwner, Exists
    <3>3. QED
      BY <3>1, <3>2
  <2>2. ASSUME NEW s \in Requests, req'[s].pc = "inserted"
        PROVE  OwnerHolds(known \cup {req[s].reg})'
    <3>1. OwnerHolds(known \cup {req[s].reg}) /\ req'[s] = req[s]
      BY <1>3, <1>6, <2>2 DEF HeldInv
    <3>2. PICK tokens : tokens = known \cup {req[s].reg}
      OBVIOUS
    <3>3. \E i \in UserIds : IsOwner(i)' /\ users'[i].token \in tokens
      BY <2>1, <3>1, <3>2
    <3>4. QED
      BY <1>1, <3>1, <3>2, <3>3 DEF OwnerHolds
  <2>3. ASSUME NEW s \in Requests, req'[s].pc = "delete", ~ Deleted(s)'
        PROVE  users'[req'[s].caller].token \in known'
    <3>1. req'[s] = req[s] /\ req[s].caller \in UserIds
      BY <1>3, <2>3 DEF TypeOK
    <3>2. ~ Deleted(s) /\ users'[req[s].caller] = users[req[s].caller]
      BY <1>1, <2>3, <3>1 DEF Deleted, Exists
    <3>3. QED
      BY <1>1, <1>6, <2>3, <3>1, <3>2 DEF HeldInv
  <2>4. OwnerHolds(known) => OwnerHolds(known)'
    BY <1>1, <2>1 DEF OwnerHolds
  <2>5. (\E s \in Requests : req[s].pc = "inserted") => \E s \in Requests : req'[s].pc = "inserted"
    BY <1>3
  <2>6. HeldInv'
    BY <1>1, <1>6, <2>2, <2>3, <2>4, <2>5 DEF HeldInv
  <2>7. QED
    BY <1>1, <1>3, <2>6 DEF AdminInv, PrintedInv
<1>7. QED
  BY <1>4, <1>5, <1>6 DEF AdminInv

(* The answer to a claim tells an owner's token, or is lost. *)
LEMMA AdminAnswer ==
  ASSUME TypeOK, AdminInv, NEW q \in Requests, ClaimAnswer(q)
  PROVE  AdminInv'
<1>1. /\ req[q].pc = "inserted" /\ req[q] \in Request /\ req[q].id # 0
      /\ UNCHANGED <<pending, users, boot, crashes, orphaned>>
  BY DEF ClaimAnswer, history, TypeOK, AdminInv
<1>2. \/ req'[q].pc = "unanswered" /\ req'[q].id = req[q].id /\ UNCHANGED known
      \/ req'[q].pc = "answered" /\ known' = known \cup {req[q].reg}
  <2>1. ASSUME NEW id \in UserIds, IsFirstOwner(id),
               Answer(q, req[q].reg, [req[q] EXCEPT !.row = users[id], !.caller = id])
        PROVE  \/ req'[q].pc = "unanswered" /\ req'[q].id = req[q].id /\ UNCHANGED known
               \/ req'[q].pc = "answered" /\ known' = known \cup {req[q].reg}
    <3>1. PICK request : request = [req[q] EXCEPT !.row = users[id], !.caller = id]
      OBVIOUS
    <3>2. users[id] \in User
      BY <2>1 DEF TypeOK, IsFirstOwner, IsOwner, Exists
    <3>3. request \in Request /\ request.id = req[q].id
      BY <1>1, <3>1, <3>2, UserIdRange DEF Request
    <3>4. /\ [request EXCEPT !.pc = "answered"].pc = "answered"
          /\ [request EXCEPT !.pc = "unanswered"].pc = "unanswered"
          /\ [request EXCEPT !.pc = "unanswered"].id = request.id
      BY <3>3 DEF Request
    <3>5. Answer(q, req[q].reg, request)
      BY <2>1, <3>1
    <3>6. QED
      BY <3>3, <3>4, <3>5 DEF Answer, TypeOK
  <2>2. CASE req' = [req EXCEPT ![q].pc = "unanswered"] /\ UNCHANGED known
    <3>1. /\ [req[q] EXCEPT !.pc = "unanswered"].pc = "unanswered"
          /\ [req[q] EXCEPT !.pc = "unanswered"].id = req[q].id
      BY <1>1 DEF Request
    <3>2. QED
      BY <2>2, <3>1 DEF TypeOK
  <2>3. QED
    BY <2>1, <2>2 DEF ClaimAnswer
<1>3. \A s \in Requests : s # q => req'[s] = req[s]
  BY ClaimAnswerEffect
<1>4. /\ known \subseteq known'
      /\ \A s \in Requests : req[s].pc = "unanswered" => req'[s] = req[s]
      /\ \A s \in Requests : req'[s].pc \in {"inserted", "delete"} => req'[s] = req[s]
  BY <1>1, <1>2, <1>3
<1>5. CASE Lost
  BY <1>1, <1>4, <1>5, LostStays DEF AdminInv, PrintedInv
<1>6. CASE req'[q].pc = "unanswered"
  <2>1. Lost'
    BY <1>1, <1>2, <1>6 DEF Lost, AnswerLost
  <2>2. QED
    BY <1>1, <1>4, <2>1 DEF AdminInv, PrintedInv
<1>7. CASE HeldInv /\ req'[q].pc = "answered"
  <2>1. known' = known \cup {req[q].reg} /\ OwnerHolds(known \cup {req[q].reg})
    BY <1>1, <1>2, <1>7 DEF HeldInv
  <2>2. OwnerHolds(known')
    BY <2>1
  <2>3. OwnerHolds(known)' /\ \A s \in Requests : OwnerHolds(known \cup {req[s].reg})'
    BY <1>1, <2>2 DEF OwnerHolds, IsOwner, Exists
  <2>4. \A s \in Requests : req'[s].pc = "delete" /\ ~ Deleted(s)' =>
          users'[req'[s].caller].token \in known'
    BY <1>1, <1>4, <1>7 DEF HeldInv, Deleted, Exists
  <2>5. QED
    BY <1>1, <1>4, <2>3, <2>4 DEF AdminInv, PrintedInv, HeldInv
<1>8. QED
  BY <1>2, <1>5, <1>6, <1>7 DEF AdminInv

(* A user's new token is told, or is lost. *)
LEMMA AdminMint ==
  ASSUME TypeOK, AdminInv, NEW q \in Requests, MintUpdate(q)
  PROVE  AdminInv'
<1>1. /\ req[q].pc = "minting" /\ boot = "serving" /\ req[q] \in Request
      /\ Exists(req[q].id) /\ lastToken' \in Nat
      /\ Answer(q, lastToken', req[q])
      /\ UNCHANGED <<pending, boot, crashes, orphaned>>
  BY DEF MintUpdate, TypeOK, InFlight, DrawToken, history
<1>2. PICK id \in UserIds : id = req[q].id
  BY <1>1 DEF Exists
<1>3. /\ users[id] \in User /\ id # 0
      /\ users' = [users EXCEPT ![id] = [users[id] EXCEPT !.token = lastToken']]
  BY <1>1, <1>2, ClaimBounds DEF MintUpdate, Exists, TypeOK, UserIds
<1>4. /\ [users[id] EXCEPT !.token = lastToken'] \in User
      /\ [users[id] EXCEPT !.token = lastToken'].token = lastToken'
      /\ [users[id] EXCEPT !.token = lastToken'].role = users[id].role
      /\ [users[id] EXCEPT !.token = lastToken'].reg = users[id].reg
  BY <1>1, <1>3 DEF User
<1>5. /\ users'[id] # NoUser /\ users[id] # NoUser
      /\ users'[id].token = lastToken' /\ users'[id].role = users[id].role
      /\ users'[id].reg = users[id].reg
      /\ \A i \in UserIds : i # id => users'[i] = users[i]
  BY <1>3, <1>4, NoUserAssumption DEF TypeOK
<1>6. /\ req'[q].pc \in {"answered", "unanswered"} /\ req'[q].id = req[q].id
      /\ \A s \in Requests : s # q => req'[s] = req[s]
      /\ known \subseteq known'
  BY <1>1, AnswerEffect DEF Carried
<1>7. CASE req'[q].pc = "unanswered"
  <2>1. Lost'
    BY <1>2, <1>3, <1>6, <1>7 DEF Lost, AnswerLost
  <2>2. QED
    BY <1>1, <1>6, <2>1 DEF AdminInv, PrintedInv
<1>8. CASE req'[q].pc = "answered"
  <2>1. lastToken' \in known'
    <3>1. [req[q] EXCEPT !.pc = "unanswered"].pc = "unanswered"
      BY <1>1 DEF Request
    <3>2. QED
      BY <1>1, <1>8, <3>1 DEF Answer, TypeOK
  <2>2. \A i \in UserIds : IsOwner(i) =>
          IsOwner(i)' /\ (users'[i].token = users[i].token \/ users'[i].token \in known')
    BY <1>5, <2>1 DEF IsOwner, Exists
  <2>3. ASSUME HeldInv, NEW s \in Requests, req'[s].pc = "delete", ~ Deleted(s)'
        PROVE  users'[req'[s].caller].token \in known'
    <3>1. req'[s] = req[s] /\ req[s].caller \in UserIds
      BY <1>6, <2>3 DEF TypeOK
    <3>2. CASE req[s].caller = id
      BY <1>5, <2>1, <3>1, <3>2
    <3>3. CASE req[s].caller # id
      BY <1>5, <1>6, <2>3, <3>1, <3>3 DEF HeldInv, Deleted, Exists
    <3>4. QED
      BY <3>2, <3>3
  <2>4. req[q].pc \notin {"inserted", "unanswered"} /\ req'[q].pc # "inserted"
    BY <1>1, <1>6
  <2>5. QED
    BY <1>1, <1>6, <2>2, <2>3, <2>4, AdminRequest
<1>9. QED
  BY <1>6, <1>7, <1>8

(* The steps of the process: a boot finds a claim, an owner, or neither    *)
(* and draws a token; a crash loses what was about to be told.             *)
LEMMA AdminProcess ==
  ASSUME TypeOK, AdminInv, Boot \/ PrintToken \/ Crash
  PROVE  AdminInv'
<1>1. UNCHANGED <<users, orphaned>> /\ known \subseteq known'
  BY DEF Boot, PrintToken, Crash, history
<1>2. \A i \in UserIds : IsOwner(i)' <=> IsOwner(i)
  BY <1>1 DEF IsOwner, Exists
<1>3. CASE Boot \/ PrintToken
  <2>1. InFlight = {} /\ UNCHANGED <<req, crashes>>
    BY <1>3 DEF Boot, PrintToken, TypeOK
  <2>2. \A s \in Requests : req'[s].pc \notin {"inserted", "delete"}
    BY <2>1 DEF InFlight
  <2>3. PrintedInv'
    <3>1. CASE Boot
      BY <2>1, <3>1 DEF AdminInv, PrintedInv, Boot
    <3>2. CASE PrintToken
      BY <3>2 DEF PrintToken, PrintedInv
    <3>3. QED
      BY <1>3, <3>1, <3>2
  <2>4. CASE Lost
    BY <1>1, <2>1, <2>2, <2>3, <2>4, LostStays DEF AdminInv
  <2>5. CASE HeldInv
    <3>1. ~ \E s \in Requests : req[s].pc = "inserted"
      BY <2>1, <2>2
    <3>2. pending # NoToken \/ OwnerHolds(known) \/ (boot = "starting" /\ Unclaimed)
      BY <2>5, <3>1 DEF HeldInv
    <3>3. OwnerHolds(known) => OwnerHolds(known)'
      BY <1>1, <1>2 DEF OwnerHolds
    <3>4. pending' # NoToken \/ OwnerHolds(known)'
      <4>1. CASE Boot
        <5>1. lastToken \in Nat
          BY DEF TypeOK
        <5>2. QED
          BY <3>2, <3>3, <4>1, <5>1 DEF Boot, DrawToken, NoToken
      <4>2. CASE PrintToken
        BY <3>2, <3>3, <4>2 DEF PrintToken
      <4>3. QED
        BY <1>3, <4>1, <4>2
    <3>5. QED
      BY <2>2, <2>3, <3>4 DEF AdminInv, HeldInv
  <2>6. QED
    BY <2>4, <2>5 DEF AdminInv
<1>4. CASE Crash
  <2>1. /\ UNCHANGED <<pending, known>> /\ boot' = "starting"
        /\ crashes' = crashes + 1 /\ crashes \in Nat
    BY <1>4 DEF Crash, TypeOK
  <2>2. \A s \in Requests : req'[s].pc \in Ended
    BY <1>4, CrashEffect DEF InFlight, Ended
  <2>3. \A s \in Requests : req[s].pc = "unanswered" => req'[s] = req[s]
    BY <1>4, CrashEffect DEF Ended
  <2>4. PrintedInv'
    BY <2>1 DEF PrintedInv
  <2>5. \A s \in Requests : req'[s].pc \notin {"inserted", "delete"}
    BY <2>2 DEF Ended
  <2>6. CASE Lost
    BY <1>1, <2>3, <2>4, <2>5, <2>6, LostStays DEF AdminInv
  <2>7. ASSUME NEW s \in Requests, req[s].pc = "inserted" PROVE Lost'
    <3>1. req[s] \in Request /\ req[s].id # 0
      BY <2>7 DEF TypeOK, AdminInv
    <3>2. req'[s] = [req[s] EXCEPT !.pc = "unanswered"]
      BY <1>4, <2>7, CrashEffect DEF Ended
    <3>3. req'[s].pc = "unanswered" /\ req'[s].id = req[s].id
      BY <3>1, <3>2 DEF Request
    <3>4. QED
      BY <3>1, <3>3 DEF Lost, AnswerLost
  <2>8. CASE HeldInv /\ ~ \E s \in Requests : req[s].pc = "inserted"
    <3>1. pending # NoToken \/ OwnerHolds(known) \/ (boot = "starting" /\ Unclaimed)
      BY <2>8 DEF HeldInv
    <3>2. OwnerHolds(known) => OwnerHolds(known)'
      BY <1>1, <1>2 DEF OwnerHolds
    <3>3. Unclaimed => Unclaimed'
      BY <1>1, <2>1 DEF Unclaimed, Exists
    <3>4. HeldInv'
      BY <2>1, <2>5, <3>1, <3>2, <3>3 DEF HeldInv
    <3>5. QED
      BY <2>4, <2>5, <3>4 DEF AdminInv
  <2>9. QED
    BY <2>4, <2>5, <2>6, <2>7, <2>8 DEF AdminInv
<1>5. QED
  BY <1>3, <1>4

LEMMA AdminStep == TypeOK /\ CallerInv /\ AdminInv /\ [Next]_vars => AdminInv'
<1> SUFFICES ASSUME TypeOK, CallerInv, AdminInv, [Next]_vars PROVE AdminInv'
  OBVIOUS
<1>1. CASE Boot \/ PrintToken \/ Crash
  BY <1>1, AdminProcess
<1>2. ASSUME NEW q \in Requests, ClaimCompare(q) PROVE AdminInv'
  <2>1. req[q] \in Request
    BY DEF TypeOK
  <2>2. [req[q] EXCEPT !.pc = "matched", !.token = pending].pc = "matched"
    BY <2>1 DEF Request
  <2>3. /\ req[q].pc = "idle" /\ req'[q].pc = "matched"
        /\ \A s \in Requests : s # q => req'[s] = req[s]
    BY <1>2, <2>2 DEF ClaimCompare, TypeOK
  <2>4. boot = "serving" /\ UNCHANGED <<users, pending, boot, crashes, known, orphaned>>
    BY <1>2 DEF ClaimCompare, history
  <2>5. QED
    BY <2>3, <2>4, AdminReads
<1>3. ASSUME NEW q \in Requests, NEW org \in Orgs, ClaimConsume(q, org) PROVE AdminInv'
  BY <1>3, AdminConsume
<1>4. ASSUME NEW q \in Requests, ClaimAnswer(q) PROVE AdminInv'
  BY <1>4, AdminAnswer
<1>5. ASSUME NEW q \in Requests, NEW id \in UserIds, NEW op \in {"create", "delete", "mint"},
             Authenticate(q, id, op)
      PROVE  AdminInv'
  <2>1. req[q] \in Request
    BY DEF TypeOK
  <2>2. /\ [req[q] EXCEPT !.pc = op, !.row = users[id], !.caller = id].pc = op
        /\ [req[q] EXCEPT !.pc = op, !.row = users[id], !.caller = id].caller = id
    BY <2>1 DEF Request
  <2>3. /\ req[q].pc = "idle" /\ req'[q].pc = op /\ req'[q].caller = id
        /\ \A s \in Requests : s # q => req'[s] = req[s]
    BY <1>5, <2>2 DEF Authenticate, TypeOK
  <2>4. /\ boot = "serving" /\ users[id].token \in known
        /\ UNCHANGED <<users, pending, boot, crashes, known, orphaned>>
    BY <1>5 DEF Authenticate, history
  <2>5. QED
    BY <2>3, <2>4, AdminReads
<1>6. ASSUME NEW q \in Requests, NEW role \in Roles, CreateUser(q, role) PROVE AdminInv'
  <2>1. /\ req[q] \in Request /\ req[q].pc = "create" /\ boot = "serving"
        /\ req[q].row.org \in Orgs /\ DrawToken /\ lastToken' \in Nat
        /\ Answer(q, lastToken', req[q])
        /\ UNCHANGED <<pending, boot, orphaned, crashes>>
    BY <1>6 DEF CreateUser, TypeOK, InFlight, User, DrawToken
  <2>2. PICK id \in UserIds : InsertUser(id, req[q].row.org, role)
    BY <1>6 DEF CreateUser
  <2>3. /\ req'[q].pc \in {"answered", "unanswered"} /\ known \subseteq known'
        /\ \A s \in Requests : s # q => req'[s] = req[s]
    BY <2>1, AnswerEffect
  <2>4. /\ \A i \in UserIds : IsOwner(i) => IsOwner(i)' /\ users'[i] = users[i]
        /\ \A s \in Requests :
             req'[s] = req[s] /\ req[s].pc = "delete" /\ ~ Deleted(s)' =>
               ~ Deleted(s) /\ users'[req[s].caller] = users[req[s].caller]
    BY <2>1, <2>2, InsertKeeps
  <2>5. HeldInv => \A s \in Requests : req'[s].pc = "delete" /\ ~ Deleted(s)' =>
                     users'[req'[s].caller].token \in known'
    <3>1. \A s \in Requests : req'[s].pc = "delete" => req'[s] = req[s]
      BY <2>3
    <3>2. QED
      BY <2>3, <2>4, <3>1 DEF HeldInv
  <2>6. /\ req[q].pc \notin {"inserted", "unanswered"} /\ req'[q].pc # "inserted"
        /\ \A i \in UserIds : IsOwner(i) =>
             IsOwner(i)' /\ (users'[i].token = users[i].token \/ users'[i].token \in known')
    BY <2>1, <2>3, <2>4
  <2>7. QED
    BY <2>1, <2>3, <2>5, <2>6, AdminRequest
<1>7. ASSUME NEW q \in Requests, NEW id \in UserIds, DeleteUser(q, id) PROVE AdminInv'
  BY <1>7, AdminDelete
<1>8. ASSUME NEW q \in Requests, NEW id \in UserIds, MintRead(q, id) PROVE AdminInv'
  <2>1. req[q] \in Request
    BY DEF TypeOK
  <2>2. [req[q] EXCEPT !.pc = "minting", !.id = id].pc = "minting"
    BY <2>1 DEF Request
  <2>3. /\ req[q].pc = "mint" /\ req'[q].pc = "minting"
        /\ \A s \in Requests : s # q => req'[s] = req[s]
    BY <1>8, <2>2 DEF MintRead, TypeOK
  <2>4. boot = "serving" /\ UNCHANGED <<users, pending, boot, crashes, known, orphaned>>
    BY <1>8, <2>3 DEF MintRead, history, TypeOK, InFlight
  <2>5. QED
    BY <2>3, <2>4, AdminReads
<1>9. ASSUME NEW q \in Requests, MintUpdate(q) PROVE AdminInv'
  BY <1>9, AdminMint
<1>10. CASE UNCHANGED vars
  <2>1. UNCHANGED <<pending, users, boot, req, known, crashes, orphaned>>
    BY <1>10 DEF vars, history
  <2>2. (Lost <=> Lost') /\ (PrintedInv <=> PrintedInv')
    BY <2>1 DEF Lost, AnswerLost, PrintedInv
  <2>3. HeldInv => HeldInv'
    BY <2>1 DEF HeldInv, OwnerHolds, IsOwner, Exists, Deleted, Unclaimed
  <2>4. QED
    BY <2>1, <2>2, <2>3 DEF AdminInv
<1>11. QED
  BY <1>1, <1>2, <1>3, <1>4, <1>5, <1>6, <1>7, <1>8, <1>9, <1>10
     DEF Next, ClaimRequest, UserRequest

(* While the gateway serves, somebody can administer it or claim it, or is *)
(* about to be told how, unless a printed token or an answer was lost or   *)
(* owners deleted each other: whoever deletes an owner is another one whom *)
(* somebody can still act for, or was deleted since authenticating.        *)
THEOREM Administered == Spec => []SomebodyCanAdminister
<1>1. TypeOK /\ CallerInv /\ KeepsAnOwner /\ AdminInv /\ [Next]_vars
        => TypeOK' /\ CallerInv' /\ KeepsAnOwner' /\ AdminInv'
  BY TypeStep, OwnerStep, AdminStep
<1>2. Init => TypeOK /\ CallerInv /\ KeepsAnOwner /\ AdminInv
  BY TypeInit, OwnerInit, AdminInit
<1>3. QED
  BY <1>1, <1>2, AdminSuffices, PTL DEF Spec
=============================================================================
