-------------------------------- MODULE Claim --------------------------------
(***************************************************************************)
(* First-boot claim and users of the gateway: the boot sequence that seeds *)
(* and prints a claim token, POST /v1/claim, and the handlers that create  *)
(* and delete users and mint tokens for them.                              *)
(*                                                                         *)
(* One atomic step is one SQLite statement or transaction.  A request that *)
(* the code refuses changes nothing and has no action; so has one whose    *)
(* statement fails.  Tokens are numbers, drawn in order, and stand for     *)
(* their hashes too: both are unique, and compared for equality only.      *)
(*                                                                         *)
(* Operators named Mutant... are no part of the model: each is the next    *)
(* definition with a bug put in, for the check that a property notices it. *)
(***************************************************************************)
EXTENDS Naturals

CONSTANTS
  Requests,  \* requests to the REST API
  Orgs,      \* organisations an owner may be stamped into
  NoUser,    \* "no row with this id"
  MaxUserId, \* bound on the row ids of users in use at once
  MaxToken,  \* bound on the tokens drawn
  MaxCrashes \* bound on the times the process dies

ASSUME ClaimBounds == MaxUserId \in Nat /\ MaxToken \in Nat /\ MaxCrashes \in Nat

UserIds == 1 .. MaxUserId
Roles == {"owner", "operator"}
NoToken == 0

(* `reg` is the token the row was inserted with.  It is no column: it tells *)
(* a user from a later one that was given the same row id.                  *)
User == [org : Orgs, role : Roles, token : Nat, reg : Nat]

ASSUME NoUserAssumption == NoUser \notin User

VARIABLES
  pending,   \* token of the row of claim_pending
  users,     \* the users table
  boot,      \* how far the process is: "starting", "printing" or "serving"
  req,       \* requests
  known,     \* tokens somebody was shown
  lastToken, \* the last token drawn
  \* history
  won,       \* claims that inserted an owner
  seated,    \* organisations that ever had an owner
  orphaned,  \* organisations an owner was deleted from by one deleted before
  crashes    \* times the process died

history == <<won, seated, orphaned>>
vars == <<pending, users, boot, req, known, lastToken, history, crashes>>

(* What a handler has in hand: the token presented to a claim, the users   *)
(* row it has read and that row's id, the id it acts on or has inserted,   *)
(* and the reg of the row there.                                           *)
NoRequest == [pc |-> "idle", token |-> NoToken, row |-> NoUser, caller |-> 0,
              id |-> 0, reg |-> 0]

Init ==
  /\ pending = NoToken
  /\ users = [id \in UserIds |-> NoUser]
  /\ boot = "starting"
  /\ req = [r \in Requests |-> NoRequest]
  /\ known = {} /\ lastToken = 0
  /\ won = {} /\ seated = {} /\ orphaned = {} /\ crashes = 0

Exists(id) == id \in UserIds /\ users[id] # NoUser

IsOwner(id) == Exists(id) /\ users[id].role = "owner"

(* The rowid of the next row: the largest in use, plus one. *)
IsNextId(id) ==
  /\ id \in UserIds
  /\ \A i \in UserIds : i >= id => ~ Exists(i)
  /\ id > 1 => Exists(id - 1)

(* token::generate *)
DrawToken == lastToken < MaxToken /\ lastToken' = lastToken + 1

(* INSERT INTO users, with a token just drawn. *)
InsertUser(id, org, role) ==
  /\ IsNextId(id)
  /\ users' = [users EXCEPT ![id] =
       [org |-> org, role |-> role, token |-> lastToken', reg |-> lastToken']]
  /\ seated' = IF role = "owner" THEN seated \cup {org} ELSE seated

(* The handler answers with the token, or its answer never arrives. *)
Answer(r, token, request) ==
  \/ req' = [req EXCEPT ![r] = [request EXCEPT !.pc = "answered"]]
     /\ known' = known \cup {token}
  \/ req' = [req EXCEPT ![r] = [request EXCEPT !.pc = "unanswered"]]
     /\ UNCHANGED known

-----------------------------------------------------------------------------
(* The process.                                                            *)

MutantUnclaimed == pending = NoToken

(* ensure_pending: no users, and no claim pending. *)
Unclaimed == (\A id \in UserIds : ~ Exists(id)) /\ pending = NoToken

(* Nothing else runs before the listeners are up, so the two counts and *)
(* the insert of ensure_pending are one step.                           *)
Boot ==
  /\ boot = "starting"
  /\ \/ /\ Unclaimed /\ DrawToken
        /\ pending' = lastToken' /\ boot' = "printing"
     \/ /\ ~ Unclaimed
        /\ boot' = "serving" /\ UNCHANGED <<pending, lastToken>>
  /\ UNCHANGED <<users, req, known, history, crashes>>

PrintToken ==
  /\ boot = "printing"
  /\ known' = known \cup {pending}
  /\ boot' = "serving"
  /\ UNCHANGED <<pending, users, req, lastToken, history, crashes>>

(* The process dies, with the requests it was handling, and is restarted. *)
Crash ==
  /\ crashes < MaxCrashes /\ crashes' = crashes + 1
  /\ boot' = "starting"
  /\ req' = [r \in Requests |->
       IF req[r].pc \in {"idle", "answered", "unanswered"}
       THEN req[r] ELSE [req[r] EXCEPT !.pc = "unanswered"]]
  /\ UNCHANGED <<pending, users, known, lastToken, history>>

-----------------------------------------------------------------------------
(* POST /v1/claim.                                                         *)

(* The stored hash is read and compared, outside of any transaction. *)
ClaimCompare(r) ==
  /\ boot = "serving" /\ req[r].pc = "idle"
  /\ pending # NoToken /\ pending \in known
  /\ req' = [req EXCEPT ![r].pc = "matched", ![r].token = pending]
  /\ UNCHANGED <<pending, users, boot, known, lastToken, history, crashes>>

(* The transaction: DELETE, whose count of rows is not looked at, INSERT. *)
ClaimConsume(r, org) ==
  /\ req[r].pc = "matched"
  /\ DrawToken
  /\ pending' = NoToken
  /\ \E id \in UserIds :
       /\ InsertUser(id, org, "owner")
       /\ req' = [req EXCEPT ![r].pc = "inserted", ![r].id = id, ![r].reg = lastToken']
  /\ won' = won \cup {r}
  /\ UNCHANGED <<boot, known, orphaned, crashes>>

(* users::list, in the order of ids, .find(role == "owner"). *)
IsFirstOwner(id) == IsOwner(id) /\ \A i \in UserIds : IsOwner(i) => id <= i

ClaimAnswer(r) ==
  /\ req[r].pc = "inserted"
  /\ \/ \E id \in UserIds :
          /\ IsFirstOwner(id)
          /\ Answer(r, req[r].reg, [req[r] EXCEPT !.row = users[id], !.caller = id])
     \/ /\ \A id \in UserIds : ~ IsOwner(id)
        /\ req' = [req EXCEPT ![r].pc = "unanswered"] /\ UNCHANGED known
  /\ UNCHANGED <<pending, users, boot, lastToken, history, crashes>>

-----------------------------------------------------------------------------
(* Requests with a bearer token.                                           *)

(* The extractor finds the user of the token; the handler then goes by the *)
(* row that was read, for its checks of the role too.                      *)
Authenticate(r, id, op) ==
  /\ boot = "serving" /\ req[r].pc = "idle"
  /\ Exists(id) /\ users[id].token \in known
  /\ op \in {"create", "delete"} => users[id].role = "owner"
  /\ req' = [req EXCEPT ![r].pc = op, ![r].row = users[id], ![r].caller = id]
  /\ UNCHANGED <<pending, users, boot, known, lastToken, history, crashes>>

(* POST /v1/users. *)
CreateUser(r, role) ==
  /\ req[r].pc = "create"
  /\ DrawToken
  /\ \E id \in UserIds : InsertUser(id, req[r].row.org, role)
  /\ Answer(r, lastToken', req[r])
  /\ UNCHANGED <<pending, boot, won, orphaned, crashes>>

(* The caller's row is not the one the handler has read. *)
Deleted(r) == ~ Exists(req[r].caller) \/ users[req[r].caller].reg # req[r].row.reg

MutantMayDelete(r, id) == Exists(id) /\ users[id].org = req[r].row.org

(* Not oneself; and the DELETE is limited to the caller's organisation. *)
MayDelete(r, id) ==
  /\ id # req[r].caller
  /\ Exists(id) /\ users[id].org = req[r].row.org

(* DELETE /v1/users/:id. *)
DeleteUser(r, id) ==
  /\ req[r].pc = "delete"
  /\ MayDelete(r, id)
  /\ users' = [users EXCEPT ![id] = NoUser]
  /\ req' = [req EXCEPT ![r].pc = "answered"]
  /\ orphaned' = IF Deleted(r) /\ IsOwner(id)
                 THEN orphaned \cup {users[id].org} ELSE orphaned
  /\ UNCHANGED <<pending, boot, known, lastToken, won, seated, crashes>>

(* POST /v1/users/:id/tokens: by an owner, or by the user; the target is   *)
(* read for its organisation, then updated by its id.                      *)
MintRead(r, id) ==
  /\ req[r].pc = "mint"
  /\ req[r].row.role = "owner" \/ id = req[r].caller
  /\ Exists(id) /\ users[id].org = req[r].row.org
  /\ req' = [req EXCEPT ![r].pc = "minting", ![r].id = id]
  /\ UNCHANGED <<pending, users, boot, known, lastToken, history, crashes>>

MutantMintUpdate(r) == \* the caller is shown a token other than the stored one
  /\ req[r].pc = "minting" /\ Exists(req[r].id)
  /\ DrawToken
  /\ users' = [users EXCEPT ![req[r].id].token = lastToken']
  /\ Answer(r, lastToken, req[r])
  /\ UNCHANGED <<pending, boot, history, crashes>>

MintUpdate(r) ==
  /\ req[r].pc = "minting" /\ Exists(req[r].id)
  /\ DrawToken
  /\ users' = [users EXCEPT ![req[r].id].token = lastToken']
  /\ Answer(r, lastToken', req[r])
  /\ UNCHANGED <<pending, boot, history, crashes>>

-----------------------------------------------------------------------------
ClaimRequest(r) ==
  \/ ClaimCompare(r) \/ ClaimAnswer(r)
  \/ \E org \in Orgs : ClaimConsume(r, org)

UserRequest(r) ==
  \/ \E id \in UserIds, op \in {"create", "delete", "mint"} : Authenticate(r, id, op)
  \/ \E role \in Roles : CreateUser(r, role)
  \/ \E id \in UserIds : DeleteUser(r, id) \/ MintRead(r, id)
  \/ MintUpdate(r)

Next ==
  \/ Boot \/ PrintToken \/ Crash
  \/ \E r \in Requests : ClaimRequest(r) \/ UserRequest(r)

Spec == Init /\ [][Next]_vars

-----------------------------------------------------------------------------
(* Properties.                                                             *)

Request == [pc : {"idle", "matched", "inserted", "create", "delete", "mint",
                  "minting", "answered", "unanswered"},
            token : Nat, row : User \cup {NoUser}, caller : 0 .. MaxUserId,
            id : 0 .. MaxUserId, reg : Nat]

(* Requests that are being handled. *)
InFlight == {r \in Requests : req[r].pc \notin {"idle", "answered", "unanswered"}}

(* Every variable has its type; requests are handled only once the boot    *)
(* sequence is over; and handlers that act for a user have read its row.   *)
TypeOK ==
  /\ pending \in Nat /\ lastToken \in Nat /\ crashes \in Nat
  /\ users \in [UserIds -> User \cup {NoUser}]
  /\ boot \in {"starting", "printing", "serving"}
  /\ req \in [Requests -> Request]
  /\ known \in SUBSET Nat
  /\ won \in SUBSET Requests /\ seated \in SUBSET Orgs /\ orphaned \in SUBSET Orgs
  /\ boot # "serving" => InFlight = {}
  /\ \A r \in Requests :
       req[r].pc \in {"create", "delete", "mint", "minting"} =>
         req[r].row \in User /\ req[r].caller \in UserIds

(* A claim can be pending only while nobody has an account, and nobody's   *)
(* request is still under way: a gateway in use cannot be claimed.         *)
PendingExcludesUsers ==
  pending # NoToken =>
    /\ \A id \in UserIds : ~ Exists(id)
    /\ \A r \in InFlight : req[r].pc = "matched" /\ req[r].token = pending

(* Another claim of the same token inserted an owner too. *)
Contested(r) == \E s \in won \ {r} : req[s].token = req[r].token

(* The answer to a claim names the owner that this claim inserted, unless  *)
(* two claims of one token both went through: the handler searches for an  *)
(* owner instead of using the id of its own insert.                        *)
ClaimAnswerIsOwn ==
  \A r \in won :
    req[r].pc = "answered" => req[r].row.reg = req[r].reg \/ Contested(r)

(* An organisation that has had an owner keeps one, unless a user who was  *)
(* deleted meanwhile deleted another one: nobody can delete himself, but   *)
(* two owners can delete each other.                                       *)
KeepsAnOwner ==
  \A org \in seated :
    org \in orphaned \/ \E id \in UserIds : IsOwner(id) /\ users[id].org = org

(* The token that a claim or a mint stored was never shown to anybody. *)
AnswerLost(r) == req[r].pc = "unanswered" /\ req[r].id # 0

(* While the gateway serves, somebody can administer it or claim it, or is *)
(* about to be told how.  There are three ways to lose it: a crash before  *)
(* the claim token is printed, an answer with a token that never arrives,  *)
(* and owners who delete each other.                                       *)
SomebodyCanAdminister ==
  boot = "serving" =>
    \/ pending # NoToken /\ (pending \in known \/ crashes > 0)
    \/ \E id \in UserIds : IsOwner(id) /\ users[id].token \in known
    \/ \E r \in Requests : req[r].pc = "inserted" \/ AnswerLost(r)
    \/ orphaned # {}
=============================================================================
