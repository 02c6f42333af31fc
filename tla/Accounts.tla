------------------------------- MODULE Accounts -------------------------------
(***************************************************************************)
(* Users and their roles in workspaces (internal/interfaces/user.go,       *)
(* biz/user.go, data/user.go): a new user is looked up by its email before *)
(* it is stored, a switch on or off reads a user and saves it whole, and a *)
(* save reconciles the roles in a transaction that holds the row of the    *)
(* user from its first statement to its end.                               *)
(*                                                                         *)
(* The roles of a user are rows [id, user, role]; a role stands for a pair *)
(* of a workspace and a role.  What a transaction has written is seen when *)
(* it commits: "gone" are the rows it has deleted until then.              *)
(***************************************************************************)
EXTENDS Naturals, FiniteSets, Functions

CONSTANTS Clients, Emails, Roles,
          EditEmail,  \* may a save change the email
          MaxActive,  \* requests at a time
          MaxReq, MaxFaults

VARIABLES users,   \* id -> [email, on]
          wroles,  \* the rows of roles
          req,     \* the request of each client
          count    \* ids, requests and faults so far

vars == <<users, wroles, req, count>>

NoReq == [op |-> "none", at |-> "done", id |-> 0, email |-> "", on |-> FALSE, list |-> {}, have |-> {}, gone |-> {}]
Active == {c \in Clients : req[c].at # "done"}
Of(u) == {r \in wroles : r.user = u}
RolesOf(u) == {r.role : r \in Of(u)}

Init ==
  /\ users = <<>> /\ wroles = {} /\ req = [c \in Clients |-> NoReq]
  /\ count = [user |-> 0, role |-> 0, req |-> 0, fault |-> 0]

Begin(c, q) ==
  /\ c \notin Active /\ Cardinality(Active) < MaxActive /\ count.req < MaxReq
  /\ count' = [count EXCEPT !.req = @ + 1]
  /\ req' = [req EXCEPT ![c] = q]
  /\ UNCHANGED <<users, wroles>>
To(c, at) == req' = [req EXCEPT ![c] = IF at = "done" THEN NoReq ELSE [@ EXCEPT !.at = at]]

-----------------------------------------------------------------------------
(* What is asked for.                                                      *)

SaveNew(c) == \E e \in Emails, list \in SUBSET Roles :
  Begin(c, [NoReq EXCEPT !.op = "save", !.at = "check", !.email = e, !.on = TRUE, !.list = list])
SaveUser(c) == \E u \in DOMAIN users, e \in Emails, list \in SUBSET Roles :
  /\ EditEmail \/ e = users[u].email
  /\ Begin(c, [NoReq EXCEPT !.op = "save", !.at = "row", !.id = u, !.email = e, !.on = users[u].on, !.list = list])
EnableUser(c) == \E u \in DOMAIN users :
  Begin(c, [NoReq EXCEPT !.op = "switch", !.at = "read", !.id = u, !.on = TRUE])
DisableUser(c) == \E u \in DOMAIN users :
  Begin(c, [NoReq EXCEPT !.op = "switch", !.at = "read", !.id = u])
DeleteUser(c) == \E u \in DOMAIN users : Begin(c, [NoReq EXCEPT !.op = "delete", !.at = "read", !.id = u])

-----------------------------------------------------------------------------
\* Of a new user only: "user already exists".
CheckEmail(c) ==
  /\ req[c].at = "check"
  /\ To(c, IF \E u \in DOMAIN users : users[u].email = req[c].email THEN "done" ELSE "row")
  /\ UNCHANGED <<users, wroles, count>>

\* The user with its roles.
AsRead(q) == [q EXCEPT !.email = users[q.id].email, !.list = RolesOf(q.id)]

\* A user that is gone is read as an empty one, which ends the request.
GetUser(c) ==
  /\ req[c].at = "read"
  /\ LET q == req[c] IN
     IF q.id \notin DOMAIN users THEN To(c, "done")
     ELSE IF q.op = "delete" THEN To(c, "roles")
     ELSE req' = [req EXCEPT ![c] = [AsRead(q) EXCEPT !.at = "row"]]
  /\ UNCHANGED <<users, wroles, count>>

-----------------------------------------------------------------------------
(* Save.                                                                   *)

\* No other transaction holds the row of the user.
Free(c, u) == \A d \in Clients \ {c} : ~(req[d].at \in {"find", "sync"} /\ req[d].id = u)

\* The row of the user is written, or inserted when it is new or gone.
SaveRow(c) ==
  /\ req[c].at = "row" /\ Free(c, req[c].id)
  /\ LET new == req[c].id = 0 IN
     /\ count' = IF new THEN [count EXCEPT !.user = @ + 1] ELSE count
     /\ req' = [req EXCEPT ![c].at = "find", ![c].id = IF new THEN count.user + 1 ELSE @]
  /\ UNCHANGED <<users, wroles>>

FindRoles(c) ==
  /\ req[c].at = "find"
  /\ req' = [req EXCEPT ![c].at = "sync", ![c].have = Of(req[c].id)]
  /\ UNCHANGED <<users, wroles, count>>

Written(q) ==
  [u \in DOMAIN users \cup {q.id} |->
     IF u = q.id THEN [email |-> q.email, on |-> q.on] ELSE users[u]]

\* Rows of roles that a delete under way has deleted.
Held(c) == UNION {req[d].gone : d \in Clients \ {c}}

\* What is to be deleted and what is to be added, by the roles found.
Unlisted(q) == IF q.list = {} THEN {} ELSE {r \in q.have : r.role \notin q.list}

Missing(q) == q.list \ {r.role : r \in q.have}

\* Roles are added and taken away by the list, unless it is empty; the
\* transaction commits.
SyncRoles(c) ==
  /\ req[c].at = "sync" /\ Unlisted(req[c]) \cap Held(c) = {}
  /\ LET q == req[c]
         place == CHOOSE p \in [Missing(q) -> 1..Cardinality(Missing(q))] : IsInjective(p)
     IN
       /\ wroles' = (wroles \ Unlisted(q)) \cup
            {[id |-> count.role + place[r], user |-> q.id, role |-> r] : r \in Missing(q)}
       /\ count' = [count EXCEPT !.role = @ + Cardinality(Missing(q))]
       /\ users' = Written(q)
  /\ To(c, "done")

-----------------------------------------------------------------------------
(* Delete.                                                                 *)

\* Variant: the roles are left.
DeleteNoRoles(c) ==
  /\ req[c].at = "roles" /\ To(c, "user")
  /\ UNCHANGED <<users, wroles, count>>

DeleteRoles(c) ==
  /\ req[c].at = "roles" /\ Of(req[c].id) \cap Held(c) = {}
  /\ req' = [req EXCEPT ![c].at = "user", ![c].gone = Of(req[c].id)]
  /\ UNCHANGED <<users, wroles, count>>

DeleteRow(c) ==
  /\ req[c].at = "user" /\ Free(c, req[c].id)
  /\ users' = [u \in DOMAIN users \ {req[c].id} |-> users[u]]
  /\ wroles' = wroles \ req[c].gone
  /\ To(c, "done") /\ UNCHANGED count

\* Variant: the database leaves them waiting.
DeadlockStays(c, d) == FALSE

\* A save waits for a role that a delete has taken, and the delete for the row
\* that the save holds: the database ends one of them.
Deadlock(c, d) ==
  /\ req[c].at = "sync" /\ req[d].at = "user" /\ req[d].id = req[c].id
  /\ Unlisted(req[c]) \cap req[d].gone # {}
  /\ \E loser \in {c, d} : To(loser, "done")
  /\ UNCHANGED <<users, wroles, count>>

\* A statement fails, and the transaction is rolled back.
Fail(c) ==
  /\ c \in Active /\ count.fault < MaxFaults
  /\ count' = [count EXCEPT !.fault = @ + 1]
  /\ To(c, "done") /\ UNCHANGED <<users, wroles>>

Step(c) ==
  \/ CheckEmail(c) \/ GetUser(c) \/ SaveRow(c) \/ FindRoles(c) \/ SyncRoles(c) \/ DeleteRoles(c) \/ DeleteRow(c)
  \/ \E d \in Clients : Deadlock(c, d)
Next == \E c \in Clients :
  SaveNew(c) \/ SaveUser(c) \/ EnableUser(c) \/ DisableUser(c) \/ DeleteUser(c) \/ Step(c) \/ Fail(c)

\* The database and the server go on with every request.
Spec == Init /\ [][Next]_vars /\ \A c \in Clients : WF_vars(Step(c))

-----------------------------------------------------------------------------
(* Properties.                                                             *)

\* Users and roles have ids given out, no id twice.
TypeOK ==
  /\ DOMAIN users \subseteq 1..count.user
  /\ \A r \in wroles : r.id \in 1..count.role /\ r.user \in 1..count.user /\ r.role \in Roles
  /\ \A r, s \in wroles : r.id = s.id => r = s

\* "user already exists" (internal/biz/user.go:314): no two users have one email.
EmailsAreUnique == \A u, v \in DOMAIN users : users[u].email = users[v].email => u = v

\* One request after another: no role is left of a user that is gone.
NoLooseRoles == \A r \in wroles : r.user \in DOMAIN users

\* A save with roles leaves the user with those roles; a switch on or off
\* changes the roles of nobody.
RolesAreListed ==
  \A c \in Clients : req[c].at = "sync" /\ req'[c].at = "done" /\ count.fault' = count.fault =>
       /\ req[c].op = "save" /\ req[c].list # {} => {r.role : r \in {s \in wroles' : s.user = req[c].id}} = req[c].list
       /\ req[c].op = "switch" => wroles' = wroles

\* No role of a user is stored twice, however saves of the user, switches and
\* deletes run at one time.
RolesOnce == \A r, s \in wroles : r.user = s.user /\ r.role = s.role => r = s

\* A request that has not come to its end; two may wait for each other.
Open(c) == req[c].at # "done"
=============================================================================
