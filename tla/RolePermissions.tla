---------------------------- MODULE RolePermissions ----------------------------
(***************************************************************************)
(* Roles and their permissions (internal/interfaces/user.go, data/user.go): *)
(* SaveRole stores the role, reads its permissions, deletes those that are  *)
(* not in the list and stores the listed ones, each by a statement of its   *)
(* own; DeleteRole is one transaction.                                      *)
(*                                                                          *)
(* A permission is a row [id, role, key]; the key stands for its type,      *)
(* resource and action.  A listed one is [id, key]: a client that has read  *)
(* the role sends the id along with the key, or with another one.           *)
(***************************************************************************)
EXTENDS Naturals, FiniteSets

CONSTANTS Clients, Keys,
          MaxReq, MaxFaults

VARIABLES roles,  \* the ids of the roles
          perms,  \* the rows of the permissions
          req,    \* the request of each client
          count   \* ids, requests and faults so far

vars == <<roles, perms, req, count>>

NoReq == [op |-> "none", at |-> "done", id |-> 0, list |-> {}, want |-> {}, have |-> {}]
Active == {c \in Clients : req[c].at # "done"}
Of(r) == {p \in perms : p.role = r}
KeysOf(S) == {p.key : p \in S}

Init ==
  /\ roles = {} /\ perms = {} /\ req = [c \in Clients |-> NoReq]
  /\ count = [role |-> 0, perm |-> 0, req |-> 0, fault |-> 0]

Begin(c, q) ==
  /\ c \notin Active /\ count.req < MaxReq
  /\ count' = [count EXCEPT !.req = @ + 1]
  /\ req' = [req EXCEPT ![c] = q]
  /\ UNCHANGED <<roles, perms>>
To(c, at) == req' = [req EXCEPT ![c] = IF at = "done" THEN NoReq ELSE [@ EXCEPT !.at = at]]

\* The row of that id has that key.
Taken(i, key) == \E p \in perms : p.id = i /\ p.key = key

\* A new role, or one with some keys added, changed in place or left out.
\* (A row's id for a new key, and its key once more as new, would be one row.)
SaveRole(c) == \E r \in roles \cup {0}, keys \in SUBSET Keys :
  \E ids \in [keys -> {0} \cup {p.id : p \in Of(r)}] :
    /\ \A k \in keys : ids[k] # 0 => \A l \in keys \ {k} : ids[k] # ids[l] /\ ~Taken(ids[k], l)
    /\ Begin(c, [NoReq EXCEPT !.op = "save", !.at = "role", !.id = r, !.want = keys,
                              !.list = {[id |-> ids[k], key |-> k] : k \in keys}])
DeleteRole(c) == \E r \in roles : Begin(c, [NoReq EXCEPT !.op = "delete", !.at = "read", !.id = r])

\* A role that is gone ends a delete, and is stored again by a save.
GetRole(c) ==
  /\ req[c].at = "read"
  /\ To(c, IF req[c].id \in roles THEN "delete" ELSE "done")
  /\ UNCHANGED <<roles, perms, count>>

SaveRoleRow(c) ==
  /\ req[c].at = "role"
  /\ LET r == IF req[c].id = 0 THEN count.role + 1 ELSE req[c].id IN
     /\ roles' = roles \cup {r}
     /\ count' = IF req[c].id = 0 THEN [count EXCEPT !.role = r] ELSE count
     /\ req' = [req EXCEPT ![c] = IF @.list = {} THEN NoReq ELSE [@ EXCEPT !.at = "find", !.id = r]]
  /\ UNCHANGED perms

\* Of rows with one key the map keeps one.
FindPermissions(c) ==
  /\ req[c].at = "find"
  /\ \E S \in SUBSET Of(req[c].id) :
       /\ KeysOf(S) = KeysOf(Of(req[c].id)) /\ Cardinality(S) = Cardinality(KeysOf(S))
       /\ req' = [req EXCEPT ![c].at = "prune", ![c].have = S]
  /\ UNCHANGED <<roles, perms, count>>

\* Variant: nothing is deleted.
DeleteNothing(c) ==
  /\ req[c].at = "prune"
  /\ To(c, "save") /\ UNCHANGED <<roles, perms, count>>

DeleteUnlisted(c) ==
  /\ req[c].at = "prune"
  /\ perms' = perms \ {p \in perms : \E h \in req[c].have : h.id = p.id /\ h.key \notin KeysOf(req[c].list)}
  /\ To(c, "save") /\ UNCHANGED <<roles, count>>

\* A permission of a key that was found keeps its id, whatever id was sent.
IdOf(q, p) == IF \E h \in q.have : h.key = p.key THEN (CHOOSE h \in q.have : h.key = p.key).id ELSE p.id

SavePermission(c) ==
  /\ req[c].at = "save"
  /\ IF req[c].list = {} THEN To(c, "done") /\ UNCHANGED <<perms, count>>
     ELSE \E p \in req[c].list :
       LET i == IF IdOf(req[c], p) = 0 THEN count.perm + 1 ELSE IdOf(req[c], p) IN
       /\ perms' = {o \in perms : o.id # i} \cup {[id |-> i, role |-> req[c].id, key |-> p.key]}
       /\ count' = IF IdOf(req[c], p) = 0 THEN [count EXCEPT !.perm = i] ELSE count
       /\ req' = [req EXCEPT ![c].list = @ \ {p}]
  /\ UNCHANGED roles

\* The permissions, the role and the commit.
DeleteRoleRow(c) ==
  /\ req[c].at = "delete"
  /\ roles' = roles \ {req[c].id} /\ perms' = perms \ Of(req[c].id)
  /\ To(c, "done") /\ UNCHANGED count

\* A statement fails, or the server is gone: a save stays as far as it came.
Fail(c) ==
  /\ c \in Active /\ count.fault < MaxFaults
  /\ count' = [count EXCEPT !.fault = @ + 1]
  /\ To(c, "done") /\ UNCHANGED <<roles, perms>>

Next == \E c \in Clients :
  \/ SaveRole(c) \/ DeleteRole(c) \/ GetRole(c) \/ SaveRoleRow(c) \/ FindPermissions(c)
  \/ DeleteUnlisted(c) \/ SavePermission(c) \/ DeleteRoleRow(c) \/ Fail(c)

Spec == Init /\ [][Next]_vars

-----------------------------------------------------------------------------
(* Properties.                                                             *)

\* Roles and permissions have ids given out, no id twice.
TypeOK ==
  /\ roles \subseteq 1..count.role
  /\ \A p \in perms : p.id \in 1..count.perm /\ p.role \in 1..count.role /\ p.key \in Keys
  /\ \A p, q \in perms : p.id = q.id => p = q

\* One request after another, even where some fail halfway: a role has each
\* permission once, and no permission is left of a role that is gone.
PermissionsOnce ==
  \A p, q \in perms : p.role \in roles /\ (p.role = q.role /\ p.key = q.key => p = q)

\* A save that ends without a failure leaves the role with the keys it came
\* with and no others, also where a key was changed in place.
PermissionsAreExact ==
  \A c \in Clients : req[c].at = "save" /\ req'[c].at = "done" /\ count.fault' = count.fault
       => KeysOf(Of(req[c].id)) = req[c].want
=============================================================================
