-------------------------------- MODULE Gateway --------------------------------
(***************************************************************************)
(* The way of a request to its handler: over gRPC or HTTP through the      *)
(* token check, the context of the rows that the message names and the     *)
(* recovery of panics (internal/server), over MCP by a tool of its own     *)
(* (internal/interfaces/cluster_mcp.go) without any of them.               *)
(*                                                                         *)
(* An operation stands for all that name the same rows and need the same   *)
(* of their context.  The tools of MCP are those of the clusters.          *)
(***************************************************************************)
EXTENDS Naturals, Sequences, FiniteSets

CONSTANTS Clients, Ids,
          Life,                        \* hours that a token is good for
          MaxTime, MaxRequests, MaxDeletes

ASSUME GatewayAssumption == Life \in Nat /\ MaxTime \in Nat \ {0}

VARIABLES now,    \* the hour
          token,  \* client -> the hour its token expires, 0: it has none
          rows,   \* table -> the ids that are there
          req,    \* the request of each client
          count   \* requests and deletes so far

vars == <<now, token, rows, req, count>>

Tables == {"cluster", "workspace", "project"}
Op(names, needs) == [names |-> names, needs |-> needs]

\* What the message names, in its order, and what the handler takes from the
\* context without asking whether it is there.
Operations ==
    [SignIn       |-> Op(<<>>, {}),
     Get          |-> Op(<<>>, {}),
     GetByIds     |-> Op(<<>>, {}),
     SaveCluster  |-> Op(<<>>, {"user"}),
     SaveService  |-> Op(<<"project", "workspace", "cluster">>, {}),
     StartCi      |-> Op(<<>>, {"workspace"}),
     StartCd      |-> Op(<<>>, {"workspace", "cluster"}),
     GetWorkflow  |-> Op(<<>>, {}),
     SaveRelease  |-> Op(<<"cluster", "project">>, {"user"})]

Tools == {"Get", "GetByIds", "SaveCluster"}

\* Nothing in the context; "empty" is a row that was not found, and "nil" no
\* row at all.
Absent == "absent"
NoContext == [user |-> Absent, cluster |-> Absent, workspace |-> Absent, project |-> Absent]
NoReq == [op |-> "none", front |-> "none", at |-> "done", ids |-> <<>>, read |-> 0,
          ctx |-> NoContext, checked |-> 0, result |-> "none"]

Init ==
    /\ now = 1 /\ token = [c \in Clients |-> 0]
    /\ rows = [t \in Tables |-> Ids]
    /\ req = [c \in Clients |-> NoReq] /\ count = [request |-> 0, delete |-> 0]

Busy(c) == req[c].at # "done"
End(c, result) == req' = [req EXCEPT ![c].at = "done", ![c].result = result]

-----------------------------------------------------------------------------
\* The operations that need no token.
WhiteList == {"SignIn"}

\* A message names a row by an id, or by 0.
Request(c, op) == \E ids \in [DOMAIN Operations[op].names -> Ids \cup {0}] :
    /\ ~Busy(c) /\ count.request < MaxRequests
    /\ count' = [count EXCEPT !.request = @ + 1]
    /\ req' = [req EXCEPT ![c] = [NoReq EXCEPT !.op = op, !.front = "grpc", !.ids = ids,
                                  !.at = IF op \in WhiteList THEN "handle" ELSE "auth"]]
    /\ UNCHANGED <<now, token, rows>>

\* A call of a tool goes to the handler, once its arguments have been read:
\* the ids are declared a number, and no list is read from a number.
CallTool(c, tool) ==
    /\ ~Busy(c) /\ count.request < MaxRequests
    /\ count' = [count EXCEPT !.request = @ + 1]
    /\ req' = [req EXCEPT ![c] = [NoReq EXCEPT !.op = tool, !.front = "mcp",
                                  !.at = IF tool = "GetByIds" THEN "done" ELSE "handle",
                                  !.result = IF tool = "GetByIds" THEN "error" ELSE "none"]]
    /\ UNCHANGED <<now, token, rows>>

\* Variant: a token is good for ever.
AuthAnyAge(c) ==
    /\ req[c].at = "auth"
    /\ IF token[c] = 0 THEN End(c, "error")
       ELSE req' = [req EXCEPT ![c].at = "context", ![c].ctx.user = c, ![c].checked = now]
    /\ UNCHANGED <<now, token, rows, count>>

\* A token bears its end, and is good until then; without one there is none.
GenerateJWT == now + Life
ValidateJWT(c) == token[c] > now

\* "Authorization is null", "Authorization is error", "token is expired".
Auth(c) ==
    /\ req[c].at = "auth"
    /\ IF ~ValidateJWT(c) THEN End(c, "error")
       ELSE req' = [req EXCEPT ![c].at = "context", ![c].ctx.user = c, ![c].checked = now]
    /\ UNCHANGED <<now, token, rows, count>>

\* Variant: the first id that is found ends the loop.
ContextOfFirst(c) ==
    /\ req[c].at = "context"
    /\ LET q == req[c] IN
       IF q.read = Len(q.ids) THEN req' = [req EXCEPT ![c].at = "handle"]
       ELSE LET t == Operations[q.op].names[q.read + 1]  id == q.ids[q.read + 1]
            IN IF id = 0 THEN req' = [req EXCEPT ![c].read = @ + 1]
               ELSE IF t = "project" /\ id \notin rows[t] THEN End(c, "error")
               ELSE req' = [req EXCEPT ![c].read = Len(q.ids), ![c].ctx[t] =
                              IF id \in rows[t] THEN id ELSE IF t = "cluster" THEN "nil" ELSE "empty"]
    /\ UNCHANGED <<now, token, rows, count>>

\* Each id that the message names is looked up: a cluster that is not there
\* is nil, a workspace is an empty one, a project is an error.
Context(c) ==
    /\ req[c].at = "context"
    /\ LET q == req[c] IN
       IF q.read = Len(q.ids) THEN req' = [req EXCEPT ![c].at = "handle"]
       ELSE LET t == Operations[q.op].names[q.read + 1]  id == q.ids[q.read + 1]
            IN IF id = 0 THEN req' = [req EXCEPT ![c].read = @ + 1]
               ELSE IF t = "project" /\ id \notin rows[t] THEN End(c, "error")
               ELSE req' = [req EXCEPT ![c].read = @ + 1, ![c].ctx[t] =
                              IF id \in rows[t] THEN id ELSE IF t = "cluster" THEN "nil" ELSE "empty"]
    /\ UNCHANGED <<now, token, rows, count>>

-----------------------------------------------------------------------------
\* The user and the password are those of an account, or of the administrator.
SignIn(c) ==
    /\ req[c].at = "handle" /\ req[c].op = "SignIn"
    /\ \E right \in BOOLEAN :
         /\ End(c, IF right THEN "ok" ELSE "error")
         /\ token' = IF right THEN [token EXCEPT ![c] = GenerateJWT] ELSE token
    /\ UNCHANGED <<now, rows, count>>

\* The handler, which may fail for reasons of its own.  One that takes what
\* is not there panics: over gRPC and HTTP that is an error, over MCP nothing
\* is answered.  The function of GetServiceWorkflow has another name.
Handle(c) ==
    /\ req[c].at = "handle" /\ req[c].op # "SignIn"
    /\ LET q == req[c] IN
       End(c, IF q.op = "GetWorkflow" THEN "unimplemented"
              ELSE IF \A n \in Operations[q.op].needs : q.ctx[n] \notin {Absent, "nil"} THEN "ok"
              ELSE IF q.front = "mcp" THEN "lost" ELSE "error")
    /\ UNCHANGED <<now, token, rows, count>>

\* What goes on beside.
Delete == \E t \in Tables, id \in Ids :
    /\ id \in rows[t] /\ count.delete < MaxDeletes
    /\ rows' = [rows EXCEPT ![t] = @ \ {id}]
    /\ count' = [count EXCEPT !.delete = @ + 1]
    /\ UNCHANGED <<now, token, req>>

Tick == now < MaxTime /\ now' = now + 1 /\ UNCHANGED <<token, rows, req, count>>

Step(c) == Auth(c) \/ Context(c) \/ SignIn(c) \/ Handle(c)
Next ==
    \/ \E c \in Clients : Step(c)
    \/ \E c \in Clients, op \in DOMAIN Operations : Request(c, op)
    \/ \E c \in Clients, tool \in Tools : CallTool(c, tool)
    \/ Delete \/ Tick

Spec == Init /\ [][Next]_vars

\* Each request is a goroutine of its own.
FairSpec == Spec /\ \A c \in Clients : WF_vars(Step(c))

-----------------------------------------------------------------------------
TypeOK ==
    /\ now \in 1 .. MaxTime /\ token \in [Clients -> 0 .. MaxTime + Life]
    /\ \A c \in Clients : req[c].at \in {"auth", "context", "handle", "done"}
                            /\ req[c].read \in 0 .. Len(req[c].ids)

\* A handler that is reached over gRPC or HTTP, but for the sign-in, serves a
\* user whose token was good when it was looked at.
HandlersHaveAUser ==
    \A c \in Clients : req[c].front = "grpc" /\ req[c].op \notin WhiteList /\ req[c].at \in {"context", "handle"} =>
        req[c].ctx.user = c /\ req[c].checked < token[c]

\* When the handler runs, the context has a row of each table that the message
\* names, and of no other: the row of that id, or what stands for one that is
\* gone (server/middware.go:62).
ContextIsThatOfTheMessage ==
    \A c \in Clients : req[c].front = "grpc" /\ req[c].at = "handle" =>
        LET names == Operations[req[c].op].names IN
        \A t \in Tables :
            IF \E i \in DOMAIN names : names[i] = t /\ req[c].ids[i] # 0
            THEN \E i \in DOMAIN names :
                    /\ names[i] = t
                    /\ req[c].ctx[t] = req[c].ids[i]
                         \/ (req[c].ctx[t] \in {"nil", "empty"} /\ req[c].ids[i] \notin rows[t])
            ELSE req[c].ctx[t] = Absent

\* A panic of a handler is an answer, not the end of the connection
\* (server/grpc.go:24, http.go:32).
PanicsAreAnswered == \A c \in Clients : req[c].front = "grpc" => req[c].result # "lost"

=============================================================================
