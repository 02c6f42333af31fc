------------------------------ MODULE ServerProofs ------------------------------
(***************************************************************************)
(* Theorems about MCServer, for every set of emails, roles, permissions,   *)
(* names and clients and every number of requests and failures: that the   *)
(* rows of users, roles and permissions fit each other, and that a save    *)
(* leaves what it lists and everything else as it was; and about Gateway,  *)
(* for every set of clients and ids: that a handler has the user and the   *)
(* rows of its own message, and that a panic is answered.                  *)
(***************************************************************************)
EXTENDS MCServer, TLAPS, FiniteSetTheorems, FunctionTheorems

(* The definitions of a module that is instantiated twice are two; those   *)
(* of the standard modules are the same in each.                           *)
LEMMA Counting ==
    ASSUME NEW S
    PROVE  /\ InTurn!Cardinality(S) = Cardinality(S) /\ AtOnce!Cardinality(S) = Cardinality(S)
           /\ Ordered!Cardinality(S) = Cardinality(S)
  BY DEF InTurn!Cardinality, AtOnce!Cardinality, Ordered!Cardinality, Cardinality,
         InTurn!IsFiniteSet, AtOnce!IsFiniteSet, Ordered!IsFiniteSet, IsFiniteSet

OneToOne(f) == \A x, y \in DOMAIN f : f[x] = f[y] => x = y

(* The elements of a finite set can be given the numbers from one on.      *)
LEMMA Places ==
    ASSUME NEW S, IsFiniteSet(S)
    PROVE  /\ Cardinality(S) \in Nat
           /\ \E p \in [S -> 1..Cardinality(S)] : OneToOne(p)
<1>1. Cardinality(S) \in Nat /\ ExistsBijection(1..Cardinality(S), S)
  BY FS_CardinalityType
<1>2. ExistsBijection(S, 1..Cardinality(S))
  BY <1>1, Fun_ExistsBijSymmetric
<1>3. PICK p \in Bijection(S, 1..Cardinality(S)) : TRUE
  BY <1>2 DEF ExistsBijection
<1>4. p \in [S -> 1..Cardinality(S)] /\ \A a, b \in S : p[a] = p[b] => a = b
  BY <1>3, Fun_BijectionProperties
<1>5. QED
  BY <1>1, <1>4 DEF OneToOne

-----------------------------------------------------------------------------
(* Rows of roles: those of n ids, no id twice, of m users.                 *)
UserRow == [id : Nat, user : Nat, role : UserRoles]
Sound(W, n, m) ==
    /\ W \in SUBSET UserRow
    /\ \A r \in W : r.id \in 1..n /\ r.user \in 1..m
    /\ \A r, s \in W : r.id = s.id => r = s

Added(n, u, M, p) == {[id |-> n + p[r], user |-> u, role |-> r] : r \in M}

(* What a save does to the rows: it takes some away and adds one for each  *)
(* role of a set, with ids that follow.                                    *)
LEMMA NewRows ==
    ASSUME NEW W, NEW n \in Nat, NEW m \in Nat, Sound(W, n, m),
           NEW G, NEW u \in 1..m, NEW M \in SUBSET UserRoles,
           NEW p \in [M -> 1..Cardinality(M)], OneToOne(p),
           NEW W2, W2 = (W \ G) \cup Added(n, u, M, p)
    PROVE  n + Cardinality(M) \in Nat /\ Sound(W2, n + Cardinality(M), m)
<1> DEFINE New(r) == [id |-> n + p[r], user |-> u, role |-> r]
<1>1. IsFiniteSet(M)
  BY RolesAssumption, FS_Subset
<1>2. Cardinality(M) \in Nat
  BY <1>1, FS_CardinalityType
<1>3. \A r \in M : New(r) \in UserRow /\ New(r).id \in (n + 1)..(n + Cardinality(M))
  BY <1>2 DEF UserRow
<1>4. W2 \in SUBSET UserRow
  BY <1>3 DEF Sound, Added
<1>5. \A r \in W2 : r.id \in 1..(n + Cardinality(M)) /\ r.user \in 1..m
  BY <1>2, <1>3 DEF Sound, UserRow, Added
<1>6. ASSUME NEW r \in W2, NEW s \in W2, r.id = s.id
      PROVE  r = s
  <2>1. r \in W <=> s \in W
    BY <1>2, <1>3, <1>6 DEF Sound, UserRow, Added
  <2>2. CASE r \in W
    BY <1>6, <2>1, <2>2 DEF Sound
  <2>3. CASE r \notin W
    <3>1. PICK a \in M : r = New(a)
      BY <2>3 DEF Added
    <3>2. PICK b \in M : s = New(b)
      BY <2>1, <2>3 DEF Added
    <3>3. p[a] = p[b]
      BY <1>2, <1>6, <3>1, <3>2
    <3>4. QED
      BY <3>1, <3>2, <3>3 DEF OneToOne
  <2>4. QED
    BY <2>2, <2>3
<1>7. QED
  BY <1>2, <1>4, <1>5, <1>6 DEF Sound

-----------------------------------------------------------------------------
(* Users and their roles: the clients C, the users U, the rows W of roles, *)
(* the requests Q and the counts n of either instance of Accounts.         *)
AccountReq(E) ==
    [op : {"none", "save", "switch", "delete"},
     at : {"done", "check", "read", "row", "find", "sync", "roles", "user"},
     id : Nat, email : E \cup {""}, on : BOOLEAN, list : SUBSET UserRoles,
     have : SUBSET UserRow, gone : SUBSET UserRow]
AccountCounts == [user : Nat, role : Nat, req : Nat, fault : Nat]
RowsOf(W, u) == {r \in W : r.user = u}
Holds(q) == q.at \in {"find", "sync"}

(* A request is of a user there has been; what it found is what there is   *)
(* until it is through, and what it deletes is of that user.               *)
Fits(q, W, m) ==
    /\ q.id <= m
    /\ q.at \in {"find", "sync", "read", "roles", "user"} => q.id # 0
    /\ q.at = "sync" => q.have = RowsOf(W, q.id)
    /\ \A r \in q.gone : q.at = "user" /\ r.user = q.id

(* No two saves are between the first and the last statement for one user. *)
OneSave(C, Q) == \A c, d \in C : c # d /\ Holds(Q[c]) /\ Holds(Q[d]) => Q[c].id # Q[d].id

Once(W) == \A r, s \in W : r.user = s.user /\ r.role = s.role => r = s

AccountsInv(C, E, U, W, Q, n) ==
    /\ n \in AccountCounts
    /\ U \in [DOMAIN U -> [email : E \cup {""}, on : BOOLEAN]]
    /\ DOMAIN U \subseteq 1..n.user
    /\ Sound(W, n.role, n.user)
    /\ Q \in [C -> AccountReq(E)]
    /\ \A c \in C : Fits(Q[c], W, n.user)
    /\ OneSave(C, Q)
    /\ Once(W)

(* A request goes on, and users and roles stay.                            *)
LEMMA RequestGoesOn ==
    ASSUME NEW C, NEW E, NEW U, NEW W, NEW Q, NEW n, AccountsInv(C, E, U, W, Q, n),
           NEW c \in C, NEW q \in AccountReq(E), NEW m \in AccountCounts,
           m.user >= n.user, m.role = n.role, Fits(q, W, m.user),
           Holds(q) => \A d \in C \ {c} : Holds(Q[d]) => Q[d].id # q.id,
           NEW Q2, Q2 = [Q EXCEPT ![c] = q]
    PROVE  AccountsInv(C, E, U, W, Q2, m)
<1>1. n.user \in Nat /\ m.user \in Nat /\ n.role \in Nat
  BY DEF AccountsInv, AccountCounts
<1>2. Q2 \in [C -> AccountReq(E)] /\ Q2[c] = q /\ \A d \in C \ {c} : Q2[d] = Q[d]
  BY DEF AccountsInv
<1>3. DOMAIN U \subseteq 1..m.user
  <2>1. DOMAIN U \subseteq 1..n.user
    BY DEF AccountsInv
  <2>2. 1..n.user \subseteq 1..m.user
    BY <1>1
  <2>3. QED
    BY <2>1, <2>2
<1>4. Sound(W, m.role, m.user)
  <2>1. Sound(W, n.role, n.user)
    BY DEF AccountsInv
  <2>2. 1..n.user \subseteq 1..m.user
    BY <1>1
  <2>3. QED
    BY <2>1, <2>2 DEF Sound
<1>5. ASSUME NEW d \in C PROVE Fits(Q2[d], W, m.user)
  <2>1. CASE d = c
    BY <1>2, <2>1
  <2>2. CASE d # c
    <3>1. Q[d].id \in Nat /\ Fits(Q[d], W, n.user)
      BY DEF AccountsInv, AccountReq
    <3>2. QED
      BY <1>1, <1>2, <2>2, <3>1 DEF Fits
  <2>3. QED
    BY <2>1, <2>2
<1>6. OneSave(C, Q2)
  BY <1>2 DEF AccountsInv, OneSave
<1>7. QED
  BY <1>2, <1>3, <1>4, <1>5, <1>6 DEF AccountsInv

Lacked(q) == q.list \ {r.role : r \in q.have}
Stored(U, q) ==
    [u \in DOMAIN U \cup {q.id} |-> IF u = q.id THEN [email |-> q.email, on |-> q.on] ELSE U[u]]

(* A save commits: the rows of the user are those found, less some, and    *)
(* one for each role that none of the found has.                           *)
LEMMA RolesAreSaved ==
    ASSUME NEW C, NEW E, NEW U, NEW W, NEW Q, NEW n, AccountsInv(C, E, U, W, Q, n),
           NEW c \in C, Q[c].at = "sync",
           NEW G \in SUBSET Q[c].have,
           NEW M, M = Lacked(Q[c]),
           NEW p \in [M -> 1..Cardinality(M)], OneToOne(p),
           NEW W2, W2 = (W \ G) \cup Added(n.role, Q[c].id, M, p),
           NEW U2, U2 = Stored(U, Q[c]),
           NEW m, m = [n EXCEPT !.role = @ + Cardinality(M)],
           NEW q \in AccountReq(E), q.at = "done", q.id = 0, q.gone = {},
           NEW Q2, Q2 = [Q EXCEPT ![c] = q]
    PROVE  AccountsInv(C, E, U2, W2, Q2, m)
<1> DEFINE New(r) == [id |-> n.role + p[r], user |-> Q[c].id, role |-> r]
<1>1. /\ n.user \in Nat /\ n.role \in Nat /\ Q[c] \in AccountReq(E) /\ Q[c].list \in SUBSET UserRoles
      /\ Q[c].id \in 1..n.user /\ Q[c].have = RowsOf(W, Q[c].id)
  <2>1. n.user \in Nat /\ n.role \in Nat /\ Q[c] \in AccountReq(E) /\ Fits(Q[c], W, n.user)
    BY DEF AccountsInv, AccountCounts
  <2>2. Q[c].list \in SUBSET UserRoles /\ Q[c].id \in Nat
    BY <2>1 DEF AccountReq
  <2>3. Q[c].id <= n.user /\ Q[c].id # 0 /\ Q[c].have = RowsOf(W, Q[c].id)
    BY <2>1 DEF Fits
  <2>4. QED
    BY <2>1, <2>2, <2>3
<1>2. M \in SUBSET UserRoles
  BY <1>1 DEF Lacked
<1>3. n.role + Cardinality(M) \in Nat /\ Sound(W2, n.role + Cardinality(M), n.user)
  <2>1. Sound(W, n.role, n.user)
    BY DEF AccountsInv
  <2>2. n.role \in Nat /\ n.user \in Nat /\ Q[c].id \in 1..n.user
    BY <1>1
  <2>3. QED
    BY <1>2, <2>1, <2>2, NewRows
<1>4. m \in AccountCounts /\ m.role = n.role + Cardinality(M) /\ m.user = n.user
  BY <1>1, <1>3 DEF AccountsInv, AccountCounts
<1>5. /\ DOMAIN U2 = DOMAIN U \cup {Q[c].id}
      /\ U2 \in [DOMAIN U2 -> [email : E \cup {""}, on : BOOLEAN]]
  BY <1>1 DEF AccountsInv, AccountReq, Stored
<1>6. DOMAIN U2 \subseteq 1..n.user
  BY <1>1, <1>5 DEF AccountsInv
<1>7. Q2 \in [C -> AccountReq(E)] /\ Q2[c] = q /\ \A d \in C \ {c} : Q2[d] = Q[d]
  BY DEF AccountsInv
<1>8. ASSUME NEW u, u # Q[c].id
      PROVE  RowsOf(W2, u) = RowsOf(W, u)
  BY <1>1, <1>8 DEF RowsOf, Added
<1>9. ASSUME NEW d \in C PROVE Fits(Q2[d], W2, n.user)
  <2>1. CASE d = c
    BY <1>1, <1>7, <2>1 DEF Fits
  <2>2. CASE d # c
    <3>1. Fits(Q[d], W, n.user)
      BY DEF AccountsInv
    <3>2. Q[d].at = "sync" => Q[d].id # Q[c].id
      BY <2>2 DEF AccountsInv, OneSave, Holds
    <3>3. QED
      BY <1>7, <1>8, <2>2, <3>1, <3>2 DEF Fits
  <2>3. QED
    BY <2>1, <2>2
<1>10. OneSave(C, Q2)
  BY <1>7 DEF AccountsInv, OneSave, Holds
<1>11. ASSUME NEW r \in W2, NEW s \in W2, r.user = s.user, r.role = s.role
       PROVE  r = s
  <2>1. \A x \in W, y \in M : ~(x.user = Q[c].id /\ x.role = y)
    BY <1>1 DEF RowsOf, Lacked
  <2>2. CASE r \in W /\ s \in W
    BY <1>11, <2>2 DEF AccountsInv, Once
  <2>3. CASE r \notin W
    <3>1. PICK x \in M : r = New(x)
      BY <2>3 DEF Added
    <3>2. s \notin W
      BY <1>11, <2>1, <3>1
    <3>3. PICK y \in M : s = New(y)
      BY <3>2 DEF Added
    <3>4. QED
      BY <1>11, <3>1, <3>3
  <2>4. CASE s \notin W
    <3>1. PICK x \in M : s = New(x)
      BY <2>4 DEF Added
    <3>2. r \notin W
      BY <1>11, <2>1, <3>1
    <3>3. PICK y \in M : r = New(y)
      BY <3>2 DEF Added
    <3>4. QED
      BY <1>11, <3>1, <3>3
  <2>5. QED
    BY <2>2, <2>3, <2>4
<1>12. QED
  BY <1>3, <1>4, <1>5, <1>6, <1>7, <1>9, <1>10, <1>11 DEF AccountsInv, Once

(* A delete commits while no save holds the user.                          *)
LEMMA UserIsDeleted ==
    ASSUME NEW C, NEW E, NEW U, NEW W, NEW Q, NEW n, AccountsInv(C, E, U, W, Q, n),
           NEW c \in C, \A d \in C \ {c} : Holds(Q[d]) => Q[d].id # Q[c].id,
           NEW U2, U2 = [u \in DOMAIN U \ {Q[c].id} |-> U[u]],
           NEW W2, W2 = W \ Q[c].gone,
           NEW q \in AccountReq(E), q.at = "done", q.id = 0, q.gone = {},
           NEW Q2, Q2 = [Q EXCEPT ![c] = q]
    PROVE  AccountsInv(C, E, U2, W2, Q2, n)
<1>1. n.user \in Nat /\ \A r \in Q[c].gone : r.user = Q[c].id
  BY DEF AccountsInv, AccountCounts, Fits
<1>2. /\ DOMAIN U2 = DOMAIN U \ {Q[c].id}
      /\ U2 \in [DOMAIN U2 -> [email : E \cup {""}, on : BOOLEAN]]
      /\ DOMAIN U2 \subseteq 1..n.user
  BY DEF AccountsInv
<1>3. Sound(W2, n.role, n.user) /\ Once(W2)
  BY DEF AccountsInv, Sound, Once
<1>4. Q2 \in [C -> AccountReq(E)] /\ Q2[c] = q /\ \A d \in C \ {c} : Q2[d] = Q[d]
  BY DEF AccountsInv
<1>5. ASSUME NEW d \in C PROVE Fits(Q2[d], W2, n.user)
  <2>1. CASE d = c
    BY <1>1, <1>4, <2>1 DEF Fits
  <2>2. CASE d # c
    <3>1. Fits(Q[d], W, n.user)
      BY DEF AccountsInv
    <3>2. Q[d].at = "sync" => RowsOf(W2, Q[d].id) = RowsOf(W, Q[d].id)
      BY <1>1, <2>2 DEF RowsOf, Holds
    <3>3. QED
      BY <1>4, <2>2, <3>1, <3>2 DEF Fits
  <2>3. QED
    BY <2>1, <2>2
<1>6. OneSave(C, Q2)
  BY <1>4 DEF AccountsInv, OneSave, Holds
<1>7. QED
  BY <1>2, <1>3, <1>4, <1>5, <1>6 DEF AccountsInv

(* A request is begun, or ends.                                            *)
LEMMA RequestIsSet ==
    ASSUME NEW C, NEW E, NEW U, NEW W, NEW Q, NEW n, AccountsInv(C, E, U, W, Q, n),
           NEW c \in C, NEW q \in AccountReq(E), q.at \in {"done", "check", "read", "row"},
           q.gone = {}, q.id \in 0..n.user, q.at = "read" => q.id # 0,
           NEW m \in AccountCounts, m.user = n.user, m.role = n.role,
           NEW Q2, Q2 = [Q EXCEPT ![c] = q]
    PROVE  AccountsInv(C, E, U, W, Q2, m)
<1>1. n.user \in Nat
  BY DEF AccountsInv, AccountCounts
<1>2. Fits(q, W, m.user) /\ ~Holds(q) /\ m.user >= n.user
  BY <1>1 DEF Fits, Holds
<1>3. QED
  BY <1>2, RequestGoesOn

(* A request goes on to a stage where it holds no row.                     *)
LEMMA RequestMovesTo ==
    ASSUME NEW C, NEW E, NEW U, NEW W, NEW Q, NEW n, AccountsInv(C, E, U, W, Q, n),
           NEW c \in C, NEW a \in {"row", "roles"}, a = "roles" => Q[c].id # 0, Q[c].at # "user",
           NEW Q2, Q2 = [Q EXCEPT ![c] = [@ EXCEPT !.at = a]]
    PROVE  AccountsInv(C, E, U, W, Q2, n)
<1> DEFINE q == [Q[c] EXCEPT !.at = a]
<1>1. Q[c] \in AccountReq(E) /\ Fits(Q[c], W, n.user) /\ n \in AccountCounts
  BY DEF AccountsInv
<1>2. q \in AccountReq(E) /\ q.at = a /\ q.id = Q[c].id /\ q.gone = Q[c].gone
  BY <1>1 DEF AccountReq
<1>3. Fits(q, W, n.user) /\ ~Holds(q) /\ n.user >= n.user
  BY <1>1, <1>2 DEF Fits, Holds, AccountCounts
<1>4. QED
  BY <1>1, <1>2, <1>3, RequestGoesOn


(* Every step of requests at once keeps that.                             *)
LEMMA AtOnceStep ==
    ASSUME AccountsInv(Pair, EmailsAtOnce, s1, s2, s3, s4), AtOnce!Next
    PROVE  AccountsInv(Pair, EmailsAtOnce, s1', s2', s3', s4')
<1> DEFINE Kept == AccountsInv(Pair, EmailsAtOnce, s1', s2', s3', s4')
           Req == AccountReq(EmailsAtOnce)
<1>1. AtOnce!NoReq \in Req /\ AtOnce!NoReq.at = "done" /\ AtOnce!NoReq.id = 0 /\ AtOnce!NoReq.gone = {}
  BY DEF AtOnce!NoReq, AccountReq
<1>0. s4 \in AccountCounts
  BY DEF AccountsInv
<1>2. /\ s3 \in [Pair -> Req] /\ DOMAIN s1 \subseteq 1..s4.user
      /\ s1 \in [DOMAIN s1 -> [email : EmailsAtOnce \cup {""}, on : BOOLEAN]]
      /\ s2 \in SUBSET UserRow
  BY DEF AccountsInv, Sound
<1>3. /\ s4.user \in Nat /\ s4.role \in Nat
      /\ \A u \in DOMAIN s1 : u \in Nat /\ u \in 0..s4.user /\ u # 0
  <2>1. s4.user \in Nat /\ s4.role \in Nat
    BY <1>0 DEF AccountCounts
  <2>2. \A u \in 1..s4.user : u \in Nat /\ u \in 0..s4.user /\ u # 0
    BY <2>1
  <2>3. QED
    BY <1>2, <2>1, <2>2
<1>4. ASSUME NEW c \in Pair PROVE s3[c] \in Req /\ Fits(s3[c], s2, s4.user)
  BY DEF AccountsInv
<1>5. ASSUME NEW c \in Pair, NEW q \in Req, q.at \in {"check", "read", "row"}, q.gone = {},
             q.id \in 0..s4.user, q.at = "read" => q.id # 0, AtOnce!Begin(c, q)
      PROVE  Kept
  <2>1. s3' = [s3 EXCEPT ![c] = q] /\ s1' = s1 /\ s2' = s2
    BY <1>5 DEF AtOnce!Begin
  <2>2. s4' = [s4 EXCEPT !.req = @ + 1]
    BY <1>5 DEF AtOnce!Begin
  <2>3. s4' \in AccountCounts /\ s4'.user = s4.user /\ s4'.role = s4.role
    BY <1>0, <2>2 DEF AccountCounts
  <2>4. QED
    BY <1>5, <2>1, <2>3, RequestIsSet
<1>6. ASSUME NEW c \in Pair, s3' = [s3 EXCEPT ![c] = AtOnce!NoReq], s1' = s1, s2' = s2,
             s4' \in AccountCounts, s4'.user = s4.user, s4'.role = s4.role
      PROVE  Kept
  <2>1. AtOnce!NoReq.id \in 0..s4.user
    BY <1>1, <1>3
  <2>2. QED
    BY <1>1, <1>6, <2>1, RequestIsSet
<1>7. ASSUME NEW c \in Pair, NEW a \in {"row", "roles"}, a = "roles" => s3[c].id # 0, s3[c].at # "user",
             AtOnce!To(c, a), s1' = s1, s2' = s2, s4' = s4
      PROVE  Kept
  <2>1. s3' = [s3 EXCEPT ![c] = [@ EXCEPT !.at = a]]
    BY <1>7 DEF AtOnce!To
  <2>2. QED
    BY <1>7, <2>1, RequestMovesTo
<1>8. ASSUME NEW c \in Pair, AtOnce!To(c, "done"), s1' = s1, s2' = s2, s4' = s4
      PROVE  Kept
  <2>1. s3' = [s3 EXCEPT ![c] = AtOnce!NoReq]
    BY <1>8 DEF AtOnce!To
  <2>2. QED
    BY <1>0, <1>6, <1>8, <2>1
<1>9. ASSUME NEW c \in Pair, AtOnce!SaveNew(c) PROVE Kept
  <2>1. PICK e \in EmailsAtOnce, list \in SUBSET UserRoles :
          AtOnce!Begin(c, [AtOnce!NoReq EXCEPT !.op = "save", !.at = "check", !.email = e, !.on = TRUE, !.list = list])
    BY <1>9 DEF AtOnce!SaveNew
  <2> DEFINE q == [AtOnce!NoReq EXCEPT !.op = "save", !.at = "check", !.email = e, !.on = TRUE, !.list = list]
  <2>2. q \in Req /\ q.at = "check" /\ q.gone = {} /\ q.id = 0
    BY <1>1 DEF AccountReq
  <2>3. q.id \in 0..s4.user
    BY <1>3, <2>2
  <2>4. QED
    BY <1>5, <2>1, <2>2, <2>3
<1>10. ASSUME NEW c \in Pair, AtOnce!SaveUser(c) PROVE Kept
  <2>1. PICK u \in DOMAIN s1, e \in EmailsAtOnce, list \in SUBSET UserRoles :
          AtOnce!Begin(c, [AtOnce!NoReq EXCEPT !.op = "save", !.at = "row", !.id = u, !.email = e, !.on = s1[u].on,
                                           !.list = list])
    BY <1>10 DEF AtOnce!SaveUser
  <2> DEFINE q == [AtOnce!NoReq EXCEPT !.op = "save", !.at = "row", !.id = u, !.email = e, !.on = s1[u].on,
                                      !.list = list]
  <2>2. u \in 0..s4.user /\ u \in Nat /\ s1[u].on \in BOOLEAN
    BY <1>2, <1>3
  <2>3. q \in Req /\ q.at = "row" /\ q.gone = {} /\ q.id = u
    BY <1>1, <2>2 DEF AccountReq
  <2>4. QED
    BY <1>5, <2>1, <2>2, <2>3
<1>11. ASSUME NEW c \in Pair, NEW u \in DOMAIN s1, NEW q \in Req, q.at = "read", q.gone = {}, q.id = u,
              AtOnce!Begin(c, q)
       PROVE  Kept
  BY <1>3, <1>5, <1>11
<1>12. ASSUME NEW c \in Pair, AtOnce!EnableUser(c) \/ AtOnce!DisableUser(c) \/ AtOnce!DeleteUser(c) PROVE Kept
  <2>1. CASE AtOnce!EnableUser(c)
    <3>1. PICK u \in DOMAIN s1 : AtOnce!Begin(c, [AtOnce!NoReq EXCEPT !.op = "switch", !.at = "read", !.id = u, !.on = TRUE])
      BY <2>1 DEF AtOnce!EnableUser
    <3> DEFINE q == [AtOnce!NoReq EXCEPT !.op = "switch", !.at = "read", !.id = u, !.on = TRUE]
    <3>2. q \in Req /\ q.at = "read" /\ q.gone = {} /\ q.id = u
      BY <1>1, <1>3 DEF AccountReq
    <3>3. QED
      BY <1>11, <3>1, <3>2
  <2>2. CASE AtOnce!DisableUser(c)
    <3>1. PICK u \in DOMAIN s1 : AtOnce!Begin(c, [AtOnce!NoReq EXCEPT !.op = "switch", !.at = "read", !.id = u])
      BY <2>2 DEF AtOnce!DisableUser
    <3> DEFINE q == [AtOnce!NoReq EXCEPT !.op = "switch", !.at = "read", !.id = u]
    <3>2. q \in Req /\ q.at = "read" /\ q.gone = {} /\ q.id = u
      BY <1>1, <1>3 DEF AccountReq
    <3>3. QED
      BY <1>11, <3>1, <3>2
  <2>3. CASE AtOnce!DeleteUser(c)
    <3>1. PICK u \in DOMAIN s1 : AtOnce!Begin(c, [AtOnce!NoReq EXCEPT !.op = "delete", !.at = "read", !.id = u])
      BY <2>3 DEF AtOnce!DeleteUser
    <3> DEFINE q == [AtOnce!NoReq EXCEPT !.op = "delete", !.at = "read", !.id = u]
    <3>2. q \in Req /\ q.at = "read" /\ q.gone = {} /\ q.id = u
      BY <1>1, <1>3 DEF AccountReq
    <3>3. QED
      BY <1>11, <3>1, <3>2
  <2>4. QED
    BY <1>12, <2>1, <2>2, <2>3
<1>13. ASSUME NEW c \in Pair, AtOnce!CheckEmail(c) PROVE Kept
  <2>1. AtOnce!To(c, "done") \/ AtOnce!To(c, "row")
    BY <1>13 DEF AtOnce!CheckEmail
  <2>2. QED
    BY <1>7, <1>8, <1>13, <2>1 DEF AtOnce!CheckEmail
<1>14. ASSUME NEW c \in Pair, AtOnce!GetUser(c) PROVE Kept
  <2> DEFINE q == [AtOnce!AsRead(s3[c]) EXCEPT !.at = "row"]
  <2>1. s1' = s1 /\ s2' = s2 /\ s4' = s4 /\ s3[c].at = "read"
    BY <1>14 DEF AtOnce!GetUser
  <2>2. CASE s3[c].id \notin DOMAIN s1
    BY <1>8, <1>14, <2>1, <2>2 DEF AtOnce!GetUser
  <2>3. CASE s3[c].id \in DOMAIN s1 /\ s3[c].op = "delete"
    <3>1. AtOnce!To(c, "roles")
      BY <1>14, <2>3 DEF AtOnce!GetUser
    <3>2. s3[c].id # 0
      BY <1>4, <2>1 DEF Fits
    <3>3. QED
      BY <1>7, <2>1, <3>1, <3>2
  <2>4. CASE s3[c].id \in DOMAIN s1 /\ s3[c].op # "delete"
    <3>1. s3' = [s3 EXCEPT ![c] = q]
      BY <1>14, <2>4 DEF AtOnce!GetUser
    <3>2. /\ s1[s3[c].id].email \in EmailsAtOnce \cup {""}
          /\ AtOnce!RolesOf(s3[c].id) \in SUBSET UserRoles
      <4>1. s1[s3[c].id].email \in EmailsAtOnce \cup {""}
        BY <1>2, <2>4
      <4>2. \A r \in s2 : r.role \in UserRoles
        BY <1>2 DEF UserRow
      <4>3. QED
        BY <4>1, <4>2 DEF AtOnce!RolesOf, AtOnce!Of
    <3>3. q \in Req /\ q.at = "row" /\ q.id = s3[c].id /\ q.gone = s3[c].gone
      BY <1>4, <3>2 DEF AtOnce!AsRead, AccountReq
    <3>4. Fits(q, s2, s4.user) /\ ~Holds(q)
      BY <1>4, <2>1, <3>3 DEF Fits, Holds
    <3>5. s4'.user >= s4.user /\ s4'.role = s4.role /\ s4' \in AccountCounts
      BY <1>0, <1>3, <2>1
    <3>6. QED
      BY <2>1, <3>1, <3>3, <3>4, <3>5, RequestGoesOn
  <2>5. QED
    BY <2>2, <2>3, <2>4
<1>15. ASSUME NEW c \in Pair, AtOnce!SaveRow(c) PROVE Kept
  <2> DEFINE id == IF s3[c].id = 0 THEN s4.user + 1 ELSE s3[c].id
             q == [s3[c] EXCEPT !.at = "find", !.id = id]
  <2>1. s3' = [s3 EXCEPT ![c] = q] /\ s1' = s1 /\ s2' = s2
    BY <1>15 DEF AtOnce!SaveRow
  <2>2. /\ s4' \in AccountCounts /\ s4'.role = s4.role
        /\ s4'.user = IF s3[c].id = 0 THEN s4.user + 1 ELSE s4.user
    <3>1. s4' = IF s3[c].id = 0 THEN [s4 EXCEPT !.user = @ + 1] ELSE s4
      BY <1>15 DEF AtOnce!SaveRow
    <3>2. QED
      BY <1>0, <3>1 DEF AccountCounts
  <2>3. s3[c].id \in Nat /\ s3[c].id <= s4.user
    BY <1>4 DEF AccountReq, Fits
  <2>4. id \in Nat /\ id # 0 /\ id <= s4'.user /\ s4'.user >= s4.user
    BY <1>3, <2>2, <2>3
  <2>5. q \in Req /\ q.at = "find" /\ q.id = id /\ q.gone = s3[c].gone
    BY <1>4, <2>4 DEF AccountReq
  <2>6. s3[c].gone = {}
    BY <1>4, <1>15 DEF Fits, AtOnce!SaveRow
  <2>7. Fits(q, s2, s4'.user)
    BY <2>3, <2>4, <2>5, <2>6 DEF Fits
  <2>8. \A d \in Pair \ {c} : Holds(s3[d]) => s3[d].id # id
    <3>1. ASSUME NEW d \in Pair \ {c}, Holds(s3[d]) PROVE s3[d].id \in Nat /\ s3[d].id <= s4.user
      BY <1>4 DEF AccountReq, Fits
    <3>2. ASSUME NEW d \in Pair \ {c}, Holds(s3[d]) PROVE s3[d].id # s3[c].id
      BY <1>15, <3>2 DEF AtOnce!SaveRow, AtOnce!Free, Holds
    <3>3. QED
      BY <1>3, <3>1, <3>2
  <2>9. QED
    BY <2>1, <2>2, <2>4, <2>5, <2>7, <2>8, RequestGoesOn
<1>16. ASSUME NEW c \in Pair, AtOnce!FindRoles(c) PROVE Kept
  <2> DEFINE q == [s3[c] EXCEPT !.at = "sync", !.have = AtOnce!Of(s3[c].id)]
  <2>1. s3' = [s3 EXCEPT ![c] = q] /\ s1' = s1 /\ s2' = s2 /\ s4' = s4 /\ s3[c].at = "find"
    BY <1>16 DEF AtOnce!FindRoles
  <2>2. AtOnce!Of(s3[c].id) = RowsOf(s2, s3[c].id) /\ AtOnce!Of(s3[c].id) \in SUBSET UserRow
    BY <1>2 DEF AtOnce!Of, RowsOf
  <2>3. q \in Req /\ q.at = "sync" /\ q.id = s3[c].id /\ q.gone = s3[c].gone /\ q.have = RowsOf(s2, q.id)
    BY <1>4, <2>2 DEF AccountReq
  <2>4. Fits(q, s2, s4.user)
    BY <1>4, <2>1, <2>3 DEF Fits
  <2>5. \A d \in Pair \ {c} : Holds(s3[d]) => s3[d].id # q.id
    BY <2>1, <2>3 DEF AccountsInv, OneSave, Holds
  <2>6. s4'.user >= s4.user /\ s4'.role = s4.role /\ s4' \in AccountCounts
    BY <1>0, <1>3, <2>1
  <2>7. QED
    BY <2>1, <2>3, <2>4, <2>5, <2>6, RequestGoesOn
<1>17. ASSUME NEW c \in Pair, AtOnce!SyncRoles(c) PROVE Kept
  <2> DEFINE M == Lacked(s3[c])
             G == AtOnce!Unlisted(s3[c])
  <2>1. s3[c].at = "sync" /\ s3' = [s3 EXCEPT ![c] = AtOnce!NoReq]
    BY <1>17 DEF AtOnce!SyncRoles, AtOnce!To
  <2>2. M \in SUBSET UserRoles /\ IsFiniteSet(M) /\ AtOnce!Missing(s3[c]) = M
    <3>1. M \in SUBSET UserRoles
      BY <1>4 DEF AccountReq, Lacked
    <3>2. QED
      BY <3>1, RolesAssumption, FS_Subset DEF AtOnce!Missing, Lacked
  <2>3. AtOnce!Cardinality(M) = Cardinality(M)
    BY Counting
  <2>4. G \in SUBSET s3[c].have
    BY DEF AtOnce!Unlisted
  <2>5. PICK p \in [M -> 1..Cardinality(M)] :
          /\ OneToOne(p)
          /\ s2' = (s2 \ G) \cup Added(s4.role, s3[c].id, M, p)
    <3> DEFINE place == CHOOSE p \in [M -> 1..Cardinality(M)] : AtOnce!IsInjective(p)
    <3>1. \E p \in [M -> 1..Cardinality(M)] : AtOnce!IsInjective(p)
      BY <2>2, Places DEF AtOnce!IsInjective, OneToOne
    <3>2. place \in [M -> 1..Cardinality(M)] /\ OneToOne(place)
      BY <3>1 DEF AtOnce!IsInjective, OneToOne
    <3>3. s2' = (s2 \ G) \cup {[id |-> s4.role + place[r], user |-> s3[c].id, role |-> r] : r \in M}
      BY <1>17, <2>2, <2>3 DEF AtOnce!SyncRoles
    <3>4. QED
      BY <3>2, <3>3 DEF Added
  <2>6. s1' = Stored(s1, s3[c])
    BY <1>17 DEF AtOnce!SyncRoles, AtOnce!Written, Stored
  <2>7. s4' = [s4 EXCEPT !.role = @ + Cardinality(M)]
    BY <1>17, <2>2, <2>3 DEF AtOnce!SyncRoles
  <2>8. QED
    BY <1>1, <2>1, <2>4, <2>5, <2>6, <2>7, RolesAreSaved
<1>18. ASSUME NEW c \in Pair, AtOnce!DeleteRoles(c) PROVE Kept
  <2> DEFINE q == [s3[c] EXCEPT !.at = "user", !.gone = AtOnce!Of(s3[c].id)]
  <2>1. s3' = [s3 EXCEPT ![c] = q] /\ s1' = s1 /\ s2' = s2 /\ s4' = s4 /\ s3[c].at = "roles"
    BY <1>18 DEF AtOnce!DeleteRoles
  <2>2. AtOnce!Of(s3[c].id) \in SUBSET UserRow /\ \A r \in AtOnce!Of(s3[c].id) : r.user = s3[c].id
    BY <1>2 DEF AtOnce!Of
  <2>3. q \in Req /\ q.at = "user" /\ q.id = s3[c].id /\ \A r \in q.gone : r.user = q.id
    BY <1>4, <2>2 DEF AccountReq
  <2>4. Fits(q, s2, s4.user) /\ ~Holds(q)
    BY <1>4, <2>1, <2>3 DEF Fits, Holds
  <2>5. s4'.user >= s4.user /\ s4'.role = s4.role /\ s4' \in AccountCounts
    BY <1>0, <1>3, <2>1
  <2>6. QED
    BY <2>1, <2>3, <2>4, <2>5, RequestGoesOn
<1>19. ASSUME NEW c \in Pair, AtOnce!DeleteRow(c) PROVE Kept
  <2>1. /\ s3' = [s3 EXCEPT ![c] = AtOnce!NoReq] /\ s4' = s4
        /\ s1' = [u \in DOMAIN s1 \ {s3[c].id} |-> s1[u]] /\ s2' = s2 \ s3[c].gone
    BY <1>19 DEF AtOnce!DeleteRow, AtOnce!To
  <2>2. \A d \in Pair \ {c} : Holds(s3[d]) => s3[d].id # s3[c].id
    BY <1>19 DEF AtOnce!DeleteRow, AtOnce!Free, Holds
  <2>3. QED
    BY <1>1, <2>1, <2>2, UserIsDeleted
<1>20. ASSUME NEW c \in Pair, NEW d \in Pair, AtOnce!Deadlock(c, d) PROVE Kept
  <2>1. (AtOnce!To(c, "done") \/ AtOnce!To(d, "done")) /\ s1' = s1 /\ s2' = s2 /\ s4' = s4
    BY <1>20 DEF AtOnce!Deadlock
  <2>2. QED
    BY <1>8, <2>1
<1>21. ASSUME NEW c \in Pair, AtOnce!Fail(c) PROVE Kept
  <2>1. s3' = [s3 EXCEPT ![c] = AtOnce!NoReq] /\ s1' = s1 /\ s2' = s2
    BY <1>21 DEF AtOnce!Fail, AtOnce!To
  <2>2. s4' = [s4 EXCEPT !.fault = @ + 1]
    BY <1>21 DEF AtOnce!Fail
  <2>3. s4' \in AccountCounts /\ s4'.user = s4.user /\ s4'.role = s4.role
    BY <1>0, <2>2 DEF AccountCounts
  <2>4. QED
    BY <1>6, <2>1, <2>3
<1>22. QED
  BY <1>9, <1>10, <1>12, <1>13, <1>14, <1>15, <1>16, <1>17, <1>18, <1>19, <1>20, <1>21
  DEF AtOnce!Next, AtOnce!Step

(* And every step of requests one after another.                           *)
LEMMA InTurnStep ==
    ASSUME AccountsInv({"c"}, EmailsInTurn, s1, s2, s3, s4), InTurn!Next
    PROVE  AccountsInv({"c"}, EmailsInTurn, s1', s2', s3', s4')
<1> DEFINE Kept == AccountsInv({"c"}, EmailsInTurn, s1', s2', s3', s4')
           Req == AccountReq(EmailsInTurn)
<1>1. InTurn!NoReq \in Req /\ InTurn!NoReq.at = "done" /\ InTurn!NoReq.id = 0 /\ InTurn!NoReq.gone = {}
  BY DEF InTurn!NoReq, AccountReq
<1>0. s4 \in AccountCounts
  BY DEF AccountsInv
<1>2. /\ s3 \in [{"c"} -> Req] /\ DOMAIN s1 \subseteq 1..s4.user
      /\ s1 \in [DOMAIN s1 -> [email : EmailsInTurn \cup {""}, on : BOOLEAN]]
      /\ s2 \in SUBSET UserRow
  BY DEF AccountsInv, Sound
<1>3. /\ s4.user \in Nat /\ s4.role \in Nat
      /\ \A u \in DOMAIN s1 : u \in Nat /\ u \in 0..s4.user /\ u # 0
  <2>1. s4.user \in Nat /\ s4.role \in Nat
    BY <1>0 DEF AccountCounts
  <2>2. \A u \in 1..s4.user : u \in Nat /\ u \in 0..s4.user /\ u # 0
    BY <2>1
  <2>3. QED
    BY <1>2, <2>1, <2>2
<1>4. ASSUME NEW c \in {"c"} PROVE s3[c] \in Req /\ Fits(s3[c], s2, s4.user)
  BY DEF AccountsInv
<1>5. ASSUME NEW c \in {"c"}, NEW q \in Req, q.at \in {"check", "read", "row"}, q.gone = {},
             q.id \in 0..s4.user, q.at = "read" => q.id # 0, InTurn!Begin(c, q)
      PROVE  Kept
  <2>1. s3' = [s3 EXCEPT ![c] = q] /\ s1' = s1 /\ s2' = s2
    BY <1>5 DEF InTurn!Begin
  <2>2. s4' = [s4 EXCEPT !.req = @ + 1]
    BY <1>5 DEF InTurn!Begin
  <2>3. s4' \in AccountCounts /\ s4'.user = s4.user /\ s4'.role = s4.role
    BY <1>0, <2>2 DEF AccountCounts
  <2>4. QED
    BY <1>5, <2>1, <2>3, RequestIsSet
<1>6. ASSUME NEW c \in {"c"}, s3' = [s3 EXCEPT ![c] = InTurn!NoReq], s1' = s1, s2' = s2,
             s4' \in AccountCounts, s4'.user = s4.user, s4'.role = s4.role
      PROVE  Kept
  <2>1. InTurn!NoReq.id \in 0..s4.user
    BY <1>1, <1>3
  <2>2. QED
    BY <1>1, <1>6, <2>1, RequestIsSet
<1>7. ASSUME NEW c \in {"c"}, NEW a \in {"row", "roles"}, a = "roles" => s3[c].id # 0, s3[c].at # "user",
             InTurn!To(c, a), s1' = s1, s2' = s2, s4' = s4
      PROVE  Kept
  <2>1. s3' = [s3 EXCEPT ![c] = [@ EXCEPT !.at = a]]
    BY <1>7 DEF InTurn!To
  <2>2. QED
    BY <1>7, <2>1, RequestMovesTo
<1>8. ASSUME NEW c \in {"c"}, InTurn!To(c, "done"), s1' = s1, s2' = s2, s4' = s4
      PROVE  Kept
  <2>1. s3' = [s3 EXCEPT ![c] = InTurn!NoReq]
    BY <1>8 DEF InTurn!To
  <2>2. QED
    BY <1>0, <1>6, <1>8, <2>1
<1>9. ASSUME NEW c \in {"c"}, InTurn!SaveNew(c) PROVE Kept
  <2>1. PICK e \in EmailsInTurn, list \in SUBSET UserRoles :
          InTurn!Begin(c, [InTurn!NoReq EXCEPT !.op = "save", !.at = "check", !.email = e, !.on = TRUE, !.list = list])
    BY <1>9 DEF InTurn!SaveNew
  <2> DEFINE q == [InTurn!NoReq EXCEPT !.op = "save", !.at = "check", !.email = e, !.on = TRUE, !.list = list]
  <2>2. q \in Req /\ q.at = "check" /\ q.gone = {} /\ q.id = 0
    BY <1>1 DEF AccountReq
  <2>3. q.id \in 0..s4.user
    BY <1>3, <2>2
  <2>4. QED
    BY <1>5, <2>1, <2>2, <2>3
<1>10. ASSUME NEW c \in {"c"}, InTurn!SaveUser(c) PROVE Kept
  <2>1. PICK u \in DOMAIN s1, e \in EmailsInTurn, list \in SUBSET UserRoles :
          InTurn!Begin(c, [InTurn!NoReq EXCEPT !.op = "save", !.at = "row", !.id = u, !.email = e, !.on = s1[u].on,
                                           !.list = list])
    BY <1>10 DEF InTurn!SaveUser
  <2> DEFINE q == [InTurn!NoReq EXCEPT !.op = "save", !.at = "row", !.id = u, !.email = e, !.on = s1[u].on,
                                      !.list = list]
  <2>2. u \in 0..s4.user /\ u \in Nat /\ s1[u].on \in BOOLEAN
    BY <1>2, <1>3
  <2>3. q \in Req /\ q.at = "row" /\ q.gone = {} /\ q.id = u
    BY <1>1, <2>2 DEF AccountReq
  <2>4. QED
    BY <1>5, <2>1, <2>2, <2>3
<1>11. ASSUME NEW c \in {"c"}, NEW u \in DOMAIN s1, NEW q \in Req, q.at = "read", q.gone = {}, q.id = u,
              InTurn!Begin(c, q)
       PROVE  Kept
  BY <1>3, <1>5, <1>11
<1>12. ASSUME NEW c \in {"c"}, InTurn!EnableUser(c) \/ InTurn!DisableUser(c) \/ InTurn!DeleteUser(c) PROVE Kept
  <2>1. CASE InTurn!EnableUser(c)
    <3>1. PICK u \in DOMAIN s1 : InTurn!Begin(c, [InTurn!NoReq EXCEPT !.op = "switch", !.at = "read", !.id = u, !.on = TRUE])
      BY <2>1 DEF InTurn!EnableUser
    <3> DEFINE q == [InTurn!NoReq EXCEPT !.op = "switch", !.at = "read", !.id = u, !.on = TRUE]
    <3>2. q \in Req /\ q.at = "read" /\ q.gone = {} /\ q.id = u
      BY <1>1, <1>3 DEF AccountReq
    <3>3. QED
      BY <1>11, <3>1, <3>2
  <2>2. CASE InTurn!DisableUser(c)
    <3>1. PICK u \in DOMAIN s1 : InTurn!Begin(c, [InTurn!NoReq EXCEPT !.op = "switch", !.at = "read", !.id = u])
      BY <2>2 DEF InTurn!DisableUser
    <3> DEFINE q == [InTurn!NoReq EXCEPT !.op = "switch", !.at = "read", !.id = u]
    <3>2. q \in Req /\ q.at = "read" /\ q.gone = {} /\ q.id = u
      BY <1>1, <1>3 DEF AccountReq
    <3>3. QED
      BY <1>11, <3>1, <3>2
  <2>3. CASE InTurn!DeleteUser(c)
    <3>1. PICK u \in DOMAIN s1 : InTurn!Begin(c, [InTurn!NoReq EXCEPT !.op = "delete", !.at = "read", !.id = u])
      BY <2>3 DEF InTurn!DeleteUser
    <3> DEFINE q == [InTurn!NoReq EXCEPT !.op = "delete", !.at = "read", !.id = u]
    <3>2. q \in Req /\ q.at = "read" /\ q.gone = {} /\ q.id = u
      BY <1>1, <1>3 DEF AccountReq
    <3>3. QED
      BY <1>11, <3>1, <3>2
  <2>4. QED
    BY <1>12, <2>1, <2>2, <2>3
<1>13. ASSUME NEW c \in {"c"}, InTurn!CheckEmail(c) PROVE Kept
  <2>1. InTurn!To(c, "done") \/ InTurn!To(c, "row")
    BY <1>13 DEF InTurn!CheckEmail
  <2>2. QED
    BY <1>7, <1>8, <1>13, <2>1 DEF InTurn!CheckEmail
<1>14. ASSUME NEW c \in {"c"}, InTurn!GetUser(c) PROVE Kept
  <2> DEFINE q == [InTurn!AsRead(s3[c]) EXCEPT !.at = "row"]
  <2>1. s1' = s1 /\ s2' = s2 /\ s4' = s4 /\ s3[c].at = "read"
    BY <1>14 DEF InTurn!GetUser
  <2>2. CASE s3[c].id \notin DOMAIN s1
    BY <1>8, <1>14, <2>1, <2>2 DEF InTurn!GetUser
  <2>3. CASE s3[c].id \in DOMAIN s1 /\ s3[c].op = "delete"
    <3>1. InTurn!To(c, "roles")
      BY <1>14, <2>3 DEF InTurn!GetUser
    <3>2. s3[c].id # 0
      BY <1>4, <2>1 DEF Fits
    <3>3. QED
      BY <1>7, <2>1, <3>1, <3>2
  <2>4. CASE s3[c].id \in DOMAIN s1 /\ s3[c].op # "delete"
    <3>1. s3' = [s3 EXCEPT ![c] = q]
      BY <1>14, <2>4 DEF InTurn!GetUser
    <3>2. /\ s1[s3[c].id].email \in EmailsInTurn \cup {""}
          /\ InTurn!RolesOf(s3[c].id) \in SUBSET UserRoles
      <4>1. s1[s3[c].id].email \in EmailsInTurn \cup {""}
        BY <1>2, <2>4
      <4>2. \A r \in s2 : r.role \in UserRoles
        BY <1>2 DEF UserRow
      <4>3. QED
        BY <4>1, <4>2 DEF InTurn!RolesOf, InTurn!Of
    <3>3. q \in Req /\ q.at = "row" /\ q.id = s3[c].id /\ q.gone = s3[c].gone
      BY <1>4, <3>2 DEF InTurn!AsRead, AccountReq
    <3>4. Fits(q, s2, s4.user) /\ ~Holds(q)
      BY <1>4, <2>1, <3>3 DEF Fits, Holds
    <3>5. s4'.user >= s4.user /\ s4'.role = s4.role /\ s4' \in AccountCounts
      BY <1>0, <1>3, <2>1
    <3>6. QED
      BY <2>1, <3>1, <3>3, <3>4, <3>5, RequestGoesOn
  <2>5. QED
    BY <2>2, <2>3, <2>4
<1>15. ASSUME NEW c \in {"c"}, InTurn!SaveRow(c) PROVE Kept
  <2> DEFINE id == IF s3[c].id = 0 THEN s4.user + 1 ELSE s3[c].id
             q == [s3[c] EXCEPT !.at = "find", !.id = id]
  <2>1. s3' = [s3 EXCEPT ![c] = q] /\ s1' = s1 /\ s2' = s2
    BY <1>15 DEF InTurn!SaveRow
  <2>2. /\ s4' \in AccountCounts /\ s4'.role = s4.role
        /\ s4'.user = IF s3[c].id = 0 THEN s4.user + 1 ELSE s4.user
    <3>1. s4' = IF s3[c].id = 0 THEN [s4 EXCEPT !.user = @ + 1] ELSE s4
      BY <1>15 DEF InTurn!SaveRow
    <3>2. QED
      BY <1>0, <3>1 DEF AccountCounts
  <2>3. s3[c].id \in Nat /\ s3[c].id <= s4.user
    BY <1>4 DEF AccountReq, Fits
  <2>4. id \in Nat /\ id # 0 /\ id <= s4'.user /\ s4'.user >= s4.user
    BY <1>3, <2>2, <2>3
  <2>5. q \in Req /\ q.at = "find" /\ q.id = id /\ q.gone = s3[c].gone
    BY <1>4, <2>4 DEF AccountReq
  <2>6. s3[c].gone = {}
    BY <1>4, <1>15 DEF Fits, InTurn!SaveRow
  <2>7. Fits(q, s2, s4'.user)
    BY <2>3, <2>4, <2>5, <2>6 DEF Fits
  <2>8. \A d \in {"c"} \ {c} : Holds(s3[d]) => s3[d].id # id
    <3>1. ASSUME NEW d \in {"c"} \ {c}, Holds(s3[d]) PROVE s3[d].id \in Nat /\ s3[d].id <= s4.user
      BY <1>4 DEF AccountReq, Fits
    <3>2. ASSUME NEW d \in {"c"} \ {c}, Holds(s3[d]) PROVE s3[d].id # s3[c].id
      BY <1>15, <3>2 DEF InTurn!SaveRow, InTurn!Free, Holds
    <3>3. QED
      BY <1>3, <3>1, <3>2
  <2>9. QED
    BY <2>1, <2>2, <2>4, <2>5, <2>7, <2>8, RequestGoesOn
<1>16. ASSUME NEW c \in {"c"}, InTurn!FindRoles(c) PROVE Kept
  <2> DEFINE q == [s3[c] EXCEPT !.at = "sync", !.have = InTurn!Of(s3[c].id)]
  <2>1. s3' = [s3 EXCEPT ![c] = q] /\ s1' = s1 /\ s2' = s2 /\ s4' = s4 /\ s3[c].at = "find"
    BY <1>16 DEF InTurn!FindRoles
  <2>2. InTurn!Of(s3[c].id) = RowsOf(s2, s3[c].id) /\ InTurn!Of(s3[c].id) \in SUBSET UserRow
    BY <1>2 DEF InTurn!Of, RowsOf
  <2>3. q \in Req /\ q.at = "sync" /\ q.id = s3[c].id /\ q.gone = s3[c].gone /\ q.have = RowsOf(s2, q.id)
    BY <1>4, <2>2 DEF AccountReq
  <2>4. Fits(q, s2, s4.user)
    BY <1>4, <2>1, <2>3 DEF Fits
  <2>5. \A d \in {"c"} \ {c} : Holds(s3[d]) => s3[d].id # q.id
    BY <2>1, <2>3 DEF AccountsInv, OneSave, Holds
  <2>6. s4'.user >= s4.user /\ s4'.role = s4.role /\ s4' \in AccountCounts
    BY <1>0, <1>3, <2>1
  <2>7. QED
    BY <2>1, <2>3, <2>4, <2>5, <2>6, RequestGoesOn
<1>17. ASSUME NEW c \in {"c"}, InTurn!SyncRoles(c) PROVE Kept
  <2> DEFINE M == Lacked(s3[c])
             G == InTurn!Unlisted(s3[c])
  <2>1. s3[c].at = "sync" /\ s3' = [s3 EXCEPT ![c] = InTurn!NoReq]
    BY <1>17 DEF InTurn!SyncRoles, InTurn!To
  <2>2. M \in SUBSET UserRoles /\ IsFiniteSet(M) /\ InTurn!Missing(s3[c]) = M
    <3>1. M \in SUBSET UserRoles
      BY <1>4 DEF AccountReq, Lacked
    <3>2. QED
      BY <3>1, RolesAssumption, FS_Subset DEF InTurn!Missing, Lacked
  <2>3. InTurn!Cardinality(M) = Cardinality(M)
    BY Counting
  <2>4. G \in SUBSET s3[c].have
    BY DEF InTurn!Unlisted
  <2>5. PICK p \in [M -> 1..Cardinality(M)] :
          /\ OneToOne(p)
          /\ s2' = (s2 \ G) \cup Added(s4.role, s3[c].id, M, p)
    <3> DEFINE place == CHOOSE p \in [M -> 1..Cardinality(M)] : InTurn!IsInjective(p)
    <3>1. \E p \in [M -> 1..Cardinality(M)] : InTurn!IsInjective(p)
      BY <2>2, Places DEF InTurn!IsInjective, OneToOne
    <3>2. place \in [M -> 1..Cardinality(M)] /\ OneToOne(place)
      BY <3>1 DEF InTurn!IsInjective, OneToOne
    <3>3. s2' = (s2 \ G) \cup {[id |-> s4.role + place[r], user |-> s3[c].id, role |-> r] : r \in M}
      BY <1>17, <2>2, <2>3 DEF InTurn!SyncRoles
    <3>4. QED
      BY <3>2, <3>3 DEF Added
  <2>6. s1' = Stored(s1, s3[c])
    BY <1>17 DEF InTurn!SyncRoles, InTurn!Written, Stored
  <2>7. s4' = [s4 EXCEPT !.role = @ + Cardinality(M)]
    BY <1>17, <2>2, <2>3 DEF InTurn!SyncRoles
  <2>8. QED
    BY <1>1, <2>1, <2>4, <2>5, <2>6, <2>7, RolesAreSaved
<1>18. ASSUME NEW c \in {"c"}, InTurn!DeleteRoles(c) PROVE Kept
  <2> DEFINE q == [s3[c] EXCEPT !.at = "user", !.gone = InTurn!Of(s3[c].id)]
  <2>1. s3' = [s3 EXCEPT ![c] = q] /\ s1' = s1 /\ s2' = s2 /\ s4' = s4 /\ s3[c].at = "roles"
    BY <1>18 DEF InTurn!DeleteRoles
  <2>2. InTurn!Of(s3[c].id) \in SUBSET UserRow /\ \A r \in InTurn!Of(s3[c].id) : r.user = s3[c].id
    BY <1>2 DEF InTurn!Of
  <2>3. q \in Req /\ q.at = "user" /\ q.id = s3[c].id /\ \A r \in q.gone : r.user = q.id
    BY <1>4, <2>2 DEF AccountReq
  <2>4. Fits(q, s2, s4.user) /\ ~Holds(q)
    BY <1>4, <2>1, <2>3 DEF Fits, Holds
  <2>5. s4'.user >= s4.user /\ s4'.role = s4.role /\ s4' \in AccountCounts
    BY <1>0, <1>3, <2>1
  <2>6. QED
    BY <2>1, <2>3, <2>4, <2>5, RequestGoesOn
<1>19. ASSUME NEW c \in {"c"}, InTurn!DeleteRow(c) PROVE Kept
  <2>1. /\ s3' = [s3 EXCEPT ![c] = InTurn!NoReq] /\ s4' = s4
        /\ s1' = [u \in DOMAIN s1 \ {s3[c].id} |-> s1[u]] /\ s2' = s2 \ s3[c].gone
    BY <1>19 DEF InTurn!DeleteRow, InTurn!To
  <2>2. \A d \in {"c"} \ {c} : Holds(s3[d]) => s3[d].id # s3[c].id
    BY <1>19 DEF InTurn!DeleteRow, InTurn!Free, Holds
  <2>3. QED
    BY <1>1, <2>1, <2>2, UserIsDeleted
<1>20. ASSUME NEW c \in {"c"}, NEW d \in {"c"}, InTurn!Deadlock(c, d) PROVE Kept
  <2>1. (InTurn!To(c, "done") \/ InTurn!To(d, "done")) /\ s1' = s1 /\ s2' = s2 /\ s4' = s4
    BY <1>20 DEF InTurn!Deadlock
  <2>2. QED
    BY <1>8, <2>1
<1>21. ASSUME NEW c \in {"c"}, InTurn!Fail(c) PROVE Kept
  <2>1. s3' = [s3 EXCEPT ![c] = InTurn!NoReq] /\ s1' = s1 /\ s2' = s2
    BY <1>21 DEF InTurn!Fail, InTurn!To
  <2>2. s4' = [s4 EXCEPT !.fault = @ + 1]
    BY <1>21 DEF InTurn!Fail
  <2>3. s4' \in AccountCounts /\ s4'.user = s4.user /\ s4'.role = s4.role
    BY <1>0, <2>2 DEF AccountCounts
  <2>4. QED
    BY <1>6, <2>1, <2>3
<1>22. QED
  BY <1>9, <1>10, <1>12, <1>13, <1>14, <1>15, <1>16, <1>17, <1>18, <1>19, <1>20, <1>21
  DEF InTurn!Next, InTurn!Step


(* Where requests come one after another: no two users have one email, no  *)
(* role is left of a user that is gone, the email that is saved is that of *)
(* no other user, a switch lists the roles there are, and a delete takes   *)
(* all the roles of its user.                                              *)
Proper(U, W, q) ==
    /\ \A u, v \in DOMAIN U : U[u].email = U[v].email => u = v
    /\ \A r \in W : r.user \in DOMAIN U
    /\ q.at \in {"row", "find", "sync"} => \A u \in DOMAIN U : U[u].email = q.email => u = q.id
    /\ q.op = "switch" /\ q.at \in {"row", "find", "sync"} =>
         q.id # 0 /\ q.list = {r.role : r \in RowsOf(W, q.id)}
    /\ q.at = "check" => q.op = "save"
    /\ q.at = "user" => q.gone = RowsOf(W, q.id)

InTurnInv == AccountsInv({"c"}, EmailsInTurn, s1, s2, s3, s4) /\ Proper(s1, s2, s3["c"])

(* One after another, requests leave one user of an email and no role of   *)
(* a user that is gone.                                                    *)
LEMMA InTurnIsProper ==
    ASSUME InTurnInv, InTurn!Next
    PROVE  Proper(s1', s2', s3'["c"])
<1> DEFINE Kept == Proper(s1', s2', s3'["c"])
<1>1. /\ s3 \in [{"c"} -> AccountReq(EmailsInTurn)]
      /\ DOMAIN s1 \subseteq 1..s4.user /\ s4.user \in Nat
      /\ Fits(s3["c"], s2, s4.user)
      /\ Proper(s1, s2, s3["c"])
  BY DEF InTurnInv, AccountsInv, AccountCounts
<1>2. ASSUME NEW q, s3' = [s3 EXCEPT !["c"] = q]
      PROVE  s3'["c"] = q
  BY <1>1, <1>2
<1>3. ASSUME NEW q, s3' = [s3 EXCEPT !["c"] = q], s1' = s1, s2' = s2, q.at \in {"done", "check", "read", "roles"},
             q.at = "check" => q.op = "save"
      PROVE  Kept
  BY <1>1, <1>2, <1>3 DEF Proper
<1>4. ASSUME InTurn!To("c", "done"), s1' = s1, s2' = s2
      PROVE  Kept
  <2>1. s3' = [s3 EXCEPT !["c"] = InTurn!NoReq] /\ InTurn!NoReq.at = "done"
    BY <1>4 DEF InTurn!To, InTurn!NoReq
  <2>2. QED
    BY <1>3, <1>4, <2>1
<1>5. ASSUME NEW q, InTurn!Begin("c", q), q.at \in {"check", "read"}, q.at = "check" => q.op = "save"
      PROVE  Kept
  BY <1>3, <1>5 DEF InTurn!Begin
<1>6. CASE InTurn!SaveNew("c")
  <2>1. PICK e \in EmailsInTurn, list \in SUBSET UserRoles :
          InTurn!Begin("c", [InTurn!NoReq EXCEPT !.op = "save", !.at = "check", !.email = e, !.on = TRUE,
                                                 !.list = list])
    BY <1>6 DEF InTurn!SaveNew
  <2>2. QED
    BY <1>5, <2>1 DEF InTurn!NoReq
<1>7. CASE InTurn!SaveUser("c")
  <2>1. PICK u \in DOMAIN s1, e \in EmailsInTurn, list \in SUBSET UserRoles :
          /\ e = s1[u].email
          /\ InTurn!Begin("c", [InTurn!NoReq EXCEPT !.op = "save", !.at = "row", !.id = u, !.email = e,
                                                    !.on = s1[u].on, !.list = list])
    BY <1>7 DEF InTurn!SaveUser
  <2> DEFINE q == [InTurn!NoReq EXCEPT !.op = "save", !.at = "row", !.id = u, !.email = e,
                                       !.on = s1[u].on, !.list = list]
  <2>2. s3' = [s3 EXCEPT !["c"] = q] /\ s1' = s1 /\ s2' = s2
    BY <2>1 DEF InTurn!Begin
  <2>3. q.at = "row" /\ q.id = u /\ q.email = s1[u].email /\ q.op = "save"
    BY <2>1 DEF InTurn!NoReq
  <2>4. QED
    BY <1>1, <1>2, <2>2, <2>3 DEF Proper
<1>8. CASE InTurn!EnableUser("c") \/ InTurn!DisableUser("c") \/ InTurn!DeleteUser("c")
  <2>1. PICK u \in DOMAIN s1 :
          \/ InTurn!Begin("c", [InTurn!NoReq EXCEPT !.op = "switch", !.at = "read", !.id = u, !.on = TRUE])
          \/ InTurn!Begin("c", [InTurn!NoReq EXCEPT !.op = "switch", !.at = "read", !.id = u])
          \/ InTurn!Begin("c", [InTurn!NoReq EXCEPT !.op = "delete", !.at = "read", !.id = u])
    BY <1>8 DEF InTurn!EnableUser, InTurn!DisableUser, InTurn!DeleteUser
  <2>2. /\ [InTurn!NoReq EXCEPT !.op = "switch", !.at = "read", !.id = u, !.on = TRUE].at = "read"
        /\ [InTurn!NoReq EXCEPT !.op = "switch", !.at = "read", !.id = u].at = "read"
        /\ [InTurn!NoReq EXCEPT !.op = "delete", !.at = "read", !.id = u].at = "read"
    BY DEF InTurn!NoReq
  <2>3. QED
    BY <1>5, <2>1, <2>2
<1>9. CASE InTurn!CheckEmail("c")
  <2>1. s1' = s1 /\ s2' = s2
    BY <1>9 DEF InTurn!CheckEmail
  <2>2. CASE \E u \in DOMAIN s1 : s1[u].email = s3["c"].email
    BY <1>4, <1>9, <2>1, <2>2 DEF InTurn!CheckEmail
  <2>3. CASE \A u \in DOMAIN s1 : s1[u].email # s3["c"].email
    <3>1. s3' = [s3 EXCEPT !["c"] = [@ EXCEPT !.at = "row"]]
      BY <1>9, <2>3 DEF InTurn!CheckEmail, InTurn!To
    <3>2. s3'["c"].at = "row" /\ s3'["c"].email = s3["c"].email /\ s3'["c"].op = s3["c"].op
      BY <1>1, <3>1 DEF AccountReq
    <3>3. s3["c"].op = "save"
      BY <1>1, <1>9 DEF Proper, InTurn!CheckEmail
    <3>4. QED
      BY <1>1, <2>1, <2>3, <3>2, <3>3 DEF Proper
  <2>4. QED
    BY <2>2, <2>3
<1>10. CASE InTurn!GetUser("c")
  <2>1. s1' = s1 /\ s2' = s2
    BY <1>10 DEF InTurn!GetUser
  <2>2. CASE s3["c"].id \notin DOMAIN s1
    BY <1>4, <1>10, <2>1, <2>2 DEF InTurn!GetUser
  <2>3. CASE s3["c"].id \in DOMAIN s1 /\ s3["c"].op = "delete"
    <3>1. s3' = [s3 EXCEPT !["c"] = [@ EXCEPT !.at = "roles"]]
      BY <1>10, <2>3 DEF InTurn!GetUser, InTurn!To
    <3>2. s3'["c"].at = "roles"
      BY <1>1, <3>1 DEF AccountReq
    <3>3. QED
      BY <1>1, <2>1, <3>2 DEF Proper
  <2>4. CASE s3["c"].id \in DOMAIN s1 /\ s3["c"].op # "delete"
    <3>1. s3' = [s3 EXCEPT !["c"] = [InTurn!AsRead(s3["c"]) EXCEPT !.at = "row"]]
      BY <1>10, <2>4 DEF InTurn!GetUser
    <3>2. /\ s3'["c"].at = "row" /\ s3'["c"].id = s3["c"].id /\ s3'["c"].email = s1[s3["c"].id].email
          /\ s3'["c"].list = InTurn!RolesOf(s3["c"].id)
      BY <1>1, <3>1 DEF AccountReq, InTurn!AsRead
    <3>3. s3["c"].id # 0
      BY <1>1, <2>4
    <3>4. InTurn!RolesOf(s3["c"].id) = {r.role : r \in RowsOf(s2, s3["c"].id)}
      BY DEF InTurn!RolesOf, InTurn!Of, RowsOf
    <3>5. QED
      BY <1>1, <2>1, <2>4, <3>2, <3>3, <3>4 DEF Proper
  <2>5. QED
    BY <2>2, <2>3, <2>4
<1>11. CASE InTurn!SaveRow("c")
  <2> DEFINE id == IF s3["c"].id = 0 THEN s4.user + 1 ELSE s3["c"].id
  <2>1. s3' = [s3 EXCEPT !["c"] = [s3["c"] EXCEPT !.at = "find", !.id = id]] /\ s1' = s1 /\ s2' = s2
    BY <1>11 DEF InTurn!SaveRow
  <2>2. /\ s3'["c"].at = "find" /\ s3'["c"].id = id /\ s3'["c"].email = s3["c"].email
        /\ s3'["c"].op = s3["c"].op /\ s3'["c"].list = s3["c"].list
    BY <1>1, <2>1 DEF AccountReq
  <2>3. \A u \in DOMAIN s1 : s1[u].email = s3["c"].email => u = s3["c"].id
    BY <1>1, <1>11 DEF Proper, InTurn!SaveRow
  <2>4. \A u \in DOMAIN s1 : u # 0
    BY <1>1
  <2>5. \A u \in DOMAIN s1 : s1[u].email = s3["c"].email => u = id
    BY <2>3, <2>4
  <2>6. s3["c"].at = "row" /\ (s3["c"].op = "switch" => id = s3["c"].id)
    BY <1>1, <1>11 DEF Proper, InTurn!SaveRow
  <2>7. QED
    BY <1>1, <2>1, <2>2, <2>5, <2>6 DEF Proper
<1>12. CASE InTurn!FindRoles("c")
  <2>1. /\ s3' = [s3 EXCEPT !["c"] = [s3["c"] EXCEPT !.at = "sync", !.have = InTurn!Of(s3["c"].id)]]
        /\ s1' = s1 /\ s2' = s2 /\ s3["c"].at = "find"
    BY <1>12 DEF InTurn!FindRoles
  <2>2. /\ s3'["c"].at = "sync" /\ s3'["c"].id = s3["c"].id /\ s3'["c"].email = s3["c"].email
        /\ s3'["c"].op = s3["c"].op /\ s3'["c"].list = s3["c"].list
    BY <1>1, <2>1 DEF AccountReq
  <2>3. QED
    BY <1>1, <2>1, <2>2 DEF Proper
<1>13. CASE InTurn!SyncRoles("c")
  <2>1. s3["c"].at = "sync" /\ s3' = [s3 EXCEPT !["c"] = InTurn!NoReq] /\ InTurn!NoReq.at = "done"
    BY <1>13 DEF InTurn!SyncRoles, InTurn!To, InTurn!NoReq
  <2>2. s1' = [u \in DOMAIN s1 \cup {s3["c"].id} |->
                 IF u = s3["c"].id THEN [email |-> s3["c"].email, on |-> s3["c"].on] ELSE s1[u]]
    BY <1>13 DEF InTurn!SyncRoles, InTurn!Written
  <2>3. \A r \in s2' : r \in s2 \/ r.user = s3["c"].id
    BY <1>13 DEF InTurn!SyncRoles
  <2>4. \A r \in s2' : r.user \in DOMAIN s1'
    BY <1>1, <2>2, <2>3 DEF Proper
  <2>5. \A u, v \in DOMAIN s1' : s1'[u].email = s1'[v].email => u = v
    BY <1>1, <2>1, <2>2 DEF Proper
  <2>6. s3'["c"].at = "done"
    BY <1>2, <2>1
  <2>7. QED
    BY <2>4, <2>5, <2>6 DEF Proper
<1>14. CASE InTurn!DeleteRoles("c")
  <2>1. /\ s3' = [s3 EXCEPT !["c"] = [s3["c"] EXCEPT !.at = "user", !.gone = InTurn!Of(s3["c"].id)]]
        /\ s1' = s1 /\ s2' = s2
    BY <1>14 DEF InTurn!DeleteRoles
  <2>2. s3'["c"].at = "user" /\ s3'["c"].id = s3["c"].id /\ s3'["c"].gone = RowsOf(s2, s3["c"].id)
    BY <1>1, <2>1 DEF AccountReq, InTurn!Of, RowsOf
  <2>3. QED
    BY <1>1, <2>1, <2>2 DEF Proper
<1>15. CASE InTurn!DeleteRow("c")
  <2>1. /\ s3["c"].at = "user" /\ s3' = [s3 EXCEPT !["c"] = InTurn!NoReq] /\ InTurn!NoReq.at = "done"
        /\ s1' = [u \in DOMAIN s1 \ {s3["c"].id} |-> s1[u]] /\ s2' = s2 \ s3["c"].gone
    BY <1>15 DEF InTurn!DeleteRow, InTurn!To, InTurn!NoReq
  <2>2. s3["c"].gone = RowsOf(s2, s3["c"].id)
    BY <1>1, <2>1 DEF Proper
  <2>3. \A r \in s2' : r.user \in DOMAIN s1'
    BY <1>1, <2>1, <2>2 DEF Proper, RowsOf
  <2>4. s3'["c"].at = "done"
    BY <1>2, <2>1
  <2>5. QED
    BY <1>1, <2>1, <2>3, <2>4 DEF Proper
<1>16. CASE InTurn!Deadlock("c", "c")
  BY <1>16 DEF InTurn!Deadlock
<1>17. CASE InTurn!Fail("c")
  BY <1>4, <1>17 DEF InTurn!Fail
<1>18. QED
  BY <1>6, <1>7, <1>8, <1>9, <1>10, <1>11, <1>12, <1>13, <1>14, <1>15, <1>16, <1>17
  DEF InTurn!Next, InTurn!Step

-----------------------------------------------------------------------------
(* Roles and their permissions, one request after another.                 *)
PermRow == [id : Nat, role : Nat, key : Keys]
PermReq ==
    [op : {"none", "save", "delete"}, at : {"done", "read", "delete", "role", "find", "prune", "save"},
     id : Nat, list : SUBSET [id : Nat, key : Keys], want : SUBSET Keys, have : SUBSET PermRow]
PermCounts == [role : Nat, perm : Nat, req : Nat, fault : Nat]

(* What is listed has each key and each id once, and an id that was sent   *)
(* is that of a row of the role, whose key no other entry has.             *)
ListedOnce(l) == \A x, y \in l : x.key = y.key \/ (x.id # 0 /\ x.id = y.id) => x = y
FromRows(q, P) ==
    \A x \in q.list : x.id # 0 =>
        \E p \in P : p.id = x.id /\ p.role = q.id /\ \A y \in q.list : y # x => y.key # p.key

(* Of what is still to be saved: a row found with its key is there still;  *)
(* if none was found, there is none, and the id that was sent is free.     *)
Savable(q, x, P, n) ==
    /\ \A h \in q.have : h.key = x.key => h \in P
    /\ (\A h \in q.have : h.key # x.key) =>
         /\ x.id <= n.perm
         /\ \A p \in P : ~(p.role = q.id /\ p.key = x.key) /\ (x.id # 0 => p.id # x.id)

Asks(q, S, P, n) ==
    /\ q.at = "role" => q.id = 0 \/ q.id \in S
    /\ q.at \in {"find", "prune", "save"} => q.id \in S
    /\ ListedOnce(q.list)
    /\ q.at \in {"role", "find", "prune"} => FromRows(q, P) /\ q.want = {x.key : x \in q.list}
    /\ q.at = "prune" => q.have = {p \in P : p.role = q.id}
    /\ q.at = "save" =>
         /\ \A h \in q.have : h.role = q.id
         /\ \A x \in q.list : Savable(q, x, P, n)
         /\ q.want = {x.key : x \in q.list} \cup {p.key : p \in {o \in P : o.role = q.id}}

PermsFit(S, P, n) ==
    /\ S \subseteq 1..n.role
    /\ P \in SUBSET PermRow
    /\ \A p \in P : p.id \in 1..n.perm /\ p.role \in S
    /\ \A p, o \in P : p.id = o.id => p = o
    /\ \A p, o \in P : p.role = o.role /\ p.key = o.key => p = o

RolesInv ==
    /\ s4 \in PermCounts
    /\ s3 \in [{"c"} -> PermReq]
    /\ PermsFit(s1, s2, s4)
    /\ Asks(s3["c"], s1, s2, s4)

PlaceOf(q, p, n) == IF R!IdOf(q, p) = 0 THEN n.perm + 1 ELSE R!IdOf(q, p)
Replaced(P, i, r, k) == {o \in P : o.id # i} \cup {[id |-> i, role |-> r, key |-> k]}
Counted(q, p, n) == IF R!IdOf(q, p) = 0 THEN [n EXCEPT !.perm = PlaceOf(q, p, n)] ELSE n

(* One listed permission is stored: the row it had, a new one, or the row  *)
(* of its id, which the save has taken away before.                        *)
LEMMA PermissionIsSaved ==
    ASSUME NEW S, NEW P, NEW n \in PermCounts, NEW q \in PermReq, PermsFit(S, P, n), Asks(q, S, P, n),
           q.at = "save", NEW p \in q.list,
           NEW P2, P2 = Replaced(P, PlaceOf(q, p, n), q.id, p.key),
           NEW m, m = Counted(q, p, n),
           NEW q2, q2 = [q EXCEPT !.list = @ \ {p}]
    PROVE  m \in PermCounts /\ q2 \in PermReq /\ PermsFit(S, P2, m) /\ Asks(q2, S, P2, m)
<1> DEFINE i == PlaceOf(q, p, n)
           row == [id |-> i, role |-> q.id, key |-> p.key]
<1>0. /\ P2 = {o \in P : o.id # i} \cup {row}
      /\ i = IF R!IdOf(q, p) = 0 THEN n.perm + 1 ELSE R!IdOf(q, p)
      /\ m = IF R!IdOf(q, p) = 0 THEN [n EXCEPT !.perm = i] ELSE n
  BY DEF Replaced, PlaceOf, Counted
<1> HIDE DEF i
<1>1. /\ n.role \in Nat /\ n.perm \in Nat
      /\ p \in [id : Nat, key : Keys] /\ q.list \in SUBSET [id : Nat, key : Keys] /\ q.have \in SUBSET PermRow
      /\ q.id \in Nat
  BY DEF PermCounts, PermReq
<1>2. /\ q.id \in S /\ ListedOnce(q.list) /\ Savable(q, p, P, n) /\ \A h \in q.have : h.role = q.id
      /\ \A x \in q.list : Savable(q, x, P, n)
      /\ q.want = {x.key : x \in q.list} \cup {o.key : o \in {r \in P : r.role = q.id}}
  BY DEF Asks
<1>3. /\ P \in SUBSET PermRow /\ \A o \in P : o.id \in 1..n.perm /\ o.role \in S
      /\ \A o, r \in P : o.id = r.id => o = r
      /\ \A o, r \in P : o.role = r.role /\ o.key = r.key => o = r
      /\ S \subseteq 1..n.role
  BY DEF PermsFit
<1>4. /\ q2 \in PermReq /\ q2.at = "save" /\ q2.id = q.id /\ q2.have = q.have /\ q2.list = q.list \ {p}
      /\ q2.want = q.want
  BY DEF PermReq
<1>5. ASSUME NEW x \in q2.list
      PROVE  x \in [id : Nat, key : Keys] /\ x.key # p.key /\ (x.id # 0 => x.id # p.id) /\ Savable(q, x, P, n)
  BY <1>1, <1>2, <1>4 DEF ListedOnce
<1>6. CASE \E h \in q.have : h.key = p.key
  <2>1. PICK h \in q.have : h.key = p.key /\ R!IdOf(q, p) = h.id
    BY <1>6 DEF R!IdOf
  <2>2. h \in P /\ h.id \in 1..n.perm /\ h.role = q.id /\ h \in PermRow
    BY <1>2, <1>3, <2>1 DEF Savable
  <2>3. i = h.id /\ m = n
    BY <1>0, <1>1, <2>1, <2>2
  <2>4. row = h
    BY <2>1, <2>2, <2>3 DEF PermRow
  <2>5. P2 = P
    BY <1>0, <1>3, <2>2, <2>3, <2>4
  <2>6. q2.want = {x.key : x \in q2.list} \cup {o.key : o \in {r \in P : r.role = q2.id}}
    BY <1>2, <1>4, <2>1, <2>2
  <2>7. Asks(q2, S, P, n)
    BY <1>2, <1>4, <1>5, <2>6 DEF Asks, Savable, ListedOnce
  <2>8. QED
    BY <1>4, <2>3, <2>5, <2>7
<1>7. CASE \A h \in q.have : h.key # p.key
  <2>1. R!IdOf(q, p) = p.id /\ p.id \in Nat /\ p.key \in Keys
    BY <1>1, <1>7 DEF R!IdOf
  <2>2. /\ p.id <= n.perm
        /\ \A o \in P : ~(o.role = q.id /\ o.key = p.key) /\ (p.id # 0 => o.id # p.id)
    BY <1>2, <1>7 DEF Savable
  <2>3. /\ i \in Nat /\ i # 0 /\ (p.id # 0 => i = p.id) /\ (p.id = 0 => i = n.perm + 1)
        /\ \A o \in P : o.id # i
    BY <1>0, <1>1, <1>3, <2>1, <2>2
  <2>4. m \in PermCounts /\ m.role = n.role /\ m.perm >= n.perm /\ i \in 1..m.perm /\ m.perm \in Nat
    <3>1. CASE p.id = 0
      BY <1>0, <1>1, <2>1, <2>3, <3>1 DEF PermCounts
    <3>2. CASE p.id # 0
      BY <1>0, <1>1, <2>1, <2>2, <2>3, <3>2 DEF PermCounts
    <3>3. QED
      BY <3>1, <3>2
  <2>5. P2 = P \cup {row} /\ row \in PermRow /\ row.id = i /\ row.role = q.id /\ row.key = p.key
    BY <1>0, <1>1, <2>1, <2>3 DEF PermRow
  <2>6. PermsFit(S, P2, m)
    <3>1. \A o \in P2 : o.id \in 1..m.perm /\ o.role \in S
      BY <1>1, <1>2, <1>3, <2>4, <2>5
    <3>2. \A o, r \in P2 : o.id = r.id => o = r
      BY <1>3, <2>3, <2>5
    <3>3. \A o, r \in P2 : o.role = r.role /\ o.key = r.key => o = r
      BY <1>3, <2>2, <2>5
    <3>4. QED
      BY <1>3, <2>4, <2>5, <3>1, <3>2, <3>3 DEF PermsFit
  <2>7. ASSUME NEW x \in q2.list PROVE Savable(q2, x, P2, m)
    <3>1. x.id \in Nat /\ x.key # p.key /\ (x.id # 0 => x.id # p.id) /\ Savable(q, x, P, n)
      BY <1>5
    <3>2. (\A h \in q.have : h.key # x.key) => x.id <= n.perm /\ x.id <= m.perm /\ (x.id # 0 => x.id # i)
      BY <1>1, <2>3, <2>4, <3>1 DEF Savable
    <3>3. QED
      BY <1>4, <2>5, <3>1, <3>2 DEF Savable
  <2>8. q2.want = {x.key : x \in q2.list} \cup {o.key : o \in {r \in P2 : r.role = q2.id}}
    BY <1>2, <1>4, <2>5
  <2>9. Asks(q2, S, P2, m)
    BY <1>2, <1>4, <2>7, <2>8 DEF Asks, ListedOnce
  <2>10. QED
    BY <1>4, <2>4, <2>6, <2>9
<1>8. QED
  BY <1>6, <1>7

(* Every step of requests about roles keeps that.                          *)
LEMMA RolesStep ==
    ASSUME RolesInv, R!Next
    PROVE  RolesInv'
<1> DEFINE q == s3["c"]
<1>1. /\ s4 \in PermCounts /\ s3 \in [{"c"} -> PermReq] /\ q \in PermReq
      /\ PermsFit(s1, s2, s4) /\ Asks(q, s1, s2, s4)
  BY DEF RolesInv
<1>2. /\ s4.role \in Nat /\ s4.perm \in Nat /\ q.id \in Nat
      /\ q.list \in SUBSET [id : Nat, key : Keys] /\ q.have \in SUBSET PermRow
  BY <1>1 DEF PermCounts, PermReq
<1>3. /\ s1 \subseteq 1..s4.role /\ s2 \in SUBSET PermRow
      /\ \A p \in s2 : p.id \in 1..s4.perm /\ p.role \in s1
      /\ \A p, o \in s2 : p.id = o.id => p = o
      /\ \A p, o \in s2 : p.role = o.role /\ p.key = o.key => p = o
  BY <1>1 DEF PermsFit
<1>4. ASSUME NEW r, s3' = [s3 EXCEPT !["c"] = r]
      PROVE  s3'["c"] = r /\ (r \in PermReq => s3' \in [{"c"} -> PermReq])
  BY <1>1, <1>4
<1>5. ASSUME NEW r \in PermReq, s3' = [s3 EXCEPT !["c"] = r], Asks(r, s1', s2', s4'),
             s4' \in PermCounts, PermsFit(s1', s2', s4')
      PROVE  RolesInv'
  BY <1>4, <1>5 DEF RolesInv
<1>6. R!NoReq \in PermReq /\ \A S, P, n : Asks(R!NoReq, S, P, n)
  BY DEF R!NoReq, PermReq, Asks, ListedOnce
<1>7. ASSUME s3' = [s3 EXCEPT !["c"] = R!NoReq], s1' = s1, s2' = s2, s4' \in PermCounts,
             s4'.role = s4.role, s4'.perm = s4.perm
      PROVE  RolesInv'
  BY <1>1, <1>5, <1>6, <1>7 DEF PermsFit
<1>8. ASSUME NEW r \in PermReq, r.at \in {"role", "read"}, ListedOnce(r.list),
             r.at = "role" => /\ r.id = 0 \/ r.id \in s1
                              /\ FromRows(r, s2) /\ r.want = {x.key : x \in r.list},
             R!Begin("c", r)
      PROVE  RolesInv'
  <2>1. s3' = [s3 EXCEPT !["c"] = r] /\ s1' = s1 /\ s2' = s2 /\ s4' = [s4 EXCEPT !.req = @ + 1]
    BY <1>8 DEF R!Begin
  <2>2. s4' \in PermCounts /\ s4'.role = s4.role /\ s4'.perm = s4.perm
    BY <1>1, <2>1 DEF PermCounts
  <2>3. PermsFit(s1', s2', s4')
    BY <1>1, <2>1, <2>2 DEF PermsFit
  <2>4. Asks(r, s1', s2', s4')
    BY <1>8, <2>1 DEF Asks
  <2>5. QED
    BY <1>5, <1>8, <2>1, <2>2, <2>3, <2>4
<1>9. CASE R!SaveRole("c")
  <2>1. PICK r \in s1 \cup {0}, keys \in SUBSET Keys :
          \E ids \in [keys -> {0} \cup {p.id : p \in R!Of(r)}] :
            /\ \A k \in keys : ids[k] # 0 => \A l \in keys \ {k} : ids[k] # ids[l] /\ ~R!Taken(ids[k], l)
            /\ R!Begin("c", [R!NoReq EXCEPT !.op = "save", !.at = "role", !.id = r, !.want = keys,
                                            !.list = {[id |-> ids[k], key |-> k] : k \in keys}])
    BY <1>9 DEF R!SaveRole
  <2>2. PICK ids \in [keys -> {0} \cup {p.id : p \in R!Of(r)}] :
            /\ \A k \in keys : ids[k] # 0 => \A l \in keys \ {k} : ids[k] # ids[l] /\ ~R!Taken(ids[k], l)
            /\ R!Begin("c", [R!NoReq EXCEPT !.op = "save", !.at = "role", !.id = r, !.want = keys,
                                            !.list = {[id |-> ids[k], key |-> k] : k \in keys}])
    BY <2>1
  <2> DEFINE list == {[id |-> ids[k], key |-> k] : k \in keys}
             ask == [R!NoReq EXCEPT !.op = "save", !.at = "role", !.id = r, !.want = keys, !.list = list]
  <2>3. \A k \in keys : ids[k] # 0 => \E p \in s2 : p.id = ids[k] /\ p.role = r
    BY DEF R!Of
  <2>4. r \in Nat /\ \A k \in keys : ids[k] \in Nat
    <3>1. \A p \in s2 : p.id \in Nat
      BY <1>3 DEF PermRow
    <3>2. QED
      BY <1>2, <1>3, <2>3, <3>1
  <2>5. ask \in PermReq /\ ask.at = "role" /\ ask.id = r /\ ask.list = list /\ ask.want = keys
    <3>1. list \in SUBSET [id : Nat, key : Keys]
      BY <2>4
    <3> HIDE DEF list
    <3>2. QED
      BY <1>6, <2>4, <3>1 DEF PermReq
  <2>6. \A x \in list : x.key \in keys /\ x.id = ids[x.key] /\ x = [id |-> ids[x.key], key |-> x.key]
    OBVIOUS
  <2>7. ListedOnce(list)
    <3>1. ASSUME NEW x \in list, NEW y \in list, x.key = y.key \/ (x.id # 0 /\ x.id = y.id)
          PROVE  x = y
      <4>1. x.key = y.key
        BY <2>2, <2>6, <3>1
      <4>2. QED
        BY <2>6, <4>1
    <3>2. QED
      BY <3>1 DEF ListedOnce
  <2>8. FromRows(ask, s2)
    <3>1. ASSUME NEW x \in list, x.id # 0
          PROVE  \E p \in s2 : p.id = x.id /\ p.role = r /\ \A y \in list : y # x => y.key # p.key
      <4>1. PICK p \in s2 : p.id = x.id /\ p.role = r
        BY <2>3, <2>6, <3>1
      <4>2. ASSUME NEW y \in list, y # x PROVE y.key # p.key
        <5>1. y.key \in keys \ {x.key}
          BY <2>6, <2>7, <4>2 DEF ListedOnce
        <5>2. ~R!Taken(x.id, y.key)
          BY <2>2, <2>6, <3>1, <5>1
        <5>3. QED
          BY <4>1, <5>2 DEF R!Taken
      <4>3. QED
        BY <4>1, <4>2
    <3>2. QED
      BY <2>5, <3>1 DEF FromRows
  <2>9. keys = {x.key : x \in list}
    <3>1. ASSUME NEW k \in keys PROVE k \in {x.key : x \in list}
      <4>1. [id |-> ids[k], key |-> k] \in list /\ [id |-> ids[k], key |-> k].key = k
        OBVIOUS
      <4>2. QED
        BY <4>1
    <3>2. QED
      BY <2>6, <3>1
  <2>10. QED
    BY <1>8, <2>2, <2>5, <2>7, <2>8, <2>9
<1>10. CASE R!DeleteRole("c")
  <2>1. PICK r \in s1 : R!Begin("c", [R!NoReq EXCEPT !.op = "delete", !.at = "read", !.id = r])
    BY <1>10 DEF R!DeleteRole
  <2> DEFINE ask == [R!NoReq EXCEPT !.op = "delete", !.at = "read", !.id = r]
  <2>2. ask \in PermReq /\ ask.at = "read" /\ ask.list = {}
    <3>1. r \in Nat
      BY <1>2, <1>3
    <3>2. R!NoReq.list = {}
      BY DEF R!NoReq
    <3>3. QED
      BY <1>6, <3>1, <3>2 DEF PermReq
  <2>3. QED
    BY <1>8, <2>1, <2>2 DEF ListedOnce
<1>11. CASE R!GetRole("c")
  <2>1. s1' = s1 /\ s2' = s2 /\ s4' = s4 /\ q.at = "read"
    BY <1>11 DEF R!GetRole
  <2>2. CASE q.id \in s1
    <3> DEFINE ask == [q EXCEPT !.at = "delete"]
    <3>1. s3' = [s3 EXCEPT !["c"] = ask]
      BY <1>11, <2>2 DEF R!GetRole, R!To
    <3>2. ask \in PermReq /\ ask.at = "delete" /\ ask.list = q.list
      BY <1>1 DEF PermReq
    <3>3. Asks(ask, s1, s2, s4)
      BY <1>1, <3>2 DEF Asks
    <3>4. QED
      BY <1>1, <1>5, <2>1, <3>1, <3>2, <3>3
  <2>3. CASE q.id \notin s1
    BY <1>1, <1>7, <1>11, <2>1, <2>3 DEF R!GetRole, R!To
  <2>4. QED
    BY <2>2, <2>3
<1>12. CASE R!SaveRoleRow("c")
  <2> DEFINE r == IF q.id = 0 THEN s4.role + 1 ELSE q.id
             ask == [q EXCEPT !.at = "find", !.id = r]
  <2>1. /\ s1' = s1 \cup {r} /\ s2' = s2 /\ q.at = "role"
        /\ s4' = IF q.id = 0 THEN [s4 EXCEPT !.role = r] ELSE s4
        /\ s3' = [s3 EXCEPT !["c"] = IF q.list = {} THEN R!NoReq ELSE ask]
    BY <1>12 DEF R!SaveRoleRow
  <2>2. /\ r \in Nat /\ s4' \in PermCounts /\ s4'.perm = s4.perm
        /\ s4'.role = IF q.id = 0 THEN s4.role + 1 ELSE s4.role
    BY <1>1, <1>2, <2>1 DEF PermCounts
  <2>3. q.id = 0 \/ q.id \in s1
    BY <1>1, <2>1 DEF Asks
  <2>4. s1' \subseteq 1..s4'.role
    BY <1>2, <1>3, <2>1, <2>2, <2>3
  <2>5. PermsFit(s1', s2', s4')
    BY <1>3, <2>1, <2>2, <2>4 DEF PermsFit
  <2>6. CASE q.list = {}
    BY <1>5, <1>6, <2>1, <2>2, <2>5, <2>6
  <2>7. CASE q.list # {}
    <3>1. ask \in PermReq /\ ask.at = "find" /\ ask.id = r /\ ask.list = q.list /\ ask.want = q.want
      BY <1>1, <2>2 DEF PermReq
    <3>2. FromRows(q, s2) /\ ListedOnce(q.list) /\ q.want = {x.key : x \in q.list}
      BY <1>1, <2>1 DEF Asks
    <3>3. \A p \in s2 : p.role # 0
      BY <1>2, <1>3
    <3>4. FromRows(ask, s2)
      BY <3>1, <3>2, <3>3 DEF FromRows
    <3>5. Asks(ask, s1', s2', s4')
      BY <2>1, <3>1, <3>2, <3>4 DEF Asks
    <3>6. QED
      BY <1>5, <2>1, <2>2, <2>5, <2>7, <3>1, <3>5
  <2>8. QED
    BY <2>6, <2>7
<1>13. CASE R!FindPermissions("c")
  <2>1. PICK S \in SUBSET R!Of(q.id) :
          R!KeysOf(S) = R!KeysOf(R!Of(q.id)) /\ s3' = [s3 EXCEPT !["c"].at = "prune", !["c"].have = S]
    BY <1>13 DEF R!FindPermissions
  <2> DEFINE ask == [q EXCEPT !.at = "prune", !.have = S]
  <2>2. s1' = s1 /\ s2' = s2 /\ s4' = s4 /\ q.at = "find" /\ s3' = [s3 EXCEPT !["c"] = ask]
    BY <1>1, <1>13, <2>1 DEF R!FindPermissions
  <2>3. S = {p \in s2 : p.role = q.id}
    <3>1. ASSUME NEW p \in s2, p.role = q.id PROVE p \in S
      <4>1. PICK s \in S : s.key = p.key
        BY <2>1, <3>1 DEF R!KeysOf, R!Of
      <4>2. QED
        BY <1>3, <3>1, <4>1 DEF R!Of
    <3>2. QED
      BY <3>1 DEF R!Of
  <2>4. /\ ask \in PermReq /\ ask.at = "prune" /\ ask.id = q.id /\ ask.list = q.list /\ ask.have = S
        /\ ask.want = q.want
    BY <1>1, <1>3, <2>3 DEF PermReq
  <2>5. Asks(ask, s1, s2, s4)
    BY <1>1, <2>2, <2>3, <2>4 DEF Asks, FromRows
  <2>6. QED
    BY <1>1, <1>5, <2>2, <2>4, <2>5
<1>14. CASE R!DeleteUnlisted("c")
  <2> DEFINE ask == [q EXCEPT !.at = "save"]
  <2>1. /\ s1' = s1 /\ s4' = s4 /\ q.at = "prune" /\ s3' = [s3 EXCEPT !["c"] = ask]
        /\ s2' = s2 \ {p \in s2 : \E h \in q.have : h.id = p.id /\ h.key \notin R!KeysOf(q.list)}
    BY <1>14 DEF R!DeleteUnlisted, R!To
  <2>2. /\ ask \in PermReq /\ ask.at = "save" /\ ask.id = q.id /\ ask.list = q.list /\ ask.have = q.have
        /\ ask.want = q.want
    BY <1>1 DEF PermReq
  <2>3. /\ q.want = {x.key : x \in q.list}
        /\ q.have = {p \in s2 : p.role = q.id} /\ ListedOnce(q.list) /\ FromRows(q, s2) /\ q.id \in s1
    BY <1>1, <2>1 DEF Asks
  <2>4. \A p \in s2 : p \in s2' <=> ~(p.role = q.id /\ \A x \in q.list : x.key # p.key)
    BY <1>3, <2>1, <2>3 DEF R!KeysOf
  <2>5. s2' \subseteq s2
    BY <2>1
  <2>6. ASSUME NEW x \in q.list PROVE Savable(ask, x, s2', s4)
    <3>1. \A h \in q.have : h.key = x.key => h \in s2'
      BY <2>3, <2>4
    <3>2. ASSUME \A h \in q.have : h.key # x.key, x.id # 0
          PROVE  x.id <= s4.perm /\ \A p \in s2' : p.id # x.id
      <4>1. PICK p \in s2 : p.id = x.id /\ p.role = q.id /\ \A y \in q.list : y # x => y.key # p.key
        BY <2>3, <3>2 DEF FromRows
      <4>2. p.key # x.key
        BY <2>3, <3>2, <4>1
      <4>3. p \notin s2'
        BY <2>4, <4>1, <4>2
      <4>4. x.id <= s4.perm
        BY <1>2, <1>3, <4>1
      <4>5. QED
        BY <1>3, <2>5, <4>1, <4>3, <4>4
    <3>3. (\A h \in q.have : h.key # x.key) => \A p \in s2' : ~(p.role = q.id /\ p.key = x.key)
      BY <2>3, <2>5
    <3>4. x.id = 0 => x.id <= s4.perm
      BY <1>2
    <3>5. QED
      BY <2>2, <3>1, <3>2, <3>3, <3>4 DEF Savable
  <2>7. ask.want = {x.key : x \in ask.list} \cup {p.key : p \in {o \in s2' : o.role = ask.id}}
    <3>1. \A p \in s2' : p.role = q.id => p.key \in {x.key : x \in q.list}
      BY <2>4, <2>5
    <3>2. QED
      BY <2>2, <2>3, <3>1
  <2>8. Asks(ask, s1, s2', s4)
    BY <2>2, <2>3, <2>6, <2>7 DEF Asks
  <2>9. PermsFit(s1, s2', s4)
    BY <1>3, <2>5 DEF PermsFit
  <2>10. QED
    BY <1>1, <1>5, <2>1, <2>2, <2>8, <2>9
<1>15. CASE R!SavePermission("c")
  <2>1. CASE q.list = {}
    BY <1>1, <1>7, <1>15, <2>1 DEF R!SavePermission, R!To
  <2>2. CASE q.list # {}
    <3>1. PICK p \in q.list :
            /\ s2' = Replaced(s2, PlaceOf(q, p, s4), q.id, p.key)
            /\ s4' = Counted(q, p, s4)
            /\ s3' = [s3 EXCEPT !["c"].list = @ \ {p}]
      BY <1>15, <2>2 DEF R!SavePermission, Replaced, PlaceOf, Counted
    <3> DEFINE ask == [q EXCEPT !.list = @ \ {p}]
    <3>2. s1' = s1 /\ q.at = "save"
      BY <1>15 DEF R!SavePermission
    <3>3. s3' = [s3 EXCEPT !["c"] = ask]
      BY <1>1, <3>1
    <3>4. s4' \in PermCounts /\ ask \in PermReq /\ PermsFit(s1, s2', s4') /\ Asks(ask, s1, s2', s4')
      BY <1>1, <3>1, <3>2, PermissionIsSaved
    <3>5. QED
      BY <1>5, <3>2, <3>3, <3>4
  <2>3. QED
    BY <2>1, <2>2
<1>16. CASE R!DeleteRoleRow("c")
  <2>1. /\ s1' = s1 \ {q.id} /\ s2' = s2 \ {p \in s2 : p.role = q.id} /\ s4' = s4
        /\ s3' = [s3 EXCEPT !["c"] = R!NoReq]
    BY <1>16 DEF R!DeleteRoleRow, R!To, R!Of
  <2>2. PermsFit(s1', s2', s4')
    BY <1>3, <2>1 DEF PermsFit
  <2>3. QED
    BY <1>1, <1>5, <1>6, <2>1, <2>2
<1>17. CASE R!Fail("c")
  <2>1. s3' = [s3 EXCEPT !["c"] = R!NoReq] /\ s1' = s1 /\ s2' = s2 /\ s4' = [s4 EXCEPT !.fault = @ + 1]
    BY <1>17 DEF R!Fail, R!To
  <2>2. s4' \in PermCounts /\ s4'.role = s4.role /\ s4'.perm = s4.perm
    BY <1>1, <2>1 DEF PermCounts
  <2>3. QED
    BY <1>7, <2>1, <2>2
<1>18. QED
  BY <1>9, <1>10, <1>11, <1>12, <1>13, <1>14, <1>15, <1>16, <1>17 DEF R!Next

-----------------------------------------------------------------------------
(* Workspaces, projects and clusters, one request after another.           *)
TenantKinds == {"workspace", "project", "cluster"}
RelRow == [id : Nat, cluster : Nat]
TenantRec == [kind : TenantKinds, name : TenantNames, of : Nat, rels : SUBSET RelRow]
TenantReq ==
    [op : {"none", "save", "delete"}, at : {"done", "name", "found", "row"}, id : Nat,
     kind : TenantKinds \cup {""}, name : TenantNames \cup {""}, of : Nat, list : Seq(Nat)]
TenantView == [id : Nat, kind : TenantKinds \cup {""}, name : TenantNames \cup {""}]
TenantCounts == [id : Nat, rel : Nat, req : Nat]

(* A record: its ids have been given out, it has one row for a cluster,    *)
(* and only a workspace has rows.                                          *)
RecFits(r, n) ==
    /\ r \in TenantRec /\ r.of <= n.id
    /\ \A x \in r.rels : x.id \in 1..n.rel
    /\ \A x, y \in r.rels : x.id = y.id \/ x.cluster = y.cluster => x = y
    /\ r.kind # "workspace" => r.rels = {}

(* A request that stores again is about what the client has seen, and what *)
(* it has seen has kept its kind; the name of one that stores anew is free *)
(* when it is looked up.                                                   *)
Seen(q, v, U, n) ==
    /\ q.id <= n.id /\ q.of <= n.id /\ v.id <= n.id
    /\ v.id \in DOMAIN U => U[v.id].kind = v.kind
    /\ v.kind \in TenantKinds => v.id # 0
    /\ q.at # "done" /\ q.id # 0 => q.id = v.id /\ q.kind = v.kind
    /\ q.at # "done" /\ q.op = "save" =>
         /\ q.kind \in TenantKinds /\ q.name \in TenantNames
         /\ q.kind # "workspace" => q.list = <<>>
         /\ OneToOne(q.list)
    /\ q.at = "row" /\ q.op = "save" /\ q.id = 0 =>
         \A i \in DOMAIN U : U[i].kind = q.kind => U[i].name # q.name
    /\ q.at = "found" => q.id # 0

TenantsInv ==
    /\ s4 \in TenantCounts
    /\ s2 \in [{"c"} -> TenantReq] /\ s3 \in [{"c"} -> TenantView]
    /\ DOMAIN s1 \subseteq 1..s4.id
    /\ \A i \in DOMAIN s1 : RecFits(s1[i], s4)
    /\ Seen(s2["c"], s3["c"], s1, s4)

NewRels(n, list, A) == {[id |-> n.rel + i, cluster |-> list[i]] : i \in A}
Record(k, name, of, old, gone, new) == [kind |-> k, name |-> name, of |-> of, rels |-> (old \ gone) \cup new]

(* A record is stored with the rows it keeps and those that are added.     *)
LEMMA RecIsStored ==
    ASSUME NEW n \in TenantCounts, NEW old \in SUBSET RelRow, NEW gone, NEW k \in TenantKinds, NEW name \in TenantNames,
           NEW of \in Nat, NEW list \in Seq(Nat), NEW A \in SUBSET DOMAIN list, OneToOne(list),
           \A i \in A, x \in old : x.cluster # list[i],
           NEW m \in TenantCounts, m.rel = n.rel + Len(list), of <= m.id,
           \A x \in old : x.id \in 1..n.rel, \A x, y \in old : x.id = y.id \/ x.cluster = y.cluster => x = y,
           k # "workspace" => old = {} /\ list = <<>>,
           NEW r, r = Record(k, name, of, old, gone, NewRels(n, list, A))
    PROVE  RecFits(r, m)
<1> DEFINE new == NewRels(n, list, A)
<1>1. n.rel \in Nat /\ Len(list) \in Nat /\ DOMAIN list = 1..Len(list) /\ m.rel \in Nat
  BY DEF TenantCounts
<1>2. \A i \in A : list[i] \in Nat /\ n.rel + i \in (n.rel + 1)..m.rel /\ n.rel + i \in Nat
  BY <1>1
<1>3. new \in SUBSET RelRow /\ \A x \in new : x.id \in (n.rel + 1)..m.rel
  BY <1>2 DEF RelRow, NewRels
<1>4. \A x, y \in new : x.id = y.id \/ x.cluster = y.cluster => x = y
  BY <1>1 DEF NewRels, OneToOne
<1>5. \A x \in old, y \in new : x.id # y.id /\ x.cluster # y.cluster
  <2>1. \A x \in old, y \in new : x.id # y.id
    BY <1>1, <1>3
  <2>2. \A x \in old, y \in new : x.cluster # y.cluster
    BY DEF NewRels
  <2>3. QED
    BY <2>1, <2>2
<1>6. r \in TenantRec /\ r.of = of /\ r.kind = k /\ r.rels = (old \ gone) \cup new
  BY <1>3 DEF TenantRec, Record
<1>7. \A x \in r.rels : x.id \in 1..m.rel
  BY <1>1, <1>3, <1>6
<1>8. \A x, y \in r.rels : x.id = y.id \/ x.cluster = y.cluster => x = y
  BY <1>4, <1>6, <1>5
<1>9. k # "workspace" => r.rels = {}
  <2>1. list = <<>> => A = {}
    BY <1>1
  <2>2. QED
    BY <1>6, <2>1 DEF NewRels
<1>10. QED
  BY <1>6, <1>7, <1>8, <1>9 DEF RecFits

(* Every step of requests about tenants keeps that.                        *)
LEMMA TenantsStep ==
    ASSUME TenantsInv, Ordered!Next
    PROVE  TenantsInv'
<1> DEFINE q == s2["c"]
           v == s3["c"]
<1>1. /\ s4 \in TenantCounts /\ s2 \in [{"c"} -> TenantReq] /\ s3 \in [{"c"} -> TenantView]
      /\ q \in TenantReq /\ v \in TenantView /\ Seen(q, v, s1, s4)
  BY DEF TenantsInv
<1>2. s4.id \in Nat /\ s4.rel \in Nat /\ q.id \in Nat /\ v.id \in Nat /\ q.of \in Nat /\ q.list \in Seq(Nat)
  BY <1>1 DEF TenantCounts, TenantReq, TenantView
<1>3. DOMAIN s1 \subseteq 1..s4.id /\ \A i \in DOMAIN s1 : RecFits(s1[i], s4)
  BY DEF TenantsInv
<1>4. \A i \in DOMAIN s1 : i \in Nat /\ i # 0 /\ i <= s4.id
  BY <1>2, <1>3
<1>5. ASSUME NEW r \in TenantReq, s2' = [s2 EXCEPT !["c"] = r], s3' = s3, s1' = s1,
             s4' \in TenantCounts, s4'.id = s4.id, s4'.rel = s4.rel, Seen(r, v, s1, s4)
      PROVE  TenantsInv'
  <2>1. s2' \in [{"c"} -> TenantReq] /\ s2'["c"] = r
    BY <1>1, <1>5
  <2>2. \A i \in DOMAIN s1 : RecFits(s1[i], s4')
    BY <1>3, <1>5 DEF RecFits
  <2>3. Seen(r, v, s1, s4')
    BY <1>5 DEF Seen
  <2>4. QED
    BY <1>1, <1>3, <1>5, <2>1, <2>2, <2>3 DEF TenantsInv
<1>6. Ordered!NoReq \in TenantReq /\ Ordered!NoReq.at = "done" /\ Ordered!NoReq.id = 0 /\ Ordered!NoReq.of = 0
  BY DEF Ordered!NoReq, TenantReq
<1>7. ASSUME NEW U, NEW n, n.id \in Nat, v.id <= n.id, v.id \in DOMAIN U => U[v.id].kind = v.kind
      PROVE  Seen(Ordered!NoReq, v, U, n)
  BY <1>1, <1>6, <1>7 DEF Seen
<1>8. ASSUME NEW r \in TenantReq, r.id <= s4.id, r.of <= s4.id, r.id # 0 => r.id = v.id /\ r.kind = v.kind,
             r.op = "save" => /\ r.kind \in TenantKinds /\ r.name \in TenantNames
                              /\ r.kind # "workspace" => r.list = <<>>
                              /\ OneToOne(r.list),
             r.at \in {"row", "found"} => r.id # 0,
             Ordered!Begin("c", r)
      PROVE  TenantsInv'
  <2>1. s2' = [s2 EXCEPT !["c"] = r] /\ s1' = s1 /\ s3' = s3 /\ s4' = [s4 EXCEPT !.req = @ + 1]
    BY <1>8 DEF Ordered!Begin
  <2>2. s4' \in TenantCounts /\ s4'.id = s4.id /\ s4'.rel = s4.rel
    BY <1>1, <2>1 DEF TenantCounts
  <2>3. Seen(r, v, s1, s4)
    BY <1>1, <1>8 DEF Seen
  <2>4. QED
    BY <1>5, <1>8, <2>1, <2>2, <2>3
<1>9. ASSUME NEW a \in {"row", "done"}, q.at # "done", Ordered!To("c", a), s1' = s1, s3' = s3, s4' = s4,
             a = "row" /\ q.id = 0 => \A i \in DOMAIN s1 : s1[i].kind = q.kind => s1[i].name # q.name
      PROVE  TenantsInv'
  <2>1. CASE a = "done"
    <3>1. s2' = [s2 EXCEPT !["c"] = Ordered!NoReq]
      BY <1>9, <2>1 DEF Ordered!To
    <3>2. Seen(Ordered!NoReq, v, s1, s4)
      BY <1>1, <1>2, <1>7 DEF Seen
    <3>3. QED
      BY <1>1, <1>5, <1>6, <1>9, <3>1, <3>2
  <2>2. CASE a = "row"
    <3> DEFINE r == [q EXCEPT !.at = "row"]
    <3>1. s2' = [s2 EXCEPT !["c"] = r]
      BY <1>9, <2>2 DEF Ordered!To
    <3>2. /\ r \in TenantReq /\ r.op = q.op /\ r.id = q.id /\ r.of = q.of /\ r.kind = q.kind /\ r.name = q.name
          /\ r.list = q.list
      BY <1>1 DEF TenantReq
    <3>3. Seen(r, v, s1, s4)
      BY <1>1, <1>9, <2>2, <3>2 DEF Seen
    <3>4. QED
      BY <1>1, <1>5, <1>9, <3>1, <3>2, <3>3
  <2>3. QED
    BY <2>1, <2>2
<1>10. ASSUME NEW k \in TenantKinds
       PROVE  /\ \A list \in Ordered!Lists(k) :
                   list \in Seq(Nat) /\ OneToOne(list) /\ (k # "workspace" => list = <<>>)
              /\ \A w \in Ordered!Owners(k) : w \in Nat /\ w <= s4.id
  <2>1. \A S : Ordered!OfKind(S) \subseteq DOMAIN s1
    BY DEF Ordered!OfKind
  <2>2. \A list \in Ordered!Lists(k) : list \in Seq(Nat)
    <3>1. ASSUME NEW n \in 0..2, NEW f \in [1..n -> Ordered!OfKind("cluster")] PROVE f \in Seq(Nat)
      <4>1. f \in [1..n -> Nat] /\ n \in Nat
        BY <1>4, <2>1
      <4>2. QED
        BY <4>1 DEF Seq
    <3>2. <<>> \in Seq(Nat)
      OBVIOUS
    <3>3. QED
      BY <3>1, <3>2 DEF Ordered!Lists
  <2>3. \A list \in Ordered!Lists(k) : k # "workspace" => list = <<>>
    BY DEF Ordered!Lists
  <2>4. \A w \in Ordered!Owners(k) : w \in Nat /\ w <= s4.id
    BY <1>2, <1>4, <2>1 DEF Ordered!Owners
  <2>5. \A list \in Ordered!Lists(k) : OneToOne(list)
    BY DEF Ordered!Lists, OneToOne
  <2>6. QED
    BY <2>2, <2>3, <2>4, <2>5
<1>11. CASE Ordered!Get("c")
  <2>1. PICK i \in DOMAIN s1 : s3' = [s3 EXCEPT !["c"] = [id |-> i, kind |-> s1[i].kind, name |-> s1[i].name]]
    BY <1>11 DEF Ordered!Get
  <2> DEFINE w == [id |-> i, kind |-> s1[i].kind, name |-> s1[i].name]
  <2>2. s1' = s1 /\ s2' = s2 /\ s4' = s4 /\ q.at = "done"
    BY <1>11 DEF Ordered!Get, Ordered!Active
  <2>3. s1[i].kind \in TenantKinds /\ s1[i].name \in TenantNames /\ i \in Nat /\ i <= s4.id
    BY <1>3, <1>4 DEF RecFits, TenantRec
  <2>4. w \in TenantView /\ w.id = i /\ w.kind = s1[i].kind
    BY <2>3 DEF TenantView
  <2>5. s3' \in [{"c"} -> TenantView] /\ s3'["c"] = w
    BY <1>1, <2>1, <2>4
  <2>6. Seen(q, w, s1, s4)
    BY <1>1, <1>4, <2>2, <2>3, <2>4 DEF Seen
  <2>7. QED
    BY <1>1, <1>3, <2>2, <2>5, <2>6 DEF TenantsInv
<1>12. CASE Ordered!SaveNew("c")
  <2>1. PICK k \in TenantKinds, n \in TenantNames :
          \E list \in Ordered!Lists(k), w \in Ordered!Owners(k) :
            Ordered!Begin("c", [Ordered!NoReq EXCEPT !.op = "save", !.at = "name", !.kind = k, !.name = n,
                                                     !.list = list, !.of = w])
    BY <1>12 DEF Ordered!SaveNew, TenantKinds
  <2>2. PICK list \in Ordered!Lists(k), w \in Ordered!Owners(k) :
            Ordered!Begin("c", [Ordered!NoReq EXCEPT !.op = "save", !.at = "name", !.kind = k, !.name = n,
                                                     !.list = list, !.of = w])
    BY <2>1
  <2> DEFINE r == [Ordered!NoReq EXCEPT !.op = "save", !.at = "name", !.kind = k, !.name = n, !.list = list, !.of = w]
  <2>3. list \in Seq(Nat) /\ w \in Nat /\ w <= s4.id /\ (k # "workspace" => list = <<>>) /\ OneToOne(list)
    BY <1>10
  <2>4. r \in TenantReq /\ r.id = 0 /\ r.of = w /\ r.kind = k /\ r.name = n /\ r.list = list /\ r.at = "name"
    BY <1>6, <2>3 DEF TenantReq
  <2>5. r.id <= s4.id
    BY <1>2, <2>4
  <2>6. QED
    BY <1>8, <2>2, <2>3, <2>4, <2>5
<1>13. CASE Ordered!SaveRead("c")
  <2>1. PICK k \in {"workspace", "project"} : \E n \in TenantNames, list \in Ordered!Lists(k), w \in Ordered!Owners(k) :
            /\ v.kind = k
            /\ Ordered!Begin("c", [Ordered!NoReq EXCEPT !.op = "save", !.at = "row", !.kind = k, !.name = n,
                                                        !.list = list, !.of = w, !.id = v.id])
    BY <1>13 DEF Ordered!SaveRead
  <2>2. PICK n \in TenantNames, list \in Ordered!Lists(k), w \in Ordered!Owners(k) :
            /\ v.kind = k
            /\ Ordered!Begin("c", [Ordered!NoReq EXCEPT !.op = "save", !.at = "row", !.kind = k, !.name = n,
                                                        !.list = list, !.of = w, !.id = v.id])
    BY <2>1
  <2> DEFINE r == [Ordered!NoReq EXCEPT !.op = "save", !.at = "row", !.kind = k, !.name = n, !.list = list, !.of = w,
                                        !.id = v.id]
  <2>3. k \in TenantKinds
    BY DEF TenantKinds
  <2>4. list \in Seq(Nat) /\ w \in Nat /\ w <= s4.id /\ (k # "workspace" => list = <<>>) /\ OneToOne(list)
    BY <1>10, <2>3
  <2>5. r \in TenantReq /\ r.id = v.id /\ r.of = w /\ r.kind = k /\ r.name = n /\ r.list = list
    BY <1>2, <1>6, <2>3, <2>4 DEF TenantReq
  <2>6. v.id <= s4.id /\ v.id # 0
    BY <1>1, <2>2, <2>3 DEF Seen
  <2>7. QED
    BY <1>8, <2>2, <2>3, <2>4, <2>5, <2>6
<1>14. CASE Ordered!SaveCluster("c")
  <2>1. PICK n \in TenantNames :
            /\ v.kind = "cluster"
            /\ Ordered!Begin("c", [Ordered!NoReq EXCEPT !.op = "save", !.at = "found", !.kind = "cluster", !.name = n,
                                                        !.id = v.id])
    BY <1>14 DEF Ordered!SaveCluster
  <2> DEFINE r == [Ordered!NoReq EXCEPT !.op = "save", !.at = "found", !.kind = "cluster", !.name = n, !.id = v.id]
  <2>2. "cluster" \in TenantKinds /\ Ordered!NoReq.list = <<>>
    BY DEF TenantKinds, Ordered!NoReq
  <2>3. r \in TenantReq /\ r.id = v.id /\ r.of = 0 /\ r.kind = "cluster" /\ r.name = n /\ r.list = <<>>
    BY <1>2, <1>6, <2>2 DEF TenantReq
  <2>4. v.id <= s4.id /\ 0 <= s4.id /\ v.id # 0 /\ OneToOne(<<>>)
    BY <1>1, <1>2, <2>1, <2>2 DEF Seen, OneToOne
  <2>5. QED
    BY <1>8, <2>1, <2>2, <2>3, <2>4
<1>15. CASE Ordered!Delete("c")
  <2>1. PICK k \in {"workspace", "project"} :
            /\ v.kind = k
            /\ Ordered!Begin("c", [Ordered!NoReq EXCEPT !.op = "delete",
                                                        !.at = IF k = "workspace" THEN "found" ELSE "row",
                                                        !.kind = k, !.id = v.id])
    BY <1>15 DEF Ordered!Delete
  <2> DEFINE r == [Ordered!NoReq EXCEPT !.op = "delete", !.at = IF k = "workspace" THEN "found" ELSE "row",
                                        !.kind = k, !.id = v.id]
  <2>2. k \in TenantKinds
    BY DEF TenantKinds
  <2>3. r \in TenantReq /\ r.id = v.id /\ r.of = 0 /\ r.kind = k /\ r.op = "delete"
    BY <1>2, <1>6, <2>2 DEF TenantReq
  <2>4. v.id <= s4.id /\ 0 <= s4.id /\ v.id # 0
    BY <1>1, <1>2, <2>1, <2>2 DEF Seen
  <2>5. QED
    BY <1>8, <2>1, <2>3, <2>4
<1>16. CASE Ordered!GetByName("c")
  <2>1. s1' = s1 /\ s3' = s3 /\ s4' = s4 /\ q.at # "done"
    BY <1>16 DEF Ordered!GetByName
  <2>2. CASE \E i \in DOMAIN s1 : s1[i].kind = q.kind /\ s1[i].name = q.name
    <3>1. Ordered!To("c", "done")
      BY <1>16, <2>2 DEF Ordered!GetByName, Ordered!OfKind
    <3>2. QED
      BY <1>9, <2>1, <3>1
  <2>3. CASE \A i \in DOMAIN s1 : s1[i].kind = q.kind => s1[i].name # q.name
    <3>1. Ordered!To("c", "row")
      BY <1>16, <2>3 DEF Ordered!GetByName, Ordered!OfKind
    <3>2. QED
      BY <1>9, <2>1, <2>3, <3>1
  <2>4. QED
    BY <2>2, <2>3
<1>17. CASE Ordered!Found("c")
  <2>1. s1' = s1 /\ s3' = s3 /\ s4' = s4 /\ q.at = "found" /\ q.id # 0
    BY <1>1, <1>17 DEF Ordered!Found, Seen
  <2>2. Ordered!To("c", "done") \/ Ordered!To("c", "row")
    BY <1>17 DEF Ordered!Found
  <2>3. QED
    BY <1>9, <2>1, <2>2
<1>18. CASE Ordered!SaveRow("c")
  <2> DEFINE id == IF q.id = 0 THEN s4.id + 1 ELSE q.id
             old == IF id \in DOMAIN s1 THEN s1[id].rels ELSE {}
             A == Ordered!Added(q, old)
             new == NewRels(s4, q.list, A)
  <2>1. PICK gone \in Ordered!Removed(q, old) :
          /\ s1' = [i \in DOMAIN s1 \cup {id} |->
                      IF i # id THEN s1[i]
                      ELSE Record(q.kind, q.name, q.of, old, gone, new)]
          /\ s4' = [s4 EXCEPT !.id = IF q.id = 0 THEN id ELSE @, !.rel = @ + Len(q.list)]
    BY <1>18 DEF Ordered!SaveRow, Record, NewRels
  <2> DEFINE rec == Record(q.kind, q.name, q.of, old, gone, new)
  <2>2. s3' = s3 /\ s2' = [s2 EXCEPT !["c"] = Ordered!NoReq] /\ q.at = "row" /\ q.op = "save"
    BY <1>18 DEF Ordered!SaveRow, Ordered!To
  <2>3. Len(q.list) \in Nat
    BY <1>2
  <2>4. /\ s4' \in TenantCounts /\ s4'.rel = s4.rel + Len(q.list)
        /\ s4'.id = IF q.id = 0 THEN s4.id + 1 ELSE s4.id
    <3> DEFINE a == IF q.id = 0 THEN s4.id + 1 ELSE s4.id
               b == s4.rel + Len(q.list)
    <3>1. s4 \in TenantCounts /\ a \in Nat /\ b \in Nat
      BY <1>1, <1>2, <2>3
    <3>2. s4' = [s4 EXCEPT !.id = a, !.rel = b]
      BY <2>1
    <3> HIDE DEF a, b
    <3>3. s4' \in TenantCounts /\ s4'.id = a /\ s4'.rel = b
      BY <3>1, <3>2 DEF TenantCounts
    <3>4. QED
      BY <3>3 DEF a, b
  <2>5. /\ q.id <= s4.id /\ q.of <= s4.id /\ v.id <= s4.id /\ (v.id \in DOMAIN s1 => s1[v.id].kind = v.kind)
        /\ (q.id # 0 => q.id = v.id /\ q.kind = v.kind)
        /\ q.kind \in TenantKinds /\ q.name \in TenantNames /\ (q.kind # "workspace" => q.list = <<>>)
        /\ OneToOne(q.list)
    BY <1>1, <2>2 DEF Seen
  <2>6. /\ id \in 1..s4'.id /\ s4.id <= s4'.id /\ s4.rel <= s4'.rel /\ q.of <= s4'.id /\ v.id <= s4'.id
        /\ s4'.id \in Nat /\ s4'.rel \in Nat
    BY <1>2, <2>3, <2>4, <2>5
  <2>7. id \in DOMAIN s1 => id = v.id /\ s1[id].kind = q.kind
    BY <1>2, <1>4, <2>5
  <2>8. /\ old \in SUBSET RelRow /\ \A x \in old : x.id \in 1..s4.rel
        /\ \A x, y \in old : x.id = y.id \/ x.cluster = y.cluster => x = y
        /\ q.kind # "workspace" => old = {}
    BY <1>3, <2>7 DEF RecFits, TenantRec
  <2>9. A \in SUBSET DOMAIN q.list /\ \A i \in A, x \in old : x.cluster # q.list[i]
    BY DEF Ordered!Added, Ordered!ToClusters
  <2>10. RecFits(rec, s4')
    <3> HIDE DEF id, old, A
    <3>1. QED
      BY <1>1, <1>2, <2>4, <2>5, <2>6, <2>8, <2>9, RecIsStored
  <2>11. ASSUME NEW i \in DOMAIN s1' PROVE i \in 1..s4'.id /\ RecFits(s1'[i], s4')
    <3>1. CASE i = id
      BY <2>1, <2>6, <2>10, <3>1
    <3>2. CASE i # id
      <4>1. i \in DOMAIN s1 /\ s1'[i] = s1[i]
        BY <2>1, <3>2
      <4>2. RecFits(s1[i], s4) /\ i \in 1..s4.id
        BY <1>3, <4>1
      <4>3. \A x \in 1..s4.rel : x \in 1..s4'.rel
        BY <1>2, <2>6
      <4>4. s1[i].of \in Nat
        BY <4>2 DEF RecFits, TenantRec
      <4>5. s1[i].of <= s4.id => s1[i].of <= s4'.id
        BY <1>2, <2>6, <4>4
      <4>6. RecFits(s1[i], s4')
        BY <4>2, <4>3, <4>5 DEF RecFits
      <4>7. QED
        BY <1>2, <2>6, <4>1, <4>2, <4>6
    <3>3. QED
      BY <3>1, <3>2
  <2>12. v.id \in DOMAIN s1' => s1'[v.id].kind = v.kind
    <3>1. CASE q.id # 0
      BY <2>1, <2>5, <3>1 DEF Record
    <3>2. CASE q.id = 0
      <4>1. v.id # id
        BY <1>2, <2>5, <3>2
      <4>2. QED
        BY <2>1, <2>5, <4>1
    <3>3. QED
      BY <3>1, <3>2
  <2>13. Seen(Ordered!NoReq, v, s1', s4')
    BY <1>7, <2>6, <2>12
  <2>14. s2' \in [{"c"} -> TenantReq] /\ s2'["c"] = Ordered!NoReq
    BY <1>1, <1>6, <2>2
  <2>15. QED
    BY <1>1, <2>2, <2>4, <2>11, <2>13, <2>14 DEF TenantsInv
<1>19. CASE Ordered!DeleteRow("c")
  <2>1. /\ s1' = [i \in DOMAIN s1 \ {q.id} |-> s1[i]] /\ s3' = s3 /\ s4' = s4
        /\ s2' = [s2 EXCEPT !["c"] = Ordered!NoReq]
    BY <1>19 DEF Ordered!DeleteRow, Ordered!To
  <2>2. DOMAIN s1' \subseteq DOMAIN s1 /\ \A i \in DOMAIN s1' : s1'[i] = s1[i]
    BY <2>1
  <2>3. v.id <= s4.id /\ (v.id \in DOMAIN s1' => s1'[v.id].kind = v.kind)
    BY <1>1, <2>2 DEF Seen
  <2>4. Seen(Ordered!NoReq, v, s1', s4)
    BY <1>2, <1>7, <2>3
  <2>5. s2' \in [{"c"} -> TenantReq] /\ s2'["c"] = Ordered!NoReq
    BY <1>1, <1>6, <2>1
  <2>6. DOMAIN s1' \subseteq 1..s4.id /\ \A i \in DOMAIN s1' : RecFits(s1'[i], s4)
    BY <1>3, <2>2
  <2>7. QED
    BY <1>1, <2>1, <2>4, <2>5, <2>6 DEF TenantsInv
<1>20. QED
  BY <1>11, <1>12, <1>13, <1>14, <1>15, <1>16, <1>17, <1>18, <1>19 DEF Ordered!Next

-----------------------------------------------------------------------------
(* Workspaces and clusters, several requests at once.                      *)
RacingInv ==
    /\ s4 \in TenantCounts
    /\ s2 \in [Pair -> TenantReq] /\ s3 \in [Pair -> TenantView]
    /\ DOMAIN s1 \subseteq 1..s4.id
    /\ \A i \in DOMAIN s1 : s1[i].kind \in TenantKinds \cup {""} /\ s1[i].name \in TenantNames \cup {""}
    /\ \A c \in Pair :
         /\ s2[c].id <= s4.id /\ s3[c].id <= s4.id
         /\ s2[c].op = "delete" => s2[c].list = <<>>

(* Requests about tenants at once: what the rows and requests are made     *)
(* of.                                                                     *)
LEMMA RacingStep ==
    ASSUME RacingInv, Racing!Next
    PROVE  RacingInv'
<1>1. /\ s4 \in TenantCounts /\ s2 \in [Pair -> TenantReq] /\ s3 \in [Pair -> TenantView]
      /\ \A c \in Pair :
           /\ s2[c].id <= s4.id /\ s3[c].id <= s4.id
           /\ s2[c].op = "delete" => s2[c].list = <<>>
  BY DEF RacingInv
<1>2. s4.id \in Nat /\ s4.rel \in Nat
  BY <1>1 DEF TenantCounts
<1>3. /\ DOMAIN s1 \subseteq 1..s4.id
      /\ \A i \in DOMAIN s1 : s1[i].kind \in TenantKinds \cup {""} /\ s1[i].name \in TenantNames \cup {""}
  BY DEF RacingInv
<1>4. 0 <= s4.id /\ \A i \in DOMAIN s1 : i \in Nat /\ i <= s4.id
  <2>1. DOMAIN s1 \subseteq 1..s4.id
    BY <1>3
  <2>2. \A i \in 1..s4.id : i \in Nat /\ i <= s4.id
    BY <1>2
  <2>3. QED
    BY <1>2, <2>1, <2>2
<1>5. ASSUME NEW c \in Pair, NEW r \in TenantReq, r.op = "delete" => r.list = <<>>, r.id <= s4.id,
             s2' = [s2 EXCEPT ![c] = r], s3' = s3, s1' = s1, s4' \in TenantCounts, s4'.id = s4.id
      PROVE  RacingInv'
  <2>1. s2' \in [Pair -> TenantReq] /\ \A d \in Pair : s2'[d] = IF d = c THEN r ELSE s2[d]
    BY <1>1, <1>5
  <2>2. QED
    BY <1>1, <1>3, <1>5, <2>1 DEF RacingInv
<1>6. Racing!NoReq \in TenantReq /\ Racing!NoReq.op = "none" /\ Racing!NoReq.list = <<>> /\ Racing!NoReq.id = 0
  BY DEF Racing!NoReq, TenantReq
<1>7. ASSUME NEW c \in Pair, NEW r \in TenantReq, r.op = "delete" => r.list = <<>>, r.id <= s4.id,
             Racing!Begin(c, r)
      PROVE  RacingInv'
  <2>1. s2' = [s2 EXCEPT ![c] = r] /\ s1' = s1 /\ s3' = s3 /\ s4' = [s4 EXCEPT !.req = @ + 1]
    BY <1>7 DEF Racing!Begin
  <2>2. s4' \in TenantCounts /\ s4'.id = s4.id
    BY <1>1, <2>1 DEF TenantCounts
  <2>3. QED
    BY <1>5, <1>7, <2>1, <2>2
<1>8. ASSUME NEW c \in Pair, NEW a \in {"row", "done"}, Racing!To(c, a), s1' = s1, s3' = s3, s4' = s4
      PROVE  RacingInv'
  <2>1. CASE a = "done"
    BY <1>1, <1>4, <1>5, <1>6, <1>8, <2>1 DEF Racing!To
  <2>2. CASE a = "row"
    <3> DEFINE r == [s2[c] EXCEPT !.at = "row"]
    <3>1. s2' = [s2 EXCEPT ![c] = r]
      BY <1>8, <2>2 DEF Racing!To
    <3>2. s2[c] \in TenantReq
      BY <1>1
    <3>3. r \in TenantReq /\ r.op = s2[c].op /\ r.list = s2[c].list /\ r.id = s2[c].id
      BY <3>2 DEF TenantReq
    <3>4. QED
      BY <1>1, <1>5, <1>8, <3>1, <3>3
  <2>3. QED
    BY <2>1, <2>2
<1>9. \A k : /\ \A list \in Racing!Lists(k) : list \in Seq(Nat)
             /\ \A w \in Racing!Owners(k) : w \in Nat
  <2>1. \A S : Racing!OfKind(S) \subseteq DOMAIN s1
    BY DEF Racing!OfKind
  <2>2. ASSUME NEW n \in 0..2, NEW f \in [1..n -> Racing!OfKind("cluster")] PROVE f \in Seq(Nat)
    <3>1. f \in [1..n -> Nat] /\ n \in Nat
      BY <1>4, <2>1
    <3>2. QED
      BY <3>1 DEF Seq
  <2>3. <<>> \in Seq(Nat)
    OBVIOUS
  <2>4. \A k : \A list \in Racing!Lists(k) : list \in Seq(Nat)
    BY <2>2, <2>3 DEF Racing!Lists
  <2>5. \A k : \A w \in Racing!Owners(k) : w \in Nat
    BY <1>4, <2>1 DEF Racing!Owners
  <2>6. QED
    BY <2>4, <2>5
<1>10. ASSUME NEW c \in Pair PROVE s2[c] \in TenantReq /\ s3[c] \in TenantView /\ s3[c].id \in Nat
  BY <1>1 DEF TenantView
<1>11. ASSUME NEW c \in Pair, Racing!Get(c) PROVE RacingInv'
  <2>1. PICK i \in DOMAIN s1 : s3' = [s3 EXCEPT ![c] = [id |-> i, kind |-> s1[i].kind, name |-> s1[i].name]]
    BY <1>11 DEF Racing!Get
  <2> DEFINE v == [id |-> i, kind |-> s1[i].kind, name |-> s1[i].name]
  <2>2. v \in TenantView /\ v.id <= s4.id
    BY <1>3, <1>4 DEF TenantView
  <2>3. s3' \in [Pair -> TenantView] /\ \A d \in Pair : s3'[d] = IF d = c THEN v ELSE s3[d]
    BY <1>1, <2>1, <2>2
  <2>4. s1' = s1 /\ s2' = s2 /\ s4' = s4
    BY <1>11 DEF Racing!Get
  <2> HIDE DEF v
  <2>5. \A d \in Pair : s3'[d].id <= s4.id
    BY <1>1, <2>2, <2>3
  <2>6. QED
    BY <1>1, <1>3, <2>3, <2>4, <2>5 DEF RacingInv
<1>12. ASSUME NEW c \in Pair, Racing!SaveNew(c) PROVE RacingInv'
  <2>1. PICK k \in TenantKinds, n \in TenantNames :
          \E list \in Racing!Lists(k), w \in Racing!Owners(k) :
            Racing!Begin(c, [Racing!NoReq EXCEPT !.op = "save", !.at = "name", !.kind = k, !.name = n,
                                                 !.list = list, !.of = w])
    BY <1>12 DEF Racing!SaveNew, TenantKinds
  <2>2. PICK list \in Racing!Lists(k), w \in Racing!Owners(k) :
            Racing!Begin(c, [Racing!NoReq EXCEPT !.op = "save", !.at = "name", !.kind = k, !.name = n,
                                                 !.list = list, !.of = w])
    BY <2>1
  <2> DEFINE r == [Racing!NoReq EXCEPT !.op = "save", !.at = "name", !.kind = k, !.name = n, !.list = list, !.of = w]
  <2>3. list \in Seq(Nat) /\ w \in Nat
    BY <1>9
  <2>4. r \in TenantReq /\ r.op = "save" /\ r.id = 0
    BY <1>6, <2>3 DEF TenantReq
  <2>5. QED
    BY <1>4, <1>7, <2>2, <2>4
<1>13. ASSUME NEW c \in Pair, Racing!SaveRead(c) PROVE RacingInv'
  <2>1. PICK k \in {"workspace", "project"} : \E n \in TenantNames, list \in Racing!Lists(k), w \in Racing!Owners(k) :
            Racing!Begin(c, [Racing!NoReq EXCEPT !.op = "save", !.at = "row", !.kind = k, !.name = n,
                                                 !.list = list, !.of = w, !.id = s3[c].id])
    BY <1>13 DEF Racing!SaveRead
  <2>2. PICK n \in TenantNames, list \in Racing!Lists(k), w \in Racing!Owners(k) :
            Racing!Begin(c, [Racing!NoReq EXCEPT !.op = "save", !.at = "row", !.kind = k, !.name = n,
                                                 !.list = list, !.of = w, !.id = s3[c].id])
    BY <2>1
  <2> DEFINE r == [Racing!NoReq EXCEPT !.op = "save", !.at = "row", !.kind = k, !.name = n, !.list = list, !.of = w,
                                       !.id = s3[c].id]
  <2>3. list \in Seq(Nat) /\ w \in Nat /\ k \in TenantKinds
    BY <1>9 DEF TenantKinds
  <2>4. r \in TenantReq /\ r.op = "save" /\ r.id = s3[c].id
    BY <1>6, <1>10, <2>3 DEF TenantReq
  <2>5. QED
    BY <1>1, <1>7, <2>2, <2>4
<1>14. ASSUME NEW c \in Pair, Racing!SaveCluster(c) PROVE RacingInv'
  <2>1. PICK n \in TenantNames :
            Racing!Begin(c, [Racing!NoReq EXCEPT !.op = "save", !.at = "found", !.kind = "cluster", !.name = n,
                                                 !.id = s3[c].id])
    BY <1>14 DEF Racing!SaveCluster
  <2> DEFINE r == [Racing!NoReq EXCEPT !.op = "save", !.at = "found", !.kind = "cluster", !.name = n, !.id = s3[c].id]
  <2>2. "cluster" \in TenantKinds
    BY DEF TenantKinds
  <2>3. r \in TenantReq /\ r.op = "save" /\ r.id = s3[c].id
    BY <1>6, <1>10, <2>2 DEF TenantReq
  <2>4. QED
    BY <1>1, <1>7, <2>1, <2>3
<1>15. ASSUME NEW c \in Pair, Racing!Delete(c) PROVE RacingInv'
  <2>1. PICK k \in {"workspace", "project"} :
            Racing!Begin(c, [Racing!NoReq EXCEPT !.op = "delete", !.at = IF k = "workspace" THEN "found" ELSE "row",
                                                 !.kind = k, !.id = s3[c].id])
    BY <1>15 DEF Racing!Delete
  <2> DEFINE r == [Racing!NoReq EXCEPT !.op = "delete", !.at = IF k = "workspace" THEN "found" ELSE "row",
                                       !.kind = k, !.id = s3[c].id]
  <2>2. k \in TenantKinds
    BY DEF TenantKinds
  <2>3. r \in TenantReq /\ r.list = <<>> /\ r.id = s3[c].id
    BY <1>6, <1>10, <2>2 DEF TenantReq
  <2>4. QED
    BY <1>1, <1>7, <2>1, <2>3
<1>16. ASSUME NEW c \in Pair, Racing!GetByName(c) \/ Racing!Found(c) PROVE RacingInv'
  <2>1. (Racing!To(c, "done") \/ Racing!To(c, "row")) /\ s1' = s1 /\ s3' = s3 /\ s4' = s4
    BY <1>16 DEF Racing!GetByName, Racing!Found
  <2>2. QED
    BY <1>8, <2>1
<1>17. ASSUME NEW c \in Pair, Racing!SaveRow(c) PROVE RacingInv'
  <2> DEFINE q == s2[c]
             id == IF q.id = 0 THEN s4.id + 1 ELSE q.id
             a == IF q.id = 0 THEN s4.id + 1 ELSE s4.id
             b == s4.rel + Len(q.list)
  <2>1. /\ q.id \in Nat /\ q.id <= s4.id /\ Len(q.list) \in Nat
        /\ q.kind \in TenantKinds \cup {""} /\ q.name \in TenantNames \cup {""}
    <3>1. q \in TenantReq /\ q.id <= s4.id
      BY <1>1
    <3>2. q.id \in Nat /\ q.list \in Seq(Nat) /\ q.kind \in TenantKinds \cup {""} /\ q.name \in TenantNames \cup {""}
      BY <3>1 DEF TenantReq
    <3>3. Len(q.list) \in Nat
      <4>1. q.list \in Seq(Nat)
        BY <3>2
      <4> HIDE DEF q
      <4>2. QED
        BY <4>1
    <3>4. QED
      BY <3>1, <3>2, <3>3
  <2>2. a \in Nat /\ b \in Nat /\ id \in 1..a /\ s4.id <= a
    <3>1. q.id \in Nat /\ q.id <= s4.id /\ Len(q.list) \in Nat
      BY <2>1
    <3>2. b \in Nat
      BY <1>2, <3>1
    <3>3. CASE q.id = 0
      BY <1>2, <3>2, <3>3
    <3>4. CASE q.id # 0
      BY <1>2, <3>1, <3>2, <3>4
    <3>5. QED
      BY <3>3, <3>4
  <2>3. s4' = [s4 EXCEPT !.id = a, !.rel = b]
    BY <1>17 DEF Racing!SaveRow
  <2>4. /\ DOMAIN s1' = DOMAIN s1 \cup {id}
        /\ \A i \in DOMAIN s1' : IF i = id THEN s1'[i].kind = q.kind /\ s1'[i].name = q.name ELSE s1'[i] = s1[i]
    BY <1>17 DEF Racing!SaveRow
  <2>5. s2' = [s2 EXCEPT ![c] = Racing!NoReq] /\ s3' = s3
    BY <1>17 DEF Racing!SaveRow, Racing!To
  <2> HIDE DEF id, a, b
  <2>6. s4' \in TenantCounts /\ s4'.id = a
    BY <1>1, <2>2, <2>3 DEF TenantCounts
  <2>7. DOMAIN s1' \subseteq 1..a
    <3>1. 1..s4.id \subseteq 1..a
      BY <1>2, <2>2
    <3>2. QED
      BY <1>3, <2>2, <2>4, <3>1
  <2>8. \A i \in DOMAIN s1' : s1'[i].kind \in TenantKinds \cup {""} /\ s1'[i].name \in TenantNames \cup {""}
    BY <1>3, <2>1, <2>4
  <2>9. s2' \in [Pair -> TenantReq] /\ \A d \in Pair : s2'[d] = IF d = c THEN Racing!NoReq ELSE s2[d]
    BY <1>1, <1>6, <2>5
  <2>10. ASSUME NEW d \in Pair
         PROVE  /\ s2'[d].id <= a /\ s3'[d].id <= a
                /\ s2'[d].op = "delete" => s2'[d].list = <<>>
    <3>1. s2[d].id \in Nat /\ s3[d].id \in Nat /\ s2[d].id <= a /\ s3[d].id <= a /\ 0 <= a
      <4>1. s2[d].id \in Nat /\ s3[d].id \in Nat
        BY <1>10 DEF TenantReq
      <4>2. QED
        BY <1>1, <1>2, <2>2, <4>1
    <3>2. CASE d = c
      BY <1>6, <2>5, <2>9, <3>1, <3>2
    <3>3. CASE d # c
      BY <1>1, <2>5, <2>9, <3>1, <3>3
    <3>4. QED
      BY <3>2, <3>3
  <2>11. QED
    BY <1>1, <2>5, <2>6, <2>7, <2>8, <2>9, <2>10 DEF RacingInv
<1>18. ASSUME NEW c \in Pair, Racing!DeleteRow(c) PROVE RacingInv'
  <2>1. /\ s1' = [i \in DOMAIN s1 \ {s2[c].id} |-> s1[i]] /\ s3' = s3 /\ s4' = s4
        /\ s2' = [s2 EXCEPT ![c] = Racing!NoReq]
    BY <1>18 DEF Racing!DeleteRow, Racing!To
  <2>2. DOMAIN s1' \subseteq DOMAIN s1 /\ \A i \in DOMAIN s1' : s1'[i] = s1[i]
    BY <2>1
  <2>3. s2' \in [Pair -> TenantReq] /\ \A d \in Pair : s2'[d] = IF d = c THEN Racing!NoReq ELSE s2[d]
    BY <1>1, <1>6, <2>1
  <2>4. \A d \in Pair : s2'[d].id <= s4.id /\ (s2'[d].op = "delete" => s2'[d].list = <<>>)
    BY <1>1, <1>4, <1>6, <2>3
  <2>5. QED
    BY <1>1, <1>3, <2>1, <2>2, <2>3, <2>4 DEF RacingInv
<1>19. QED
  BY <1>11, <1>12, <1>13, <1>14, <1>15, <1>16, <1>17, <1>18 DEF Racing!Next

-----------------------------------------------------------------------------
(* What a step of each part leaves behind.                                 *)

(* A save with roles leaves the user with those, and a switch leaves them. *)
LEMMA UsersAreExact ==
    ASSUME InTurnInv, InTurn!Next
    PROVE  InTurn!RolesAreListed
<1> DEFINE q == s3["c"]
<1>1. /\ s3 \in [{"c"} -> AccountReq(EmailsInTurn)] /\ s4 \in AccountCounts
      /\ Fits(q, s2, s4.user) /\ Proper(s1, s2, q)
  BY DEF InTurnInv, AccountsInv
<1>2. SUFFICES ASSUME q.at = "sync", s3'["c"].at = "done", s4'.fault = s4.fault
               PROVE  /\ q.op = "save" /\ q.list # {} =>
                            {r.role : r \in {x \in s2' : x.user = q.id}} = q.list
                      /\ q.op = "switch" => s2' = s2
  BY DEF InTurn!RolesAreListed
<1>3. InTurn!SyncRoles("c")
  <2>1. "c" \in InTurn!Active
    BY <1>2 DEF InTurn!Active
  <2>2. \A r : ~InTurn!Begin("c", r)
    BY <2>1 DEF InTurn!Begin
  <2>3. ~InTurn!SaveNew("c") /\ ~InTurn!SaveUser("c")
    BY <2>2 DEF InTurn!SaveNew, InTurn!SaveUser
  <2>4. ~InTurn!EnableUser("c") /\ ~InTurn!DisableUser("c") /\ ~InTurn!DeleteUser("c")
    BY <2>2 DEF InTurn!EnableUser, InTurn!DisableUser, InTurn!DeleteUser
  <2>5. ~InTurn!CheckEmail("c") /\ ~InTurn!GetUser("c") /\ ~InTurn!SaveRow("c") /\ ~InTurn!FindRoles("c")
    BY <1>2 DEF InTurn!CheckEmail, InTurn!GetUser, InTurn!SaveRow, InTurn!FindRoles
  <2>6. ~InTurn!DeleteRoles("c") /\ ~InTurn!DeleteRow("c") /\ ~InTurn!Deadlock("c", "c")
    BY <1>2 DEF InTurn!DeleteRoles, InTurn!DeleteRow, InTurn!Deadlock
  <2>7. ~InTurn!Fail("c")
    <3> SUFFICES ASSUME InTurn!Fail("c") PROVE FALSE
      OBVIOUS
    <3>1. s4' = [s4 EXCEPT !.fault = @ + 1]
      BY DEF InTurn!Fail
    <3>2. s4 \in AccountCounts
      BY <1>1
    <3>3. s4.fault \in Nat /\ s4'.fault = s4.fault + 1
      BY <3>1, <3>2 DEF AccountCounts
    <3>4. QED
      BY <1>2, <3>3
  <2>8. QED
    BY <2>3, <2>4, <2>5, <2>6, <2>7 DEF InTurn!Next, InTurn!Step
<1> DEFINE M == Lacked(q)
           G == InTurn!Unlisted(q)
<1>4. q.have = RowsOf(s2, q.id)
  BY <1>1, <1>2 DEF Fits
<1> DEFINE place == CHOOSE p \in [M -> 1..InTurn!Cardinality(M)] : InTurn!IsInjective(p)
<1>5. s2' = (s2 \ G) \cup {[id |-> s4.role + place[r], user |-> q.id, role |-> r] : r \in M}
  <2>1. InTurn!Missing(q) = M
    BY DEF Lacked, InTurn!Missing
  <2>2. QED
    BY <1>3, <2>1 DEF InTurn!SyncRoles
<1> HIDE DEF M, G, place
<1>6. \A r \in s2' : (r \in s2 /\ r \notin G) \/ (r.user = q.id /\ r.role \in M)
  BY <1>5
<1>7. \A r \in s2 : r \notin G => r \in s2'
  BY <1>5
<1>8. ASSUME NEW k \in M
      PROVE  \E r \in s2' : r.user = q.id /\ r.role = k
  <2> DEFINE r == [id |-> s4.role + place[k], user |-> q.id, role |-> k]
  <2>1. r \in s2' /\ r.user = q.id /\ r.role = k
    BY <1>5
  <2>2. QED
    BY <2>1
<1> USE DEF M, G
<1>9. ASSUME q.list # {}
      PROVE  {r.role : r \in {x \in s2' : x.user = q.id}} = q.list
  <2>1. \A r \in s2 : r.user = q.id => (r \in G <=> r.role \notin q.list)
    BY <1>4, <1>9 DEF InTurn!Unlisted, RowsOf
  <2>2. ASSUME NEW r \in s2', r.user = q.id PROVE r.role \in q.list
    BY <1>6, <2>1, <2>2 DEF Lacked
  <2>3. ASSUME NEW k \in q.list PROVE \E r \in s2' : r.user = q.id /\ r.role = k
    <3>1. CASE k \in M
      BY <1>8, <3>1
    <3>2. CASE k \notin M
      <4>1. PICK r \in q.have : r.role = k
        BY <2>3, <3>2 DEF Lacked
      <4>2. QED
        BY <1>4, <1>7, <2>1, <4>1, <2>3 DEF RowsOf
    <3>3. QED
      BY <3>1, <3>2
  <2>4. QED
    BY <2>2, <2>3
<1>10. ASSUME q.op = "switch"
      PROVE  s2' = s2
  <2>1. q.list = {r.role : r \in q.have}
    BY <1>1, <1>2, <1>4, <1>10 DEF Proper
  <2>2. M = {} /\ G = {}
    BY <2>1 DEF Lacked, InTurn!Unlisted
  <2>3. QED
    BY <1>6, <1>7, <2>2
<1>11. QED
  BY <1>9, <1>10

(* A save of a role leaves it with the permissions it came with.           *)
LEMMA RolesAreExact ==
    ASSUME RolesInv, R!Next
    PROVE  R!PermissionsAreExact
<1> DEFINE q == s3["c"]
<1>1. s3 \in [{"c"} -> PermReq] /\ s4 \in PermCounts /\ q \in PermReq /\ Asks(q, s1, s2, s4)
  BY DEF RolesInv
<1>2. SUFFICES ASSUME q.at = "save", s3'["c"].at = "done", s4'.fault = s4.fault
               PROVE  R!KeysOf(R!Of(q.id)) = q.want
  BY DEF R!PermissionsAreExact
<1>3. R!SavePermission("c")
  <2>1. "c" \in R!Active
    BY <1>2 DEF R!Active
  <2>2. \A r : ~R!Begin("c", r)
    BY <2>1 DEF R!Begin
  <2>3. ~R!SaveRole("c") /\ ~R!DeleteRole("c")
    BY <2>2 DEF R!SaveRole, R!DeleteRole
  <2>4. ~R!GetRole("c") /\ ~R!SaveRoleRow("c") /\ ~R!FindPermissions("c") /\ ~R!DeleteUnlisted("c")
        /\ ~R!DeleteRoleRow("c")
    BY <1>2 DEF R!GetRole, R!SaveRoleRow, R!FindPermissions, R!DeleteUnlisted, R!DeleteRoleRow
  <2>5. ~R!Fail("c")
    <3> SUFFICES ASSUME R!Fail("c") PROVE FALSE
      OBVIOUS
    <3>1. s4' = [s4 EXCEPT !.fault = @ + 1]
      BY DEF R!Fail
    <3>2. s4 \in PermCounts
      BY <1>1
    <3>3. s4.fault \in Nat /\ s4'.fault = s4.fault + 1
      BY <3>1, <3>2 DEF PermCounts
    <3>4. QED
      BY <1>2, <3>3
  <2>6. QED
    BY <2>3, <2>4, <2>5 DEF R!Next
<1>4. q.list = {}
  <2>1. ASSUME q.list # {}
        PROVE  s3'["c"].at = "save"
    <3>1. PICK p \in q.list : s3' = [s3 EXCEPT !["c"].list = @ \ {p}]
      BY <1>3, <2>1 DEF R!SavePermission
    <3>2. s3'["c"] = [q EXCEPT !.list = @ \ {p}]
      BY <1>1, <3>1
    <3>3. QED
      BY <1>1, <1>2, <3>2 DEF PermReq
  <2>2. QED
    BY <1>2, <2>1
<1>5. q.want = {x.key : x \in q.list} \cup {p.key : p \in {o \in s2 : o.role = q.id}}
  BY <1>1, <1>2 DEF Asks
<1>6. QED
  BY <1>4, <1>5 DEF R!KeysOf, R!Of

Listed(list) == {list[i] : i \in DOMAIN list}
NotIn(old, list) == {i \in DOMAIN list : list[i] \notin Ordered!ToClusters(old)}

\* The rows X come from the rows old by a save that lists the clusters in list.
RowsReplaced(old, list, n, gone, A, X) ==
    /\ list \in Seq(Nat) /\ OneToOne(list)
    /\ \A x, y \in old : x.cluster = y.cluster => x = y
    /\ A = NotIn(old, list)
    /\ gone \subseteq old
    /\ \A x \in gone : \A i \in DOMAIN list : list[i] # x.cluster
    /\ \A x \in old : (\A i \in DOMAIN list : list[i] # x.cluster) => \E y \in gone : y.cluster = x.cluster
    /\ X = (old \ gone) \cup NewRels(n, list, A)

(* The rows that a save leaves: one for each cluster that is listed.       *)
LEMMA RowsAreListed ==
    ASSUME NEW old, NEW list, NEW n, NEW gone, NEW A, NEW X, RowsReplaced(old, list, n, gone, A, X)
    PROVE  Ordered!ToClusters(X) = Listed(list) /\ Cardinality(X) = Len(list)
<1> USE DEF RowsReplaced
<1>1. A = {i \in DOMAIN list : \A x \in old : x.cluster # list[i]}
  BY DEF NotIn, Ordered!ToClusters
<1>2. DOMAIN list = 1..Len(list) /\ Len(list) \in Nat
  OBVIOUS
<1>3. \A x \in X : \E i \in DOMAIN list : x.cluster = list[i]
  BY <1>1 DEF NewRels
<1>4. ASSUME NEW i \in DOMAIN list PROVE \E x \in X : x.cluster = list[i]
  <2>1. CASE i \in A
    <3> DEFINE x == [id |-> n.rel + i, cluster |-> list[i]]
    <3>1. x \in X /\ x.cluster = list[i]
      BY <2>1 DEF NewRels
    <3>2. QED
      BY <3>1
  <2>2. CASE i \notin A
    BY <1>1, <2>2
  <2>3. QED
    BY <2>1, <2>2
<1>5. ASSUME NEW x \in X, NEW y \in X, x.cluster = y.cluster PROVE x = y
  <2>1. ASSUME NEW z \in NewRels(n, list, A)
        PROVE  \E i \in A : z = [id |-> n.rel + i, cluster |-> list[i]] /\ z.cluster = list[i]
    BY DEF NewRels
  <2>2. \A z \in old, w \in NewRels(n, list, A) : z.cluster # w.cluster
    BY <1>1, <2>1
  <2>3. CASE x \in old /\ y \in old
    BY <1>5, <2>3
  <2>4. CASE x \in NewRels(n, list, A) /\ y \in NewRels(n, list, A)
    <3>1. PICK i \in A : x = [id |-> n.rel + i, cluster |-> list[i]] /\ x.cluster = list[i]
      BY <2>1, <2>4
    <3>2. PICK j \in A : y = [id |-> n.rel + j, cluster |-> list[j]] /\ y.cluster = list[j]
      BY <2>1, <2>4
    <3>3. i = j
      BY <1>1, <1>5, <3>1, <3>2 DEF OneToOne
    <3>4. QED
      BY <3>1, <3>2, <3>3
  <2>5. QED
    BY <1>5, <2>2, <2>3, <2>4
<1> DEFINE F == [i \in 1..Len(list) |-> CHOOSE x \in X : x.cluster = list[i]]
<1>6. \A i \in 1..Len(list) : F[i] \in X /\ F[i].cluster = list[i]
  BY <1>2, <1>4
<1>7. F \in Bijection(1..Len(list), X)
  <2>1. F \in [1..Len(list) -> X]
    BY <1>6
  <2>2. ASSUME NEW a \in 1..Len(list), NEW b \in 1..Len(list), F[a] = F[b] PROVE a = b
    <3>1. F[a].cluster = list[a] /\ F[b].cluster = list[b]
      BY <1>6
    <3> HIDE DEF F
    <3>2. list[a] = list[b]
      BY <2>2, <3>1
    <3>3. QED
      BY <1>2, <3>2 DEF OneToOne
  <2>3. \A x \in X : \E i \in 1..Len(list) : F[i] = x
    BY <1>2, <1>3, <1>5, <1>6
  <2> HIDE DEF F
  <2>4. QED
    BY <2>1, <2>2, <2>3, Fun_IsBij
<1>8. Cardinality(X) = Len(list)
  BY <1>2, <1>7, FS_CountingElements DEF ExistsBijection
<1>9. Ordered!ToClusters(X) = Listed(list)
  <2>1. ASSUME NEW v \in Ordered!ToClusters(X) PROVE v \in Listed(list)
    <3>1. PICK x \in X : v = x.cluster
      BY DEF Ordered!ToClusters
    <3>2. QED
      BY <1>3, <3>1 DEF Listed
  <2>2. ASSUME NEW v \in Listed(list) PROVE v \in Ordered!ToClusters(X)
    <3>1. PICK i \in DOMAIN list : v = list[i]
      BY DEF Listed
    <3>2. PICK x \in X : x.cluster = list[i]
      BY <1>4
    <3>3. QED
      BY <3>1, <3>2 DEF Ordered!ToClusters
  <2>3. QED
    BY <2>1, <2>2
<1>10. QED
  BY <1>8, <1>9

(* A new name is free, a workspace gets the clusters it lists, and other   *)
(* records stay.                                                           *)
LEMMA TenantsAreExact ==
    ASSUME TenantsInv, Ordered!Next
    PROVE  Ordered!NewNamesAreFree /\ Ordered!ClustersAreListed /\ Ordered!OthersStay
<1> DEFINE q == s2["c"]
<1>1. /\ s4 \in TenantCounts /\ s2 \in [{"c"} -> TenantReq]
      /\ q \in TenantReq /\ Seen(q, s3["c"], s1, s4)
      /\ DOMAIN s1 \subseteq 1..s4.id /\ \A i \in DOMAIN s1 : RecFits(s1[i], s4)
  BY DEF TenantsInv
<1>2. Ordered!NewNamesAreFree
  <2>1. ASSUME Ordered!Saves("c"), q.id = 0
        PROVE  \A i \in Ordered!OfKind(q.kind) : s1[i].name # q.name
    BY <1>1, <2>1 DEF Seen, Ordered!Saves, Ordered!OfKind
  <2>2. QED
    BY <2>1 DEF Ordered!NewNamesAreFree
<1>3. ASSUME q.at # "done" PROVE "c" \in Ordered!Active
  BY <1>3 DEF Ordered!Active
<1>4. ASSUME q.at # "done"
      PROVE  /\ ~Ordered!Get("c") /\ ~Ordered!SaveNew("c") /\ ~Ordered!SaveRead("c")
             /\ ~Ordered!SaveCluster("c") /\ ~Ordered!Delete("c")
  <2>1. \A r : ~Ordered!Begin("c", r)
    BY <1>3, <1>4 DEF Ordered!Begin
  <2>2. QED
    BY <1>3, <1>4, <2>1 DEF Ordered!Get, Ordered!SaveNew, Ordered!SaveRead, Ordered!SaveCluster, Ordered!Delete
<1>5. Ordered!ClustersAreListed
  <2>1. SUFFICES ASSUME Ordered!Saves("c"), q.kind = "workspace"
                 PROVE  /\ Ordered!ToClusters(s1'[Ordered!Saved("c")].rels) = {q.list[i] : i \in DOMAIN q.list}
                        /\ Ordered!Cardinality(s1'[Ordered!Saved("c")].rels) = Len(q.list)
    BY DEF Ordered!ClustersAreListed
  <2>2. q.at = "row" /\ q.op = "save"
    BY <2>1 DEF Ordered!Saves
  <2>3. Ordered!SaveRow("c")
    BY <1>4, <2>2 DEF Ordered!Next, Ordered!GetByName, Ordered!Found, Ordered!DeleteRow
  <2> DEFINE id == IF q.id = 0 THEN s4.id + 1 ELSE q.id
             old == IF id \in DOMAIN s1 THEN s1[id].rels ELSE {}
             A == Ordered!Added(q, old)
  <2>4. PICK gone \in Ordered!Removed(q, old) :
          /\ s1' = [i \in DOMAIN s1 \cup {id} |->
                      IF i # id THEN s1[i]
                      ELSE Record(q.kind, q.name, q.of, old, gone, NewRels(s4, q.list, A))]
          /\ s4' = [s4 EXCEPT !.id = IF q.id = 0 THEN id ELSE @, !.rel = @ + Len(q.list)]
    BY <2>3 DEF Ordered!SaveRow, Record, NewRels
  <2> DEFINE X == (old \ gone) \cup NewRels(s4, q.list, A)
  <2>5. Ordered!Saved("c") = id
    <3>1. s4'.id = IF q.id = 0 THEN id ELSE s4.id
      BY <1>1, <2>4 DEF TenantCounts
    <3>2. QED
      BY <3>1 DEF Ordered!Saved
  <2>6. s1'[id].rels = X
    BY <2>4 DEF Record
  <2>7. q.list \in Seq(Nat) /\ OneToOne(q.list)
    BY <1>1, <2>2 DEF TenantReq, Seen
  <2>8. \A x, y \in old : x.cluster = y.cluster => x = y
    BY <1>1 DEF RecFits
  <2> HIDE DEF id, old
  <2>9. /\ A = NotIn(old, q.list)
        /\ gone \in SUBSET old
        /\ \A x \in gone : \A i \in DOMAIN q.list : q.list[i] # x.cluster
    BY DEF Ordered!Added, Ordered!Removed, NotIn
  <2>10. ASSUME NEW x \in old, \A i \in DOMAIN q.list : q.list[i] # x.cluster
         PROVE  \E y \in gone : y.cluster = x.cluster
    BY <2>10 DEF Ordered!Removed, Ordered!ToClusters
  <2> HIDE DEF A, q
  <2>11. RowsReplaced(old, q.list, s4, gone, A, X)
    BY <2>7, <2>8, <2>9, <2>10 DEF RowsReplaced
  <2>12. Ordered!ToClusters(X) = Listed(q.list) /\ Cardinality(X) = Len(q.list)
    BY <2>11, RowsAreListed
  <2>13. Ordered!Cardinality(X) = Cardinality(X)
    BY Counting
  <2>14. QED
    BY <2>5, <2>6, <2>12, <2>13 DEF Listed
<1>6. Ordered!OthersStay
  <2>1. ASSUME NEW i \in DOMAIN s1, i \in DOMAIN s1' => s1'[i] # s1[i]
        PROVE  q.id = i /\ q.at = "row"
    <3>1. ~Ordered!Get("c") /\ \A r : ~Ordered!Begin("c", r)
      BY <2>1 DEF Ordered!Get, Ordered!Begin
    <3>2. /\ ~Ordered!SaveNew("c") /\ ~Ordered!SaveRead("c") /\ ~Ordered!SaveCluster("c") /\ ~Ordered!Delete("c")
          /\ ~Ordered!GetByName("c") /\ ~Ordered!Found("c")
      BY <2>1, <3>1 DEF Ordered!SaveNew, Ordered!SaveRead, Ordered!SaveCluster, Ordered!Delete,
                        Ordered!GetByName, Ordered!Found
    <3>3. CASE Ordered!SaveRow("c")
      <4>1. s4.id + 1 \notin DOMAIN s1
        BY <1>1 DEF TenantCounts
      <4>2. i = IF q.id = 0 THEN s4.id + 1 ELSE q.id
        BY <2>1, <3>3 DEF Ordered!SaveRow
      <4>3. q.at = "row"
        BY <3>3 DEF Ordered!SaveRow
      <4>4. QED
        BY <4>1, <4>2, <4>3
    <3>4. CASE Ordered!DeleteRow("c")
      BY <2>1, <3>4 DEF Ordered!DeleteRow
    <3>5. QED
      BY <3>1, <3>2, <3>3, <3>4 DEF Ordered!Next
  <2>2. QED
    BY <2>1 DEF Ordered!OthersStay
<1>7. QED
  BY <1>2, <1>5, <1>6

(* Also where several are under way: a row goes only by a save that does   *)
(* not list its cluster or with its workspace, and other records stay.     *)
LEMMA RacingIsExact ==
    ASSUME RacingInv, Racing!Next
    PROVE  Racing!RowsStay /\ Racing!OthersStay
<1>1. /\ s4 \in TenantCounts /\ s2 \in [Pair -> TenantReq] /\ DOMAIN s1 \subseteq 1..s4.id
      /\ \A c \in Pair : s2[c].op = "delete" => s2[c].list = <<>>
  BY DEF RacingInv
<1>2. s4.id + 1 \notin DOMAIN s1
  BY <1>1 DEF TenantCounts
<1>3. PICK c \in Pair :
        \/ Racing!Get(c) \/ Racing!SaveNew(c) \/ Racing!SaveRead(c) \/ Racing!SaveCluster(c) \/ Racing!Delete(c)
        \/ Racing!GetByName(c) \/ Racing!Found(c) \/ Racing!SaveRow(c) \/ Racing!DeleteRow(c)
  BY DEF Racing!Next
<1> DEFINE q == s2[c]
<1>4. CASE s1' = s1
  BY <1>4 DEF Racing!RowsStay, Racing!OthersStay
<1>5. CASE Racing!SaveRow(c)
  <2> DEFINE id == IF q.id = 0 THEN s4.id + 1 ELSE q.id
             old == IF id \in DOMAIN s1 THEN s1[id].rels ELSE {}
             A == Racing!Added(q, old)
  <2>1. PICK gone \in Racing!Removed(q, old) :
          s1' = [i \in DOMAIN s1 \cup {id} |->
                   IF i # id THEN s1[i]
                   ELSE Record(q.kind, q.name, q.of, old, gone, NewRels(s4, q.list, A))]
    BY <1>5 DEF Racing!SaveRow, Record, NewRels
  <2>2. q.at = "row" /\ s2'[c].at = "done"
    BY <1>1, <1>5 DEF Racing!SaveRow, Racing!To, Racing!NoReq
  <2>3. \A i \in DOMAIN s1 : i \in DOMAIN s1' /\ (i # id => s1'[i] = s1[i])
    BY <2>1
  <2>4. ASSUME NEW w \in DOMAIN s1, NEW r \in s1[w].rels
        PROVE  \/ w \in DOMAIN s1' /\ r \in s1'[w].rels
               \/ \E d \in Pair : s2[d].id = w /\ s2'[d].at = "done"
                               /\ \A i \in DOMAIN s2[d].list : s2[d].list[i] # r.cluster
    <3>1. CASE w # id
      BY <2>3, <3>1
    <3>2. CASE w = id
      <4>1. q.id = w /\ r \in old
        BY <1>2, <3>2
      <4>2. s1'[w].rels = (old \ gone) \cup NewRels(s4, q.list, A)
        BY <2>1, <3>2 DEF Record
      <4>3. r \in gone => \A i \in DOMAIN q.list : q.list[i] # r.cluster
        BY DEF Racing!Removed
      <4>4. QED
        BY <2>2, <2>3, <4>1, <4>2, <4>3
    <3>3. QED
      BY <3>1, <3>2
  <2>5. Racing!RowsStay
    BY <2>4 DEF Racing!RowsStay
  <2>6. Racing!OthersStay
    BY <1>2, <2>2, <2>3 DEF Racing!OthersStay
  <2>7. QED
    BY <2>5, <2>6
<1>6. CASE Racing!DeleteRow(c)
  <2>1. /\ s1' = [i \in DOMAIN s1 \ {q.id} |-> s1[i]] /\ q.at = "row" /\ q.op = "delete"
        /\ s2'[c].at = "done" /\ q.list = <<>>
    BY <1>1, <1>6 DEF Racing!DeleteRow, Racing!To, Racing!NoReq
  <2>2. \A i \in DOMAIN s1 : i # q.id => i \in DOMAIN s1' /\ s1'[i] = s1[i]
    BY <2>1
  <2>3. DOMAIN q.list = {}
    BY <2>1
  <2>4. Racing!RowsStay
    BY <2>1, <2>2, <2>3 DEF Racing!RowsStay
  <2>5. Racing!OthersStay
    BY <2>1, <2>2 DEF Racing!OthersStay
  <2>6. QED
    BY <2>4, <2>5
<1>7. CASE Racing!Get(c) \/ Racing!SaveNew(c) \/ Racing!SaveRead(c) \/ Racing!SaveCluster(c) \/ Racing!Delete(c)
  BY <1>4, <1>7 DEF Racing!Get, Racing!SaveNew, Racing!SaveRead, Racing!SaveCluster, Racing!Delete, Racing!Begin
<1>8. CASE Racing!GetByName(c) \/ Racing!Found(c)
  BY <1>4, <1>8 DEF Racing!GetByName, Racing!Found
<1>9. QED
  BY <1>3, <1>5, <1>6, <1>7, <1>8

-----------------------------------------------------------------------------
(* The whole server: of whichever part the behaviour is, that part keeps   *)
(* its invariant, and the others have no row.                              *)
ServerInv ==
    /\ part = "users" => InTurnInv
    /\ part = "users at once" => AccountsInv(Pair, EmailsAtOnce, s1, s2, s3, s4)
    /\ part = "roles" => RolesInv
    /\ part = "tenants" => TenantsInv
    /\ part = "tenants at once" => RacingInv

(* The invariant holds at the start, whichever part it is.                 *)
LEMMA ServerStarts == ServerInit => ServerInv
<1> SUFFICES ASSUME ServerInit PROVE ServerInv
  OBVIOUS
<1>1. ASSUME NEW f, f = <<>> PROVE DOMAIN f = {} /\ \A S : f \in [DOMAIN f -> S]
  <2>1. DOMAIN f = {}
    BY <1>1
  <2>2. QED
    BY <1>1, <2>1
<1>2. CASE part = "users"
  <2>1. InTurn!Init
    BY <1>2 DEF ServerInit
  <2>2. s1 = <<>> /\ s2 = {} /\ s3 = [c \in {"c"} |-> InTurn!NoReq] /\ s4 = [user |-> 0, role |-> 0, req |-> 0, fault |-> 0]
    BY <2>1 DEF InTurn!Init
  <2>3. InTurn!NoReq \in AccountReq(EmailsInTurn) /\ InTurn!NoReq.at = "done" /\ InTurn!NoReq.id = 0 /\ InTurn!NoReq.gone = {}
    BY DEF InTurn!NoReq, AccountReq
  <2>4. s4 \in AccountCounts /\ s4.user = 0
    BY <2>2 DEF AccountCounts
  <2>5. s3 \in [{"c"} -> AccountReq(EmailsInTurn)] /\ \A c \in {"c"} : s3[c] = InTurn!NoReq
    BY <2>2, <2>3
  <2>6. \A c \in {"c"} : Fits(s3[c], s2, s4.user) /\ ~Holds(s3[c])
    BY <2>3, <2>4, <2>5 DEF Fits, Holds
  <2>7. AccountsInv({"c"}, EmailsInTurn, s1, s2, s3, s4)
    BY <1>1, <2>2, <2>4, <2>5, <2>6 DEF AccountsInv, Sound, OneSave, Once
  <2>8. Proper(s1, s2, s3["c"])
    BY <1>1, <2>2, <2>3, <2>5 DEF Proper
  <2>9. QED
    BY <1>2, <2>7, <2>8 DEF ServerInv, InTurnInv
<1>3. CASE part = "users at once"
  <2>1. AtOnce!Init
    BY <1>3 DEF ServerInit
  <2>2. s1 = <<>> /\ s2 = {} /\ s3 = [c \in Pair |-> AtOnce!NoReq] /\ s4 = [user |-> 0, role |-> 0, req |-> 0, fault |-> 0]
    BY <2>1 DEF AtOnce!Init
  <2>3. AtOnce!NoReq \in AccountReq(EmailsAtOnce) /\ AtOnce!NoReq.at = "done" /\ AtOnce!NoReq.id = 0 /\ AtOnce!NoReq.gone = {}
    BY DEF AtOnce!NoReq, AccountReq
  <2>4. s4 \in AccountCounts /\ s4.user = 0
    BY <2>2 DEF AccountCounts
  <2>5. s3 \in [Pair -> AccountReq(EmailsAtOnce)] /\ \A c \in Pair : s3[c] = AtOnce!NoReq
    BY <2>2, <2>3
  <2>6. \A c \in Pair : Fits(s3[c], s2, s4.user) /\ ~Holds(s3[c])
    BY <2>3, <2>4, <2>5 DEF Fits, Holds
  <2>7. AccountsInv(Pair, EmailsAtOnce, s1, s2, s3, s4)
    BY <1>1, <2>2, <2>4, <2>5, <2>6 DEF AccountsInv, Sound, OneSave, Once
  <2>8. QED
    BY <1>3, <2>7 DEF ServerInv
<1>4. CASE part = "roles"
  <2>1. R!Init
    BY <1>4 DEF ServerInit
  <2>2. s1 = {} /\ s2 = {} /\ s3 = [c \in {"c"} |-> R!NoReq] /\ s4 = [role |-> 0, perm |-> 0, req |-> 0, fault |-> 0]
    BY <2>1 DEF R!Init
  <2>3. R!NoReq \in PermReq /\ R!NoReq.at = "done" /\ R!NoReq.list = {}
    BY DEF R!NoReq, PermReq
  <2>4. s4 \in PermCounts /\ s3 \in [{"c"} -> PermReq] /\ s3["c"] = R!NoReq
    BY <2>2, <2>3 DEF PermCounts
  <2>5. PermsFit(s1, s2, s4) /\ Asks(s3["c"], s1, s2, s4)
    BY <2>2, <2>3, <2>4 DEF PermsFit, Asks, ListedOnce
  <2>6. QED
    BY <1>4, <2>4, <2>5 DEF ServerInv, RolesInv
<1>5. CASE part = "tenants"
  <2>1. Ordered!Init
    BY <1>5 DEF ServerInit
  <2>2. /\ s1 = <<>> /\ s2 = [c \in {"c"} |-> Ordered!NoReq] /\ s3 = [c \in {"c"} |-> Ordered!NoView]
        /\ s4 = [id |-> 0, rel |-> 0, req |-> 0]
    BY <2>1 DEF Ordered!Init
  <2>3. /\ Ordered!NoReq \in TenantReq /\ Ordered!NoReq.at = "done" /\ Ordered!NoReq.id = 0 /\ Ordered!NoReq.of = 0
        /\ Ordered!NoView \in TenantView /\ Ordered!NoView.id = 0 /\ Ordered!NoView.kind \notin TenantKinds
    BY DEF Ordered!NoReq, TenantReq, Ordered!NoView, TenantView, TenantKinds
  <2>4. s4 \in TenantCounts /\ s4.id = 0
    BY <2>2 DEF TenantCounts
  <2>5. /\ s2 \in [{"c"} -> TenantReq] /\ s2["c"] = Ordered!NoReq
        /\ s3 \in [{"c"} -> TenantView] /\ s3["c"] = Ordered!NoView
    BY <2>2, <2>3
  <2>6. DOMAIN s1 = {}
    BY <1>1, <2>2
  <2>7. Seen(s2["c"], s3["c"], s1, s4)
    BY <2>3, <2>4, <2>5, <2>6 DEF Seen
  <2>8. QED
    BY <1>5, <2>4, <2>5, <2>6, <2>7 DEF ServerInv, TenantsInv
<1>6. CASE part = "tenants at once"
  <2>1. Racing!Init
    BY <1>6 DEF ServerInit
  <2>2. /\ s1 = <<>> /\ s2 = [c \in Pair |-> Racing!NoReq] /\ s3 = [c \in Pair |-> Racing!NoView]
        /\ s4 = [id |-> 0, rel |-> 0, req |-> 0]
    BY <2>1 DEF Racing!Init
  <2>3. /\ Racing!NoReq \in TenantReq /\ Racing!NoReq.id = 0 /\ Racing!NoReq.op # "delete"
        /\ Racing!NoView \in TenantView /\ Racing!NoView.id = 0
    BY DEF Racing!NoReq, TenantReq, Racing!NoView, TenantView
  <2>4. s4 \in TenantCounts /\ s4.id = 0
    BY <2>2 DEF TenantCounts
  <2>5. /\ s2 \in [Pair -> TenantReq] /\ \A c \in Pair : s2[c] = Racing!NoReq
        /\ s3 \in [Pair -> TenantView] /\ \A c \in Pair : s3[c] = Racing!NoView
    BY <2>2, <2>3
  <2>6. DOMAIN s1 = {}
    BY <1>1, <2>2
  <2>7. RacingInv
    BY <2>3, <2>4, <2>5, <2>6 DEF RacingInv
  <2>8. QED
    BY <1>6, <2>7 DEF ServerInv
<1>7. QED
  BY <1>2, <1>3, <1>4, <1>5, <1>6 DEF ServerInv

(* Every step of every part keeps it.                                      *)
LEMMA ServerStep == ServerInv /\ [ServerNext]_<<part, Four, Rest, vars>> => ServerInv'
<1> SUFFICES ASSUME ServerInv, [ServerNext]_<<part, Four, Rest, vars>> PROVE ServerInv'
  OBVIOUS
<1>1. ASSUME part' = part, s1' = s1, s2' = s2, s3' = s3, s4' = s4
      PROVE  ServerInv'
  BY <1>1 DEF ServerInv, InTurnInv, RolesInv, TenantsInv, RacingInv
<1>2. CASE Users
  <2>1. part = "users" /\ part' = "users" /\ InTurn!Next /\ InTurnInv
    BY <1>2 DEF Users, ServerInv
  <2>2. AccountsInv({"c"}, EmailsInTurn, s1', s2', s3', s4')
    BY <2>1, InTurnStep DEF InTurnInv
  <2>3. Proper(s1', s2', s3'["c"])
    BY <2>1, InTurnIsProper
  <2>4. QED
    BY <2>1, <2>2, <2>3 DEF ServerInv, InTurnInv
<1>3. CASE UsersAtOnce
  <2>1. /\ part = "users at once" /\ part' = "users at once" /\ AtOnce!Next
        /\ AccountsInv(Pair, EmailsAtOnce, s1, s2, s3, s4)
    BY <1>3 DEF UsersAtOnce, ServerInv
  <2>2. AccountsInv(Pair, EmailsAtOnce, s1', s2', s3', s4')
    BY <2>1, AtOnceStep
  <2>3. QED
    BY <2>1, <2>2 DEF ServerInv
<1>4. CASE RolesOfUsers
  <2>1. part = "roles" /\ part' = "roles" /\ R!Next /\ RolesInv
    BY <1>4 DEF RolesOfUsers, ServerInv
  <2>2. RolesInv'
    BY <2>1, RolesStep
  <2>3. QED
    BY <2>1, <2>2 DEF ServerInv
<1>5. CASE Tenants
  <2>1. part = "tenants" /\ part' = "tenants" /\ Ordered!Next /\ TenantsInv
    BY <1>5 DEF Tenants, ServerInv
  <2>2. TenantsInv'
    BY <2>1, TenantsStep
  <2>3. QED
    BY <2>1, <2>2 DEF ServerInv
<1>6. CASE TenantsAtOnce
  <2>1. part = "tenants at once" /\ part' = "tenants at once" /\ Racing!Next /\ RacingInv
    BY <1>6 DEF TenantsAtOnce, ServerInv
  <2>2. RacingInv'
    BY <2>1, RacingStep
  <2>3. QED
    BY <2>1, <2>2 DEF ServerInv
<1>7. CASE Listing
  BY <1>7 DEF Listing, ServerInv
<1>8. CASE Requests
  BY <1>1, <1>8 DEF Requests, Four
<1>9. CASE UNCHANGED <<part, Four, Rest, vars>>
  BY <1>1, <1>9 DEF Four
<1>10. QED
  BY <1>2, <1>3, <1>4, <1>5, <1>6, <1>7, <1>8, <1>9 DEF ServerNext

(* It has what is said of the rows.                                        *)
LEMMA ServerInvSuffices == ServerInv => RolesBelongToUsers
<1> SUFFICES ASSUME ServerInv PROVE RolesBelongToUsers
  OBVIOUS
<1>1. ASSUME part = "users"
      PROVE  InTurn!TypeOK /\ InTurn!EmailsAreUnique /\ InTurn!NoLooseRoles
  <2>1. DOMAIN s1 \subseteq 1..s4.user /\ Sound(s2, s4.role, s4.user) /\ Proper(s1, s2, s3["c"])
    BY <1>1 DEF ServerInv, InTurnInv, AccountsInv
  <2>2. QED
    BY <2>1 DEF Sound, UserRow, Proper, InTurn!TypeOK, InTurn!EmailsAreUnique, InTurn!NoLooseRoles
<1>2. ASSUME part = "users at once"
      PROVE  AtOnce!TypeOK /\ AtOnce!RolesOnce
  <2>1. DOMAIN s1 \subseteq 1..s4.user /\ Sound(s2, s4.role, s4.user) /\ Once(s2)
    BY <1>2 DEF ServerInv, AccountsInv
  <2>2. QED
    BY <2>1 DEF Sound, UserRow, Once, AtOnce!TypeOK, AtOnce!RolesOnce
<1>3. ASSUME part = "roles"
      PROVE  R!TypeOK /\ R!PermissionsOnce
  <2>1. PermsFit(s1, s2, s4)
    BY <1>3 DEF ServerInv, RolesInv
  <2>2. QED
    BY <2>1 DEF PermsFit, PermRow, R!TypeOK, R!PermissionsOnce
<1>4. ASSUME part = "tenants"
      PROVE  Ordered!TypeOK
  <2>1. /\ s4 \in TenantCounts /\ s2 \in [{"c"} -> TenantReq] /\ s3 \in [{"c"} -> TenantView]
        /\ DOMAIN s1 \subseteq 1..s4.id
        /\ \A i \in DOMAIN s1 : RecFits(s1[i], s4)
        /\ Seen(s2["c"], s3["c"], s1, s4)
    BY <1>4 DEF ServerInv, TenantsInv
  <2>2. s4.id \in Nat /\ s2["c"].at \in {"done", "name", "found", "row"} /\ s3["c"].id \in 0..s4.id
    <3>1. s4.id \in Nat /\ s2["c"] \in TenantReq /\ s3["c"] \in TenantView /\ s3["c"].id <= s4.id
      BY <2>1 DEF TenantCounts, Seen
    <3>2. s2["c"].at \in {"done", "name", "found", "row"} /\ s3["c"].id \in Nat
      BY <3>1 DEF TenantReq, TenantView
    <3>3. QED
      BY <3>1, <3>2
  <2>3. ASSUME NEW i \in DOMAIN s1
        PROVE  /\ i \in 1..s4.id /\ s1[i].kind \in TenantKinds /\ s1[i].name \in TenantNames /\ s1[i].of \in 0..s4.id
               /\ \A r, s \in s1[i].rels : r.id \in 1..s4.rel /\ (r.id = s.id => r = s)
               /\ s1[i].kind # "workspace" => s1[i].rels = {}
    BY <2>1, <2>2 DEF RecFits, TenantRec
  <2>4. QED
    BY <2>2, <2>3 DEF Ordered!TypeOK, TenantKinds
<1>5. QED
  BY <1>1, <1>2, <1>3, <1>4 DEF RolesBelongToUsers

(* Whatever the emails, roles, permissions, names and clients are, and     *)
(* however many requests come and fail: the rows of users, roles and       *)
(* permissions fit each other (biz/user.go:308, data/user.go:184,237).     *)
THEOREM RowsBelong == ServerSpec => []RolesBelongToUsers
<1>1. ServerSpec => []ServerInv
  BY ServerStarts, ServerStep, PTL DEF ServerSpec
<1>2. QED
  BY <1>1, ServerInvSuffices, PTL

(* And from it every step does to the rows what was asked for, no more.    *)
LEMMA ServerStepIsExact ==
    ASSUME ServerInv, [ServerNext]_<<part, Four, Rest, vars>>
    PROVE  [/\ part = "users" => InTurn!RolesAreListed
            /\ part = "roles" => R!PermissionsAreExact
            /\ part = "tenants" =>
                 Ordered!NewNamesAreFree /\ Ordered!ClustersAreListed /\ Ordered!OthersStay
            /\ part = "tenants at once" => Racing!RowsStay /\ Racing!OthersStay
           ]_<<part, Four, Rest, vars>>
<1>1. CASE Users
  <2>1. part = "users" /\ InTurn!RolesAreListed
    BY <1>1, UsersAreExact DEF Users, ServerInv
  <2>2. QED
    BY <2>1
<1>2. CASE UsersAtOnce
  BY <1>2 DEF UsersAtOnce
<1>3. CASE RolesOfUsers
  <2>1. part = "roles" /\ R!PermissionsAreExact
    BY <1>3, RolesAreExact DEF RolesOfUsers, ServerInv
  <2>2. QED
    BY <2>1
<1>4. CASE Tenants
  <2>1. part = "tenants" /\ Ordered!NewNamesAreFree /\ Ordered!ClustersAreListed /\ Ordered!OthersStay
    BY <1>4, TenantsAreExact DEF Tenants, ServerInv
  <2>2. QED
    BY <2>1
<1>5. CASE TenantsAtOnce
  <2>1. part = "tenants at once" /\ Racing!RowsStay /\ Racing!OthersStay
    BY <1>5, RacingIsExact DEF TenantsAtOnce, ServerInv
  <2>2. QED
    BY <2>1
<1>6. CASE Listing \/ Requests
  BY <1>6 DEF Listing, Requests
<1>7. QED
  BY <1>1, <1>2, <1>3, <1>4, <1>5, <1>6 DEF ServerNext

(* A save that goes through leaves the roles, permissions or clusters that *)
(* it lists, a new name is free, and other records stay as they are, for   *)
(* every number of clients and requests (data/workspace.go:50,             *)
(* interfaces/workspace.go:40).                                            *)
THEOREM SavesLeaveTheirs == ServerSpec => SavesAreExact
<1>1. ServerSpec => []ServerInv
  BY ServerStarts, ServerStep, PTL DEF ServerSpec
<1>2. QED
  BY <1>1, ServerStepIsExact, PTL DEF ServerSpec, SavesAreExact

-----------------------------------------------------------------------------
(* Requests at the gateway: whom a handler serves, what its context holds, *)
(* and that a panic over gRPC or HTTP is answered.                         *)

OpNames == {"SignIn", "Get", "GetByIds", "SaveCluster", "SaveService", "StartCi", "StartCd", "GetWorkflow", "SaveRelease"}
Values == Clients \cup Ids \cup {Absent, "nil", "empty"}
Contexts == [user : Values, cluster : Values, workspace : Values, project : Values]

(* The names of a message.                                                 *)
LEMMA OperationNames ==
    ASSUME NEW op \in OpNames
    PROVE  /\ DOMAIN Operations = OpNames
           /\ Operations[op].names \in Seq(Tables)
           /\ op = "SignIn" => Operations[op].names = <<>>
<1>1. DOMAIN Operations = OpNames
  BY DEF Operations, OpNames
<1>2. /\ <<>> \in Seq(Tables) /\ <<"project", "workspace", "cluster">> \in Seq(Tables)
      /\ <<"cluster", "project">> \in Seq(Tables)
  BY DEF Tables
<1>3. Operations[op].names \in {<<>>, <<"project", "workspace", "cluster">>, <<"cluster", "project">>}
  BY DEF Operations, OpNames, Op
<1>4. op = "SignIn" => Operations[op].names = <<>>
  BY DEF Operations, Op
<1>5. QED
  BY <1>1, <1>2, <1>3, <1>4

-----------------------------------------------------------------------------
(* The shape of a request: what TypeOK says, and what the fields are.      *)
GatewayRequests == [op : OpNames \cup {"none"}, front : {"none", "grpc", "mcp"}, at : {"auth", "context", "handle", "done"},
             ids : Seq(Ids \cup {0}), read : Nat, ctx : Contexts, checked : Nat,
             result : {"none", "ok", "error", "lost", "unimplemented"}]

Shape ==
    /\ now \in 1 .. MaxTime /\ token \in [Clients -> 0 .. MaxTime + Life]
    /\ rows \in [Tables -> SUBSET Ids] /\ count \in [request : Nat, delete : Nat]
    /\ req \in [Clients -> GatewayRequests]

(* A request under way names as many rows as its message does, and a tool  *)
(* none; only the context of a request is read.                            *)
Under(c) ==
    LET q == req[c] IN
    /\ q.at # "done" => q.op \in OpNames
    /\ q.at \in {"auth", "context"} => q.front = "grpc" /\ q.op \notin WhiteList
    /\ q.front = "grpc" => q.op \in OpNames /\ Len(q.ids) = Len(Operations[q.op].names)
    /\ q.read <= Len(q.ids)
    /\ q.at = "auth" => q.read = 0 /\ q.ctx = NoContext
    /\ q.at = "handle" /\ q.front = "grpc" => q.read = Len(q.ids)

(* The user of a request that is served is its client, whose token was     *)
(* good when it was looked at.                                             *)
UserKnown(c) ==
    LET q == req[c] IN
    q.front = "grpc" /\ q.op \notin WhiteList /\ q.at \in {"context", "handle"} =>
        q.ctx.user = c /\ q.checked < token[c]

(* What of the message has been read is in the context.                    *)
HoldsId(q, i, t) ==
    /\ Operations[q.op].names[i] = t /\ q.ids[i] # 0
    /\ q.ctx[t] = q.ids[i] \/ (q.ctx[t] \in {"nil", "empty"} /\ q.ids[i] \notin rows[t])
Named(q, t) == \E i \in 1 .. q.read : Operations[q.op].names[i] = t /\ q.ids[i] # 0
ReadSoFar(c) ==
    LET q == req[c] IN
    q.front = "grpc" /\ q.at \in {"context", "handle"} =>
        \A t \in Tables : IF Named(q, t) THEN \E i \in 1 .. q.read : HoldsId(q, i, t) ELSE q.ctx[t] = Absent

Answered(c) == req[c].front = "grpc" => req[c].result # "lost"

PerClient(c) == Under(c) /\ UserKnown(c) /\ ReadSoFar(c) /\ Answered(c)
GatewayInv == Shape /\ \A c \in Clients : PerClient(c)

-----------------------------------------------------------------------------
(* Nothing has been asked.                                                 *)
LEMMA InitInv == Init => GatewayInv
<1>1. SUFFICES ASSUME Init PROVE GatewayInv
  OBVIOUS
<1>2. NoContext \in Contexts
  BY DEF NoContext, Contexts, Values
<1>3. NoReq \in GatewayRequests
  BY <1>2 DEF NoReq, GatewayRequests
<1>4. Shape
  <2>1. now \in 1 .. MaxTime /\ token \in [Clients -> 0 .. MaxTime + Life]
    BY <1>1, GatewayAssumption DEF Init
  <2>2. rows \in [Tables -> SUBSET Ids] /\ count \in [request : Nat, delete : Nat]
    BY <1>1 DEF Init
  <2>3. req \in [Clients -> GatewayRequests]
    BY <1>1, <1>3 DEF Init
  <2>4. QED
    BY <2>1, <2>2, <2>3 DEF Shape
<1>5. ASSUME NEW c \in Clients PROVE PerClient(c)
  <2>1. /\ req[c].at = "done" /\ req[c].front = "none" /\ req[c].read = 0 /\ req[c].ids = <<>>
    BY <1>1 DEF Init, NoReq
  <2>2. Under(c) /\ UserKnown(c) /\ ReadSoFar(c) /\ Answered(c)
    BY <2>1 DEF Under, UserKnown, ReadSoFar, Answered
  <2>3. QED
    BY <2>2 DEF PerClient
<1>6. QED
  BY <1>4, <1>5 DEF GatewayInv

(* A request that nobody touches stays as it is known, while rows go.      *)
LEMMA OthersStay ==
    ASSUME GatewayInv, NEW c \in Clients, req'[c] = req[c], token'[c] = token[c],
           \A t \in Tables : rows'[t] \subseteq rows[t]
    PROVE  PerClient(c)'
<1>1. PerClient(c)
  BY DEF GatewayInv
<1>2. Under(c)' /\ UserKnown(c)' /\ Answered(c)'
  BY <1>1 DEF PerClient, Under, UserKnown, Answered
<1>3. ReadSoFar(c)'
  <2>1. SUFFICES ASSUME req[c].front = "grpc", req[c].at \in {"context", "handle"}, NEW t \in Tables
                 PROVE  (IF Named(req[c], t) THEN \E i \in 1 .. req[c].read : HoldsId(req[c], i, t)
                         ELSE req[c].ctx[t] = Absent)'
    BY DEF ReadSoFar
  <2>2. IF Named(req[c], t) THEN \E i \in 1 .. req[c].read : HoldsId(req[c], i, t) ELSE req[c].ctx[t] = Absent
    BY <1>1, <2>1 DEF PerClient, ReadSoFar
  <2>3. Named(req[c], t)' <=> Named(req[c], t)
    BY DEF Named
  <2>4. \A i \in 1 .. req[c].read : HoldsId(req[c], i, t) => HoldsId(req[c], i, t)'
    BY DEF HoldsId
  <2>5. QED
    BY <2>2, <2>3, <2>4
<1>4. QED
  BY <1>2, <1>3 DEF PerClient

(* A new request.                                                          *)
LEMMA RequestInv ==
    ASSUME GatewayInv, NEW c \in Clients, NEW op \in DOMAIN Operations, Request(c, op)
    PROVE  GatewayInv'
<1>1. op \in OpNames
  BY DEF Operations, OpNames
<1>2. PICK ids \in [DOMAIN Operations[op].names -> Ids \cup {0}] :
        /\ req' = [req EXCEPT ![c] = [NoReq EXCEPT !.op = op, !.front = "grpc", !.ids = ids,
                                      !.at = IF op \in WhiteList THEN "handle" ELSE "auth"]]
        /\ count' = [count EXCEPT !.request = @ + 1] /\ UNCHANGED <<now, token, rows>>
  BY DEF Request
<1>3. ids \in Seq(Ids \cup {0}) /\ Len(ids) = Len(Operations[op].names)
  <2>1. Operations[op].names \in Seq(Tables)
    BY <1>1, OperationNames
  <2>2. DOMAIN ids = 1 .. Len(Operations[op].names) /\ Len(Operations[op].names) \in Nat
    BY <2>1, <1>2
  <2>3. QED
    BY <2>2, <1>2
<1>4. req'[c] = [op |-> op, front |-> "grpc", at |-> IF op \in WhiteList THEN "handle" ELSE "auth", ids |-> ids,
                 read |-> 0, ctx |-> NoContext, checked |-> 0, result |-> "none"]
  BY <1>2 DEF NoReq, GatewayInv, Shape
<1>5. Shape'
  <2>1. NoContext \in Contexts
    BY DEF NoContext, Contexts, Values
  <2>2. req'[c] \in GatewayRequests
    BY <1>1, <1>3, <1>4, <2>1 DEF GatewayRequests
  <2>3. req' \in [Clients -> GatewayRequests]
    BY <1>2, <2>2 DEF GatewayInv, Shape
  <2>4. QED
    BY <1>2, <2>3 DEF GatewayInv, Shape
<1>6. PerClient(c)'
  <2>1. Under(c)'
    <3>1. op \in WhiteList => Len(ids) = 0
      BY <1>1, <1>3, OperationNames DEF WhiteList
    <3>2. QED
      BY <1>1, <1>3, <1>4, <3>1 DEF Under
  <2>2. UserKnown(c)' /\ Answered(c)'
    BY <1>4 DEF UserKnown, Answered
  <2>3. ReadSoFar(c)'
    <3>1. \A t \in Tables : req'[c].ctx[t] = Absent
      BY <1>4 DEF NoContext, Tables
    <3>2. QED
      BY <1>4, <3>1 DEF ReadSoFar, Named
  <2>4. QED
    BY <2>1, <2>2, <2>3 DEF PerClient
<1>7. \A d \in Clients : d # c => PerClient(d)'
  <2>1. \A d \in Clients : d # c => req'[d] = req[d]
    BY <1>2 DEF GatewayInv, Shape
  <2>2. QED
    BY <1>2, <2>1, OthersStay
<1>8. QED
  BY <1>5, <1>6, <1>7 DEF GatewayInv

(* A call of a tool.                                                       *)
LEMMA CallToolInv ==
    ASSUME GatewayInv, NEW c \in Clients, NEW tool \in Tools, CallTool(c, tool)
    PROVE  GatewayInv'
<1>1. tool \in OpNames
  BY DEF Tools, OpNames
<1>2. req'[c] = [op |-> tool, front |-> "mcp", at |-> IF tool = "GetByIds" THEN "done" ELSE "handle", ids |-> <<>>,
                 read |-> 0, ctx |-> NoContext, checked |-> 0,
                 result |-> IF tool = "GetByIds" THEN "error" ELSE "none"]
  BY DEF CallTool, NoReq, GatewayInv, Shape
<1>3. Shape'
  <2>1. NoContext \in Contexts
    BY DEF NoContext, Contexts, Values
  <2>2. req'[c] \in GatewayRequests
    BY <1>1, <1>2, <2>1 DEF GatewayRequests
  <2>3. req' \in [Clients -> GatewayRequests]
    BY <2>2 DEF GatewayInv, Shape, CallTool
  <2>4. QED
    BY <2>3 DEF GatewayInv, Shape, CallTool
<1>4. PerClient(c)'
  <2>1. Under(c)' /\ UserKnown(c)' /\ ReadSoFar(c)' /\ Answered(c)'
    BY <1>1, <1>2 DEF Under, UserKnown, ReadSoFar, Answered
  <2>2. QED
    BY <2>1 DEF PerClient
<1>5. \A d \in Clients : d # c => PerClient(d)'
  <2>1. \A d \in Clients : d # c => req'[d] = req[d]
    BY DEF CallTool, GatewayInv, Shape
  <2>2. QED
    BY <2>1, OthersStay DEF CallTool
<1>6. QED
  BY <1>3, <1>4, <1>5 DEF GatewayInv

(* The end of a request, with any answer but one that is lost over gRPC.   *)
LEMMA EndInv ==
    ASSUME GatewayInv, NEW c \in Clients,
           NEW result \in {"ok", "error", "lost", "unimplemented"}, End(c, result),
           req[c].front = "grpc" => result # "lost",
           UNCHANGED <<now, rows, count>>, token' \in [Clients -> 0 .. MaxTime + Life],
           \A d \in Clients : d # c => token'[d] = token[d]
    PROVE  GatewayInv'
<1>1. req[c] \in GatewayRequests /\ PerClient(c)
  BY DEF GatewayInv, Shape
<1>2. req'[c] = [req[c] EXCEPT !.at = "done", !.result = result]
  BY DEF End, GatewayInv, Shape
<1>3. Shape'
  <2>1. req'[c] \in GatewayRequests
    BY <1>1, <1>2 DEF GatewayRequests
  <2>2. req' \in [Clients -> GatewayRequests]
    BY <2>1 DEF GatewayInv, Shape, End
  <2>3. QED
    BY <2>2 DEF GatewayInv, Shape
<1>4. PerClient(c)'
  <2>1. /\ req'[c].at = "done" /\ req'[c].result = result /\ req'[c].op = req[c].op
        /\ req'[c].front = req[c].front /\ req'[c].ids = req[c].ids /\ req'[c].read = req[c].read
    BY <1>1, <1>2 DEF GatewayRequests
  <2>2. Under(c)' /\ UserKnown(c)' /\ ReadSoFar(c)' /\ Answered(c)'
    BY <1>1, <2>1 DEF PerClient, Under, UserKnown, ReadSoFar, Answered
  <2>3. QED
    BY <2>2 DEF PerClient
<1>5. \A d \in Clients : d # c => PerClient(d)'
  <2>1. \A d \in Clients : d # c => req'[d] = req[d]
    BY DEF End, GatewayInv, Shape
  <2>2. QED
    BY <2>1, OthersStay
<1>6. QED
  BY <1>3, <1>4, <1>5 DEF GatewayInv

(* A token that is good lets the request go on as that of its client.      *)
LEMMA AuthInv ==
    ASSUME GatewayInv, NEW c \in Clients, Auth(c)
    PROVE  GatewayInv'
<1>1. req[c] \in GatewayRequests /\ PerClient(c) /\ token[c] \in Nat /\ now \in Nat
  BY GatewayAssumption DEF GatewayInv, Shape
<1>2. CASE ~ValidateJWT(c)
  BY <1>2, EndInv DEF Auth, GatewayInv, Shape
<1>3. CASE ValidateJWT(c)
  <2>1. req' = [req EXCEPT ![c].at = "context", ![c].ctx.user = c, ![c].checked = now]
    BY <1>3 DEF Auth
  <2>2. /\ req'[c] = [req[c] EXCEPT !.at = "context", !.ctx = [NoContext EXCEPT !.user = c], !.checked = now]
        /\ req[c].ctx = NoContext /\ req[c].read = 0 /\ req[c].front = "grpc" /\ req[c].op \notin WhiteList
    BY <1>1, <2>1 DEF Auth, PerClient, Under, GatewayInv, Shape, GatewayRequests
  <2>3. Shape'
    <3>1. [NoContext EXCEPT !.user = c] \in Contexts
      BY DEF NoContext, Contexts, Values
    <3>2. req'[c] \in GatewayRequests
      BY <1>1, <2>2, <3>1 DEF GatewayRequests
    <3>3. req' \in [Clients -> GatewayRequests]
      BY <2>1, <3>2 DEF GatewayInv, Shape
    <3>4. QED
      BY <3>3 DEF GatewayInv, Shape, Auth
  <2>4. PerClient(c)'
    <3>1. /\ req'[c].at = "context" /\ req'[c].result = req[c].result /\ req'[c].op = req[c].op
          /\ req'[c].front = req[c].front /\ req'[c].ids = req[c].ids /\ req'[c].read = 0
          /\ req'[c].checked = now /\ req'[c].ctx = [NoContext EXCEPT !.user = c]
      BY <1>1, <2>2 DEF GatewayRequests
    <3>2. Under(c)' /\ Answered(c)'
      BY <1>1, <2>2, <3>1 DEF PerClient, Under, Answered
    <3>3. UserKnown(c)'
      BY <1>1, <1>3, <3>1 DEF UserKnown, Auth, ValidateJWT, NoContext
    <3>4. ReadSoFar(c)'
      <4>1. \A t \in Tables : req'[c].ctx[t] = Absent
        BY <3>1 DEF NoContext, Tables
      <4>2. QED
        BY <3>1, <4>1 DEF ReadSoFar, Named
    <3>5. QED
      BY <3>2, <3>3, <3>4 DEF PerClient
  <2>5. \A d \in Clients : d # c => PerClient(d)'
    <3>1. \A d \in Clients : d # c => req'[d] = req[d]
      BY <2>1 DEF GatewayInv, Shape
    <3>2. QED
      BY <3>1, OthersStay DEF Auth
  <2>6. QED
    BY <2>3, <2>4, <2>5 DEF GatewayInv
<1>4. QED
  BY <1>2, <1>3

(* One more id of the message has been read: what stands for it is in the  *)
(* context.                                                                *)
Moves(c, n) ==
    /\ req'[c].at = "context" /\ req'[c].op = req[c].op /\ req'[c].ids = req[c].ids
    /\ req'[c].front = req[c].front /\ req'[c].read = n
Takes(c, n, t) ==
    \/ req[c].ids[n] = 0 /\ req'[c].ctx = req[c].ctx
    \/ /\ req[c].ids[n] # 0 /\ \A u \in Tables \ {t} : req'[c].ctx[u] = req[c].ctx[u]
       /\ req'[c].ctx[t] = req[c].ids[n] \/ (req'[c].ctx[t] \in {"nil", "empty"} /\ req[c].ids[n] \notin rows[t])
Names(c, n, t) == t = Operations[req[c].op].names[n]

(* The context with one more row read is what one more name asks for.      *)
LEMMA ReadOneMore ==
    ASSUME NEW c \in Clients, PerClient(c), rows' = rows, req[c].at = "context", req[c].front = "grpc",
           NEW k \in Nat, k = req[c].read, NEW n \in Nat, n = k + 1,
           NEW t \in Tables, Names(c, n, t), Moves(c, n), Takes(c, n, t)
    PROVE  ReadSoFar(c)'
<1>1. SUFFICES ASSUME NEW u \in Tables
               PROVE  (IF Named(req[c], u) THEN \E i \in 1 .. req[c].read : HoldsId(req[c], i, u)
                       ELSE req[c].ctx[u] = Absent)'
  BY DEF ReadSoFar
<1>2. IF Named(req[c], u) THEN \E i \in 1 .. k : HoldsId(req[c], i, u) ELSE req[c].ctx[u] = Absent
  BY DEF PerClient, ReadSoFar
<1>3. \A i : i \in 1 .. n <=> i = n \/ i \in 1 .. k
  OBVIOUS
<1>4. req'[c].read = n
  BY DEF Moves
<1>5. CASE req[c].ids[n] # 0 /\ u = t
  <2>1. HoldsId(req[c], n, u)'
    BY <1>5 DEF HoldsId, Moves, Takes, Names
  <2>2. Named(req[c], u)'
    BY <1>3, <1>4, <1>5 DEF Named, Moves, Names
  <2>3. QED
    BY <1>3, <1>4, <2>1, <2>2
<1>6. CASE ~(req[c].ids[n] # 0 /\ u = t)
  <2>1. req'[c].ctx[u] = req[c].ctx[u]
    BY <1>6 DEF Takes
  <2>2. Named(req[c], u)' <=> Named(req[c], u)
    BY <1>3, <1>6 DEF Named, Moves, Names
  <2>3. \A i \in 1 .. k : HoldsId(req[c], i, u) => HoldsId(req[c], i, u)'
    BY <2>1 DEF HoldsId, Moves
  <2>4. QED
    BY <1>2, <1>3, <1>4, <2>1, <2>2, <2>3
<1>7. QED
  BY <1>5, <1>6

(* The context of a request is read.                                       *)
LEMMA ContextInv ==
    ASSUME GatewayInv, NEW c \in Clients, Context(c)
    PROVE  GatewayInv'
<1>1. req[c] \in GatewayRequests /\ PerClient(c) /\ rows \in [Tables -> SUBSET Ids]
  BY DEF GatewayInv, Shape
<1>2. req[c].at = "context" /\ UNCHANGED <<now, token, rows, count>>
  BY DEF Context
<1>3. /\ req[c].front = "grpc" /\ req[c].op \in OpNames /\ req[c].op \notin WhiteList
      /\ Len(req[c].ids) = Len(Operations[req[c].op].names) /\ req[c].read <= Len(req[c].ids)
  BY <1>1, <1>2 DEF PerClient, Under
<1>4. ASSUME NEW q \in GatewayRequests, req' = [req EXCEPT ![c] = q],
             q.front = "grpc", q.op = req[c].op, q.ids = req[c].ids, q.read <= Len(q.ids),
             q.at \in {"context", "handle"}, q.at = "handle" => q.read = Len(q.ids),
             q.ctx.user = req[c].ctx.user, q.checked = req[c].checked, q.result = req[c].result, ReadSoFar(c)'
      PROVE  GatewayInv'
  <2>1. req'[c] = q /\ \A d \in Clients : d # c => req'[d] = req[d]
    BY <1>4 DEF GatewayInv, Shape
  <2>2. Shape'
    BY <1>2, <1>4 DEF GatewayInv, Shape
  <2>3. PerClient(c)'
    <3>1. Under(c)' /\ UserKnown(c)' /\ Answered(c)'
      BY <1>1, <1>2, <1>3, <1>4, <2>1 DEF PerClient, Under, UserKnown, Answered
    <3>2. QED
      BY <1>4, <3>1 DEF PerClient
  <2>4. \A d \in Clients : d # c => PerClient(d)'
    BY <1>2, <2>1, OthersStay
  <2>5. QED
    BY <2>2, <2>3, <2>4 DEF GatewayInv
<1>5. CASE req[c].read = Len(req[c].ids)
  <2>1. req' = [req EXCEPT ![c] = [req[c] EXCEPT !.at = "handle"]]
    BY <1>5 DEF Context
  <2>2. [req[c] EXCEPT !.at = "handle"] \in GatewayRequests
    BY <1>1 DEF GatewayRequests
  <2>3. req'[c] = [req[c] EXCEPT !.at = "handle"]
    BY <2>1 DEF GatewayInv, Shape
  <2>4. ReadSoFar(c)'
    BY <1>1, <1>2, <2>3 DEF PerClient, ReadSoFar, Named, HoldsId, GatewayRequests
  <2>5. QED
    BY <1>1, <1>3, <1>4, <1>5, <2>1, <2>2, <2>4 DEF GatewayRequests
<1>6. CASE req[c].read # Len(req[c].ids)
  <2> DEFINE n == req[c].read + 1
             t == Operations[req[c].op].names[n]
             id == req[c].ids[n]
             value == IF id \in rows[t] THEN id ELSE IF t = "cluster" THEN "nil" ELSE "empty"
  <2>1. n \in 1 .. Len(req[c].ids) /\ req[c].read < Len(req[c].ids) /\ n \in Nat /\ n <= Len(req[c].ids)
    BY <1>1, <1>3, <1>6 DEF GatewayRequests
  <2>2. t \in Tables /\ id \in Ids \cup {0}
    BY <1>1, <1>3, <2>1, OperationNames DEF GatewayRequests
  <2>3. /\ id = 0 => req' = [req EXCEPT ![c].read = n]
        /\ id # 0 /\ t = "project" /\ id \notin rows[t] => End(c, "error")
        /\ id # 0 /\ ~(t = "project" /\ id \notin rows[t]) => req' = [req EXCEPT ![c].read = n, ![c].ctx[t] = value]
    BY <1>6 DEF Context
  <2> HIDE DEF n, t, id
  <2>4. CASE id = 0
    <3>1. req' = [req EXCEPT ![c] = [req[c] EXCEPT !.read = n]]
      BY <2>3, <2>4
    <3>2. [req[c] EXCEPT !.read = n] \in GatewayRequests
      BY <1>1, <2>1 DEF GatewayRequests
    <3>3. req'[c] = [req[c] EXCEPT !.read = n]
      BY <3>1 DEF GatewayInv, Shape
    <3>4. /\ req'[c].at = "context" /\ req'[c].op = req[c].op /\ req'[c].ids = req[c].ids
          /\ req'[c].front = req[c].front /\ req'[c].read = n /\ req'[c].ctx = req[c].ctx
      BY <1>1, <1>2, <3>3 DEF GatewayRequests
    <3>5. ReadSoFar(c)'
      <4>1. Moves(c, n) /\ Takes(c, n, t) /\ Names(c, n, t) /\ n = req[c].read + 1 /\ req[c].read \in Nat
        BY <1>1, <2>4, <3>4 DEF Moves, Takes, Names, n, t, id, GatewayRequests
      <4>2. QED
        BY <1>1, <1>2, <1>3, <2>1, <2>2, <4>1, ReadOneMore
    <3>6. QED
      BY <1>1, <1>2, <1>3, <1>4, <2>1, <3>1, <3>2, <3>5 DEF GatewayRequests
  <2>5. CASE id # 0 /\ t = "project" /\ id \notin rows[t]
    BY <1>2, <2>3, <2>5, EndInv DEF GatewayInv, Shape
  <2>6. CASE id # 0 /\ ~(t = "project" /\ id \notin rows[t])
    <3> DEFINE ctx == [req[c].ctx EXCEPT ![t] = value]
    <3>1. req' = [req EXCEPT ![c] = [req[c] EXCEPT !.read = n, !.ctx = ctx]]
      <4>1. req' = [req EXCEPT ![c].read = n, ![c].ctx[t] = value]
        BY <2>3, <2>6
      <4>2. req \in [Clients -> GatewayRequests] /\ req[c] \in GatewayRequests
        BY DEF GatewayInv, Shape
      <4>3. req'[c] = [req[c] EXCEPT !.read = n, !.ctx = ctx]
        BY <4>1, <4>2 DEF GatewayRequests
      <4>4. QED
        BY <4>1, <4>2, <4>3
    <3>2. /\ ctx \in Contexts /\ ctx.user = req[c].ctx.user /\ ctx[t] = value
          /\ \A u \in Tables \ {t} : ctx[u] = req[c].ctx[u]
      <4>1. value \in Values
        BY <2>2, <2>6 DEF Values
      <4>2. req[c].ctx \in Contexts
        BY <1>1 DEF GatewayRequests
      <4>3. QED
        BY <2>2, <4>1, <4>2 DEF Contexts, Tables
    <3> HIDE DEF ctx
    <3>3. [req[c] EXCEPT !.read = n, !.ctx = ctx] \in GatewayRequests
      BY <1>1, <2>1, <3>2 DEF GatewayRequests
    <3>4. req'[c] = [req[c] EXCEPT !.read = n, !.ctx = ctx]
      BY <3>1 DEF GatewayInv, Shape
    <3>5. /\ req'[c].at = "context" /\ req'[c].op = req[c].op /\ req'[c].ids = req[c].ids
          /\ req'[c].front = req[c].front /\ req'[c].read = n /\ req'[c].ctx = ctx
      BY <1>1, <1>2, <3>4 DEF GatewayRequests
    <3>6. ReadSoFar(c)'
      <4>1. /\ \A u \in Tables \ {t} : req'[c].ctx[u] = req[c].ctx[u]
            /\ req'[c].ctx[t] = id \/ (req'[c].ctx[t] \in {"nil", "empty"} /\ id \notin rows[t])
        BY <3>2, <3>5
      <4>2. Moves(c, n) /\ Takes(c, n, t)
        BY <2>6, <3>5, <4>1 DEF Moves, Takes, id
      <4>3. Names(c, n, t) /\ n = req[c].read + 1 /\ req[c].read \in Nat
        BY <1>1 DEF Names, n, t, GatewayRequests
      <4>4. QED
        BY <1>1, <1>2, <1>3, <2>1, <2>2, <4>2, <4>3, ReadOneMore
    <3>7. QED
      BY <1>1, <1>2, <1>3, <1>4, <2>1, <3>1, <3>2, <3>3, <3>6 DEF GatewayRequests
  <2>7. QED
    BY <2>4, <2>5, <2>6
<1>7. QED
  BY <1>5, <1>6

-----------------------------------------------------------------------------
(* Every step keeps the invariant.                                         *)
LEMMA NextInv == ASSUME GatewayInv, [Next]_vars PROVE GatewayInv'
<1>1. ASSUME NEW c \in Clients, Step(c) PROVE GatewayInv'
  <2>1. CASE Auth(c)
    BY <2>1, AuthInv
  <2>2. CASE Context(c)
    BY <2>2, ContextInv
  <2>3. CASE SignIn(c)
    <3>1. PICK right \in BOOLEAN :
            /\ End(c, IF right THEN "ok" ELSE "error") /\ UNCHANGED <<now, rows, count>>
            /\ token' = IF right THEN [token EXCEPT ![c] = now + Life] ELSE token
      BY <2>3 DEF SignIn, GenerateJWT
    <3>2. now + Life \in 0 .. MaxTime + Life /\ token \in [Clients -> 0 .. MaxTime + Life]
      BY GatewayAssumption DEF GatewayInv, Shape
    <3>3. token' \in [Clients -> 0 .. MaxTime + Life] /\ \A d \in Clients : d # c => token'[d] = token[d]
      BY <3>1, <3>2
    <3>4. QED
      BY <3>1, <3>3, EndInv
  <2>4. CASE Handle(c)
    <3>1. PICK result \in {"ok", "error", "lost", "unimplemented"} :
            /\ End(c, result) /\ (req[c].front = "grpc" => result # "lost") /\ UNCHANGED <<now, token, rows, count>>
      BY <2>4 DEF Handle
    <3>2. QED
      BY <3>1, EndInv DEF GatewayInv, Shape
  <2>5. QED
    BY <1>1, <2>1, <2>2, <2>3, <2>4 DEF Step
<1>2. CASE Delete
  <2>1. UNCHANGED <<now, token, req>> /\ \A t \in Tables : rows'[t] \subseteq rows[t]
    BY <1>2 DEF Delete, GatewayInv, Shape
  <2>2. Shape'
    BY <1>2 DEF Delete, GatewayInv, Shape
  <2>3. QED
    BY <2>1, <2>2, OthersStay DEF GatewayInv
<1>3. CASE Tick
  <2>1. UNCHANGED <<token, rows, req, count>> /\ now' \in 1 .. MaxTime
    BY <1>3, GatewayAssumption DEF Tick, GatewayInv, Shape
  <2>2. Shape'
    BY <2>1 DEF GatewayInv, Shape
  <2>3. QED
    BY <2>1, <2>2, OthersStay DEF GatewayInv
<1>4. CASE UNCHANGED vars
  <2>1. UNCHANGED <<now, token, rows, req, count>>
    BY <1>4 DEF vars
  <2>2. Shape'
    BY <2>1 DEF GatewayInv, Shape
  <2>3. QED
    BY <2>1, <2>2, OthersStay DEF GatewayInv
<1>5. QED
  BY <1>1, <1>2, <1>3, <1>4, RequestInv, CallToolInv DEF Next

(* The invariant of a request on its way, from the token check through     *)
(* the rows of its message to the answer (internal/server/middware.go).    *)
THEOREM GatewayCorrect == Spec => []GatewayInv
<1>1. Init => GatewayInv
  BY InitInv
<1>2. GatewayInv /\ [Next]_vars => GatewayInv'
  BY NextInv
<1>3. QED
  BY <1>1, <1>2, PTL DEF Spec

(* The variables keep their types.                                         *)
THEOREM GatewayTypeCorrect == Spec => []TypeOK
<1>1. GatewayInv => TypeOK
  <2>1. SUFFICES ASSUME GatewayInv, NEW c \in Clients
                 PROVE  req[c].at \in {"auth", "context", "handle", "done"} /\ req[c].read \in 0 .. Len(req[c].ids)
    BY DEF TypeOK, GatewayInv, Shape
  <2>2. req[c] \in GatewayRequests /\ req[c].read <= Len(req[c].ids)
    BY <2>1 DEF GatewayInv, Shape, PerClient, Under
  <2>3. QED
    BY <2>2 DEF GatewayRequests
<1>2. QED
  BY <1>1, GatewayCorrect, PTL

(* Nobody is served without having shown a token that was good then.       *)
THEOREM EveryHandlerHasAUser == Spec => []HandlersHaveAUser
<1>1. GatewayInv => HandlersHaveAUser
  BY DEF GatewayInv, PerClient, UserKnown, HandlersHaveAUser
<1>2. QED
  BY <1>1, GatewayCorrect, PTL

(* The context of a handler is that of its message, whatever is deleted    *)
(* while it is read.                                                       *)
THEOREM ContextIsExact == Spec => []ContextIsThatOfTheMessage
<1>1. GatewayInv => ContextIsThatOfTheMessage
  <2>1. SUFFICES ASSUME GatewayInv, NEW c \in Clients, req[c].front = "grpc", req[c].at = "handle", NEW t \in Tables
                 PROVE  LET names == Operations[req[c].op].names IN
                        IF \E i \in DOMAIN names : names[i] = t /\ req[c].ids[i] # 0
                        THEN \E i \in DOMAIN names :
                                /\ names[i] = t
                                /\ req[c].ctx[t] = req[c].ids[i]
                                     \/ (req[c].ctx[t] \in {"nil", "empty"} /\ req[c].ids[i] \notin rows[t])
                        ELSE req[c].ctx[t] = Absent
    BY DEF ContextIsThatOfTheMessage
  <2>2. /\ req[c].op \in OpNames /\ req[c].read = Len(req[c].ids)
        /\ Len(req[c].ids) = Len(Operations[req[c].op].names)
    BY <2>1 DEF GatewayInv, PerClient, Under
  <2>3. DOMAIN Operations[req[c].op].names = 1 .. req[c].read
    BY <2>2, OperationNames
  <2>4. IF Named(req[c], t) THEN \E i \in 1 .. req[c].read : HoldsId(req[c], i, t) ELSE req[c].ctx[t] = Absent
    BY <2>1 DEF GatewayInv, PerClient, ReadSoFar
  <2>5. QED
    BY <2>3, <2>4 DEF Named, HoldsId
<1>2. QED
  BY <1>1, GatewayCorrect, PTL

(* A panic of a handler over gRPC or HTTP is answered.                     *)
THEOREM EveryPanicIsAnswered == Spec => []PanicsAreAnswered
<1>1. GatewayInv => PanicsAreAnswered
  BY DEF GatewayInv, PerClient, Answered, PanicsAreAnswered
<1>2. QED
  BY <1>1, GatewayCorrect, PTL
================================================================================
