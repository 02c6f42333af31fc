-------------------------- MODULE ApplicationsProofs --------------------------
(***************************************************************************)
(* Theorems about the parts of MCApplications, for every set of names,     *)
(* versions, charts and clients and every number of requests and faults:   *)
(* releases keep a row and an object each but for one by each fault,       *)
(* versions keep their application, a save leaves what it lists, and what  *)
(* is proved of services and of their tables holds of the parts that run   *)
(* them.                                                                   *)
(***************************************************************************)
EXTENDS MCApplications, Sequences, FiniteSetTheorems, TLAPS

-----------------------------------------------------------------------------
(* Rows and objects in balance.  f has the name of each row, held is the   *)
(* set of names of objects.  K are the rows that have an object, each one  *)
(* of its own; the other rows and the objects left over are at most n.     *)

Lone(f, held, K) == {x \in held : \A i \in K : f[i] # x}
Pairs(f, held, K) ==
    /\ K \subseteq DOMAIN f
    /\ \A i \in K : f[i] \in held
    /\ \A i, j \in K : f[i] = f[j] => i = j
Balance(f, held, n) ==
    \E K \in SUBSET DOMAIN f :
      Pairs(f, held, K) /\ Cardinality(DOMAIN f \ K) + Cardinality(Lone(f, held, K)) <= n

Without(f, i) == [j \in DOMAIN f \ {i} |-> f[j]]
With(f, i, x) == [j \in DOMAIN f \cup {i} |-> IF j = i THEN x ELSE f[j]]
Finite(f, held) == IsFiniteSet(DOMAIN f) /\ IsFiniteSet(held)

(* The rows and objects left over can be counted.                          *)
LEMMA LeftCounts ==
    ASSUME NEW f, NEW held, NEW K, Finite(f, held)
    PROVE  /\ IsFiniteSet(DOMAIN f \ K) /\ Cardinality(DOMAIN f \ K) \in Nat
           /\ IsFiniteSet(Lone(f, held, K)) /\ Cardinality(Lone(f, held, K)) \in Nat
<1>1. DOMAIN f \ K \in SUBSET DOMAIN f /\ Lone(f, held, K) \in SUBSET held
  BY DEF Lone
<1> QED
  BY <1>1, FS_Subset, FS_CardinalityType DEF Finite

LEMMA EmptyBalance ==
    ASSUME NEW f, DOMAIN f = {}
    PROVE  Balance(f, {}, 0)
<1>1. DOMAIN f \ {} = {} /\ Lone(f, {}, {}) = {}
  BY DEF Lone
<1>2. Pairs(f, {}, {})
  BY DEF Pairs
<1> QED
  BY <1>1, <1>2, FS_EmptySet DEF Balance

(* One more may be left over.                                              *)
LEMMA BalanceGrows ==
    ASSUME NEW f, NEW held, NEW n \in Nat, Finite(f, held), Balance(f, held, n)
    PROVE  Balance(f, held, n + 1)
<1>1. PICK K \in SUBSET DOMAIN f :
        Pairs(f, held, K) /\ Cardinality(DOMAIN f \ K) + Cardinality(Lone(f, held, K)) <= n
  BY DEF Balance
<1>2. Cardinality(DOMAIN f \ K) \in Nat /\ Cardinality(Lone(f, held, K)) \in Nat
  BY LeftCounts
<1>3. Cardinality(DOMAIN f \ K) + Cardinality(Lone(f, held, K)) <= n + 1
  BY <1>1, <1>2
<1> QED
  BY <1>1, <1>3 DEF Balance

(* An object without its row is one left over.                             *)
LEMMA ObjectIsLeft ==
    ASSUME NEW f, NEW held, NEW x, NEW n \in Nat, Finite(f, held), Balance(f, held \ {x}, n)
    PROVE  Balance(f, held, n + 1)
<1>1. PICK K \in SUBSET DOMAIN f :
        Pairs(f, held \ {x}, K) /\ Cardinality(DOMAIN f \ K) + Cardinality(Lone(f, held \ {x}, K)) <= n
  BY DEF Balance
<1>2. Pairs(f, held, K)
  BY <1>1 DEF Pairs
<1>3. Finite(f, held \ {x})
  BY FS_RemoveElement DEF Finite
<1>4. Lone(f, held, K) \in SUBSET (Lone(f, held \ {x}, K) \cup {x})
  BY DEF Lone
<1>5. Cardinality(Lone(f, held, K)) <= Cardinality(Lone(f, held \ {x}, K)) + 1
  <2> DEFINE S == Lone(f, held \ {x}, K)
  <2>1. IsFiniteSet(S) /\ Cardinality(S) \in Nat
    BY <1>3, LeftCounts
  <2> HIDE DEF S
  <2>6. IsFiniteSet(S \cup {x}) /\ Cardinality(S \cup {x}) \in {Cardinality(S), Cardinality(S) + 1}
    BY <2>1, FS_AddElement
  <2>2. IsFiniteSet(S \cup {x}) /\ Cardinality(S \cup {x}) <= Cardinality(S) + 1
    BY <2>1, <2>6
  <2>3. Cardinality(Lone(f, held, K)) <= Cardinality(S \cup {x})
    BY <1>4, <2>2, FS_Subset DEF S
  <2>4. Cardinality(S \cup {x}) \in Nat /\ Cardinality(Lone(f, held, K)) \in Nat
    BY <2>2, LeftCounts, FS_CardinalityType
  <2>5. Cardinality(Lone(f, held, K)) <= Cardinality(S) + 1
    BY <2>1, <2>2, <2>3, <2>4
  <2> QED
    BY <2>5 DEF S
<1>6. /\ Cardinality(DOMAIN f \ K) \in Nat /\ Cardinality(Lone(f, held, K)) \in Nat
      /\ Cardinality(Lone(f, held \ {x}, K)) \in Nat
  BY <1>3, LeftCounts
<1>7. Cardinality(DOMAIN f \ K) + Cardinality(Lone(f, held, K)) <= n + 1
  BY <1>1, <1>5, <1>6
<1> QED
  BY <1>1, <1>2, <1>7 DEF Balance

(* The row of that object sets it right.                                   *)
LEMMA RowIsAdded ==
    ASSUME NEW f, NEW held, NEW i, i \notin DOMAIN f, NEW x \in held, NEW n \in Nat, Finite(f, held),
           Balance(f, held \ {x}, n)
    PROVE  Balance(With(f, i, x), held, n)
<1>1. PICK K \in SUBSET DOMAIN f :
        Pairs(f, held \ {x}, K) /\ Cardinality(DOMAIN f \ K) + Cardinality(Lone(f, held \ {x}, K)) <= n
  BY DEF Balance
<1> DEFINE g == With(f, i, x)
           M == K \cup {i}
<1>2. DOMAIN g = DOMAIN f \cup {i} /\ g[i] = x /\ \A j \in DOMAIN f : g[j] = f[j]
  BY DEF With
<1>3. Pairs(g, held, M)
  BY <1>1, <1>2 DEF Pairs
<1>4. DOMAIN g \ M = DOMAIN f \ K
  BY <1>2
<1>5. Lone(g, held, M) = Lone(f, held \ {x}, K)
  BY <1>1, <1>2 DEF Lone
<1>6. M \in SUBSET DOMAIN g
  BY <1>2
<1> HIDE DEF g, M
<1>7. Balance(g, held, n)
  BY <1>1, <1>3, <1>4, <1>5, <1>6 DEF Balance
<1> QED
  BY <1>7 DEF g

(* A row and its object that go leave no more behind than there were.      *)
LEMMA BothGo ==
    ASSUME NEW f, NEW held, NEW i \in DOMAIN f, f[i] \in held, NEW n \in Nat, Finite(f, held),
           Balance(f, held, n)
    PROVE  Balance(Without(f, i), held \ {f[i]}, n)
<1>1. PICK K \in SUBSET DOMAIN f :
        Pairs(f, held, K) /\ Cardinality(DOMAIN f \ K) + Cardinality(Lone(f, held, K)) <= n
  BY DEF Balance
<1> DEFINE g == Without(f, i)
           rest == held \ {f[i]}
<1>2. DOMAIN g = DOMAIN f \ {i} /\ \A j \in DOMAIN g : g[j] = f[j]
  BY DEF Without
<1>3. CASE i \in K
  <2> DEFINE M == K \ {i}
  <2>1. Pairs(g, rest, M) /\ M \in SUBSET DOMAIN g
    BY <1>1, <1>2, <1>3 DEF Pairs
  <2>2. DOMAIN g \ M = DOMAIN f \ K
    BY <1>2, <1>3
  <2>3. Lone(g, rest, M) = Lone(f, held, K)
    BY <1>1, <1>2, <1>3 DEF Lone, Pairs
  <2>4. Cardinality(DOMAIN g \ M) + Cardinality(Lone(g, rest, M)) <= n
    BY <1>1, <2>2, <2>3
  <2> HIDE DEF g, M, rest
  <2>5. Balance(g, rest, n)
    BY <2>1, <2>4 DEF Balance
  <2> QED
    BY <2>5 DEF g, rest
<1>4. ASSUME i \notin K, NEW j \in K, f[j] = f[i]
      PROVE  Balance(g, rest, n)
  <2> DEFINE M == K \ {j}
  <2>1. Pairs(g, rest, M) /\ M \in SUBSET DOMAIN g
    BY <1>1, <1>2, <1>4 DEF Pairs
  <2>2. DOMAIN g \ M = ((DOMAIN f \ K) \ {i}) \cup {j}
    BY <1>1, <1>2, <1>4
  <2>3. Cardinality(DOMAIN g \ M) = Cardinality(DOMAIN f \ K)
    <3>1. i \in DOMAIN f \ K /\ j \notin (DOMAIN f \ K) \ {i}
      BY <1>4
    <3>2. IsFiniteSet(DOMAIN f \ K) /\ Cardinality(DOMAIN f \ K) \in Nat
      BY LeftCounts
    <3>3. /\ IsFiniteSet((DOMAIN f \ K) \ {i})
          /\ Cardinality((DOMAIN f \ K) \ {i}) = Cardinality(DOMAIN f \ K) - 1
      BY <3>1, <3>2, FS_RemoveElement
    <3>4. Cardinality(((DOMAIN f \ K) \ {i}) \cup {j}) = (Cardinality(DOMAIN f \ K) - 1) + 1
      BY <3>1, <3>3, FS_AddElement
    <3>5. Cardinality(DOMAIN g \ M) = (Cardinality(DOMAIN f \ K) - 1) + 1
      BY <2>2, <3>4, Zenon
    <3> QED
      BY <3>2, <3>5
  <2>4. Lone(g, rest, M) = Lone(f, held, K)
    BY <1>1, <1>2, <1>4 DEF Lone, Pairs
  <2> HIDE DEF g, M, rest
  <2> QED
    BY <1>1, <2>1, <2>3, <2>4 DEF Balance
<1>5. ASSUME i \notin K, \A j \in K : f[j] # f[i]
      PROVE  Balance(g, rest, n)
  <2>1. Pairs(g, rest, K) /\ K \in SUBSET DOMAIN g
    BY <1>1, <1>2, <1>5 DEF Pairs
  <2>2. DOMAIN g \ K = (DOMAIN f \ K) \ {i} /\ Lone(g, rest, K) = Lone(f, held, K) \ {f[i]}
    BY <1>1, <1>2, <1>5 DEF Lone
  <2>3. DOMAIN g \ K \in SUBSET (DOMAIN f \ K) /\ Lone(g, rest, K) \in SUBSET Lone(f, held, K)
    BY <2>2
  <2>4. /\ IsFiniteSet(DOMAIN f \ K) /\ Cardinality(DOMAIN f \ K) \in Nat
        /\ IsFiniteSet(Lone(f, held, K)) /\ Cardinality(Lone(f, held, K)) \in Nat
    BY LeftCounts
  <2> HIDE DEF g, rest
  <2>6. /\ Cardinality(DOMAIN g \ K) \in Nat /\ Cardinality(DOMAIN g \ K) <= Cardinality(DOMAIN f \ K)
        /\ Cardinality(Lone(g, rest, K)) \in Nat
        /\ Cardinality(Lone(g, rest, K)) <= Cardinality(Lone(f, held, K))
    BY <2>3, <2>4, FS_Subset, FS_CardinalityType
  <2>5. Cardinality(DOMAIN g \ K) + Cardinality(Lone(g, rest, K)) <= n
    BY <1>1, <2>4, <2>6
  <2> HIDE DEF g, rest
  <2> QED
    BY <2>1, <2>5 DEF Balance
<1> QED
  BY <1>3, <1>4, <1>5

(* A row whose object has gone, and that stays, is one left over.          *)
LEMMA RowIsLeft ==
    ASSUME NEW f, NEW held, NEW i \in DOMAIN f, NEW n \in Nat, Finite(f, held),
           Balance(Without(f, i), held, n)
    PROVE  Balance(f, held, n + 1)
<1> DEFINE g == Without(f, i)
<1>1. PICK K \in SUBSET DOMAIN g :
        Pairs(g, held, K) /\ Cardinality(DOMAIN g \ K) + Cardinality(Lone(g, held, K)) <= n
  BY DEF Balance
<1>2. DOMAIN g = DOMAIN f \ {i} /\ \A j \in DOMAIN g : g[j] = f[j]
  BY DEF Without
<1>3. Pairs(f, held, K) /\ K \in SUBSET DOMAIN f
  BY <1>1, <1>2 DEF Pairs
<1>4. Lone(f, held, K) = Lone(g, held, K)
  BY <1>1, <1>2 DEF Lone
<1>5. DOMAIN g \ K = (DOMAIN f \ K) \ {i} /\ i \in DOMAIN f \ K
  BY <1>2
<1> HIDE DEF g
<1>6. /\ IsFiniteSet(DOMAIN f \ K) /\ Cardinality(DOMAIN f \ K) \in Nat
      /\ Cardinality(Lone(f, held, K)) \in Nat
  BY LeftCounts
<1>7. Cardinality(DOMAIN g \ K) = Cardinality(DOMAIN f \ K) - 1
  <2>1. Cardinality((DOMAIN f \ K) \ {i}) = Cardinality(DOMAIN f \ K) - 1
    BY <1>5, <1>6, FS_RemoveElement
  <2> QED
    BY <1>5, <2>1
<1>8. Cardinality(DOMAIN f \ K) + Cardinality(Lone(f, held, K)) <= n + 1
  BY <1>1, <1>4, <1>6, <1>7
<1> QED
  BY <1>3, <1>8 DEF Balance

(* Rows without an object and objects without a row are among those left.  *)
LEMMA LooseAreFew ==
    ASSUME NEW f, NEW held, NEW n \in Nat, Finite(f, held), Balance(f, held, n)
    PROVE  /\ Cardinality({i \in DOMAIN f : f[i] \notin held})
              + Cardinality({x \in held : \A i \in DOMAIN f : f[i] # x}) <= n
           /\ n = 0 => (\A i \in DOMAIN f : f[i] \in held) /\ (\A i, j \in DOMAIN f : f[i] = f[j] => i = j)
<1>1. PICK K \in SUBSET DOMAIN f :
        Pairs(f, held, K) /\ Cardinality(DOMAIN f \ K) + Cardinality(Lone(f, held, K)) <= n
  BY DEF Balance
<1> DEFINE empty == {i \in DOMAIN f : f[i] \notin held}
           bare == {x \in held : \A i \in DOMAIN f : f[i] # x}
<1>2. empty \in SUBSET (DOMAIN f \ K) /\ bare \in SUBSET Lone(f, held, K)
  BY <1>1 DEF Pairs, Lone
<1>3. /\ Cardinality(empty) \in Nat /\ Cardinality(empty) <= Cardinality(DOMAIN f \ K)
      /\ Cardinality(bare) \in Nat /\ Cardinality(bare) <= Cardinality(Lone(f, held, K))
  BY <1>2, LeftCounts, FS_Subset, FS_CardinalityType
<1>4. Cardinality(empty) + Cardinality(bare) <= n
  BY <1>1, <1>3, LeftCounts
<1>5. ASSUME n = 0
      PROVE  DOMAIN f = K
  <2>1. /\ IsFiniteSet(DOMAIN f \ K) /\ Cardinality(DOMAIN f \ K) \in Nat
        /\ Cardinality(Lone(f, held, K)) \in Nat
    BY LeftCounts
  <2>3. Cardinality(DOMAIN f \ K) = 0
    BY <1>1, <1>5, <2>1
  <2>2. DOMAIN f \ K = {}
    BY <2>1, <2>3, FS_EmptySet
  <2> QED
    BY <2>2
<1> QED
  BY <1>1, <1>4, <1>5 DEF Pairs

-----------------------------------------------------------------------------
(* Releases.  D are the clients: requests in turn are those of "c" alone.  *)

Release(n) == <<"cloudappreleases", n>>
RepoObject(n) == <<"cloudapps", n>>
Held == {n \in ReleaseNames : Release(n) \in s2}

\* The rows, s1, the objects, s2, and the counts, s4.
ReleaseTables ==
    /\ s4 \in [row : Nat, req : Nat, fault : Nat]
    /\ IsFiniteSet(DOMAIN s1)
    /\ DOMAIN s1 \subseteq 1..s4.row /\ \A i \in DOMAIN s1 : s1[i] \in ReleaseNames
    /\ s2 \subseteq {Release(n) : n \in ReleaseNames} \cup {RepoObject(n) : n \in ReleaseNames}
    /\ IsFiniteSet(Held)

\* A request knows the name of what it makes; a delete knows that of its row.
GivenNames == ReleaseNames \cup {"none"}
ReleaseRequest ==
    [op : {"none", "create", "delete", "repo"},
     at : {"done", "create", "row", "wait", "drop", "get", "object"},
     name : GivenNames, row : Nat]
AskedBy(r) ==
    /\ r \in ReleaseRequest
    /\ r.at = "create" => r.op \in {"create", "repo"}
    /\ r.at = "row" => r.op \in {"create", "delete"}
    /\ r.at \in {"wait", "drop"} => r.op = "repo"
    /\ r.at \in {"get", "object"} => r.op = "delete"
    /\ r.op \in {"create", "repo"} => r.name \in ReleaseNames
    /\ r.op = "delete" => r.row \in 1..s4.row
    /\ r.op = "delete" /\ r.at \in {"object", "row"} => r.name \in ReleaseNames
    /\ r.op = "delete" /\ r.at \in {"object", "row"} /\ r.row \in DOMAIN s1 => s1[r.row] = r.name
ReleaseRequests(D) == s3 \in [D -> ReleaseRequest] /\ \A c \in D : AskedBy(s3[c])

WillDrop(r, n) == r.op = "repo" /\ r.name = n /\ r.at \in {"wait", "drop"}
ReposGo(D) ==
    s4.fault = 0 => \A n \in ReleaseNames : RepoObject(n) \in s2 => \E c \in D : WillDrop(s3[c], n)

ReleaseInv(D) == ReleaseTables /\ ReleaseRequests(D) /\ ReposGo(D)

-----------------------------------------------------------------------------
(* What a step of one client, c, leaves of the requests of the others.     *)

Asks(c) == s3' = [s3 EXCEPT ![c] = s3'[c]]
RowsStay ==
    /\ s4'.row >= s4.row
    /\ \A i \in 1..s4.row : i \in DOMAIN s1' => i \in DOMAIN s1 /\ s1'[i] = s1[i]

LEMMA NamesAreGiven == "none" \in GivenNames /\ \A n \in ReleaseNames : n \in GivenNames
  BY DEF GivenNames

LEMMA RequestsAreKept ==
    ASSUME NEW D, NEW c \in D, ReleaseTables, ReleaseTables', ReleaseRequests(D), RowsStay, Asks(c),
           AskedBy(s3[c])'
    PROVE  ReleaseRequests(D)'
<1>1. s3' \in [D -> ReleaseRequest]
  BY DEF ReleaseRequests, Asks, AskedBy
<1>2. ASSUME NEW d \in D, d # c
      PROVE  AskedBy(s3[d])'
  <2>1. s3'[d] = s3[d] /\ AskedBy(s3[d])
    BY <1>2 DEF ReleaseRequests, Asks
  <2> QED
    BY <2>1 DEF AskedBy, RowsStay, ReleaseTables
<1> QED
  BY <1>1, <1>2 DEF ReleaseRequests

LEMMA ReposAreKept ==
    ASSUME NEW D, NEW c \in D, ReleaseRequests(D), ReposGo(D), Asks(c), s4'.fault = 0 => s4.fault = 0,
           \A n \in ReleaseNames : RepoObject(n) \in s2' =>
             WillDrop(s3'[c], n) \/ (RepoObject(n) \in s2 /\ ~WillDrop(s3[c], n))
    PROVE  ReposGo(D)'
<1> SUFFICES ASSUME s4'.fault = 0, NEW n \in ReleaseNames, RepoObject(n) \in s2', ~WillDrop(s3'[c], n)
             PROVE  \E d \in D : WillDrop(s3'[d], n)
  BY DEF ReposGo, WillDrop, RepoObject
<1>1. PICK d \in D : WillDrop(s3[d], n)
  BY DEF ReposGo
<1>2. d # c /\ s3'[d] = s3[d]
  BY <1>1 DEF Asks, ReleaseRequests
<1> QED
  BY <1>1, <1>2

-----------------------------------------------------------------------------
(* The steps.                                                              *)

USE DEF Alone!NoName, Both!NoName, Alone!NoReq, Both!NoReq, Alone!To, Both!To, Alone!Begin, Both!Begin,
        Alone!Object, Both!Object,
        Alone!Release, Both!Release, Alone!RepoObject, Both!RepoObject, Alone!Resource, Both!Resource

\* One step of a client of either part.
Begins(D, c) ==
    \/ D = {"c"} /\ (Alone!CreateAppRelease(c) \/ Alone!BeginDelete(c) \/ Alone!SaveRepo(c))
    \/ D = ReleaseClients /\ (Both!CreateAppRelease(c) \/ Both!BeginDelete(c) \/ Both!SaveRepo(c))
Creates(c) == Alone!CreateResource(c) \/ Both!CreateResource(c)
Saves(c) == Alone!SaveAppRelease(c) \/ Both!SaveAppRelease(c)
Waits(c) == Alone!WaitForCRDStatus(c) \/ Both!WaitForCRDStatus(c)
Drops(c) == Alone!DropObject(c) \/ Both!DropObject(c)
Reads(c) == Alone!GetAppRelease(c) \/ Both!GetAppRelease(c)
Deletes(c) == Alone!DeleteResource(c) \/ Both!DeleteResource(c)
Forgets(c) == Alone!DeleteAppRelease(c) \/ Both!DeleteAppRelease(c)
Fails(c) == Alone!Fail(c) \/ Both!Fail(c)

LEMMA BeginIsKept ==
    ASSUME NEW D, NEW c \in D, ReleaseInv(D), Begins(D, c)
    PROVE  ReleaseInv(D)'
<1>1. s1' = s1 /\ s2' = s2 /\ s4' = [s4 EXCEPT !.req = @ + 1] /\ s3[c].at = "done"
  BY DEF Begins, Alone!CreateAppRelease, Alone!BeginDelete, Alone!SaveRepo, Alone!Active,
     Both!CreateAppRelease, Both!BeginDelete, Both!SaveRepo, Both!Active
<1>2. /\ Asks(c)
      /\ \/ \E n \in ReleaseNames, op \in {"create", "repo"} :
              s3'[c] = [op |-> op, at |-> "create", name |-> n, row |-> 0]
         \/ \E i \in DOMAIN s1 : s3'[c] = [op |-> "delete", at |-> "get", name |-> "none", row |-> i]
  BY DEF Begins, Asks, Alone!CreateAppRelease, Alone!BeginDelete, Alone!SaveRepo,
     Both!CreateAppRelease, Both!BeginDelete, Both!SaveRepo, ReleaseInv, ReleaseRequests
<1>3. ReleaseTables'
  BY <1>1 DEF ReleaseInv, ReleaseTables, Held
<1>4. AskedBy(s3[c])'
  <2>1. ASSUME NEW n \in ReleaseNames, NEW op \in {"create", "repo"},
               s3'[c] = [op |-> op, at |-> "create", name |-> n, row |-> 0]
        PROVE  AskedBy(s3[c])'
    <3>2. n \in GivenNames
      BY NamesAreGiven
    <3>3. [op |-> op, at |-> "create", name |-> n, row |-> 0] \in ReleaseRequest
      BY <3>2 DEF ReleaseRequest
    <3>1. s3'[c] \in ReleaseRequest
      BY <2>1, <3>3
    <3> QED
      BY <2>1, <3>1 DEF AskedBy
  <2>2. ASSUME NEW i \in DOMAIN s1, s3'[c] = [op |-> "delete", at |-> "get", name |-> "none", row |-> i]
        PROVE  AskedBy(s3[c])'
    <3>1. i \in Nat /\ i \in 1..s4'.row
      BY <1>1 DEF ReleaseInv, ReleaseTables
    <3>4. [op |-> "delete", at |-> "get", name |-> "none", row |-> i] \in ReleaseRequest
      BY <3>1, NamesAreGiven DEF ReleaseRequest
    <3>2. s3'[c] \in ReleaseRequest
      BY <2>2, <3>4
    <3>5. s3'[c].op = "delete" /\ s3'[c].at = "get" /\ s3'[c].row = i
      BY <2>2
    <3> QED
      BY <3>1, <3>2, <3>5 DEF AskedBy
  <2> QED
    BY <1>2, <2>1, <2>2
<1>5. RowsStay
  BY <1>1 DEF RowsStay, ReleaseInv, ReleaseTables
<1>6. ReleaseRequests(D)'
  BY <1>2, <1>3, <1>4, <1>5, RequestsAreKept DEF ReleaseInv
<1>7. s4'.fault = s4.fault
  BY <1>1 DEF ReleaseInv, ReleaseTables
<1>8. ReposGo(D)'
  BY <1>1, <1>2, <1>7, ReposAreKept DEF ReleaseInv, WillDrop
<1> QED
  BY <1>3, <1>6, <1>8 DEF ReleaseInv

(* A request that has ended.                                               *)
Ended == [op |-> "none", at |-> "done", name |-> "none", row |-> 0]

LEMMA EndIsAsked ==
    ASSUME NEW c, s3'[c] = Ended
    PROVE  AskedBy(s3[c])'
<1>1. Ended \in ReleaseRequest /\ Ended.op = "none" /\ Ended.at = "done"
  BY NamesAreGiven DEF Ended, ReleaseRequest
<1> QED
  BY <1>1 DEF AskedBy

(* A new object is that of the request, which goes on.                     *)
LEMMA CreateIsKept ==
    ASSUME NEW D, NEW c \in D, ReleaseInv(D), Creates(c)
    PROVE  ReleaseInv(D)' /\ s1' = s1 /\ s4' = s4
<1>1. s1' = s1 /\ s4' = s4 /\ s3[c].at = "create" /\ Asks(c)
  BY DEF Creates, Alone!CreateResource, Both!CreateResource, ReleaseInv, ReleaseRequests, Asks
<1>2. s3[c] \in ReleaseRequest /\ s3[c].op \in {"create", "repo"} /\ s3[c].name \in ReleaseNames
  BY <1>1 DEF ReleaseInv, ReleaseRequests, AskedBy
<1>3. CASE s2' = s2 /\ s3'[c] = Ended
  <2>1. ReleaseTables' /\ RowsStay
    BY <1>1, <1>3 DEF ReleaseInv, ReleaseTables, Held, RowsStay
  <2>2. ReleaseRequests(D)'
    BY <1>1, <1>3, <2>1, EndIsAsked, RequestsAreKept DEF ReleaseInv
  <2>3. ReposGo(D)'
    BY <1>1, <1>3, ReposAreKept DEF ReleaseInv, WillDrop
  <2> QED
    BY <1>1, <2>1, <2>2, <2>3 DEF ReleaseInv
<1>4. ASSUME s3[c].op = "create", s2' = s2 \cup {Release(s3[c].name)}, s3'[c] = [s3[c] EXCEPT !.at = "row"]
      PROVE  ReleaseInv(D)'
  <2>0. Held' = Held \cup {s3[c].name}
    BY <1>2, <1>4 DEF Held, Release
  <2>1. ReleaseTables' /\ RowsStay
    <3>1. IsFiniteSet(Held)'
      BY <2>0, FS_AddElement DEF ReleaseInv, ReleaseTables
    <3> QED
      BY <1>1, <1>2, <1>4, <3>1 DEF ReleaseInv, ReleaseTables, RowsStay
  <2>2. s3'[c] \in ReleaseRequest /\ s3'[c].at = "row" /\ s3'[c].op = "create" /\ s3'[c].name = s3[c].name
    BY <1>2, <1>4 DEF ReleaseRequest
  <2>3. AskedBy(s3[c])'
    BY <1>2, <2>2 DEF AskedBy
  <2>4. ReleaseRequests(D)'
    BY <1>1, <2>1, <2>3, RequestsAreKept DEF ReleaseInv
  <2>5. \A n \in ReleaseNames : RepoObject(n) \in s2' => RepoObject(n) \in s2
    BY <1>4 DEF Release, RepoObject
  <2>6. ReposGo(D)'
    BY <1>1, <1>4, <2>5, ReposAreKept DEF ReleaseInv, WillDrop
  <2> QED
    BY <2>1, <2>4, <2>6 DEF ReleaseInv
<1>5. ASSUME s3[c].op = "repo", s2' = s2 \cup {RepoObject(s3[c].name)}, s3'[c] = [s3[c] EXCEPT !.at = "wait"]
      PROVE  ReleaseInv(D)'
  <2>0. Held' = Held
    BY <1>2, <1>5 DEF Held, Release, RepoObject
  <2>1. ReleaseTables' /\ RowsStay
    BY <1>1, <1>2, <1>5, <2>0 DEF ReleaseInv, ReleaseTables, RowsStay
  <2>2. s3'[c] \in ReleaseRequest /\ s3'[c].at = "wait" /\ s3'[c].op = "repo" /\ s3'[c].name = s3[c].name
    BY <1>2, <1>5 DEF ReleaseRequest
  <2>3. AskedBy(s3[c])'
    BY <1>2, <2>2 DEF AskedBy
  <2>4. ReleaseRequests(D)'
    BY <1>1, <2>1, <2>3, RequestsAreKept DEF ReleaseInv
  <2>5. \A n \in ReleaseNames : RepoObject(n) \in s2' => RepoObject(n) \in s2 \/ n = s3[c].name
    BY <1>5 DEF RepoObject
  <2>6. ReposGo(D)'
    BY <1>1, <2>2, <2>5, ReposAreKept DEF ReleaseInv, WillDrop
  <2> QED
    BY <2>1, <2>4, <2>6 DEF ReleaseInv
<1>6. \/ s2' = s2 /\ s3'[c] = Ended
      \/ /\ s3[c].op = "create" /\ s2' = s2 \cup {Release(s3[c].name)}
         /\ s3'[c] = [s3[c] EXCEPT !.at = "row"]
      \/ /\ s3[c].op = "repo" /\ s2' = s2 \cup {RepoObject(s3[c].name)}
         /\ s3'[c] = [s3[c] EXCEPT !.at = "wait"]
  BY <1>2 DEF Creates, Alone!CreateResource, Both!CreateResource, ReleaseInv, ReleaseRequests, Ended,
     Release, RepoObject
<1> QED
  BY <1>1, <1>3, <1>4, <1>5, <1>6

(* The row of a new release has an id of its own.                          *)
LEMMA SaveIsKept ==
    ASSUME NEW D, NEW c \in D, ReleaseInv(D), Saves(c)
    PROVE  ReleaseInv(D)'
<1>1. /\ s2' = s2 /\ s3[c].at = "row" /\ s3[c].op = "create" /\ Asks(c) /\ s3'[c] = Ended
      /\ s1' = With(s1, s4.row + 1, s3[c].name) /\ s4' = [s4 EXCEPT !.row = s4.row + 1]
  BY DEF Saves, Alone!SaveAppRelease, Both!SaveAppRelease, ReleaseInv, ReleaseRequests, Asks, Ended, With
<1>2. s3[c].name \in ReleaseNames /\ s4.row \in Nat
  BY <1>1 DEF ReleaseInv, ReleaseRequests, AskedBy, ReleaseTables
<1>3. s4'.row = s4.row + 1 /\ s4'.fault = s4.fault
  BY <1>1 DEF ReleaseInv, ReleaseTables
<1>4. DOMAIN s1' = DOMAIN s1 \cup {s4.row + 1}
  BY <1>1 DEF With
<1>5. ReleaseTables'
  <2>1. IsFiniteSet(DOMAIN s1')
    BY <1>4, FS_AddElement DEF ReleaseInv, ReleaseTables
  <2>2. IsFiniteSet(Held)'
    BY <1>1 DEF ReleaseInv, ReleaseTables, Held
  <2>3. \A i \in DOMAIN s1' : s1'[i] \in ReleaseNames
    BY <1>1, <1>2, <1>4 DEF ReleaseInv, ReleaseTables, With
  <2>4. s4' \in [row : Nat, req : Nat, fault : Nat]
    BY <1>1, <1>2 DEF ReleaseInv, ReleaseTables
  <2>5. DOMAIN s1' \subseteq 1..s4'.row
    BY <1>2, <1>3, <1>4 DEF ReleaseInv, ReleaseTables
  <2> QED
    BY <1>1, <2>1, <2>2, <2>3, <2>4, <2>5 DEF ReleaseInv, ReleaseTables
<1>6. RowsStay
  <2>1. \A i \in 1..s4.row : i # s4.row + 1
    BY <1>2
  <2> QED
    BY <1>1, <1>2, <1>3, <2>1 DEF RowsStay, With
<1>7. ReleaseRequests(D)'
  BY <1>1, <1>5, <1>6, EndIsAsked, RequestsAreKept DEF ReleaseInv
<1>8. ReposGo(D)'
  BY <1>1, <1>3, ReposAreKept DEF ReleaseInv, WillDrop
<1> QED
  BY <1>5, <1>7, <1>8 DEF ReleaseInv

(* The wait for the object of a repository, and its end.                   *)
LEMMA WaitIsKept ==
    ASSUME NEW D, NEW c \in D, ReleaseInv(D), Waits(c)
    PROVE  ReleaseInv(D)' /\ s1' = s1 /\ s2' = s2 /\ s4' = s4
<1>1. /\ s1' = s1 /\ s2' = s2 /\ s4' = s4 /\ s3[c].at = "wait" /\ Asks(c)
      /\ s3'[c] = [s3[c] EXCEPT !.at = "drop"]
  BY DEF Waits, Alone!WaitForCRDStatus, Both!WaitForCRDStatus, ReleaseInv, ReleaseRequests, Asks
<1>2. s3[c] \in ReleaseRequest /\ s3[c].op = "repo" /\ s3[c].name \in ReleaseNames
  BY <1>1 DEF ReleaseInv, ReleaseRequests, AskedBy
<1>3. ReleaseTables' /\ RowsStay
  BY <1>1 DEF ReleaseInv, ReleaseTables, Held, RowsStay
<1>4. s3'[c] \in ReleaseRequest /\ s3'[c].at = "drop" /\ s3'[c].op = "repo" /\ s3'[c].name = s3[c].name
  BY <1>1, <1>2 DEF ReleaseRequest
<1>5. AskedBy(s3[c])'
  BY <1>2, <1>4 DEF AskedBy
<1>6. ReleaseRequests(D)'
  BY <1>1, <1>3, <1>5, RequestsAreKept DEF ReleaseInv
<1>7. ReposGo(D)'
  BY <1>1, <1>2, <1>4, ReposAreKept DEF ReleaseInv, WillDrop
<1> QED
  BY <1>1, <1>3, <1>6, <1>7 DEF ReleaseInv

LEMMA DropIsKept ==
    ASSUME NEW D, NEW c \in D, ReleaseInv(D), Drops(c)
    PROVE  ReleaseInv(D)' /\ s1' = s1 /\ s4' = s4 /\ Held' = Held
<1>1. s1' = s1 /\ s4' = s4 /\ s3[c].at = "drop" /\ Asks(c) /\ s3'[c] = Ended
  BY DEF Drops, Alone!DropObject, Both!DropObject, ReleaseInv, ReleaseRequests, Asks, Ended
<1>2. s3[c].op = "repo" /\ s3[c].name \in ReleaseNames
  BY <1>1 DEF ReleaseInv, ReleaseRequests, AskedBy
<1>3. s2' = s2 \ {RepoObject(s3[c].name)}
  BY <1>2 DEF Drops, Alone!DropObject, Both!DropObject, RepoObject
<1>4. Held' = Held
  BY <1>3 DEF Held, Release, RepoObject
<1>5. ReleaseTables' /\ RowsStay
  BY <1>1, <1>3, <1>4 DEF ReleaseInv, ReleaseTables, RowsStay
<1>6. ReleaseRequests(D)'
  BY <1>1, <1>5, EndIsAsked, RequestsAreKept DEF ReleaseInv
<1>7. ReposGo(D)'
  BY <1>1, <1>3, ReposAreKept DEF ReleaseInv, WillDrop
<1> QED
  BY <1>1, <1>4, <1>5, <1>6, <1>7 DEF ReleaseInv

(* A delete takes the name of its row, then the object, then the row.      *)
LEMMA ReadIsKept ==
    ASSUME NEW D, NEW c \in D, ReleaseInv(D), Reads(c)
    PROVE  ReleaseInv(D)' /\ s1' = s1 /\ s2' = s2 /\ s4' = s4
<1>1. /\ s1' = s1 /\ s2' = s2 /\ s4' = s4 /\ s3[c].at = "get" /\ Asks(c)
      /\ \/ s3'[c] = Ended
         \/ s3[c].row \in DOMAIN s1 /\ s3'[c] = [s3[c] EXCEPT !.at = "object", !.name = s1[s3[c].row]]
  BY DEF Reads, Alone!GetAppRelease, Both!GetAppRelease, ReleaseInv, ReleaseRequests, Asks, Ended
<1>2. s3[c] \in ReleaseRequest /\ s3[c].op = "delete" /\ s3[c].row \in 1..s4.row
  BY <1>1 DEF ReleaseInv, ReleaseRequests, AskedBy
<1>3. ReleaseTables' /\ RowsStay
  BY <1>1 DEF ReleaseInv, ReleaseTables, Held, RowsStay
<1>4. AskedBy(s3[c])'
  <2>1. CASE s3'[c] = Ended
    BY <2>1, EndIsAsked
  <2>2. ASSUME s3[c].row \in DOMAIN s1, s3'[c] = [s3[c] EXCEPT !.at = "object", !.name = s1[s3[c].row]]
        PROVE  AskedBy(s3[c])'
    <3>1. s1[s3[c].row] \in ReleaseNames /\ s1[s3[c].row] \in GivenNames
      BY <2>2, NamesAreGiven DEF ReleaseInv, ReleaseTables
    <3>2. /\ s3'[c] \in ReleaseRequest /\ s3'[c].op = "delete" /\ s3'[c].at = "object"
          /\ s3'[c].row = s3[c].row /\ s3'[c].name = s1[s3[c].row]
      BY <1>2, <2>2, <3>1 DEF ReleaseRequest
    <3> QED
      BY <1>1, <1>2, <3>1, <3>2 DEF AskedBy
  <2> QED
    BY <1>1, <2>1, <2>2
<1>5. ReleaseRequests(D)'
  BY <1>1, <1>3, <1>4, RequestsAreKept DEF ReleaseInv
<1>6. ReposGo(D)'
  BY <1>1, <1>2, ReposAreKept DEF ReleaseInv, WillDrop
<1> QED
  BY <1>1, <1>3, <1>5, <1>6 DEF ReleaseInv

LEMMA DeleteIsKept ==
    ASSUME NEW D, NEW c \in D, ReleaseInv(D), Deletes(c)
    PROVE  ReleaseInv(D)' /\ s1' = s1 /\ s4' = s4
<1>1. /\ s1' = s1 /\ s4' = s4 /\ s3[c].at = "object" /\ Asks(c)
      /\ \/ s2' = s2 /\ s3'[c] = Ended
         \/ s2' = s2 \ {Alone!Object(c)} /\ s3'[c] = [s3[c] EXCEPT !.at = "row"]
  BY DEF Deletes, Alone!DeleteResource, Both!DeleteResource, ReleaseInv, ReleaseRequests, Asks, Ended
<1>2. /\ s3[c] \in ReleaseRequest /\ s3[c].op = "delete" /\ s3[c].row \in 1..s4.row
      /\ s3[c].name \in ReleaseNames /\ (s3[c].row \in DOMAIN s1 => s1[s3[c].row] = s3[c].name)
  BY <1>1 DEF ReleaseInv, ReleaseRequests, AskedBy
<1>3. s2' \subseteq s2 /\ Held' \in SUBSET Held
  BY <1>1 DEF Held
<1>4. ReleaseTables' /\ RowsStay
  <2>1. IsFiniteSet(Held)'
    BY <1>3, FS_Subset DEF ReleaseInv, ReleaseTables
  <2> QED
    BY <1>1, <1>3, <2>1 DEF ReleaseInv, ReleaseTables, RowsStay
<1>5. AskedBy(s3[c])'
  <2>1. CASE s3'[c] = Ended
    BY <2>1, EndIsAsked
  <2>2. CASE s3'[c] = [s3[c] EXCEPT !.at = "row"]
    <3>1. /\ s3'[c] \in ReleaseRequest /\ s3'[c].op = "delete" /\ s3'[c].at = "row"
          /\ s3'[c].row = s3[c].row /\ s3'[c].name = s3[c].name
      BY <1>2, <2>2 DEF ReleaseRequest
    <3> QED
      BY <1>1, <1>2, <3>1 DEF AskedBy
  <2> QED
    BY <1>1, <2>1, <2>2
<1>6. ReleaseRequests(D)'
  BY <1>1, <1>4, <1>5, RequestsAreKept DEF ReleaseInv
<1>7. ReposGo(D)'
  BY <1>1, <1>2, <1>3, ReposAreKept DEF ReleaseInv, WillDrop
<1> QED
  BY <1>1, <1>4, <1>6, <1>7 DEF ReleaseInv

LEMMA ForgetIsKept ==
    ASSUME NEW D, NEW c \in D, ReleaseInv(D), Forgets(c)
    PROVE  ReleaseInv(D)'
<1>1. /\ s2' = s2 /\ s4' = s4 /\ s3[c].at = "row" /\ s3[c].op = "delete" /\ Asks(c) /\ s3'[c] = Ended
      /\ s1' = Without(s1, s3[c].row)
  BY DEF Forgets, Alone!DeleteAppRelease, Both!DeleteAppRelease, ReleaseInv, ReleaseRequests, Asks, Ended, Without
<1>2. DOMAIN s1' = DOMAIN s1 \ {s3[c].row} /\ \A i \in DOMAIN s1' : s1'[i] = s1[i]
  BY <1>1 DEF Without
<1>3. ReleaseTables' /\ RowsStay
  <2>1. IsFiniteSet(DOMAIN s1')
    BY <1>2, FS_RemoveElement DEF ReleaseInv, ReleaseTables
  <2> QED
    BY <1>1, <1>2, <2>1 DEF ReleaseInv, ReleaseTables, Held, RowsStay
<1>4. ReleaseRequests(D)'
  BY <1>1, <1>3, EndIsAsked, RequestsAreKept DEF ReleaseInv
<1>5. ReposGo(D)'
  BY <1>1, ReposAreKept DEF ReleaseInv, WillDrop
<1> QED
  BY <1>3, <1>4, <1>5 DEF ReleaseInv

LEMMA FailIsKept ==
    ASSUME NEW D, NEW c \in D, ReleaseInv(D), Fails(c)
    PROVE  /\ ReleaseInv(D)' /\ s1' = s1 /\ s2' = s2 /\ s4'.fault = s4.fault + 1 /\ s4'.fault \in Nat \ {0}
           /\ s3'[c] = Ended /\ Asks(c)
<1>1. s1' = s1 /\ s2' = s2 /\ s4' = [s4 EXCEPT !.fault = s4.fault + 1] /\ Asks(c) /\ s3'[c] = Ended
  BY DEF Fails, Alone!Fail, Both!Fail, ReleaseInv, ReleaseRequests, Asks, Ended
<1>2. s4'.fault = s4.fault + 1 /\ s4.fault \in Nat /\ s4'.row = s4.row /\ s4'.fault \in Nat \ {0}
  BY <1>1 DEF ReleaseInv, ReleaseTables
<1>3. ReleaseTables'
  BY <1>1, <1>2 DEF ReleaseInv, ReleaseTables, Held
<1>4. RowsStay
  BY <1>1, <1>2 DEF ReleaseInv, ReleaseTables, RowsStay
<1>5. ReleaseRequests(D)'
  BY <1>1, <1>3, <1>4, EndIsAsked, RequestsAreKept DEF ReleaseInv
<1>6. ReposGo(D)'
  BY <1>2 DEF ReposGo
<1> QED
  BY <1>1, <1>2, <1>3, <1>5, <1>6 DEF ReleaseInv

-----------------------------------------------------------------------------
(* Requests in turn: rows and objects balance, but for the request of "c": *)
(* an object it has made, or a row whose object it has removed.            *)

Paired ==
    LET r == s3["c"] IN
    /\ r.at \in {"done", "create", "wait", "drop", "get", "object"} => Balance(s1, Held, s4.fault)
    /\ r.at = "object" => r.row \in DOMAIN s1
    /\ r.at = "row" /\ r.op = "create" => r.name \in Held /\ Balance(s1, Held \ {r.name}, s4.fault)
    /\ r.at = "row" /\ r.op = "delete" => r.row \in DOMAIN s1 /\ Balance(Without(s1, r.row), Held, s4.fault)

InTurnInv == ReleaseInv({"c"}) /\ Paired

LEMMA TurnIsTyped ==
    ASSUME InTurnInv
    PROVE  /\ Finite(s1, Held) /\ s4.fault \in Nat /\ AskedBy(s3["c"]) /\ s3["c"] \in ReleaseRequest
           /\ DOMAIN s3 = {"c"}
  BY DEF InTurnInv, ReleaseInv, ReleaseTables, ReleaseRequests, Finite

(* Steps that change neither rows nor releases.                            *)
LEMMA QuietStepPairs ==
    ASSUME InTurnInv, UNCHANGED <<s1, s4>>, Held' = Held,
           s3["c"].at \in {"done", "create", "wait", "drop", "get", "object"},
           s3'["c"].at \in {"done", "create", "wait", "drop", "get", "object"},
           s3'["c"].at = "object" => s3'["c"].row \in DOMAIN s1
    PROVE  Paired'
  BY DEF InTurnInv, Paired

LEMMA InTurnStep ==
    ASSUME InTurnInv, Alone!Next
    PROVE  InTurnInv'
<1> DEFINE r == s3["c"]
<1>0. Finite(s1, Held) /\ s4.fault \in Nat /\ AskedBy(r) /\ r \in ReleaseRequest /\ DOMAIN s3 = {"c"}
  BY TurnIsTyped
<1>1. CASE Begins({"c"}, "c")
  <2>1. /\ s1' = s1 /\ s2' = s2 /\ s4' = [s4 EXCEPT !.req = @ + 1] /\ r.at = "done"
        /\ s3'["c"].at \in {"create", "get"}
    BY <1>0, <1>1 DEF Begins, Alone!CreateAppRelease, Alone!BeginDelete, Alone!SaveRepo, Alone!Active,
       Both!CreateAppRelease, Both!BeginDelete, Both!SaveRepo, Both!Active
  <2>2. ReleaseInv({"c"})'
    BY <1>1, BeginIsKept DEF InTurnInv
  <2>3. s4'.fault = s4.fault /\ Held' = Held
    BY <2>1 DEF Held, InTurnInv, ReleaseInv, ReleaseTables
  <2> QED
    BY <2>1, <2>2, <2>3 DEF InTurnInv, Paired
<1>2. CASE Creates("c")
  <2>1. ReleaseInv({"c"})' /\ s1' = s1 /\ s4' = s4
    BY <1>2, CreateIsKept DEF InTurnInv
  <2>2. r.at = "create" /\ r.op \in {"create", "repo"} /\ r.name \in ReleaseNames
    BY <1>0, <1>2 DEF Creates, Alone!CreateResource, Both!CreateResource, AskedBy
  <2>3. \/ Held' = Held /\ s3'["c"].at \in {"done", "wait"}
        \/ /\ Held' = Held \cup {r.name} /\ r.name \notin Held
           /\ s3'["c"].at = "row" /\ s3'["c"].op = "create" /\ s3'["c"].name = r.name
    <3>1. CASE r.op = "repo"
      <4>1. Held' = Held
        BY <1>2, <3>1 DEF Creates, Alone!CreateResource, Both!CreateResource, Held, Release
      <4>2. s3'["c"].at \in {"done", "wait"}
        BY <1>0, <1>2, <3>1 DEF Creates, Alone!CreateResource, Both!CreateResource, ReleaseRequest
      <4> QED
        BY <4>1, <4>2
    <3>2. CASE r.op = "create"
      <4>1. CASE Release(r.name) \in s2
        <5>1. Held' = Held
          BY <1>2, <3>2, <4>1 DEF Creates, Alone!CreateResource, Both!CreateResource, Held, Release
        <5>2. s3'["c"].at = "done"
          BY <1>0, <1>2, <3>2, <4>1 DEF Creates, Alone!CreateResource, Both!CreateResource, Release
        <5> QED
          BY <5>1, <5>2
      <4>2. CASE Release(r.name) \notin s2
        <5>1. s2' = s2 \cup {Release(r.name)}
          BY <1>2, <3>2, <4>2 DEF Creates, Alone!CreateResource, Both!CreateResource, Release
        <5>2. Held' = Held \cup {r.name} /\ r.name \notin Held
          BY <2>2, <4>2, <5>1 DEF Held, Release
        <5>3. s3'["c"] = [r EXCEPT !.at = "row"]
          BY <1>0, <1>2, <3>2, <4>2 DEF Creates, Alone!CreateResource, Both!CreateResource, Release
        <5> QED
          BY <1>0, <3>2, <5>2, <5>3 DEF ReleaseRequest
      <4> QED
        BY <4>1, <4>2
    <3> QED
      BY <2>2, <3>1, <3>2
  <2>4. CASE Held' = Held /\ s3'["c"].at \in {"done", "wait"}
    BY <2>1, <2>2, <2>4, QuietStepPairs DEF InTurnInv
  <2>5. CASE /\ Held' = Held \cup {r.name} /\ r.name \notin Held
             /\ s3'["c"].at = "row" /\ s3'["c"].op = "create" /\ s3'["c"].name = r.name
    <3>1. Held' \ {r.name} = Held
      BY <2>5
    <3> QED
      BY <2>1, <2>2, <2>5, <3>1 DEF InTurnInv, Paired
  <2> QED
    BY <2>3, <2>4, <2>5
<1>3. CASE Saves("c")
  <2>1. ReleaseInv({"c"})'
    BY <1>3, SaveIsKept DEF InTurnInv
  <2>2. /\ s2' = s2 /\ r.at = "row" /\ r.op = "create" /\ s3'["c"].at = "done"
        /\ s1' = With(s1, s4.row + 1, r.name) /\ s4' = [s4 EXCEPT !.row = s4.row + 1]
    BY <1>0, <1>3 DEF Saves, Alone!SaveAppRelease, Both!SaveAppRelease, With
  <2>3. s4'.fault = s4.fault /\ s4.row + 1 \notin DOMAIN s1 /\ Held' = Held
    BY <2>2 DEF InTurnInv, ReleaseInv, ReleaseTables, Held
  <2>4. r.name \in Held /\ Balance(s1, Held \ {r.name}, s4.fault)
    BY <2>2 DEF InTurnInv, Paired
  <2>5. Balance(s1', Held', s4'.fault)
    BY <1>0, <2>2, <2>3, <2>4, RowIsAdded
  <2> QED
    BY <2>1, <2>2, <2>5 DEF InTurnInv, Paired
<1>4. CASE Waits("c")
  <2>1. ReleaseInv({"c"})' /\ s1' = s1 /\ s2' = s2 /\ s4' = s4
    BY <1>4, WaitIsKept DEF InTurnInv
  <2>2. Held' = Held /\ r.at = "wait" /\ s3'["c"].at = "drop"
    BY <1>0, <1>4, <2>1 DEF Waits, Alone!WaitForCRDStatus, Both!WaitForCRDStatus, Held, ReleaseRequest
  <2> QED
    BY <2>1, <2>2, QuietStepPairs DEF InTurnInv
<1>5. CASE Drops("c")
  <2>1. ReleaseInv({"c"})' /\ s1' = s1 /\ s4' = s4 /\ Held' = Held
    BY <1>5, DropIsKept DEF InTurnInv
  <2>2. r.at = "drop" /\ s3'["c"].at = "done"
    BY <1>0, <1>5 DEF Drops, Alone!DropObject, Both!DropObject
  <2> QED
    BY <2>1, <2>2, QuietStepPairs DEF InTurnInv
<1>6. CASE Reads("c")
  <2>1. ReleaseInv({"c"})' /\ s1' = s1 /\ s2' = s2 /\ s4' = s4
    BY <1>6, ReadIsKept DEF InTurnInv
  <2>2. Held' = Held /\ r.at = "get"
    BY <1>6, <2>1 DEF Reads, Alone!GetAppRelease, Both!GetAppRelease, Held
  <2>3. \/ s3'["c"].at = "done"
        \/ s3'["c"].at = "object" /\ s3'["c"].row = r.row /\ r.row \in DOMAIN s1
    BY <1>0, <1>6 DEF Reads, Alone!GetAppRelease, Both!GetAppRelease, ReleaseRequest
  <2> QED
    BY <2>1, <2>2, <2>3, QuietStepPairs DEF InTurnInv
<1>7. CASE Deletes("c")
  <2>1. ReleaseInv({"c"})' /\ s1' = s1 /\ s4' = s4
    BY <1>7, DeleteIsKept DEF InTurnInv
  <2>2. r.at = "object" /\ r.op = "delete" /\ r.row \in DOMAIN s1 /\ s1[r.row] = r.name /\ r.name \in ReleaseNames
    BY <1>0, <1>7 DEF Deletes, Alone!DeleteResource, Both!DeleteResource, AskedBy, InTurnInv, Paired
  <2>3. CASE Release(r.name) \notin s2
    <3>1. s2' = s2 /\ s3'["c"].at = "done"
      BY <1>0, <1>7, <2>2, <2>3 DEF Deletes, Alone!DeleteResource, Both!DeleteResource, Release
    <3>2. Held' = Held
      BY <3>1 DEF Held
    <3> QED
      BY <2>1, <2>2, <3>1, <3>2, QuietStepPairs DEF InTurnInv
  <2>4. CASE Release(r.name) \in s2
    <3>1. s2' = s2 \ {Release(r.name)} /\ s3'["c"] = [r EXCEPT !.at = "row"]
      BY <1>0, <1>7, <2>2, <2>4 DEF Deletes, Alone!DeleteResource, Both!DeleteResource, Release
    <3>2. Held' = Held \ {s1[r.row]} /\ s1[r.row] \in Held
      BY <2>2, <2>4, <3>1 DEF Held, Release
    <3>3. Balance(Without(s1, r.row), Held \ {s1[r.row]}, s4.fault)
      BY <1>0, <2>2, <3>2, BothGo DEF InTurnInv, Paired
    <3>4. s3'["c"].at = "row" /\ s3'["c"].op = "delete" /\ s3'["c"].row = r.row
      BY <1>0, <2>2, <3>1 DEF ReleaseRequest
    <3> QED
      BY <2>1, <2>2, <3>2, <3>3, <3>4 DEF InTurnInv, Paired
  <2> QED
    BY <2>3, <2>4
<1>8. CASE Forgets("c")
  <2>1. ReleaseInv({"c"})'
    BY <1>8, ForgetIsKept DEF InTurnInv
  <2>2. /\ s2' = s2 /\ s4' = s4 /\ r.at = "row" /\ r.op = "delete" /\ s3'["c"].at = "done"
        /\ s1' = Without(s1, r.row)
    BY <1>0, <1>8 DEF Forgets, Alone!DeleteAppRelease, Both!DeleteAppRelease, Without
  <2>3. Held' = Held
    BY <2>2 DEF Held
  <2> QED
    BY <2>1, <2>2, <2>3 DEF InTurnInv, Paired
<1>9. CASE Fails("c")
  <2>1. ReleaseInv({"c"})' /\ s1' = s1 /\ s2' = s2 /\ s4'.fault = s4.fault + 1 /\ s3'["c"] = Ended
    BY <1>9, FailIsKept DEF InTurnInv
  <2>2. Held' = Held /\ s3'["c"].at = "done"
    BY <2>1 DEF Held, Ended
  <2>3. CASE r.at \in {"done", "create", "wait", "drop", "get", "object"}
    <3>1. Balance(s1, Held, s4.fault + 1)
      BY <1>0, <2>3, BalanceGrows DEF InTurnInv, Paired
    <3> QED
      BY <2>1, <2>2, <3>1 DEF InTurnInv, Paired
  <2>4. CASE r.at = "row" /\ r.op = "create"
    <3>1. Balance(s1, Held, s4.fault + 1)
      BY <1>0, <2>4, ObjectIsLeft DEF InTurnInv, Paired
    <3> QED
      BY <2>1, <2>2, <3>1 DEF InTurnInv, Paired
  <2>5. CASE r.at = "row" /\ r.op = "delete"
    <3>1. Balance(s1, Held, s4.fault + 1)
      BY <1>0, <2>5, RowIsLeft DEF InTurnInv, Paired
    <3> QED
      BY <2>1, <2>2, <3>1 DEF InTurnInv, Paired
  <2> QED
    BY <1>0, <2>3, <2>4, <2>5 DEF AskedBy, ReleaseRequest
<1> QED
  BY <1>1, <1>2, <1>3, <1>4, <1>5, <1>6, <1>7, <1>8, <1>9 DEF Alone!Next, Begins, Creates, Saves, Waits,
     Drops, Reads, Deletes, Forgets, Fails

LEMMA InTurnStarts == Alone!Init => InTurnInv
<1> SUFFICES ASSUME Alone!Init
             PROVE  InTurnInv
  OBVIOUS
<1>1. /\ s2 = {} /\ s3 = [c \in {"c"} |-> Ended] /\ s4 = [row |-> 0, req |-> 0, fault |-> 0]
      /\ DOMAIN s1 = {}
  BY DEF Alone!Init, Ended
<1>2. Held = {}
  BY <1>1 DEF Held
<1>3. ReleaseTables
  BY <1>1, <1>2, FS_EmptySet DEF ReleaseTables
<1>4. ReleaseRequests({"c"})
  <2>1. Ended \in ReleaseRequest /\ Ended.op = "none" /\ Ended.at = "done"
    BY NamesAreGiven DEF Ended, ReleaseRequest
  <2> QED
    BY <1>1, <2>1 DEF ReleaseRequests, AskedBy
<1>5. ReposGo({"c"})
  BY <1>1 DEF ReposGo
<1>6. s3["c"].at = "done" /\ s4.fault = 0
  BY <1>1 DEF Ended
<1>7. Balance(s1, Held, s4.fault)
  BY <1>1, <1>2, <1>6, EmptyBalance
<1> QED
  BY <1>3, <1>4, <1>5, <1>6, <1>7 DEF InTurnInv, ReleaseInv, Paired

(* The parts count as the library does.                                    *)
LEMMA AloneCounts == ASSUME NEW S PROVE Alone!Cardinality(S) = Cardinality(S)
  BY DEF Alone!Cardinality, Alone!IsFiniteSet, Cardinality, IsFiniteSet

LEMMA InTurnIsRight ==
    ASSUME InTurnInv
    PROVE  Alone!TypeOK /\ Alone!RowsHaveObjects /\ Alone!OneLoosePerFault /\ Alone!RepoObjectsGo
<1>0. Finite(s1, Held) /\ s4.fault \in Nat /\ AskedBy(s3["c"]) /\ s3["c"] \in ReleaseRequest /\ DOMAIN s3 = {"c"}
  BY TurnIsTyped
<1>1. Alone!TypeOK
  BY DEF InTurnInv, ReleaseInv, ReleaseTables, Alone!TypeOK, Release, RepoObject
<1>2. \A i \in DOMAIN s1 : Release(s1[i]) \in s2 <=> s1[i] \in Held
  BY DEF InTurnInv, ReleaseInv, ReleaseTables, Held
<1>3. ASSUME Alone!Active = {}
      PROVE  Balance(s1, Held, s4.fault)
  BY <1>0, <1>3 DEF Alone!Active, InTurnInv, Paired
<1>4. Alone!RowsHaveObjects
  <2> SUFFICES ASSUME Alone!Active = {}, s4.fault = 0
               PROVE  /\ \A i \in DOMAIN s1 : Release(s1[i]) \in s2
                      /\ \A i, j \in DOMAIN s1 : s1[i] = s1[j] => i = j
    BY DEF Alone!RowsHaveObjects, Release
  <2> QED
    BY <1>0, <1>2, <1>3, LooseAreFew
<1>5. Alone!OneLoosePerFault
  <2> SUFFICES ASSUME Alone!Active = {}
               PROVE  Cardinality({i \in DOMAIN s1 : Release(s1[i]) \notin s2})
                      + Cardinality({n \in ReleaseNames : Release(n) \in s2 /\ \A i \in DOMAIN s1 : s1[i] # n})
                      <= s4.fault
    BY AloneCounts DEF Alone!OneLoosePerFault, Release
  <2>1. {i \in DOMAIN s1 : Release(s1[i]) \notin s2} = {i \in DOMAIN s1 : s1[i] \notin Held}
    BY <1>2
  <2>2. {n \in ReleaseNames : Release(n) \in s2 /\ \A i \in DOMAIN s1 : s1[i] # n}
        = {n \in Held : \A i \in DOMAIN s1 : s1[i] # n}
    BY DEF Held
  <2>3. Cardinality({i \in DOMAIN s1 : s1[i] \notin Held})
        + Cardinality({n \in Held : \A i \in DOMAIN s1 : s1[i] # n}) <= s4.fault
    BY <1>0, <1>3, LooseAreFew
  <2> QED
    BY <2>1, <2>2, <2>3, Zenon
<1>6. Alone!RepoObjectsGo
  BY DEF InTurnInv, ReleaseInv, ReposGo, WillDrop, RepoObject, Alone!RepoObjectsGo, Alone!Active
<1> QED
  BY <1>1, <1>4, <1>5, <1>6

-----------------------------------------------------------------------------
(* Requests at once: an object of a release has a row that no delete is    *)
(* about to remove, or a create that is about to write it.                 *)

WillSave(r, n) == r.op = "create" /\ r.at = "row" /\ r.name = n
WillRemove(r, i) == r.op = "delete" /\ r.at = "row" /\ r.row = i
HasRow(n) ==
    \/ \E i \in DOMAIN s1 : s1[i] = n /\ \A c \in ReleaseClients : ~WillRemove(s3[c], i)
    \/ \E c \in ReleaseClients : WillSave(s3[c], n)
ObjectsAreNamed == s4.fault = 0 => \A n \in Held : HasRow(n)

AtOnceInv == ReleaseInv(ReleaseClients) /\ ObjectsAreNamed

LEMMA RowIsKept ==
    ASSUME NEW c \in ReleaseClients, ReleaseRequests(ReleaseClients), Asks(c), NEW n, HasRow(n), ~WillSave(s3[c], n),
           \A i \in DOMAIN s1 : s1[i] = n /\ ~WillRemove(s3[c], i) =>
             i \in DOMAIN s1' /\ s1'[i] = n /\ ~WillRemove(s3'[c], i)
    PROVE  HasRow(n)'
<1>1. \A d \in ReleaseClients : d # c => s3'[d] = s3[d]
  BY DEF Asks, ReleaseRequests
<1>2. ASSUME NEW i \in DOMAIN s1, s1[i] = n, \A d \in ReleaseClients : ~WillRemove(s3[d], i)
      PROVE  HasRow(n)'
  <2>1. i \in DOMAIN s1' /\ s1'[i] = n /\ ~WillRemove(s3'[c], i)
    BY <1>2
  <2>2. \A d \in ReleaseClients : ~WillRemove(s3'[d], i)
    BY <1>1, <1>2, <2>1
  <2> QED
    BY <2>1, <2>2 DEF HasRow, WillRemove
<1>3. ASSUME NEW d \in ReleaseClients, WillSave(s3[d], n)
      PROVE  HasRow(n)'
  <2>1. s3'[d] = s3[d]
    BY <1>1, <1>3
  <2> QED
    BY <1>3, <2>1 DEF HasRow, WillSave
<1> QED
  BY <1>2, <1>3 DEF HasRow

LEMMA AtOnceStep ==
    ASSUME AtOnceInv, Both!Next
    PROVE  AtOnceInv'
<1> DEFINE D == ReleaseClients
<1>1. PICK c \in D :
        \/ Begins(D, c) \/ Creates(c) \/ Saves(c) \/ Waits(c) \/ Drops(c)
        \/ Reads(c) \/ Deletes(c) \/ Forgets(c) \/ Fails(c)
  BY DEF Both!Next, Begins, Creates, Saves, Waits, Drops, Reads, Deletes, Forgets, Fails
<1> DEFINE r == s3[c]
<1>2. AskedBy(r) /\ r \in ReleaseRequest /\ DOMAIN s3 = D /\ ReleaseRequests(D) /\ s3'[c] = s3[c]'
  BY DEF AtOnceInv, ReleaseInv, ReleaseRequests
<1>3. CASE Begins(D, c)
  <2>1. /\ s1' = s1 /\ s2' = s2 /\ s4' = [s4 EXCEPT !.req = @ + 1] /\ r.at = "done"
        /\ s3'[c].at \in {"create", "get"} /\ Asks(c)
    BY <1>2, <1>3 DEF Begins, Asks, Alone!CreateAppRelease, Alone!BeginDelete, Alone!SaveRepo, Alone!Active,
       Both!CreateAppRelease, Both!BeginDelete, Both!SaveRepo, Both!Active
  <2>2. ReleaseInv(D)'
    BY <1>3, BeginIsKept DEF AtOnceInv
  <2>3. s4'.fault = s4.fault /\ Held' = Held
    BY <2>1 DEF Held, AtOnceInv, ReleaseInv, ReleaseTables
  <2>4. ASSUME NEW n, HasRow(n)
        PROVE  HasRow(n)'
    BY <1>2, <2>1, <2>4, RowIsKept DEF WillSave, WillRemove
  <2> QED
    BY <2>2, <2>3, <2>4 DEF AtOnceInv, ObjectsAreNamed
<1>4. CASE Creates(c)
  <2>1. ReleaseInv(D)' /\ s1' = s1 /\ s4' = s4
    BY <1>4, CreateIsKept DEF AtOnceInv
  <2>2. Asks(c) /\ r.at = "create" /\ r.op \in {"create", "repo"}
    BY <1>2, <1>4 DEF Creates, Alone!CreateResource, Both!CreateResource, AskedBy, Asks
  <2>3. s3'[c].op # "delete"
    BY <1>2, <1>4, <2>2 DEF Creates, Alone!CreateResource, Both!CreateResource, ReleaseRequest
  <2>4. ASSUME NEW n \in Held', n \notin Held
        PROVE  WillSave(s3'[c], n)
    <3>1. Release(n) \in s2' /\ Release(n) \notin s2 /\ n \in ReleaseNames
      BY <2>4 DEF Held, Release
    <3>2. r.op = "create" /\ r.name = n /\ s3'[c] = [r EXCEPT !.at = "row"]
      BY <1>2, <1>4, <2>2, <3>1 DEF Creates, Alone!CreateResource, Both!CreateResource, Release
    <3> QED
      BY <1>2, <3>2 DEF WillSave, ReleaseRequest
  <2>5. ASSUME NEW n, HasRow(n)
        PROVE  HasRow(n)'
    BY <1>2, <2>1, <2>2, <2>3, <2>5, RowIsKept DEF WillSave, WillRemove
  <2>6. ASSUME NEW n, WillSave(s3'[c], n)
        PROVE  HasRow(n)'
    BY <2>6 DEF HasRow, WillSave
  <2> QED
    BY <2>1, <2>4, <2>5, <2>6 DEF AtOnceInv, ObjectsAreNamed
<1>5. CASE Saves(c)
  <2>1. ReleaseInv(D)'
    BY <1>5, SaveIsKept DEF AtOnceInv
  <2>2. /\ s2' = s2 /\ r.at = "row" /\ r.op = "create" /\ s3'[c] = Ended /\ Asks(c)
        /\ s1' = With(s1, s4.row + 1, r.name) /\ s4' = [s4 EXCEPT !.row = s4.row + 1]
    BY <1>2, <1>5 DEF Saves, Alone!SaveAppRelease, Both!SaveAppRelease, With, Asks, Ended
  <2>3. s4'.fault = s4.fault /\ s4.row \in Nat /\ s4.row + 1 \notin DOMAIN s1 /\ Held' = Held
    BY <2>2 DEF AtOnceInv, ReleaseInv, ReleaseTables, Held
  <2>4. ASSUME NEW n, n = r.name
        PROVE  HasRow(n)'
    <3>1. \A d \in D : ~WillRemove(s3'[d], s4.row + 1)
      <4>1. ASSUME NEW d \in D, d # c
            PROVE  ~WillRemove(s3'[d], s4.row + 1)
        <5>1. s3'[d] = s3[d] /\ AskedBy(s3[d])
          BY <1>2, <2>2, <4>1 DEF Asks, ReleaseRequests
        <5> QED
          BY <2>3, <5>1 DEF AskedBy, WillRemove
      <4> QED
        BY <2>2, <4>1 DEF WillRemove, Ended
    <3>2. s4.row + 1 \in DOMAIN s1' /\ s1'[s4.row + 1] = n
      BY <2>2, <2>4 DEF With
    <3> QED
      BY <3>1, <3>2 DEF HasRow, WillRemove
  <2>5. ASSUME NEW n, HasRow(n), n # r.name
        PROVE  HasRow(n)'
    <3>1. \A i \in DOMAIN s1 : i \in DOMAIN s1' /\ s1'[i] = s1[i]
      BY <2>2, <2>3 DEF With
    <3>2. \A i : ~WillRemove(s3'[c], i)
      BY <2>2 DEF WillRemove, Ended
    <3> QED
      BY <1>2, <2>2, <2>5, <3>1, <3>2, RowIsKept DEF WillSave
  <2>6. ASSUME NEW n, HasRow(n)
        PROVE  HasRow(n)'
    BY <2>4, <2>5, <2>6
  <2> QED
    BY <2>1, <2>3, <2>6 DEF AtOnceInv, ObjectsAreNamed
<1>6. CASE Waits(c)
  <2>1. ReleaseInv(D)' /\ s1' = s1 /\ s2' = s2 /\ s4' = s4
    BY <1>6, WaitIsKept DEF AtOnceInv
  <2>2. Held' = Held /\ r.at = "wait" /\ s3'[c].at = "drop" /\ Asks(c)
    BY <1>2, <1>6, <2>1 DEF Waits, Alone!WaitForCRDStatus, Both!WaitForCRDStatus, Held, ReleaseRequest, Asks
  <2>3. ASSUME NEW n, HasRow(n)
        PROVE  HasRow(n)'
    BY <1>2, <2>1, <2>2, <2>3, RowIsKept DEF WillSave, WillRemove
  <2> QED
    BY <2>1, <2>2, <2>3 DEF AtOnceInv, ObjectsAreNamed
<1>7. CASE Drops(c)
  <2>1. ReleaseInv(D)' /\ s1' = s1 /\ s4' = s4 /\ Held' = Held
    BY <1>7, DropIsKept DEF AtOnceInv
  <2>2. r.at = "drop" /\ s3'[c].at = "done" /\ Asks(c)
    BY <1>2, <1>7 DEF Drops, Alone!DropObject, Both!DropObject, Asks
  <2>3. ASSUME NEW n, HasRow(n)
        PROVE  HasRow(n)'
    BY <1>2, <2>1, <2>2, <2>3, RowIsKept DEF WillSave, WillRemove
  <2> QED
    BY <2>1, <2>3 DEF AtOnceInv, ObjectsAreNamed
<1>8. CASE Reads(c)
  <2>1. ReleaseInv(D)' /\ s1' = s1 /\ s2' = s2 /\ s4' = s4
    BY <1>8, ReadIsKept DEF AtOnceInv
  <2>2. Held' = Held /\ r.at = "get" /\ s3'[c].at \in {"done", "object"} /\ Asks(c)
    BY <1>2, <1>8, <2>1 DEF Reads, Alone!GetAppRelease, Both!GetAppRelease, Held, ReleaseRequest, Asks
  <2>3. ASSUME NEW n, HasRow(n)
        PROVE  HasRow(n)'
    BY <1>2, <2>1, <2>2, <2>3, RowIsKept DEF WillSave, WillRemove
  <2> QED
    BY <2>1, <2>2, <2>3 DEF AtOnceInv, ObjectsAreNamed
<1>9. CASE Deletes(c)
  <2>1. ReleaseInv(D)' /\ s1' = s1 /\ s4' = s4
    BY <1>9, DeleteIsKept DEF AtOnceInv
  <2>2. /\ r.at = "object" /\ r.op = "delete" /\ Asks(c) /\ r.name \in ReleaseNames
        /\ (r.row \in DOMAIN s1 => s1[r.row] = r.name)
    BY <1>2, <1>9 DEF Deletes, Alone!DeleteResource, Both!DeleteResource, AskedBy, Asks
  <2>3. CASE Release(r.name) \notin s2
    <3>1. s2' = s2 /\ s3'[c].at = "done"
      BY <1>2, <1>9, <2>2, <2>3 DEF Deletes, Alone!DeleteResource, Both!DeleteResource, Release
    <3>2. Held' = Held
      BY <3>1 DEF Held
    <3>3. ASSUME NEW n, HasRow(n)
          PROVE  HasRow(n)'
      BY <1>2, <2>1, <2>2, <3>1, <3>3, RowIsKept DEF WillSave, WillRemove
    <3> QED
      BY <2>1, <3>2, <3>3 DEF AtOnceInv, ObjectsAreNamed
  <2>4. CASE Release(r.name) \in s2
    <3>1. s2' = s2 \ {Release(r.name)} /\ s3'[c] = [r EXCEPT !.at = "row"]
      BY <1>2, <1>9, <2>2, <2>4 DEF Deletes, Alone!DeleteResource, Both!DeleteResource, Release
    <3>2. Held' = Held \ {r.name}
      BY <2>2, <3>1 DEF Held, Release
    <3>3. s3'[c].row = r.row
      BY <1>2, <3>1 DEF ReleaseRequest
    <3>4. ASSUME NEW n, HasRow(n), n # r.name
          PROVE  HasRow(n)'
      BY <1>2, <2>1, <2>2, <3>3, <3>4, RowIsKept DEF WillSave, WillRemove
    <3> QED
      BY <2>1, <3>2, <3>4 DEF AtOnceInv, ObjectsAreNamed
  <2> QED
    BY <2>3, <2>4
<1>10. CASE Forgets(c)
  <2>1. ReleaseInv(D)'
    BY <1>10, ForgetIsKept DEF AtOnceInv
  <2>2. /\ s2' = s2 /\ s4' = s4 /\ r.at = "row" /\ r.op = "delete" /\ s3'[c].at = "done" /\ Asks(c)
        /\ s1' = Without(s1, r.row)
    BY <1>2, <1>10 DEF Forgets, Alone!DeleteAppRelease, Both!DeleteAppRelease, Without, Asks
  <2>3. Held' = Held
    BY <2>2 DEF Held
  <2>4. ASSUME NEW n, HasRow(n)
        PROVE  HasRow(n)'
    <3>1. \A i \in DOMAIN s1 : ~WillRemove(r, i) => i \in DOMAIN s1' /\ s1'[i] = s1[i]
      BY <2>2 DEF Without, WillRemove
    <3> QED
      BY <1>2, <2>2, <2>4, <3>1, RowIsKept DEF WillSave, WillRemove
  <2> QED
    BY <2>1, <2>2, <2>3, <2>4 DEF AtOnceInv, ObjectsAreNamed
<1>11. CASE Fails(c)
  BY <1>11, FailIsKept DEF AtOnceInv, ObjectsAreNamed
<1> QED
  BY <1>1, <1>3, <1>4, <1>5, <1>6, <1>7, <1>8, <1>9, <1>10, <1>11

LEMMA AtOnceStarts == Both!Init => AtOnceInv
<1> SUFFICES ASSUME Both!Init
             PROVE  AtOnceInv
  OBVIOUS
<1>1. /\ s2 = {} /\ s3 = [c \in ReleaseClients |-> Ended] /\ s4 = [row |-> 0, req |-> 0, fault |-> 0]
      /\ DOMAIN s1 = {}
  BY DEF Both!Init, Ended
<1>2. Held = {}
  BY <1>1 DEF Held
<1>3. ReleaseTables
  BY <1>1, <1>2, FS_EmptySet DEF ReleaseTables
<1>4. ReleaseRequests(ReleaseClients)
  <2>1. Ended \in ReleaseRequest /\ Ended.op = "none" /\ Ended.at = "done"
    BY NamesAreGiven DEF Ended, ReleaseRequest
  <2> QED
    BY <1>1, <2>1 DEF ReleaseRequests, AskedBy
<1>5. ReposGo(ReleaseClients)
  BY <1>1 DEF ReposGo
<1> QED
  BY <1>2, <1>3, <1>4, <1>5 DEF AtOnceInv, ReleaseInv, ObjectsAreNamed

LEMMA AtOnceIsRight ==
    ASSUME AtOnceInv
    PROVE  Both!TypeOK /\ Both!ObjectsHaveRows /\ Both!RepoObjectsGo
<1>1. Both!TypeOK
  BY DEF AtOnceInv, ReleaseInv, ReleaseTables, Both!TypeOK, Release, RepoObject
<1>2. Both!ObjectsHaveRows
  BY DEF AtOnceInv, ObjectsAreNamed, HasRow, WillSave, Held, Release, Both!ObjectsHaveRows, Both!Active
<1>3. Both!RepoObjectsGo
  BY DEF AtOnceInv, ReleaseInv, ReposGo, WillDrop, RepoObject, Both!RepoObjectsGo, Both!Active
<1> QED
  BY <1>1, <1>2, <1>3

-----------------------------------------------------------------------------
(* The catalog.  Of n ids, the k-th in their order is one of them: as many *)
(* of them are up to it as there are places up to k.                       *)

LEMMA RanksDiffer ==
    ASSUME NEW S \in SUBSET Nat, IsFiniteSet(S), NEW i \in S
    PROVE  /\ Cardinality({x \in S : x <= i}) \in 1..Cardinality(S)
           /\ \A j \in S : Cardinality({x \in S : x <= j}) = Cardinality({x \in S : x <= i}) => j = i
<1> DEFINE UpTo(a) == {x \in S : x <= a}
           n == Cardinality(S)
<1>1. n \in Nat
  BY FS_CardinalityType
<1>2. \A a \in S : /\ IsFiniteSet(UpTo(a)) /\ Cardinality(UpTo(a)) \in Nat
                   /\ Cardinality(UpTo(a)) <= n /\ Cardinality(UpTo(a)) # 0
  <2> SUFFICES ASSUME NEW a \in S
               PROVE  /\ IsFiniteSet(UpTo(a)) /\ Cardinality(UpTo(a)) \in Nat
                      /\ Cardinality(UpTo(a)) <= n /\ Cardinality(UpTo(a)) # 0
    OBVIOUS
  <2>1. UpTo(a) \in SUBSET S /\ a \in UpTo(a)
    OBVIOUS
  <2> HIDE DEF UpTo
  <2>2. IsFiniteSet(UpTo(a)) /\ Cardinality(UpTo(a)) <= n
    BY <2>1, FS_Subset
  <2> QED
    BY <2>1, <2>2, FS_CardinalityType, FS_EmptySet
<1>3. \A a, b \in S : a < b => Cardinality(UpTo(a)) # Cardinality(UpTo(b))
  <2> SUFFICES ASSUME NEW a \in S, NEW b \in S, a < b, Cardinality(UpTo(a)) = Cardinality(UpTo(b))
               PROVE  FALSE
    OBVIOUS
  <2>1. a \in Nat /\ b \in Nat /\ \A x \in S : x \in Nat
    OBVIOUS
  <2>2. \A x \in S : x <= a => x <= b
    BY <2>1
  <2>3. b <= b /\ ~(b <= a)
    BY <2>1
  <2>4. UpTo(a) \in SUBSET UpTo(b) /\ b \in UpTo(b) /\ b \notin UpTo(a)
    BY <2>2, <2>3
  <2> HIDE DEF UpTo
  <2>5. UpTo(a) = UpTo(b)
    BY <1>2, <2>4, FS_Subset
  <2> QED
    BY <2>4, <2>5
<1> HIDE DEF UpTo
<1>4. Cardinality(UpTo(i)) \in 1..n
  BY <1>1, <1>2
<1>5. ASSUME NEW j \in S, Cardinality(UpTo(j)) = Cardinality(UpTo(i))
      PROVE  j = i
  <2>1. j < i \/ i < j \/ j = i
    OBVIOUS
  <2> QED
    BY <1>3, <1>5, <2>1
<1> QED
  BY <1>4, <1>5 DEF UpTo

LEMMA PlacesAreTaken ==
    ASSUME NEW S \in SUBSET Nat, IsFiniteSet(S), NEW k \in 1..Cardinality(S)
    PROVE  \E i \in S : Cardinality({j \in S : j <= i}) = k
<1> DEFINE Rank(i) == Cardinality({j \in S : j <= i})
           n == Cardinality(S)
           rank == [i \in S |-> Rank(i)]
<1>1. \A i \in S : Rank(i) \in 1..n /\ \A j \in S : Rank(j) = Rank(i) => j = i
  BY RanksDiffer
<1> HIDE DEF Rank
<1>2. rank \in Injection(S, 1..n)
  <2>1. rank \in [S -> 1..n] /\ \A i, j \in S : i # j => rank[i] # rank[j]
    BY <1>1
  <2> HIDE DEF rank
  <2> QED
    BY <2>1 DEF Injection, IsInjective
<1>3. IsFiniteSet(1..n) /\ Cardinality(1..n) = n
  BY FS_CardinalityType, FS_Interval
<1>4. rank \in Surjection(S, 1..n)
  BY <1>2, <1>3, FS_Injection
<1>5. PICK i \in S : rank[i] = k
  BY <1>4 DEF Surjection
<1> QED
  BY <1>5 DEF Rank

(* The parts count as the library does.                                    *)
LEMMA CatalogCounts == ASSUME NEW S PROVE C!Cardinality(S) = Cardinality(S)
  BY DEF C!Cardinality, C!IsFiniteSet, Cardinality, IsFiniteSet

(* InOrder has every element of a set of numbers once.                     *)
LEMMA InOrderIsThem ==
    ASSUME NEW S \in SUBSET Nat, IsFiniteSet(S)
    PROVE  /\ C!InOrder(S) \in [1..Cardinality(S) -> S]
           /\ \A j, k \in 1..Cardinality(S) : C!InOrder(S)[j] = C!InOrder(S)[k] => j = k
           /\ \A i \in S : \E k \in 1..Cardinality(S) : C!InOrder(S)[k] = i
<1> DEFINE Rank(i) == C!Cardinality({j \in S : j <= i})
           n == Cardinality(S)
<1>1. C!InOrder(S) = [k \in 1..n |-> CHOOSE i \in S : Rank(i) = k]
  <2>1. C!InOrder(S) = [k \in 1..C!Cardinality(S) |-> CHOOSE i \in S : Rank(i) = k]
    BY DEF C!InOrder
  <2> HIDE DEF Rank
  <2> QED
    BY <2>1, CatalogCounts
<1>2. \A k \in 1..n : \E i \in S : Rank(i) = k
  BY PlacesAreTaken, CatalogCounts
<1>3. \A i \in S : Rank(i) \in 1..n /\ \A j \in S : Rank(j) = Rank(i) => j = i
  BY RanksDiffer, CatalogCounts
<1> HIDE DEF Rank, n
<1> DEFINE At(k) == CHOOSE i \in S : Rank(i) = k
<1>4. \A k \in 1..n : At(k) \in S /\ Rank(At(k)) = k
  BY <1>2
<1>5. C!InOrder(S) = [k \in 1..n |-> At(k)]
  BY <1>1
<1> HIDE DEF At
<1>6. C!InOrder(S) \in [1..n -> S] /\ \A k \in 1..n : C!InOrder(S)[k] = At(k)
  BY <1>4, <1>5
<1>7. \A j, k \in 1..n : C!InOrder(S)[j] = C!InOrder(S)[k] => j = k
  BY <1>4, <1>6
<1>8. \A i \in S : \E k \in 1..n : C!InOrder(S)[k] = i
  <2> SUFFICES ASSUME NEW i \in S
               PROVE  C!InOrder(S)[Rank(i)] = i
    BY <1>3
  <2>1. Rank(i) \in 1..n /\ At(Rank(i)) \in S /\ Rank(At(Rank(i))) = Rank(i)
    BY <1>3, <1>4
  <2> QED
    BY <1>3, <1>6, <2>1
<1> QED
  BY <1>6, <1>7, <1>8 DEF n

(* What is known of the catalog: a save under way is of an application that *)
(* is there, and, while nothing fails, every version has an application,    *)
(* but while a delete is about to remove it.                                *)

ChartNames == AppCharts \cup {C!NoChart}
Lists(n) == Seq([id : 0..n, ver : AppVersions, chart : ChartNames])
ServedLists(n) == Seq([id : 0..n, ver : AppVersions, chart : ChartNames, row : Nat])
VersionRows(a) == [app : 1..a, ver : AppVersions, chart : ChartNames]

CatalogCounters == s7 \in [app : Nat, ver : Nat, req : Nat, fault : Nat]
CatalogTables ==
    /\ s1 \subseteq 1..s7.app
    /\ DOMAIN s2 \subseteq 1..s7.ver
    /\ \A i \in DOMAIN s2 : s2[i] \in VersionRows(s7.app)
    /\ s3 = C!NoDir \/ s3 \subseteq AppCharts
ServedBy(v, n) == v = [app |-> v.app, list |-> v.list] /\ v.app \in 0..n.app /\ v.list \in ServedLists(n.ver)
CatalogViews == DOMAIN s5 = {"c"} /\ ServedBy(s5["c"], s7)
CatalogAsked(r, known, n) ==
    /\ {"op", "at", "app", "list", "old", "kept", "row"} \subseteq DOMAIN r
    /\ r.app \in 0..n.app
    /\ r.at # "done" /\ r.app = 0 => r.op = "save" /\ r.at \in {"read", "save"}
    /\ r.at \in {"read", "save", "versions"} => r.list \in Lists(n.ver)
    /\ r.at = "versions" => r.app \in known
CatalogRequests == DOMAIN s4 = {"c"} /\ CatalogAsked(s4["c"], s1, s7)
VersionsHaveApps ==
    s7.fault = 0 => \A i \in DOMAIN s2 :
      \/ s2[i].app \in s1
      \/ s4["c"].at = "rows" /\ s2[i].app = s4["c"].app

CatalogInv == CatalogCounters /\ CatalogTables /\ CatalogViews /\ CatalogRequests /\ VersionsHaveApps

LEMMA FirstIsThere ==
    ASSUME NEW S \in SUBSET Nat, IsFiniteSet(S), S # {}
    PROVE  \E i \in S : \A j \in S : i <= j
<1>1. Cardinality(S) \in Nat /\ Cardinality(S) # 0
  BY FS_CardinalityType, FS_EmptySet
<1>2. 1 \in 1..Cardinality(S)
  BY <1>1
<1>3. PICK i \in S : Cardinality({j \in S : j <= i}) = 1
  BY <1>2, PlacesAreTaken
<1> DEFINE UpTo == {j \in S : j <= i}
<1>4. UpTo \in SUBSET S /\ i \in UpTo
  OBVIOUS
<1>5. \A j \in S : j <= i => j \in UpTo
  OBVIOUS
<1> HIDE DEF UpTo
<1>6. IsFiniteSet(UpTo)
  BY <1>4, FS_Subset
<1>7. \E x : UpTo = {x}
  BY <1>3, <1>6, FS_Singleton DEF UpTo
<1>8. \A j \in S : j <= i => j = i
  BY <1>4, <1>5, <1>7
<1> QED
  BY <1>8

LEMMA VersionsOf ==
    ASSUME CatalogCounters, CatalogTables, NEW a
    PROVE  /\ C!Of(a) \in SUBSET Nat /\ IsFiniteSet(C!Of(a)) /\ C!Of(a) \subseteq DOMAIN s2
           /\ Cardinality(C!Of(a)) \in 0..s7.ver
<1>1. s7.ver \in Nat
  BY DEF CatalogCounters
<1>2. IsFiniteSet(1..s7.ver) /\ Cardinality(1..s7.ver) = s7.ver
  BY <1>1, FS_Interval
<1>3. C!Of(a) \subseteq DOMAIN s2 /\ C!Of(a) \in SUBSET (1..s7.ver)
  BY DEF C!Of, CatalogTables
<1>4. IsFiniteSet(C!Of(a)) /\ Cardinality(C!Of(a)) <= s7.ver
  BY <1>2, <1>3, FS_Subset
<1>5. Cardinality(C!Of(a)) \in Nat
  BY <1>4, FS_CardinalityType
<1>6. C!Of(a) \in SUBSET Nat
  BY <1>3
<1> QED
  BY <1>1, <1>3, <1>4, <1>5, <1>6

(* More ids leave what was asked and served as it is.                      *)
LEMMA ListsGrow ==
    ASSUME NEW n \in Nat, NEW m \in Nat, n <= m
    PROVE  /\ \A l \in Lists(n) : l \in Lists(m)
           /\ \A l \in ServedLists(n) : l \in ServedLists(m)
<1>1. [id : 0..n, ver : AppVersions, chart : ChartNames] \subseteq [id : 0..m, ver : AppVersions, chart : ChartNames]
  OBVIOUS
<1>2. [id : 0..n, ver : AppVersions, chart : ChartNames, row : Nat]
      \subseteq [id : 0..m, ver : AppVersions, chart : ChartNames, row : Nat]
  OBVIOUS
<1>3. \A S, T : S \subseteq T => \A l \in Seq(S) : l \in Seq(T)
  OBVIOUS
<1> QED
  BY <1>1, <1>2, <1>3 DEF Lists, ServedLists

LEMMA ViewGrows ==
    ASSUME CatalogCounters, CatalogCounters', CatalogViews, s5' = s5, s7.app <= s7'.app, s7.ver <= s7'.ver
    PROVE  CatalogViews'
<1>1. s5["c"].list \in ServedLists(s7'.ver)
  BY ListsGrow DEF CatalogCounters, CatalogViews, ServedBy
<1> QED
  BY <1>1 DEF CatalogCounters, CatalogViews, ServedBy

LEMMA EndIsFine ==
    ASSUME CatalogCounters, NEW known
    PROVE  CatalogAsked(C!NoReq, known, s7)
  BY DEF C!NoReq, CatalogAsked, CatalogCounters

(* A step that leaves the tables of applications and versions.             *)
Turns(q) == s4' = [s4 EXCEPT !["c"] = q]

LEMMA TurnIsKept ==
    ASSUME CatalogInv, CatalogCounters', s1' = s1, s2' = s2, s5' = s5,
           s7'.app = s7.app, s7'.ver = s7.ver, s3' = C!NoDir \/ s3' \subseteq AppCharts,
           s7'.fault = 0 => s7.fault = 0 /\ s4["c"].at # "rows",
           NEW q, Turns(q), CatalogAsked(q, s1, s7)
    PROVE  CatalogInv'
<1>1. CatalogTables'
  BY DEF CatalogInv, CatalogTables
<1>2. CatalogViews'
  BY ViewGrows DEF CatalogInv, CatalogCounters
<1>3. CatalogRequests'
  BY DEF CatalogInv, CatalogRequests, CatalogAsked, Turns
<1>4. VersionsHaveApps'
  <2> SUFFICES ASSUME s7'.fault = 0, NEW i \in DOMAIN s2
               PROVE  s2[i].app \in s1
    BY DEF VersionsHaveApps
  <2>1. s7.fault = 0 /\ s4["c"].at # "rows"
    OBVIOUS
  <2> QED
    BY <2>1 DEF CatalogInv, VersionsHaveApps
<1> QED
  BY <1>1, <1>2, <1>3, <1>4 DEF CatalogInv

LEMMA OneMoreRequest ==
    ASSUME CatalogCounters, s7' = [s7 EXCEPT !.req = @ + 1]
    PROVE  CatalogCounters' /\ s7'.app = s7.app /\ s7'.ver = s7.ver /\ s7'.fault = s7.fault
  BY DEF CatalogCounters

LEMMA BeginDeletesIsKept ==
    ASSUME CatalogInv, C!BeginDeleteVersion("c") \/ C!BeginDelete("c")
    PROVE  CatalogInv'
<1>1. CASE C!BeginDeleteVersion("c")
  <2>1. PICK k \in DOMAIN s5["c"].list :
          /\ s5["c"].app \in s1
          /\ C!Begin("c", [C!NoReq EXCEPT !.op = "version", !.at = "look", !.app = s5["c"].app,
                                          !.row = s5["c"].list[k].id])
    BY <1>1 DEF C!BeginDeleteVersion
  <2> DEFINE q == [C!NoReq EXCEPT !.op = "version", !.at = "look", !.app = s5["c"].app,
                                  !.row = s5["c"].list[k].id]
  <2>2. CatalogAsked(q, s1, s7)
    BY <2>1 DEF C!NoReq, CatalogAsked, CatalogInv, CatalogTables, CatalogCounters
  <2>3. UNCHANGED <<s1, s2, s3, s5>> /\ Turns(q) /\ s7' = [s7 EXCEPT !.req = @ + 1] /\ s4["c"].at = "done"
    BY <1>1, <2>1 DEF C!BeginDeleteVersion, C!Begin, C!Active, Turns
  <2> QED
    BY <2>2, <2>3, TurnIsKept, OneMoreRequest DEF CatalogInv, CatalogTables
<1>2. CASE C!BeginDelete("c")
  <2>1. PICK a \in s1 : C!Begin("c", [C!NoReq EXCEPT !.op = "delete", !.at = "app", !.app = a])
    BY <1>2 DEF C!BeginDelete
  <2> DEFINE q == [C!NoReq EXCEPT !.op = "delete", !.at = "app", !.app = a]
  <2>2. CatalogAsked(q, s1, s7)
    BY <2>1 DEF C!NoReq, CatalogAsked, CatalogInv, CatalogTables, CatalogCounters
  <2>3. UNCHANGED <<s1, s2, s3, s5>> /\ Turns(q) /\ s7' = [s7 EXCEPT !.req = @ + 1] /\ s4["c"].at = "done"
    BY <1>2, <2>1 DEF C!BeginDelete, C!Begin, C!Active, Turns
  <2> QED
    BY <2>2, <2>3, TurnIsKept, OneMoreRequest DEF CatalogInv, CatalogTables
<1> QED
  BY <1>1, <1>2

(* What is saved of an application as it was read.                         *)
LEMMA KeptIsAList ==
    ASSUME CatalogInv, NEW keep \in SUBSET DOMAIN s5["c"].list
    PROVE  C!Kept("c", keep) \in Lists(s7.ver)
<1> DEFINE list == s5["c"].list
           places == C!InOrder(keep)
           Row == [id : 0..s7.ver, ver : AppVersions, chart : ChartNames]
           Entry(v) == C!Item(v.id, v.ver, v.chart)
<1>1. list \in ServedLists(s7.ver)
  BY DEF CatalogInv, CatalogViews, ServedBy
<1>2. DOMAIN list = 1..Len(list) /\ Len(list) \in Nat
  BY <1>1 DEF ServedLists
<1>3. \A k \in DOMAIN list : list[k] \in [id : 0..s7.ver, ver : AppVersions, chart : ChartNames, row : Nat]
  <2> DEFINE Row4 == [id : 0..s7.ver, ver : AppVersions, chart : ChartNames, row : Nat]
  <2>1. list \in Seq(Row4)
    BY <1>1 DEF ServedLists
  <2> HIDE DEF Row4, list
  <2>2. \A k \in DOMAIN list : list[k] \in Row4
    BY <1>2, <2>1
  <2> QED
    BY <2>2 DEF Row4
<1>4. \A k \in DOMAIN list : Entry(list[k]) \in Row
  BY <1>3 DEF C!Item
<1> HIDE DEF list, Row, Entry
<1>5. keep \in SUBSET Nat /\ IsFiniteSet(keep)
  <2>1. keep \in SUBSET (1..Len(list)) /\ IsFiniteSet(1..Len(list))
    BY <1>2, FS_Interval DEF list
  <2> QED
    BY <2>1, FS_Subset
<1>6. places \in [1..Cardinality(keep) -> keep] /\ Cardinality(keep) \in Nat
  BY <1>5, InOrderIsThem, FS_CardinalityType
<1> HIDE DEF places
<1>7. \A j \in DOMAIN places : Entry(list[places[j]]) \in Row
  BY <1>4, <1>6 DEF list
<1>8. [j \in DOMAIN places |-> Entry(list[places[j]])] \in Seq(Row)
  BY <1>6, <1>7
<1>9. C!Kept("c", keep) = [j \in DOMAIN places |-> Entry(list[places[j]])]
  BY DEF C!Kept, places, list, Entry
<1> QED
  BY <1>8, <1>9 DEF Lists, Row

LEMMA BeginSaveIsKept ==
    ASSUME CatalogInv, C!BeginSave("c")
    PROVE  CatalogInv'
<1>1. PICK a \in {0, s5["c"].app}, new \in BOOLEAN, ver \in AppVersions, chart \in ChartNames,
           keep \in SUBSET DOMAIN s5["c"].list :
        C!Begin("c", [C!NoReq EXCEPT !.op = "save", !.at = "read", !.app = a,
                        !.list = IF new THEN Append(C!Kept("c", keep), C!Item(0, ver, chart))
                                 ELSE C!Kept("c", keep)])
  BY DEF C!BeginSave, ChartNames
<1> DEFINE kept == C!Kept("c", keep)
           list == IF new THEN Append(kept, C!Item(0, ver, chart)) ELSE kept
           q == [C!NoReq EXCEPT !.op = "save", !.at = "read", !.app = a, !.list = list]
<1>2. C!Begin("c", q)
  BY <1>1
<1>3. kept \in Lists(s7.ver)
  BY KeptIsAList
<1> HIDE DEF kept
<1>4. list \in Lists(s7.ver)
  <2> DEFINE Row == [id : 0..s7.ver, ver : AppVersions, chart : ChartNames]
  <2>1. C!Item(0, ver, chart) \in Row
    BY DEF C!Item, CatalogInv, CatalogCounters
  <2>2. kept \in Seq(Row)
    BY <1>3 DEF Lists
  <2> HIDE DEF Row, kept
  <2>3. list \in Seq(Row)
    BY <2>1, <2>2
  <2> QED
    BY <2>3 DEF Lists, Row
<1> HIDE DEF list
<1>5. a \in 0..s7.app
  BY DEF CatalogInv, CatalogViews, ServedBy, CatalogCounters
<1>6. q.op = "save" /\ q.at = "read" /\ q.app = a /\ q.list = list /\ DOMAIN q = DOMAIN C!NoReq
  BY DEF C!NoReq
<1> HIDE DEF q
<1>7. CatalogAsked(q, s1, s7)
  BY <1>4, <1>5, <1>6 DEF CatalogAsked, C!NoReq
<1>8. UNCHANGED <<s1, s2, s3, s5>>
  BY DEF C!BeginSave
<1>9. Turns(q) /\ s7' = [s7 EXCEPT !.req = @ + 1] /\ s4["c"].at = "done"
  BY <1>2 DEF C!Begin, C!Active, Turns
<1> QED
  BY <1>7, <1>8, <1>9, TurnIsKept, OneMoreRequest DEF CatalogInv, CatalogTables

LEMMA GetIsKept ==
    ASSUME CatalogInv, C!Get("c")
    PROVE  CatalogInv'
<1>1. PICK a \in s1 :
        LET ids == C!InOrder(C!Of(a))
        IN s5' = [s5 EXCEPT !["c"] = [app |-> a, list |-> [k \in DOMAIN ids |-> C!Served(ids[k], k)]]]
  BY DEF C!Get
<1> DEFINE ids == C!InOrder(C!Of(a))
           list == [k \in DOMAIN ids |-> C!Served(ids[k], k)]
           n == Cardinality(C!Of(a))
           Row == [id : 0..s7.ver, ver : AppVersions, chart : ChartNames, row : Nat]
<1>2. s5' = [s5 EXCEPT !["c"] = [app |-> a, list |-> list]]
  BY <1>1
<1>3. /\ C!Of(a) \in SUBSET Nat /\ IsFiniteSet(C!Of(a)) /\ C!Of(a) \subseteq DOMAIN s2
      /\ n \in 0..s7.ver /\ s7.ver \in Nat
  BY VersionsOf DEF CatalogInv, CatalogCounters
<1>4. ids \in [1..n -> C!Of(a)]
  BY <1>3, InOrderIsThem
<1>5. \A i \in C!Of(a), k \in 1..n : C!Served(i, k) \in Row
  <2> SUFFICES ASSUME NEW i \in C!Of(a), NEW k \in 1..n
               PROVE  C!Served(i, k) \in Row
    OBVIOUS
  <2>1. s2[i] \in VersionRows(s7.app) /\ i \in Nat /\ k \in 0..s7.ver
    BY <1>3 DEF CatalogInv, CatalogTables
  <2> QED
    BY <2>1 DEF VersionRows, C!Served
<1> HIDE DEF ids, Row, n
<1>6. list \in Seq(Row)
  <2>1. DOMAIN ids = 1..n /\ \A k \in 1..n : ids[k] \in C!Of(a)
    BY <1>4
  <2>2. \A k \in 1..n : C!Served(ids[k], k) \in Row
    BY <1>5, <2>1
  <2>3. n \in Nat
    BY <1>3
  <2> QED
    BY <2>1, <2>2, <2>3
<1> HIDE DEF list
<1>7. CatalogViews'
  <2>1. s5'["c"] = [app |-> a, list |-> list] /\ DOMAIN s5' = {"c"} /\ s7' = s7
    BY <1>2 DEF CatalogInv, CatalogViews, C!Get
  <2>2. a \in 0..s7.app
    BY DEF CatalogInv, CatalogTables, CatalogCounters
  <2> QED
    BY <1>6, <2>1, <2>2 DEF CatalogViews, ServedBy, ServedLists, Row
<1>8. UNCHANGED <<s1, s2, s3, s4, s7>>
  BY DEF C!Get
<1> QED
  BY <1>7, <1>8 DEF CatalogInv, CatalogCounters, CatalogTables, CatalogRequests, VersionsHaveApps

LEMMA UploadIsKept ==
    ASSUME CatalogInv, C!UploadApp("c")
    PROVE  CatalogInv'
<1>1. /\ UNCHANGED <<s1, s2, s4, s5>>
      /\ s7' = [s7 EXCEPT !.fault = s7'.fault] /\ s7'.fault \in {s7.fault, s7.fault + 1}
  BY DEF C!UploadApp, CatalogInv, CatalogCounters
<1>2. CatalogCounters' /\ s7'.app = s7.app /\ s7'.ver = s7.ver /\ (s7'.fault = 0 => s7.fault = 0)
  BY <1>1 DEF CatalogInv, CatalogCounters
<1>3. CatalogTables'
  <2>1. s3' \subseteq AppCharts
    BY DEF C!UploadApp, CatalogInv, CatalogTables
  <2> QED
    BY <1>1, <1>2, <2>1 DEF CatalogInv, CatalogTables
<1>4. CatalogViews' /\ CatalogRequests'
  BY <1>1, <1>2 DEF CatalogInv, CatalogViews, ServedBy, CatalogRequests, CatalogAsked
<1>5. VersionsHaveApps'
  BY <1>1, <1>2 DEF CatalogInv, VersionsHaveApps
<1> QED
  BY <1>2, <1>3, <1>4, <1>5 DEF CatalogInv

LEMMA ReadVersionsIsKept ==
    ASSUME CatalogInv, C!ReadVersions("c")
    PROVE  CatalogInv'
<1> DEFINE q == s4'["c"]
<1>1. UNCHANGED <<s1, s2, s3, s5, s7>> /\ s4["c"].at = "read" /\ DOMAIN s4 = {"c"} /\ CatalogAsked(s4["c"], s1, s7)
  BY DEF C!ReadVersions, CatalogInv, CatalogRequests
<1>2. Turns(q)
  BY <1>1 DEF C!ReadVersions, Turns
<1>3. q.at = "save" /\ q.op = s4["c"].op /\ q.app = s4["c"].app /\ q.list = s4["c"].list /\ DOMAIN q = DOMAIN s4["c"]
  BY <1>1 DEF C!ReadVersions, CatalogAsked
<1> HIDE DEF q
<1>4. CatalogAsked(q, s1, s7)
  BY <1>1, <1>3 DEF CatalogAsked
<1> QED
  BY <1>1, <1>2, <1>4, TurnIsKept DEF CatalogInv, CatalogCounters, CatalogTables

LEMMA LookIsKept ==
    ASSUME CatalogInv, C!GetAppVersion("c")
    PROVE  CatalogInv'
<1> DEFINE q == s4'["c"]
<1>1. UNCHANGED <<s1, s2, s3, s5, s7>> /\ s4["c"].at = "look" /\ DOMAIN s4 = {"c"} /\ CatalogAsked(s4["c"], s1, s7)
  BY DEF C!GetAppVersion, CatalogInv, CatalogRequests
<1>2. Turns(q)
  BY <1>1 DEF C!GetAppVersion, C!To, Turns
<1>3. \/ q = C!NoReq
      \/ q.at = "cut" /\ q.op = s4["c"].op /\ q.app = s4["c"].app /\ DOMAIN q = DOMAIN s4["c"]
  BY <1>1 DEF C!GetAppVersion, C!To, CatalogAsked
<1> HIDE DEF q
<1>4. CatalogAsked(q, s1, s7)
  BY <1>1, <1>3, EndIsFine DEF CatalogAsked, CatalogInv
<1> QED
  BY <1>1, <1>2, <1>4, TurnIsKept DEF CatalogInv, CatalogCounters, CatalogTables

LEMMA EndIsKept ==
    ASSUME CatalogInv, CatalogCounters', s1' = s1, s2' = s2, s5' = s5,
           s7'.app = s7.app, s7'.ver = s7.ver, s3' = C!NoDir \/ s3' \subseteq AppCharts,
           s7'.fault = 0 => s7.fault = 0 /\ s4["c"].at # "rows",
           C!To("c", "done")
    PROVE  CatalogInv'
<1>1. Turns(C!NoReq)
  BY DEF C!To, Turns
<1> QED
  BY <1>1, EndIsFine, TurnIsKept DEF CatalogInv

LEMMA EndsAreKept ==
    ASSUME CatalogInv, C!DeleteChart("c") \/ C!DeleteApp("c") \/ C!Fail("c")
    PROVE  CatalogInv'
<1>1. CASE C!DeleteChart("c")
  <2>1. UNCHANGED <<s1, s2, s5, s7>> /\ s4["c"].at = "chart" /\ C!To("c", "done")
    BY <1>1 DEF C!DeleteChart
  <2>2. s3' = C!NoDir \/ s3' \subseteq AppCharts
    <3> DEFINE Gone == C!StrayCharts("c")
    <3>1. s3' = s3 \ Gone
      BY <1>1 DEF C!DeleteChart
    <3> HIDE DEF Gone
    <3> QED
      BY <3>1 DEF CatalogInv, CatalogTables, C!NoDir
  <2> QED
    BY <2>1, <2>2, EndIsKept DEF CatalogInv, CatalogCounters
<1>2. CASE C!DeleteApp("c")
  <2>1. UNCHANGED <<s1, s2, s5, s7>> /\ s4["c"].at = "dir" /\ C!To("c", "done")
    BY <1>2 DEF C!DeleteApp
  <2>2. s3' = C!NoDir \/ s3' \subseteq AppCharts
    BY <1>2 DEF C!DeleteApp, CatalogInv, CatalogTables
  <2> QED
    BY <2>1, <2>2, EndIsKept DEF CatalogInv, CatalogCounters
<1>3. CASE C!Fail("c")
  <2>1. UNCHANGED <<s1, s2, s3, s5>> /\ C!To("c", "done") /\ s7' = [s7 EXCEPT !.fault = @ + 1]
    BY <1>3 DEF C!Fail
  <2>2. CatalogCounters' /\ s7'.app = s7.app /\ s7'.ver = s7.ver /\ s7'.fault # 0
    BY <2>1 DEF CatalogInv, CatalogCounters
  <2> QED
    BY <2>1, <2>2, EndIsKept DEF CatalogInv, CatalogTables
<1> QED
  BY <1>1, <1>2, <1>3

(* The first version of the name that was looked up, if there is one, is   *)
(* cut from those that the application has.                                *)
LEMMA CutIsKept ==
    ASSUME CatalogInv, C!DeleteAppVersion("c")
    PROVE  CatalogInv'
<1> DEFINE r == s4["c"]
           ids == C!InOrder(C!Of(r.app))
           n == Cardinality(C!Of(r.app))
           named == {k \in DOMAIN ids : s2[ids[k]].ver = Head(r.list).ver}
           first == CHOOSE k \in named : \A j \in named : k <= j
           cut == IF named = {} THEN ids ELSE C!RemoveAt(ids, first)
           list == [k \in DOMAIN cut |-> C!Item(cut[k], s2[cut[k]].ver, s2[cut[k]].chart)]
           Row == [id : 0..s7.ver, ver : AppVersions, chart : ChartNames]
           There == C!Of(r.app)
<1>1. UNCHANGED <<s1, s2, s3, s5, s7>> /\ r.at = "cut" /\ DOMAIN s4 = {"c"} /\ CatalogAsked(r, s1, s7)
  BY DEF C!DeleteAppVersion, CatalogInv, CatalogRequests
<1>2. CASE C!To("c", "done")
  BY <1>1, <1>2, EndIsKept DEF CatalogInv, CatalogCounters, CatalogTables
<1>3. CASE r.app \in s1 /\ s4' = [s4 EXCEPT !["c"].at = "read", !["c"].list = list]
  <2>1. /\ There \in SUBSET Nat /\ IsFiniteSet(There) /\ There \subseteq DOMAIN s2
        /\ n \in 0..s7.ver /\ s7.ver \in Nat
    BY VersionsOf DEF CatalogInv, CatalogCounters
  <2>2. ids \in [1..n -> There]
    BY <2>1, InOrderIsThem
  <2>3. \A i \in There : C!Item(i, s2[i].ver, s2[i].chart) \in Row
    <3> SUFFICES ASSUME NEW i \in There
                 PROVE  C!Item(i, s2[i].ver, s2[i].chart) \in Row
      OBVIOUS
    <3>1. s2[i] \in VersionRows(s7.app) /\ i \in 0..s7.ver
      BY <2>1 DEF CatalogInv, CatalogTables
    <3> QED
      BY <3>1 DEF VersionRows, C!Item
  <2> HIDE DEF ids, n, There, Row, r
  <2>4. ids \in Seq(There) /\ Len(ids) = n /\ DOMAIN ids = 1..n /\ n \in Nat
    BY <2>1, <2>2
  <2>5. named # {} => first \in 1..n
    <3> SUFFICES ASSUME named # {}
                 PROVE  first \in 1..n
      OBVIOUS
    <3>1. named \in SUBSET (1..n) /\ IsFiniteSet(1..n)
      BY <2>4, FS_Interval
    <3>2. named \in SUBSET Nat /\ IsFiniteSet(named)
      BY <2>4, <3>1, FS_Subset
    <3> HIDE DEF named
    <3> QED
      BY <3>1, <3>2, FirstIsThere
  <2> HIDE DEF named, first
  <2>6. cut \in Seq(There)
    <3>1. ASSUME first \in 1..n
          PROVE  C!RemoveAt(ids, first) \in Seq(There)
      <4>1. SubSeq(ids, 1, first - 1) \in Seq(There)
        BY <2>4, <3>1
      <4>2. SubSeq(ids, first + 1, Len(ids)) \in Seq(There)
        BY <2>4, <3>1
      <4> QED
        BY <4>1, <4>2 DEF C!RemoveAt
    <3> QED
      BY <2>4, <2>5, <3>1
  <2> HIDE DEF cut
  <2>7. list \in Seq(Row)
    BY <2>3, <2>6
  <2> HIDE DEF list
  <2>8. /\ s4'["c"].at = "read" /\ s4'["c"].list = list /\ s4'["c"].op = r.op /\ s4'["c"].app = r.app
        /\ DOMAIN s4'["c"] = DOMAIN r
    BY <1>1, <1>3 DEF CatalogAsked, r
  <2>9. Turns(s4'["c"])
    BY <1>1, <1>3 DEF Turns
  <2>10. CatalogAsked(s4'["c"], s1, s7)
    BY <1>1, <2>7, <2>8 DEF CatalogAsked, Lists, Row
  <2>11. s4["c"].at # "rows"
    BY <1>1 DEF r
  <2> QED
    BY <1>1, <2>9, <2>10, <2>11, TurnIsKept DEF CatalogInv, CatalogCounters, CatalogTables
<1>4. C!To("c", "done") \/ (r.app \in s1 /\ s4' = [s4 EXCEPT !["c"].at = "read", !["c"].list = list])
  BY DEF C!DeleteAppVersion
<1> QED
  BY <1>2, <1>3, <1>4

LEMMA SaveAppIsKept ==
    ASSUME CatalogInv, C!SaveApp("c")
    PROVE  CatalogInv'
<1> DEFINE r == s4["c"]
           a == IF r.app = 0 THEN s7.app + 1 ELSE r.app
<1>1. /\ UNCHANGED <<s2, s3, s5>> /\ r.at = "save" /\ s1' = s1 \cup {a}
      /\ s4' = [s4 EXCEPT !["c"].at = "versions", !["c"].app = a]
      /\ s7' = [s7 EXCEPT !.app = IF r.app = 0 THEN a ELSE @]
  BY DEF C!SaveApp
<1>2. DOMAIN s4 = {"c"} /\ CatalogAsked(r, s1, s7) /\ s7.app \in Nat /\ CatalogCounters
  BY DEF CatalogInv, CatalogRequests, CatalogCounters
<1>3. CatalogCounters' /\ s7'.ver = s7.ver /\ s7'.fault = s7.fault /\ s7.app <= s7'.app /\ a \in 1..s7'.app
  BY <1>1, <1>2 DEF CatalogCounters, CatalogAsked
<1>4. /\ s4'["c"].at = "versions" /\ s4'["c"].app = a /\ s4'["c"].list = r.list /\ DOMAIN s4' = {"c"}
      /\ DOMAIN s4'["c"] = DOMAIN r
  BY <1>1, <1>2 DEF CatalogAsked
<1> HIDE DEF a, r
<1>5. CatalogTables'
  <2>1. s1' \subseteq 1..s7'.app
    BY <1>1, <1>3 DEF CatalogInv, CatalogTables, CatalogCounters
  <2>2. ASSUME NEW i \in DOMAIN s2
        PROVE  s2[i] \in VersionRows(s7'.app)
    <3>1. s2[i] \in VersionRows(s7.app) /\ 1..s7.app \subseteq 1..s7'.app
      BY <1>2, <1>3, <2>2 DEF CatalogInv, CatalogTables, CatalogCounters
    <3> QED
      BY <3>1 DEF VersionRows
  <2> QED
    BY <1>1, <1>3, <2>1, <2>2 DEF CatalogInv, CatalogTables
<1>6. CatalogViews'
  BY <1>1, <1>3, ViewGrows DEF CatalogInv, CatalogCounters
<1>7. CatalogRequests'
  <2>1. r.list \in Lists(s7'.ver)
    BY <1>1, <1>2, <1>3 DEF CatalogAsked
  <2> QED
    BY <1>1, <1>2, <1>3, <1>4, <2>1 DEF CatalogRequests, CatalogAsked, CatalogCounters
<1>8. VersionsHaveApps'
  BY <1>1, <1>3, <1>4 DEF CatalogInv, VersionsHaveApps, r
<1> QED
  BY <1>3, <1>5, <1>6, <1>7, <1>8 DEF CatalogInv

LEMMA SaveVersionIsKept ==
    ASSUME CatalogInv, C!SaveVersion("c")
    PROVE  CatalogInv'
<1> DEFINE r == s4["c"]
           v == Head(r.list)
           id == IF v.id = 0 THEN s7.ver + 1 ELSE v.id
           row == [app |-> r.app, ver |-> v.ver, chart |-> v.chart]
           Row == [id : 0..s7.ver, ver : AppVersions, chart : ChartNames]
<1>1. /\ UNCHANGED <<s1, s3, s5>> /\ r.at = "versions" /\ r.list # <<>>
      /\ s2' = [i \in DOMAIN s2 \cup {id} |-> IF i = id THEN row ELSE s2[i]]
      /\ s7' = [s7 EXCEPT !.ver = IF v.id = 0 THEN id ELSE @]
      /\ s4' = [s4 EXCEPT !["c"].list = Tail(@),
                          !["c"].kept = @ \cup {[id |-> id, ver |-> v.ver, chart |-> v.chart]}]
  BY DEF C!SaveVersion
<1>2. DOMAIN s4 = {"c"} /\ CatalogAsked(r, s1, s7) /\ s7.ver \in Nat /\ CatalogCounters
  BY DEF CatalogInv, CatalogRequests, CatalogCounters
<1>3. /\ s4'["c"].at = "versions" /\ s4'["c"].app = r.app /\ s4'["c"].list = Tail(r.list) /\ DOMAIN s4' = {"c"}
      /\ DOMAIN s4'["c"] = DOMAIN r
  BY <1>1, <1>2 DEF CatalogAsked
<1>4. r.list \in Lists(s7.ver) /\ r.app \in s1 /\ s1 \subseteq 1..s7.app
  BY <1>1, <1>2 DEF CatalogAsked, CatalogInv, CatalogTables
<1>5. Tail(r.list) \in Lists(s7.ver) /\ v \in Row
  <2>1. r.list \in Seq(Row)
    BY <1>4 DEF Lists
  <2> HIDE DEF Row, r
  <2>2. Tail(r.list) \in Seq(Row) /\ v \in Row
    BY <1>1, <2>1
  <2> QED
    BY <2>2 DEF Lists, Row
<1>6. v.id \in 0..s7.ver /\ row \in VersionRows(s7.app) /\ row.app = r.app
  BY <1>4, <1>5 DEF VersionRows
<1>7. CatalogCounters' /\ s7'.app = s7.app /\ s7'.fault = s7.fault /\ s7.ver <= s7'.ver /\ id \in 1..s7'.ver
  BY <1>1, <1>2, <1>6 DEF CatalogCounters
<1> HIDE DEF r, v, id, row, Row
<1>8. CatalogTables'
  <2>1. DOMAIN s2' \subseteq 1..s7'.ver
    BY <1>1, <1>2, <1>7 DEF CatalogInv, CatalogTables, CatalogCounters
  <2>2. ASSUME NEW i \in DOMAIN s2'
        PROVE  s2'[i] \in VersionRows(s7'.app)
    BY <1>1, <1>6, <1>7, <2>2 DEF CatalogInv, CatalogTables
  <2> QED
    BY <1>1, <1>7, <2>1, <2>2 DEF CatalogInv, CatalogTables
<1>9. CatalogViews'
  BY <1>1, <1>7, ViewGrows DEF CatalogInv, CatalogCounters
<1>10. CatalogRequests'
  <2>1. Tail(r.list) \in Lists(s7'.ver)
    BY <1>2, <1>5, <1>7, ListsGrow DEF CatalogCounters
  <2> QED
    BY <1>1, <1>2, <1>3, <1>4, <1>7, <2>1 DEF CatalogRequests, CatalogAsked, CatalogCounters
<1>11. VersionsHaveApps'
  <2> SUFFICES ASSUME s7'.fault = 0, NEW i \in DOMAIN s2'
               PROVE  s2'[i].app \in s1'
    BY DEF VersionsHaveApps
  <2>1. CASE i = id
    BY <1>1, <1>4, <1>6, <2>1
  <2>2. CASE i # id
    BY <1>1, <1>7, <2>2 DEF CatalogInv, VersionsHaveApps, r
  <2> QED
    BY <2>1, <2>2
<1> QED
  BY <1>7, <1>8, <1>9, <1>10, <1>11 DEF CatalogInv

(* Rows of versions are taken away.                                        *)
LEMMA FewerIsKept ==
    ASSUME CatalogInv, UNCHANGED <<s1, s3, s5, s7>>, NEW S \in SUBSET DOMAIN s2,
           s2' = [i \in S |-> s2[i]], NEW q, Turns(q), CatalogAsked(q, s1, s7),
           s7.fault = 0 => \A i \in S : s2[i].app \in s1
    PROVE  CatalogInv'
<1>1. CatalogTables'
  BY DEF CatalogInv, CatalogTables
<1>2. CatalogViews' /\ CatalogCounters'
  BY DEF CatalogInv, CatalogViews, CatalogCounters
<1>3. CatalogRequests'
  BY DEF CatalogInv, CatalogRequests, Turns
<1>4. VersionsHaveApps'
  BY DEF VersionsHaveApps
<1> QED
  BY <1>1, <1>2, <1>3, <1>4 DEF CatalogInv

LEMMA UnlistedIsKept ==
    ASSUME CatalogInv, C!DeleteUnlisted("c")
    PROVE  CatalogInv'
<1> DEFINE r == s4["c"]
           next == IF r.op = "version" THEN "chart" ELSE "done"
           q == s4'["c"]
<1>1. /\ UNCHANGED <<s1, s3, s5, s7>> /\ r.at = "versions" /\ DOMAIN s4 = {"c"} /\ CatalogAsked(r, s1, s7)
      /\ s7.fault \in Nat /\ CatalogCounters
  BY DEF C!DeleteUnlisted, CatalogInv, CatalogRequests, CatalogCounters
<1>2. CASE C!To("c", next) /\ UNCHANGED s2
  <2>1. CASE r.op = "version"
    <3>1. s4' = [s4 EXCEPT !["c"] = [@ EXCEPT !.at = "chart"]]
      BY <1>2, <2>1 DEF C!To
    <3>2. q.at = "chart" /\ q.app = r.app /\ DOMAIN q = DOMAIN r /\ Turns(q)
      BY <1>1, <3>1 DEF CatalogAsked, Turns
    <3> HIDE DEF q
    <3>3. r.app # 0
      BY <1>1 DEF CatalogAsked
    <3>4. CatalogAsked(q, s1, s7)
      BY <1>1, <3>2, <3>3 DEF CatalogAsked
    <3> QED
      BY <1>1, <1>2, <3>2, <3>4, TurnIsKept DEF CatalogInv, CatalogCounters, CatalogTables
  <2>2. CASE r.op # "version"
    BY <1>1, <1>2, <2>2, EndIsKept DEF CatalogInv, CatalogCounters, CatalogTables
  <2> QED
    BY <2>1, <2>2
<1>3. CASE \E i \in C!Unlisted("c") :
             /\ s2' = [j \in DOMAIN s2 \ {i} |-> s2[j]]
             /\ s4' = [s4 EXCEPT !["c"].old = @ \ {i}]
  <2>1. PICK i \in C!Unlisted("c") :
             /\ s2' = [j \in DOMAIN s2 \ {i} |-> s2[j]]
             /\ s4' = [s4 EXCEPT !["c"].old = @ \ {i}]
    BY <1>3
  <2>2. /\ q.at = "versions" /\ q.app = r.app /\ q.op = r.op /\ q.list = r.list /\ DOMAIN q = DOMAIN r
        /\ Turns(q)
    BY <1>1, <2>1 DEF CatalogAsked, Turns
  <2> HIDE DEF q
  <2>3. CatalogAsked(q, s1, s7)
    BY <1>1, <2>2 DEF CatalogAsked
  <2>4. s7.fault = 0 => \A j \in DOMAIN s2 \ {i} : s2[j].app \in s1
    BY <1>1 DEF CatalogInv, VersionsHaveApps
  <2> QED
    BY <1>1, <2>1, <2>2, <2>3, <2>4, FewerIsKept
<1> QED
  BY <1>2, <1>3 DEF C!DeleteUnlisted

LEMMA DeleteRowIsKept ==
    ASSUME CatalogInv, C!DeleteRow("c")
    PROVE  CatalogInv'
<1> DEFINE r == s4["c"]
           q == s4'["c"]
<1>1. UNCHANGED <<s2, s3, s5, s7>> /\ r.at = "app" /\ DOMAIN s4 = {"c"} /\ CatalogAsked(r, s1, s7)
  BY DEF C!DeleteRow, CatalogInv, CatalogRequests
<1>2. s1' = s1 \ {r.app} /\ s4' = [s4 EXCEPT !["c"] = [@ EXCEPT !.at = "rows"]]
  BY DEF C!DeleteRow, C!To
<1>3. q.at = "rows" /\ q.app = r.app /\ DOMAIN q = DOMAIN r /\ DOMAIN s4' = {"c"}
  BY <1>1, <1>2 DEF CatalogAsked
<1> HIDE DEF q
<1>4. CatalogRequests'
  BY <1>1, <1>3 DEF CatalogRequests, CatalogAsked, q
<1>5. CatalogTables' /\ CatalogViews' /\ CatalogCounters'
  BY <1>1, <1>2 DEF CatalogInv, CatalogTables, CatalogViews, CatalogCounters
<1>6. VersionsHaveApps'
  BY <1>1, <1>2, <1>3 DEF CatalogInv, VersionsHaveApps, q
<1> QED
  BY <1>4, <1>5, <1>6 DEF CatalogInv

LEMMA DeleteVersionsIsKept ==
    ASSUME CatalogInv, C!DeleteVersions("c")
    PROVE  CatalogInv'
<1> DEFINE r == s4["c"]
           q == s4'["c"]
<1>1. /\ UNCHANGED <<s1, s3, s5, s7>> /\ r.at = "rows" /\ DOMAIN s4 = {"c"} /\ CatalogAsked(r, s1, s7)
      /\ r.app # 0
  BY DEF C!DeleteVersions, CatalogInv, CatalogRequests, CatalogAsked
<1>2. s2' = [i \in DOMAIN s2 \ C!Of(r.app) |-> s2[i]] /\ s4' = [s4 EXCEPT !["c"] = [@ EXCEPT !.at = "dir"]]
  BY DEF C!DeleteVersions, C!To
<1>3. q.at = "dir" /\ q.app = r.app /\ DOMAIN q = DOMAIN r /\ Turns(q)
  BY <1>1, <1>2 DEF CatalogAsked, Turns
<1> HIDE DEF q
<1>4. CatalogAsked(q, s1, s7)
  BY <1>1, <1>3 DEF CatalogAsked
<1>5. s7.fault = 0 => \A i \in DOMAIN s2 \ C!Of(r.app) : s2[i].app \in s1
  BY <1>1 DEF CatalogInv, VersionsHaveApps, C!Of
<1> QED
  BY <1>1, <1>2, <1>3, <1>4, <1>5, FewerIsKept

LEMMA CatalogStep ==
    ASSUME CatalogInv, C!Next
    PROVE  CatalogInv'
<1>1. CASE C!SaveAppRelease("c")
  BY <1>1 DEF C!SaveAppRelease, CatalogInv, CatalogCounters, CatalogTables, CatalogViews, CatalogRequests, VersionsHaveApps
<1> QED
  BY <1>1, GetIsKept, BeginSaveIsKept, BeginDeletesIsKept, UploadIsKept, ReadVersionsIsKept, SaveAppIsKept,
     SaveVersionIsKept, UnlistedIsKept, LookIsKept, CutIsKept, EndsAreKept, DeleteRowIsKept, DeleteVersionsIsKept
  DEF C!Next

LEMMA CatalogStarts ==
    ASSUME C!Init
    PROVE  CatalogInv
<1>1. /\ s1 = {} /\ s2 = <<>> /\ s3 = C!NoDir /\ s4 = [c \in {"c"} |-> C!NoReq]
      /\ s5 = [c \in {"c"} |-> C!NoView] /\ s7 = [app |-> 0, ver |-> 0, req |-> 0, fault |-> 0]
  BY DEF C!Init
<1>2. CatalogCounters
  BY <1>1 DEF CatalogCounters
<1>3. DOMAIN s2 = {}
  BY <1>1
<1>4. CatalogTables
  BY <1>1, <1>3 DEF CatalogTables
<1>5. CatalogViews
  <2>1. <<>> \in ServedLists(0)
    BY DEF ServedLists
  <2> QED
    BY <1>1, <2>1 DEF CatalogViews, ServedBy, C!NoView
<1>6. CatalogRequests
  BY <1>1, <1>2, EndIsFine DEF CatalogRequests
<1>7. VersionsHaveApps
  BY <1>3 DEF VersionsHaveApps
<1> QED
  BY <1>2, <1>4, <1>5, <1>6, <1>7 DEF CatalogInv

LEMMA CatalogIsRight ==
    ASSUME CatalogInv
    PROVE  C!TypeOK /\ C!NoOrphans
<1>1. C!TypeOK
  BY DEF CatalogInv, CatalogTables, CatalogRequests, CatalogAsked, VersionRows, C!TypeOK, C!Active
<1>2. C!NoOrphans
  BY DEF CatalogInv, VersionsHaveApps, C!NoOrphans, C!Active
<1> QED
  BY <1>1, <1>2

-----------------------------------------------------------------------------
(* What a save of an application leaves.  A list has each id once: it was   *)
(* served as places, or read as ids, and only a new version has the id 0.   *)
(* What is written so far is kept under these ids, and what the application *)
(* has besides is known as old.                                             *)

Differ(l) == \A j, k \in DOMAIN l : l[j].id = l[k].id => j = k
Named(l) == \A j, k \in DOMAIN l : l[j].ver = l[k].ver => j = k
Saving == {"read", "save", "versions"}

SavesInv ==
    /\ \A k \in DOMAIN s5["c"].list : s5["c"].list[k].id = k
    /\ s4["c"].at \in {"look", "cut", "read", "save"} => s4["c"].kept = {}
    /\ s4["c"].at \in Saving => Differ(s4["c"].list)
    /\ s4["c"].at = "save" => C!Of(s4["c"].app) \subseteq s4["c"].old
    /\ s4["c"].at = "chart" => s4["c"].op = "version"
    /\ s4["c"].at = "versions" =>
         /\ \A v \in s4["c"].kept : v.id \in C!Of(s4["c"].app) /\ v = C!Item(v.id, s2[v.id].ver, s2[v.id].chart)
         /\ \A v \in s4["c"].kept, k \in DOMAIN s4["c"].list : s4["c"].list[k].id # v.id
         /\ C!Of(s4["c"].app) \subseteq s4["c"].old \cup {v.id : v \in s4["c"].kept}

(* While nothing fails, the versions of an application have different       *)
(* names, so that the version that a client deletes is the one that is cut  *)
(* from the list.                                                           *)
NamesInv ==
    s7.fault = 0 =>
      /\ \A i, j \in DOMAIN s2 : s2[i].app = s2[j].app /\ s2[i].ver = s2[j].ver =>
           i = j \/ (s4["c"].at = "versions" /\ s2[i].app = s4["c"].app)
      /\ Named(s5["c"].list)
      /\ s4["c"].at \in Saving => Named(s4["c"].list)
      /\ s4["c"].at = "versions" =>
           /\ \A v, w \in s4["c"].kept : v.ver = w.ver => v = w
           /\ \A v \in s4["c"].kept, k \in DOMAIN s4["c"].list : s4["c"].list[k].ver # v.ver
      /\ s4["c"].at = "cut" => s4["c"].row \in C!Of(s4["c"].app) /\ Head(s4["c"].list).ver = s2[s4["c"].row].ver
      /\ s4["c"].op = "version" /\ s4["c"].at \in Saving \cup {"chart"} =>
           /\ s4["c"].row \in 1..s7.ver
           /\ \A k \in DOMAIN s4["c"].list : s4["c"].list[k].id # s4["c"].row
           /\ \A v \in s4["c"].kept : v.id # s4["c"].row

ListsInv == SavesInv /\ NamesInv

(* A step to a place where nothing is asked of the lists.                   *)
LEMMA QuietKeepsLists ==
    ASSUME CatalogInv, ListsInv, UNCHANGED s5, s7'.fault = 0 => s7.fault = 0,
           \A i \in DOMAIN s2' : i \in DOMAIN s2 /\ s2'[i] = s2[i],
           s4'["c"].at \notin Saving \cup {"look", "cut", "chart"}, s4["c"].at # "versions"
    PROVE  ListsInv'
  BY DEF ListsInv, SavesInv, NamesInv, Saving

LEMMA EndKeepsLists ==
    ASSUME CatalogInv, C!To("c", "done")
    PROVE  s4'["c"] = C!NoReq /\ s4'["c"].at = "done"
  BY DEF C!To, CatalogInv, CatalogRequests, C!NoReq

LEMMA StartsKeepLists ==
    ASSUME CatalogInv, ListsInv, C!BeginDeleteVersion("c") \/ C!BeginDelete("c")
    PROVE  ListsInv'
<1>1. /\ UNCHANGED <<s2, s5>> /\ s7'.fault = s7.fault /\ DOMAIN s4' = {"c"} /\ s4["c"].at = "done"
      /\ s4'["c"].kept = {} /\ s4'["c"].at \in {"look", "app"}
  <2>1. PICK q : C!Begin("c", q) /\ q.kept = {} /\ q.at \in {"look", "app"}
    <3>1. CASE C!BeginDeleteVersion("c")
      <4>1. PICK k : C!Begin("c", [C!NoReq EXCEPT !.op = "version", !.at = "look", !.app = s5["c"].app,
                                                  !.row = s5["c"].list[k].id])
        BY <3>1 DEF C!BeginDeleteVersion
      <4> DEFINE x == [C!NoReq EXCEPT !.op = "version", !.at = "look", !.app = s5["c"].app,
                                      !.row = s5["c"].list[k].id]
      <4>2. C!Begin("c", x) /\ x.kept = {} /\ x.at = "look"
        BY <4>1 DEF C!NoReq
      <4> HIDE DEF x
      <4> QED
        BY <4>2
    <3>2. CASE C!BeginDelete("c")
      <4>1. PICK a : C!Begin("c", [C!NoReq EXCEPT !.op = "delete", !.at = "app", !.app = a])
        BY <3>2 DEF C!BeginDelete
      <4> DEFINE x == [C!NoReq EXCEPT !.op = "delete", !.at = "app", !.app = a]
      <4>2. C!Begin("c", x) /\ x.kept = {} /\ x.at = "app"
        BY <4>1 DEF C!NoReq
      <4> HIDE DEF x
      <4> QED
        BY <4>2
    <3> QED
      BY <3>1, <3>2
  <2>2. DOMAIN s4 = {"c"} /\ DOMAIN s7 = {"app", "ver", "req", "fault"}
    BY DEF CatalogInv, CatalogRequests, CatalogCounters
  <2> QED
    BY <2>1, <2>2 DEF C!Begin, C!Active, C!BeginDeleteVersion, C!BeginDelete
<1> QED
  BY <1>1 DEF ListsInv, SavesInv, NamesInv, Saving

LEMMA OthersKeepLists ==
    ASSUME CatalogInv, ListsInv,
           C!DeleteChart("c") \/ C!DeleteApp("c") \/ C!DeleteRow("c") \/ C!DeleteVersions("c") \/ C!Fail("c")
    PROVE  ListsInv'
<1>1. DOMAIN s4 = {"c"} /\ "at" \in DOMAIN s4["c"]
  BY DEF CatalogInv, CatalogRequests, CatalogAsked
<1>2. CASE C!DeleteChart("c") \/ C!DeleteApp("c")
  <2>1. UNCHANGED <<s2, s5, s7>> /\ s4["c"].at \in {"chart", "dir"} /\ C!To("c", "done")
    BY <1>2 DEF C!DeleteChart, C!DeleteApp
  <2> QED
    BY <2>1, EndKeepsLists, QuietKeepsLists DEF Saving
<1>3. CASE C!DeleteRow("c") \/ C!DeleteVersions("c")
  <2>1. UNCHANGED <<s5, s7>> /\ s4["c"].at \in {"app", "rows"} /\ s4'["c"].at \in {"rows", "dir"}
    BY <1>1, <1>3 DEF C!DeleteRow, C!DeleteVersions, C!To
  <2>2. \A i \in DOMAIN s2' : i \in DOMAIN s2 /\ s2'[i] = s2[i]
    BY <1>3 DEF C!DeleteRow, C!DeleteVersions
  <2> QED
    BY <2>1, <2>2, QuietKeepsLists DEF Saving
<1>4. CASE C!Fail("c")
  <2>1. UNCHANGED <<s2, s5>> /\ s7'.fault = s7.fault + 1 /\ s7.fault \in Nat /\ C!To("c", "done")
    BY <1>4 DEF C!Fail, CatalogInv, CatalogCounters
  <2>2. s4'["c"].at = "done" /\ s7'.fault # 0
    BY <2>1, EndKeepsLists
  <2> QED
    BY <2>1, <2>2 DEF ListsInv, SavesInv, NamesInv, Saving
<1> QED
  BY <1>2, <1>3, <1>4

LEMMA GetKeepsLists ==
    ASSUME CatalogInv, ListsInv, C!Get("c")
    PROVE  ListsInv'
<1>1. PICK a \in s1 :
        LET ids == C!InOrder(C!Of(a))
        IN s5' = [s5 EXCEPT !["c"] = [app |-> a, list |-> [k \in DOMAIN ids |-> C!Served(ids[k], k)]]]
  BY DEF C!Get
<1> DEFINE ids == C!InOrder(C!Of(a))
           list == [k \in DOMAIN ids |-> C!Served(ids[k], k)]
           n == Cardinality(C!Of(a))
<1>2. s5'["c"].list = list
  BY <1>1 DEF CatalogInv, CatalogViews
<1>3. /\ ids \in [1..n -> C!Of(a)]
      /\ \A j, k \in 1..n : ids[j] = ids[k] => j = k
  BY VersionsOf, InOrderIsThem DEF CatalogInv
<1>4. UNCHANGED <<s1, s2, s3, s4, s7>> /\ s4["c"].at = "done"
  BY DEF C!Get, C!Active
<1> HIDE DEF ids, n
<1>5. DOMAIN list = 1..n /\ \A k \in 1..n : list[k] = C!Served(ids[k], k)
  BY <1>3
<1> HIDE DEF list
<1>6. \A k \in DOMAIN list : list[k].id = k /\ list[k].ver = s2[ids[k]].ver
  BY <1>5 DEF C!Served
<1>7. s7.fault = 0 => Named(list)
  <2> SUFFICES ASSUME s7.fault = 0, NEW j \in 1..n, NEW k \in 1..n, list[j].ver = list[k].ver
               PROVE  j = k
    BY <1>5 DEF Named
  <2>1. s2[ids[j]].ver = s2[ids[k]].ver /\ ids[j] \in C!Of(a) /\ ids[k] \in C!Of(a)
    BY <1>3, <1>5, <1>6
  <2>2. ids[j] = ids[k]
    BY <1>4, <2>1 DEF ListsInv, NamesInv, C!Of
  <2> QED
    BY <1>3, <2>2
<1> QED
  BY <1>2, <1>4, <1>6, <1>7 DEF ListsInv, SavesInv, NamesInv, Saving, C!Of

(* What is asked for has each id and, while nothing fails, each name once.  *)
LEMMA BeginSaveKeepsLists ==
    ASSUME CatalogInv, ListsInv, C!BeginSave("c")
    PROVE  ListsInv'
<1>1. PICK a \in {0, s5["c"].app}, new \in BOOLEAN, ver \in AppVersions, chart \in ChartNames,
           keep \in SUBSET DOMAIN s5["c"].list :
        /\ new => C!Free(C!Kept("c", keep), ver)
        /\ C!Begin("c", [C!NoReq EXCEPT !.op = "save", !.at = "read", !.app = a,
                        !.list = IF new THEN Append(C!Kept("c", keep), C!Item(0, ver, chart))
                                 ELSE C!Kept("c", keep)])
  BY DEF C!BeginSave, ChartNames
<1> DEFINE kept == C!Kept("c", keep)
           list == IF new THEN Append(kept, C!Item(0, ver, chart)) ELSE kept
           q == [C!NoReq EXCEPT !.op = "save", !.at = "read", !.app = a, !.list = list]
           order == C!InOrder(keep)
           n == Cardinality(keep)
           seen == s5["c"].list
<1>2. C!Begin("c", q)
  BY <1>1
<1>3. seen \in ServedLists(s7.ver) /\ kept \in Lists(s7.ver)
  BY KeptIsAList DEF CatalogInv, CatalogViews, ServedBy
<1>4. keep \in SUBSET Nat /\ IsFiniteSet(keep)
  <2>1. DOMAIN seen = 1..Len(seen) /\ Len(seen) \in Nat
    BY <1>3 DEF ServedLists
  <2>2. keep \in SUBSET (1..Len(seen)) /\ IsFiniteSet(1..Len(seen))
    BY <2>1, FS_Interval
  <2> QED
    BY <2>2, FS_Subset
<1>5. order \in [1..n -> keep] /\ n \in Nat /\ \A j, k \in 1..n : order[j] = order[k] => j = k
  BY <1>4, InOrderIsThem, FS_CardinalityType
<1>6. /\ DOMAIN kept = DOMAIN order
      /\ \A j \in DOMAIN order : kept[j] = C!Item(seen[order[j]].id, seen[order[j]].ver, seen[order[j]].chart)
  BY DEF C!Kept
<1>7. /\ C!Free(kept, ver) => \A j \in DOMAIN kept : kept[j].ver # ver
      /\ \A k \in keep : seen[k].id = k
      /\ s7.fault = 0 => Named(seen)
      /\ new => C!Free(kept, ver)
  BY <1>1 DEF C!Free, C!Names, C!ToSet, ListsInv, SavesInv, NamesInv
<1>8. /\ q.op = "save" /\ q.at = "read" /\ q.list = list /\ q.kept = {}
  BY DEF C!NoReq
<1>9. UNCHANGED <<s2, s5>> /\ s4' = [s4 EXCEPT !["c"] = q] /\ s7'.fault = s7.fault /\ s4["c"].at = "done"
  BY <1>2 DEF C!BeginSave, C!Begin, C!Active, CatalogInv, CatalogCounters
<1>10. s4'["c"] = q
  BY <1>9 DEF CatalogInv, CatalogRequests
<1> HIDE DEF order, n, q
<1>11. /\ DOMAIN kept = 1..n
       /\ \A j \in 1..n : /\ kept[j].id = order[j] /\ kept[j].ver = seen[order[j]].ver
                          /\ order[j] \in keep /\ order[j] # 0
  <2>1. \A k \in keep : k # 0
    BY <1>3 DEF ServedLists
  <2> HIDE DEF kept, seen
  <2>2. DOMAIN kept = 1..n
    BY <1>5, <1>6
  <2>3. ASSUME NEW j \in 1..n
        PROVE  kept[j].id = order[j] /\ kept[j].ver = seen[order[j]].ver /\ order[j] \in keep
    <3>1. order[j] \in keep /\ j \in DOMAIN order
      BY <1>5
    <3> QED
      BY <1>6, <1>7, <3>1 DEF C!Item
  <2> QED
    BY <2>1, <2>2, <2>3
<1> HIDE DEF kept, seen
<1>12. Differ(kept)
  BY <1>5, <1>11 DEF Differ
<1>13. s7.fault = 0 => Named(kept)
  <2> SUFFICES ASSUME s7.fault = 0, NEW j \in 1..n, NEW k \in 1..n, kept[j].ver = kept[k].ver
               PROVE  j = k
    BY <1>11 DEF Named
  <2>1. order[j] \in DOMAIN seen /\ order[k] \in DOMAIN seen /\ seen[order[j]].ver = seen[order[k]].ver
    BY <1>11 DEF seen
  <2>2. order[j] = order[k]
    BY <1>7, <2>1 DEF Named
  <2> QED
    BY <1>5, <2>2
<1>14. Differ(list) /\ (s7.fault = 0 => Named(list))
  <2>1. CASE ~new
    BY <1>12, <1>13, <2>1
  <2>2. CASE new
    <3>1. Len(kept) = n
      BY <1>3, <1>5, <1>11 DEF Lists
    <3>2. /\ DOMAIN list = 1..(n + 1)
          /\ \A j \in 1..n : list[j] = kept[j]
          /\ list[n + 1] = C!Item(0, ver, chart)
      BY <1>3, <1>5, <1>11, <2>2, <3>1 DEF Lists
    <3> HIDE DEF list
    <3>3. list[n + 1].id = 0 /\ list[n + 1].ver = ver
      BY <3>2 DEF C!Item
    <3>4. \A j \in 1..n : list[j].id # 0 /\ list[j].ver # ver
      BY <1>7, <1>11, <2>2, <3>2
    <3>5. \A j \in DOMAIN list : j \in 1..n \/ j = n + 1
      BY <1>5, <3>2
    <3>6. Differ(list)
      BY <1>11, <1>12, <3>2, <3>3, <3>4, <3>5 DEF Differ
    <3>7. s7.fault = 0 => Named(list)
      BY <1>11, <1>13, <3>2, <3>3, <3>4, <3>5 DEF Named
    <3> QED
      BY <3>6, <3>7
  <2> QED
    BY <2>1, <2>2
<1> HIDE DEF list
<1> QED
  BY <1>8, <1>9, <1>10, <1>14 DEF ListsInv, SavesInv, NamesInv, Saving, C!Of

(* The versions are read: of a new application there are none.              *)
LEMMA ReadKeepsLists ==
    ASSUME CatalogInv, ListsInv, C!ReadVersions("c")
    PROVE  ListsInv'
<1> DEFINE r == s4["c"]
           q == s4'["c"]
<1>1. UNCHANGED <<s2, s5, s7>> /\ r.at = "read" /\ DOMAIN s4 = {"c"} /\ CatalogAsked(r, s1, s7)
  BY DEF C!ReadVersions, CatalogInv, CatalogRequests
<1>2. /\ q.at = "save" /\ q.op = r.op /\ q.app = r.app /\ q.list = r.list /\ q.kept = r.kept /\ q.row = r.row
      /\ q.old = IF r.app = 0 THEN {} ELSE C!Of(r.app)
  BY <1>1 DEF C!ReadVersions, CatalogAsked
<1>3. C!Of(0) = {}
  BY DEF C!Of, CatalogInv, CatalogTables, VersionRows
<1> HIDE DEF q, r
<1>4. {i \in DOMAIN s2' : s2'[i].app = q.app} \subseteq q.old
  BY <1>1, <1>2, <1>3 DEF C!Of
<1> QED
  BY <1>1, <1>2, <1>4 DEF ListsInv, SavesInv, NamesInv, Saving, C!Of, q, r

LEMMA SaveAppKeepsLists ==
    ASSUME CatalogInv, ListsInv, C!SaveApp("c")
    PROVE  ListsInv'
<1> DEFINE r == s4["c"]
           q == s4'["c"]
<1>1. UNCHANGED <<s2, s5>> /\ r.at = "save" /\ DOMAIN s4 = {"c"} /\ CatalogAsked(r, s1, s7)
  BY DEF C!SaveApp, CatalogInv, CatalogRequests
<1>2. /\ q.at = "versions" /\ q.op = r.op /\ q.list = r.list /\ q.kept = r.kept /\ q.row = r.row /\ q.old = r.old
      /\ q.app = IF r.app = 0 THEN s7.app + 1 ELSE r.app
      /\ s7'.fault = s7.fault /\ s7'.ver = s7.ver
  BY <1>1 DEF C!SaveApp, CatalogAsked, CatalogInv, CatalogCounters
<1>3. C!Of(s7.app + 1) = {}
  BY DEF C!Of, CatalogInv, CatalogTables, VersionRows, CatalogCounters
<1> HIDE DEF q, r
<1>4. {i \in DOMAIN s2' : s2'[i].app = q.app} \subseteq r.old /\ r.kept = {}
  BY <1>1, <1>2, <1>3 DEF C!Of, ListsInv, SavesInv, r
<1> QED
  BY <1>1, <1>2, <1>4 DEF ListsInv, SavesInv, NamesInv, Saving, C!Of, q, r

(* A version is written under the id of the list, or under a new one: what  *)
(* was written before has other ids.                                        *)
LEMMA SaveVersionKeepsLists ==
    ASSUME CatalogInv, ListsInv, C!SaveVersion("c")
    PROVE  ListsInv'
<1> DEFINE r == s4["c"]
           q == s4'["c"]
           l == r.list
           v == Head(l)
           id == IF v.id = 0 THEN s7.ver + 1 ELSE v.id
           made == [app |-> r.app, ver |-> v.ver, chart |-> v.chart]
           w == [id |-> id, ver |-> v.ver, chart |-> v.chart]
           Row == [id : 0..s7.ver, ver : AppVersions, chart : ChartNames]
<1>1. /\ UNCHANGED s5 /\ r.at = "versions" /\ l # <<>>
      /\ s2' = [i \in DOMAIN s2 \cup {id} |-> IF i = id THEN made ELSE s2[i]]
      /\ s7' = [s7 EXCEPT !.ver = IF v.id = 0 THEN id ELSE @]
      /\ s4' = [s4 EXCEPT !["c"].list = Tail(@), !["c"].kept = @ \cup {w}]
  BY DEF C!SaveVersion
<1>2. DOMAIN s4 = {"c"} /\ CatalogAsked(r, s1, s7) /\ s7.ver \in Nat /\ DOMAIN s2 \subseteq 1..s7.ver
  BY DEF CatalogInv, CatalogRequests, CatalogCounters, CatalogTables
<1>3. /\ q.at = "versions" /\ q.app = r.app /\ q.op = r.op /\ q.row = r.row /\ q.old = r.old
      /\ q.list = Tail(l) /\ q.kept = r.kept \cup {w}
  BY <1>1, <1>2 DEF CatalogAsked
<1>4. l \in Seq(Row)
  BY <1>1, <1>2 DEF CatalogAsked, Lists
<1>5. s7'.fault = s7.fault /\ s7.ver <= s7'.ver /\ s7'.ver \in Nat
  <2>1. v.id \in 0..s7.ver
    <3> HIDE DEF l, Row
    <3>1. v \in Row
      BY <1>1, <1>4
    <3> QED
      BY <3>1 DEF Row
  <2> QED
    BY <1>1, <1>2, <2>1 DEF CatalogInv, CatalogCounters
<1>6. /\ Differ(l) /\ (s7.fault = 0 => Named(l))
      /\ \A u \in r.kept : u.id \in C!Of(r.app) /\ u = C!Item(u.id, s2[u.id].ver, s2[u.id].chart)
      /\ \A u \in r.kept, k \in DOMAIN l : l[k].id # u.id
      /\ C!Of(r.app) \subseteq r.old \cup {u.id : u \in r.kept}
      /\ \A k \in DOMAIN s5["c"].list : s5["c"].list[k].id = k
  BY <1>1 DEF ListsInv, SavesInv, NamesInv, Saving
<1>7. s7.fault = 0 =>
        /\ \A i, j \in DOMAIN s2 : s2[i].app = s2[j].app /\ s2[i].ver = s2[j].ver => i = j \/ s2[i].app = r.app
        /\ Named(s5["c"].list)
        /\ \A u, x \in r.kept : u.ver = x.ver => u = x
        /\ \A u \in r.kept, k \in DOMAIN l : l[k].ver # u.ver
        /\ r.op = "version" => /\ r.row \in 1..s7.ver
                               /\ \A k \in DOMAIN l : l[k].id # r.row
                               /\ \A u \in r.kept : u.id # r.row
  BY <1>1 DEF ListsInv, NamesInv, Saving
<1>8. made.app = r.app /\ made.ver = v.ver /\ made.chart = v.chart /\ w = C!Item(id, made.ver, made.chart)
      /\ w.id = id /\ w.ver = v.ver
  BY DEF C!Item
<1> HIDE DEF q, r, made, w
<1>9. /\ 1 \in DOMAIN l /\ l[1] = v
      /\ \A k \in DOMAIN l : l[k] \in Row
      /\ \A k \in DOMAIN Tail(l) : k + 1 \in DOMAIN l /\ k + 1 # 1 /\ Tail(l)[k] = l[k + 1]
  <2> HIDE DEF l, Row
  <2>1. l # <<>>
    BY <1>1
  <2> QED
    BY <1>4, <2>1
<1>10. \A k \in DOMAIN l : l[k].id \in 0..s7.ver
  BY <1>9
<1> HIDE DEF l, Row, v
<1>11. /\ \A u \in r.kept : u.id # id
       /\ \A k \in DOMAIN Tail(l) : Tail(l)[k].id # id
       /\ s7.fault = 0 /\ r.op = "version" => id # r.row
  <2>1. CASE v.id = 0
    <3>1. id = s7.ver + 1
      BY <2>1
    <3>2. \A u \in r.kept : u.id \in 1..s7.ver
      BY <1>2, <1>6 DEF C!Of
    <3>3. \A k \in DOMAIN Tail(l) : Tail(l)[k].id \in 0..s7.ver
      BY <1>9, <1>10
    <3> HIDE DEF id
    <3>4. \A u \in r.kept : u.id # id
      BY <1>2, <3>1, <3>2
    <3>5. \A k \in DOMAIN Tail(l) : Tail(l)[k].id # id
      BY <1>2, <3>1, <3>3
    <3>6. s7.fault = 0 /\ r.op = "version" => id # r.row
      BY <1>2, <1>7, <3>1
    <3> QED
      BY <3>4, <3>5, <3>6
  <2>2. CASE v.id # 0
    <3>1. id = l[1].id /\ 1 \in DOMAIN l
      BY <1>9, <2>2
    <3> HIDE DEF id
    <3>2. \A k \in DOMAIN Tail(l) : Tail(l)[k].id # id
      BY <1>6, <1>9, <3>1 DEF Differ
    <3> QED
      BY <1>6, <1>7, <3>1, <3>2
  <2> QED
    BY <2>1, <2>2
<1> HIDE DEF id
<1>12. /\ DOMAIN s2' = DOMAIN s2 \cup {id} /\ s2'[id] = made
       /\ \A i \in DOMAIN s2 : i # id => s2'[i] = s2[i]
  BY <1>1
<1>13. Differ(q.list) /\ (s7.fault = 0 => Named(q.list))
  BY <1>3, <1>6, <1>9 DEF Differ, Named
<1>14. /\ \A u \in q.kept : /\ u.id \in DOMAIN s2' /\ s2'[u.id].app = q.app
                            /\ u = C!Item(u.id, s2'[u.id].ver, s2'[u.id].chart)
       /\ \A u \in q.kept, k \in DOMAIN q.list : q.list[k].id # u.id
       /\ {i \in DOMAIN s2' : s2'[i].app = q.app} \subseteq q.old \cup {u.id : u \in q.kept}
  <2>1. ASSUME NEW u \in q.kept
        PROVE  /\ u.id \in DOMAIN s2' /\ s2'[u.id].app = q.app
               /\ u = C!Item(u.id, s2'[u.id].ver, s2'[u.id].chart)
    <3>1. CASE u = w
      BY <1>3, <1>8, <1>12, <3>1
    <3>2. CASE u \in r.kept
      BY <1>3, <1>6, <1>11, <1>12, <3>2 DEF C!Of
    <3> QED
      BY <1>3, <2>1, <3>1, <3>2
  <2>2. \A u \in q.kept, k \in DOMAIN q.list : q.list[k].id # u.id
    BY <1>3, <1>6, <1>8, <1>9, <1>11
  <2>3. ASSUME NEW i \in DOMAIN s2', s2'[i].app = q.app
        PROVE  i \in q.old \cup {u.id : u \in q.kept}
    <3>1. CASE i = id
      BY <1>3, <1>8, <3>1
    <3>2. CASE i # id
      BY <1>3, <1>6, <1>12, <2>3, <3>2 DEF C!Of
    <3> QED
      BY <3>1, <3>2
  <2> QED
    BY <2>1, <2>2, <2>3
<1>15. SavesInv'
  BY <1>1, <1>3, <1>6, <1>13, <1>14 DEF SavesInv, Saving, C!Of, q
<1>16. ASSUME s7.fault = 0
       PROVE  /\ \A i, j \in DOMAIN s2' : s2'[i].app = s2'[j].app /\ s2'[i].ver = s2'[j].ver =>
                   i = j \/ s2'[i].app = q.app
              /\ \A u, x \in q.kept : u.ver = x.ver => u = x
              /\ \A u \in q.kept, k \in DOMAIN q.list : q.list[k].ver # u.ver
              /\ q.op = "version" => /\ q.row \in 1..s7'.ver
                                     /\ \A k \in DOMAIN q.list : q.list[k].id # q.row
                                     /\ \A u \in q.kept : u.id # q.row
  <2>1. ASSUME NEW i \in DOMAIN s2', NEW j \in DOMAIN s2', s2'[i].app = s2'[j].app, s2'[i].ver = s2'[j].ver
        PROVE  i = j \/ s2'[i].app = q.app
    <3>1. CASE i = id \/ j = id
      BY <1>3, <1>8, <1>12, <2>1, <3>1
    <3>2. CASE i # id /\ j # id
      BY <1>3, <1>7, <1>12, <1>16, <2>1, <3>2
    <3> QED
      BY <3>1, <3>2
  <2>2. \A u \in r.kept : u.ver # w.ver
    BY <1>7, <1>8, <1>9, <1>16
  <2>3. \A u, x \in q.kept : u.ver = x.ver => u = x
    BY <1>3, <1>7, <1>16, <2>2
  <2>4. \A u \in q.kept, k \in DOMAIN q.list : q.list[k].ver # u.ver
    <3>1. \A k \in DOMAIN Tail(l) : Tail(l)[k].ver # w.ver
      BY <1>6, <1>8, <1>9, <1>16 DEF Named
    <3> QED
      BY <1>3, <1>7, <1>9, <1>16, <3>1
  <2>5. q.op = "version" => /\ q.row \in 1..s7'.ver
                            /\ \A k \in DOMAIN q.list : q.list[k].id # q.row
                            /\ \A u \in q.kept : u.id # q.row
    BY <1>2, <1>3, <1>5, <1>7, <1>8, <1>9, <1>11, <1>16
  <2> QED
    BY <2>1, <2>3, <2>4, <2>5
<1>17. NamesInv'
  BY <1>1, <1>3, <1>5, <1>7, <1>13, <1>16 DEF NamesInv, Saving, q
<1> QED
  BY <1>15, <1>17 DEF ListsInv


(* The last version that is not listed has gone: those that are left are    *)
(* what was kept, and have different names again.                           *)
LEMMA KeptAreAll ==
    ASSUME CatalogInv, ListsInv, C!DeleteUnlisted("c"), C!Unlisted("c") = {}
    PROVE  /\ s4["c"].kept = {C!Item(i, s2[i].ver, s2[i].chart) : i \in C!Of(s4["c"].app)}
           /\ s7.fault = 0 => \A i, j \in DOMAIN s2 : s2[i].app = s2[j].app /\ s2[i].ver = s2[j].ver => i = j
<1> DEFINE r == s4["c"]
<1>1. r.at = "versions" /\ r.old \subseteq {v.id : v \in r.kept}
  BY DEF C!DeleteUnlisted, C!Unlisted
<1>2. /\ \A v \in r.kept : v.id \in C!Of(r.app) /\ v = C!Item(v.id, s2[v.id].ver, s2[v.id].chart)
      /\ C!Of(r.app) \subseteq r.old \cup {v.id : v \in r.kept}
  BY <1>1 DEF ListsInv, SavesInv
<1>3. \A i \in C!Of(r.app) : \E v \in r.kept : v.id = i /\ v = C!Item(i, s2[i].ver, s2[i].chart)
  BY <1>1, <1>2
<1>4. r.kept = {C!Item(i, s2[i].ver, s2[i].chart) : i \in C!Of(r.app)}
  BY <1>2, <1>3
<1>5. s7.fault = 0 => \A v, w \in r.kept : v.ver = w.ver => v = w
  BY <1>1 DEF ListsInv, NamesInv
<1>6. s7.fault = 0 => \A i, j \in DOMAIN s2 : s2[i].app = s2[j].app /\ s2[i].ver = s2[j].ver =>
                        i = j \/ s2[i].app = r.app
  BY DEF ListsInv, NamesInv
<1> HIDE DEF r
<1>7. ASSUME s7.fault = 0, NEW i \in DOMAIN s2, NEW j \in DOMAIN s2, s2[i].app = r.app, s2[j].app = r.app,
             s2[i].ver = s2[j].ver
      PROVE  i = j
  <2>1. PICK v \in r.kept : v.id = i /\ v = C!Item(i, s2[i].ver, s2[i].chart)
    BY <1>3, <1>7 DEF C!Of
  <2>2. PICK w \in r.kept : w.id = j /\ w = C!Item(j, s2[j].ver, s2[j].chart)
    BY <1>3, <1>7 DEF C!Of
  <2>3. v.ver = s2[i].ver /\ w.ver = s2[j].ver
    BY <2>1, <2>2 DEF C!Item
  <2> QED
    BY <1>5, <1>7, <2>1, <2>2, <2>3
<1> QED
  BY <1>4, <1>6, <1>7 DEF r

LEMMA UnlistedKeepsLists ==
    ASSUME CatalogInv, ListsInv, C!DeleteUnlisted("c")
    PROVE  ListsInv'
<1> DEFINE r == s4["c"]
           q == s4'["c"]
           next == IF r.op = "version" THEN "chart" ELSE "done"
<1>1. /\ UNCHANGED <<s5, s7>> /\ r.at = "versions" /\ DOMAIN s4 = {"c"} /\ CatalogAsked(r, s1, s7)
  BY DEF C!DeleteUnlisted, CatalogInv, CatalogRequests
<1>2. CASE C!Unlisted("c") = {}
  <2>1. C!To("c", next) /\ s2' = s2
    BY <1>2 DEF C!DeleteUnlisted
  <2>2. \/ q.at = "done"
        \/ q.at = "chart" /\ r.op = "version" /\ q.op = r.op /\ q.list = r.list /\ q.kept = r.kept /\ q.row = r.row
    BY <1>1, <2>1 DEF C!To, CatalogAsked, C!NoReq
  <2>3. s7.fault = 0 => \A i, j \in DOMAIN s2 : s2[i].app = s2[j].app /\ s2[i].ver = s2[j].ver => i = j
    BY <1>2, KeptAreAll
  <2> HIDE DEF q
  <2> QED
    BY <1>1, <2>1, <2>2, <2>3 DEF ListsInv, SavesInv, NamesInv, Saving, q
<1>3. CASE \E i \in C!Unlisted("c") :
             /\ s2' = [j \in DOMAIN s2 \ {i} |-> s2[j]]
             /\ s4' = [s4 EXCEPT !["c"].old = @ \ {i}]
  <2>1. PICK i \in C!Unlisted("c") :
             /\ s2' = [j \in DOMAIN s2 \ {i} |-> s2[j]]
             /\ s4' = [s4 EXCEPT !["c"].old = @ \ {i}]
    BY <1>3
  <2>2. /\ q.at = "versions" /\ q.app = r.app /\ q.op = r.op /\ q.list = r.list /\ q.kept = r.kept
        /\ q.row = r.row /\ q.old = r.old \ {i}
    BY <1>1, <2>1 DEF CatalogAsked
  <2>3. DOMAIN s2' = DOMAIN s2 \ {i} /\ \A j \in DOMAIN s2' : s2'[j] = s2[j]
    BY <2>1
  <2>4. \A v \in r.kept : v.id # i
    BY <2>1 DEF C!Unlisted
  <2> HIDE DEF q
  <2>5. SavesInv'
    <3>1. \A v \in r.kept : v.id \in C!Of(r.app) /\ v = C!Item(v.id, s2[v.id].ver, s2[v.id].chart)
      BY <1>1 DEF ListsInv, SavesInv
    <3>2. \A v \in r.kept : /\ v.id \in DOMAIN s2' /\ s2'[v.id].app = r.app
                            /\ v = C!Item(v.id, s2'[v.id].ver, s2'[v.id].chart)
      BY <2>3, <2>4, <3>1 DEF C!Of
    <3>3. {j \in DOMAIN s2' : s2'[j].app = r.app} \subseteq (r.old \ {i}) \cup {v.id : v \in r.kept}
      BY <1>1, <2>3 DEF ListsInv, SavesInv, C!Of
    <3> QED
      BY <1>1, <2>2, <3>2, <3>3 DEF ListsInv, SavesInv, Saving, C!Of, q
  <2>6. NamesInv'
    BY <1>1, <2>2, <2>3 DEF ListsInv, NamesInv, Saving, q
  <2> QED
    BY <2>5, <2>6 DEF ListsInv
<1> QED
  BY <1>2, <1>3 DEF C!DeleteUnlisted

(* The version looked up is one of the application.                        *)
LEMMA LookKeepsLists ==
    ASSUME CatalogInv, ListsInv, C!GetAppVersion("c")
    PROVE  ListsInv'
<1> DEFINE r == s4["c"]
           q == s4'["c"]
           found == [id |-> r.row, ver |-> s2[r.row].ver]
<1>1. UNCHANGED <<s2, s5, s7>> /\ r.at = "look" /\ DOMAIN s4 = {"c"} /\ CatalogAsked(r, s1, s7)
  BY DEF C!GetAppVersion, CatalogInv, CatalogRequests
<1>2. CASE C!To("c", "done")
  BY <1>1, <1>2, EndIsFine, EndKeepsLists, QuietKeepsLists DEF Saving
<1>3. CASE r.row \in C!Of(r.app) /\ s4' = [s4 EXCEPT !["c"].at = "cut", !["c"].list = <<found>>]
  <2>1. q.at = "cut" /\ q.app = r.app /\ q.row = r.row /\ q.kept = r.kept /\ q.list = <<found>>
    BY <1>1, <1>3 DEF CatalogAsked
  <2>2. Head(q.list).ver = s2[r.row].ver
    BY <2>1
  <2> HIDE DEF q, found
  <2>3. q.kept = {}
    BY <1>1, <2>1 DEF ListsInv, SavesInv
  <2>4. r.row \in {i \in DOMAIN s2' : s2'[i].app = q.app} /\ Head(q.list).ver = s2'[q.row].ver
    BY <1>1, <1>3, <2>1, <2>2 DEF C!Of
  <2>5. SavesInv'
    BY <1>1, <2>1, <2>3 DEF ListsInv, SavesInv, Saving, q
  <2>6. NamesInv'
    BY <1>1, <2>1, <2>4 DEF ListsInv, NamesInv, Saving, C!Of, q
  <2> QED
    BY <2>5, <2>6 DEF ListsInv
<1> QED
  BY <1>2, <1>3 DEF C!GetAppVersion

(* A sequence without the i-th.                                            *)
LEMMA RemovedAt ==
    ASSUME NEW S, NEW s \in Seq(S), NEW i \in 1..Len(s)
    PROVE  /\ DOMAIN C!RemoveAt(s, i) = 1..(Len(s) - 1)
           /\ \A k \in 1..(Len(s) - 1) : C!RemoveAt(s, i)[k] = IF k < i THEN s[k] ELSE s[k + 1]
<1> DEFINE front == SubSeq(s, 1, i - 1)
           back == SubSeq(s, i + 1, Len(s))
<1>1. front \in Seq(S) /\ Len(front) = i - 1 /\ \A k \in 1..(i - 1) : front[k] = s[k]
  OBVIOUS
<1>2. back \in Seq(S) /\ Len(back) = Len(s) - i /\ \A k \in 1..(Len(s) - i) : back[k] = s[i + k]
  OBVIOUS
<1>3. C!RemoveAt(s, i) = front \o back
  BY DEF C!RemoveAt
<1> HIDE DEF front, back
<1>4. Len(s) \in Nat
  OBVIOUS
<1>5. Len(front \o back) = Len(s) - 1 /\ front \o back \in Seq(S)
  <2>1. front \o back \in Seq(S)
    BY <1>1, <1>2
  <2>4. \A a, b \in Seq(S) : Len(a \o b) = Len(a) + Len(b)
    OBVIOUS
  <2>3. Len(front \o back) = Len(front) + Len(back)
    BY <1>1, <1>2, <2>4
  <2>2. (i - 1) + (Len(s) - i) = Len(s) - 1
    BY <1>4
  <2> QED
    BY <1>1, <1>2, <2>1, <2>2, <2>3
<1>6. ASSUME NEW k \in 1..(Len(s) - 1)
      PROVE  (front \o back)[k] = IF k < i THEN s[k] ELSE s[k + 1]
  <2>1. CASE k < i
    BY <1>1, <1>2, <1>4, <2>1
  <2>2. CASE ~(k < i)
    <3>1. k - (i - 1) \in 1..(Len(s) - i) /\ i + (k - (i - 1)) = k + 1
      BY <1>4, <2>2
    <3>2. (front \o back)[k] = back[k - (i - 1)]
      BY <1>1, <1>2, <1>4, <2>2
    <3> QED
      BY <1>2, <2>2, <3>1, <3>2
  <2> QED
    BY <2>1, <2>2
<1> QED
  BY <1>3, <1>5, <1>6

(* Of the version that is cut there is one, while nothing fails: the one    *)
(* that was looked up.                                                      *)
LEMMA CutKeepsLists ==
    ASSUME CatalogInv, ListsInv, C!DeleteAppVersion("c")
    PROVE  ListsInv'
<1> DEFINE r == s4["c"]
           ids == C!InOrder(C!Of(r.app))
           n == Cardinality(C!Of(r.app))
           named == {k \in DOMAIN ids : s2[ids[k]].ver = Head(r.list).ver}
           first == CHOOSE k \in named : \A j \in named : k <= j
           cut == IF named = {} THEN ids ELSE C!RemoveAt(ids, first)
           list == [k \in DOMAIN cut |-> C!Item(cut[k], s2[cut[k]].ver, s2[cut[k]].chart)]
           There == C!Of(r.app)
           q == s4'["c"]
<1>1. UNCHANGED <<s2, s5, s7>> /\ r.at = "cut" /\ DOMAIN s4 = {"c"} /\ CatalogAsked(r, s1, s7)
  BY DEF C!DeleteAppVersion, CatalogInv, CatalogRequests
<1>2. CASE C!To("c", "done")
  BY <1>1, <1>2, EndKeepsLists, QuietKeepsLists DEF Saving
<1>3. CASE s4' = [s4 EXCEPT !["c"].at = "read", !["c"].list = list]
  <2>1. /\ There \in SUBSET Nat /\ IsFiniteSet(There) /\ There \subseteq DOMAIN s2
        /\ n \in Nat /\ DOMAIN s2 \subseteq 1..s7.ver
    BY VersionsOf DEF CatalogInv, CatalogCounters, CatalogTables
  <2>2. /\ ids \in [1..n -> There]
        /\ \A j, k \in 1..n : ids[j] = ids[k] => j = k
        /\ \A i \in There : \E k \in 1..n : ids[k] = i
    BY <2>1, InOrderIsThem
  <2>3. q.at = "read" /\ q.list = list /\ q.op = r.op /\ q.row = r.row /\ q.kept = r.kept
    BY <1>1, <1>3 DEF CatalogAsked
  <2>4. /\ r.kept = {}
        /\ s7.fault = 0 => r.row \in There /\ Head(r.list).ver = s2[r.row].ver
        /\ s7.fault = 0 => \A i, j \in There : s2[i].ver = s2[j].ver => i = j
    BY <1>1 DEF ListsInv, SavesInv, NamesInv, C!Of
  <2> DEFINE Name(i) == s2[i].ver
             name == Head(r.list).ver
  <2>5. named = {k \in DOMAIN ids : Name(ids[k]) = name}
    OBVIOUS
  <2>6. DOMAIN list = DOMAIN cut /\ \A k \in DOMAIN cut : list[k].id = cut[k] /\ list[k].ver = Name(cut[k])
    BY DEF C!Item
  <2>15. There \subseteq 1..s7.ver
    BY <2>1
  <2> HIDE DEF ids, n, There, list, q, Name, name
  <2>7. ids \in Seq(There) /\ Len(ids) = n /\ DOMAIN ids = 1..n
    BY <2>1, <2>2
  <2> HIDE DEF r
  <2>8. named # {} => first \in named /\ first \in 1..n
    <3> SUFFICES ASSUME named # {}
                 PROVE  first \in named /\ first \in 1..n
      OBVIOUS
    <3>1. named \in SUBSET (1..n) /\ IsFiniteSet(1..n)
      BY <2>1, <2>5, <2>7, FS_Interval
    <3> HIDE DEF named
    <3>3. 1..n \subseteq Nat
      BY <2>1
    <3>2. named \in SUBSET Nat /\ IsFiniteSet(named)
      BY <3>1, <3>3, FS_Subset
    <3> QED
      BY <3>1, <3>2, FirstIsThere
  <2> HIDE DEF first
  <2>9. \E p \in [DOMAIN cut -> 1..n] :
          /\ \A k \in DOMAIN cut : cut[k] = ids[p[k]]
          /\ \A j, k \in DOMAIN cut : p[j] = p[k] => j = k
          /\ \A k \in DOMAIN cut : named # {} => p[k] # first
    <3>1. CASE named = {}
      <4>1. cut = ids
        BY <3>1
      <4> HIDE DEF cut
      <4>2. [k \in 1..n |-> k] \in [DOMAIN cut -> 1..n]
        BY <2>7, <4>1
      <4> QED
        BY <2>7, <3>1, <4>1, <4>2
    <3>2. CASE named # {}
      <4>1. cut = C!RemoveAt(ids, first)
        BY <3>2
      <4>2. first \in 1..n
        BY <2>8, <3>2
      <4> HIDE DEF cut
      <4>3. DOMAIN cut = 1..(n - 1) /\ \A k \in 1..(n - 1) : cut[k] = IF k < first THEN ids[k] ELSE ids[k + 1]
        BY <2>7, <4>1, <4>2, RemovedAt
      <4> DEFINE p == [k \in 1..(n - 1) |-> IF k < first THEN k ELSE k + 1]
      <4>4. p \in [DOMAIN cut -> 1..n]
        BY <2>1, <4>2, <4>3
      <4>5. \A k \in DOMAIN cut : cut[k] = ids[p[k]] /\ p[k] # first
        BY <2>1, <4>2, <4>3
      <4>6. \A j, k \in DOMAIN cut : p[j] = p[k] => j = k
        BY <2>1, <4>2, <4>3
      <4> HIDE DEF p
      <4> QED
        BY <4>4, <4>5, <4>6
    <3> QED
      BY <3>1, <3>2
  <2> HIDE DEF cut
  <2>10. PICK p \in [DOMAIN cut -> 1..n] :
          /\ \A k \in DOMAIN cut : cut[k] = ids[p[k]]
          /\ \A j, k \in DOMAIN cut : p[j] = p[k] => j = k
          /\ \A k \in DOMAIN cut : named # {} => p[k] # first
    BY <2>9
  <2>11. /\ \A k \in DOMAIN cut : cut[k] \in There
         /\ \A j, k \in DOMAIN cut : cut[j] = cut[k] => j = k
    BY <2>2, <2>10
  <2>12. Differ(list)
    BY <2>6, <2>11 DEF Differ
  <2>13. s7.fault = 0 => Named(list)
    <3> SUFFICES ASSUME s7.fault = 0, NEW j \in DOMAIN cut, NEW k \in DOMAIN cut, list[j].ver = list[k].ver
                 PROVE  j = k
      BY <2>6 DEF Named
    <3>1. Name(cut[j]) = Name(cut[k])
      BY <2>6
    <3>2. cut[j] = cut[k]
      BY <2>4, <2>11, <3>1 DEF Name
    <3> QED
      BY <2>11, <3>2
  <2>14. s7.fault = 0 => r.row \in 1..s7.ver /\ \A k \in DOMAIN list : list[k].id # r.row
    <3> SUFFICES ASSUME s7.fault = 0
                 PROVE  r.row \in 1..s7.ver /\ \A k \in DOMAIN cut : cut[k] # r.row
      BY <2>6
    <3>1. r.row \in There /\ name = Name(r.row) /\ \A i, j \in There : Name(i) = Name(j) => i = j
      BY <2>4 DEF Name, name
    <3>2. PICK k \in 1..n : ids[k] = r.row
      BY <2>2, <3>1
    <3>3. k \in named
      BY <2>5, <2>7, <3>1, <3>2
    <3>4. Name(ids[first]) = name /\ first \in 1..n /\ ids[first] \in There
      BY <2>2, <2>5, <2>8, <3>3
    <3>5. ids[first] = r.row
      BY <3>1, <3>4
    <3>6. \A j \in DOMAIN cut : ids[p[j]] # ids[first]
      BY <2>2, <2>10, <3>3, <3>4
    <3> QED
      BY <2>10, <2>15, <3>1, <3>5, <3>6
  <2>16. SavesInv'
    BY <1>1, <2>3, <2>4, <2>12 DEF ListsInv, SavesInv, Saving, q, r
  <2>17. NamesInv'
    BY <1>1, <2>3, <2>4, <2>13, <2>14 DEF ListsInv, NamesInv, Saving, q, r
  <2> QED
    BY <2>16, <2>17 DEF ListsInv
<1>4. C!To("c", "done") \/ s4' = [s4 EXCEPT !["c"].at = "read", !["c"].list = list]
  BY DEF C!DeleteAppVersion
<1> QED
  BY <1>2, <1>3, <1>4

LEMMA ListsStep ==
    ASSUME CatalogInv, ListsInv, C!Next
    PROVE  ListsInv'
<1>1. CASE C!SaveAppRelease("c")
  BY <1>1 DEF C!SaveAppRelease, ListsInv, SavesInv, NamesInv, C!Of
<1>2. CASE C!UploadApp("c")
  <2>1. UNCHANGED <<s1, s2, s4, s5>> /\ s7'.ver = s7.ver /\ (s7'.fault = 0 => s7.fault = 0)
    BY <1>2 DEF C!UploadApp, CatalogInv, CatalogCounters
  <2> QED
    BY <2>1 DEF ListsInv, SavesInv, NamesInv, C!Of
<1> QED
  BY <1>1, <1>2, GetKeepsLists, BeginSaveKeepsLists, StartsKeepLists, ReadKeepsLists, SaveAppKeepsLists,
     SaveVersionKeepsLists, UnlistedKeepsLists, LookKeepsLists, CutKeepsLists, OthersKeepLists
  DEF C!Next

LEMMA ListsStart ==
    ASSUME C!Init
    PROVE  ListsInv
<1>1. s2 = <<>> /\ s4["c"] = C!NoReq /\ s5["c"] = C!NoView
  BY DEF C!Init
<1>2. DOMAIN s2 = {} /\ s4["c"].at = "done" /\ DOMAIN s5["c"].list = {}
  BY <1>1 DEF C!NoReq, C!NoView
<1> QED
  BY <1>2 DEF ListsInv, SavesInv, NamesInv, Saving, Named

(* The last step of a save has nothing left to write or to remove.         *)
LEMMA SavedAreListed ==
    ASSUME CatalogInv, ListsInv, [C!Next]_(C!vars)
    PROVE  C!SavedIsListed
<1> SUFFICES ASSUME s4["c"].at = "versions", s4'["c"].at \in {"done", "chart"}, s7'.fault = s7.fault
             PROVE  s4["c"].kept = {C!Item(i, s2[i].ver, s2[i].chart) : i \in C!Of(s4["c"].app)}
  BY DEF C!SavedIsListed
<1>1. DOMAIN s4 = {"c"} /\ CatalogAsked(s4["c"], s1, s7) /\ s7.fault \in Nat
  BY DEF CatalogInv, CatalogRequests, CatalogCounters
<1>2. C!Next
  BY DEF C!vars
<1>3. C!DeleteUnlisted("c")
  <2>1. ~C!Fail("c")
    BY <1>1 DEF C!Fail, CatalogInv, CatalogCounters
  <2>2. ~C!SaveVersion("c")
    BY <1>1 DEF C!SaveVersion, CatalogAsked
  <2>3. ~(C!Get("c") \/ C!BeginSave("c") \/ C!BeginDeleteVersion("c") \/ C!BeginDelete("c") \/ C!UploadApp("c"))
    BY DEF C!Get, C!BeginSave, C!BeginDeleteVersion, C!BeginDelete, C!UploadApp, C!Begin, C!Active
  <2>4. ~C!SaveAppRelease("c")
    BY DEF C!SaveAppRelease
  <2>5. ~(C!ReadVersions("c") \/ C!SaveApp("c") \/ C!GetAppVersion("c") \/ C!DeleteAppVersion("c")
          \/ C!DeleteChart("c") \/ C!DeleteRow("c") \/ C!DeleteVersions("c") \/ C!DeleteApp("c"))
    BY DEF C!ReadVersions, C!SaveApp, C!GetAppVersion, C!DeleteAppVersion, C!DeleteChart, C!DeleteRow,
       C!DeleteVersions, C!DeleteApp
  <2> QED
    BY <1>2, <2>1, <2>2, <2>3, <2>4, <2>5 DEF C!Next
<1>4. C!Unlisted("c") = {}
  BY <1>1, <1>3 DEF C!DeleteUnlisted, CatalogAsked
<1> QED
  BY <1>3, <1>4, KeptAreAll

(* Only the chart of the version that was deleted could go, and that        *)
(* version is in no list.                                                   *)
LEMMA ChartsAreKept ==
    ASSUME CatalogInv, ListsInv, [C!Next]_(C!vars)
    PROVE  C!ChartsStay
<1> SUFFICES ASSUME s7.fault = 0, NEW i \in DOMAIN s2, s2[i].chart \in s3
             PROVE  s2[i].chart \in s3'
  BY DEF C!ChartsStay
<1>1. s2[i].chart # "none"
  <2>1. s2[i] \in VersionRows(s7.app)
    BY DEF CatalogInv, CatalogTables
  <2>2. s2[i].chart \in ChartNames
    BY <2>1 DEF VersionRows
  <2> QED
    BY <2>2, NamesAssumption DEF ChartNames, C!NoChart
<1>2. CASE C!UploadApp("c")
  BY <1>1, <1>2 DEF C!UploadApp, C!NoDir
<1>3. CASE C!DeleteApp("c")
  BY <1>3 DEF C!DeleteApp
<1>4. CASE C!DeleteChart("c")
  <2>1. s4["c"].at = "chart" /\ s3' = s3 \ C!StrayCharts("c")
    BY <1>4 DEF C!DeleteChart
  <2>2. \A v \in s4["c"].kept : v.id # s4["c"].row
    BY <2>1 DEF ListsInv, SavesInv, NamesInv, Saving
  <2>3. C!StrayCharts("c") = {}
    BY <2>2 DEF C!StrayCharts
  <2> QED
    BY <2>1, <2>3
<1>5. CASE s3' = s3
  BY <1>5
<1>6. C!Next => s3' = s3 \/ C!UploadApp("c") \/ C!DeleteApp("c") \/ C!DeleteChart("c")
  <2>1. C!Get("c") \/ C!BeginSave("c") \/ C!BeginDeleteVersion("c") \/ C!BeginDelete("c") => s3' = s3
    BY DEF C!Get, C!BeginSave, C!BeginDeleteVersion, C!BeginDelete
  <2>2. C!SaveAppRelease("c") \/ C!ReadVersions("c") \/ C!SaveApp("c") \/ C!SaveVersion("c") => s3' = s3
    BY DEF C!SaveAppRelease, C!ReadVersions, C!SaveApp, C!SaveVersion
  <2>3. C!DeleteUnlisted("c") \/ C!GetAppVersion("c") => s3' = s3
    BY DEF C!DeleteUnlisted, C!GetAppVersion
  <2>5. C!DeleteAppVersion("c") => s3' = s3
    BY Zenon DEF C!DeleteAppVersion
  <2>4. C!DeleteRow("c") \/ C!DeleteVersions("c") \/ C!Fail("c") => s3' = s3
    BY DEF C!DeleteRow, C!DeleteVersions, C!Fail
  <2> QED
    BY <2>1, <2>2, <2>3, <2>4, <2>5 DEF C!Next
<1> QED
  BY <1>2, <1>3, <1>4, <1>5, <1>6 DEF C!vars

-----------------------------------------------------------------------------
(* The behaviour of the module is that of one of its parts.                *)

AppsInv ==
    /\ part = "catalog" => CatalogInv
    /\ part = "releases" => InTurnInv
    /\ part = "releases at once" => AtOnceInv

LEMMA AppsStarts == AppsInit => AppsInv
<1> SUFFICES ASSUME AppsInit
             PROVE  AppsInv
  OBVIOUS
<1>1. part = "catalog" => C!Init
  BY DEF AppsInit
<1>2. part = "releases" => Alone!Init
  BY DEF AppsInit
<1>3. part = "releases at once" => Both!Init
  BY DEF AppsInit
<1> QED
  BY <1>1, <1>2, <1>3, CatalogStarts, InTurnStarts, AtOnceStarts DEF AppsInv

LEMMA AppsStay == AppsInv /\ [AppsNext]_<<part, All>> => AppsInv'
<1> SUFFICES ASSUME AppsInv, [AppsNext]_<<part, All>>
             PROVE  AppsInv'
  OBVIOUS
<1>1. CASE UNCHANGED <<part, All>>
  <2>1. UNCHANGED <<part, s1, s2, s3, s4, s5, s7>>
    BY <1>1 DEF All
  <2>2. CatalogInv => CatalogInv'
    BY <2>1 DEF CatalogInv, CatalogCounters, CatalogTables, CatalogViews, CatalogRequests, VersionsHaveApps
  <2>3. ASSUME NEW D, ReleaseInv(D)
        PROVE  ReleaseInv(D)'
    <3>1. ReleaseTables'
      BY <2>1, <2>3 DEF ReleaseInv, ReleaseTables, Held
    <3>2. ReleaseRequests(D)'
      BY <2>1, <2>3 DEF ReleaseInv, ReleaseRequests, AskedBy
    <3>3. ReposGo(D)'
      BY <2>1, <2>3 DEF ReleaseInv, ReposGo
    <3> QED
      BY <3>1, <3>2, <3>3 DEF ReleaseInv
  <2>4. InTurnInv => InTurnInv'
    BY <2>1, <2>3 DEF InTurnInv, Paired, Held
  <2>5. AtOnceInv => AtOnceInv'
    BY <2>1, <2>3 DEF AtOnceInv, ObjectsAreNamed, HasRow, Held
  <2> QED
    BY <2>1, <2>2, <2>4, <2>5 DEF AppsInv
<1>2. CASE Catalog
  BY <1>2, CatalogStep DEF Catalog, AppsInv
<1>3. CASE ReleasesInTurn
  BY <1>3, InTurnStep DEF ReleasesInTurn, AppsInv
<1>4. CASE ReleasesAtOnce
  BY <1>4, AtOnceStep DEF ReleasesAtOnce, AppsInv
<1>5. CASE part' = part /\ part \notin {"catalog", "releases", "releases at once"}
  BY <1>5 DEF AppsInv
<1> QED
  BY <1>1, <1>2, <1>3, <1>4, <1>5 DEF AppsNext, ServicesInTurn, ServicesAtOnce, TablesInTurn, TablesAtOnce, Workflow

(* In every behaviour, for every set of names, versions, charts and clients *)
(* and every number of requests and failures: each failure leaves at most   *)
(* one release with a row or an object alone, the object of a repository is *)
(* gone when its request is, requests at once leave no object without a row *)
(* while none fails, and no version outlives its application while none     *)
(* fails (data/app.go:131, biz/app.go:381,396, runtime/common.go:116).      *)
THEOREM ReleasesAlways == AppsSpec => []ReleasesHaveObjects
<1>1. AppsInv => ReleasesHaveObjects
  BY CatalogIsRight, InTurnIsRight, AtOnceIsRight DEF AppsInv, ReleasesHaveObjects
<1> QED
  BY <1>1, AppsStarts, AppsStay, PTL DEF AppsSpec

-----------------------------------------------------------------------------
(* Services and their tables: what ServicesProofs and TablesProofs show of *)
(* every instance, for those of the runs.                                  *)

OneByOneP == INSTANCE ServicesProofs WITH
    Requests <- {"r"}, Names <- ServiceNames, MaxStarts <- MaxCalls, MaxFaults <- MaxCallFaults,
    services <- s1, workflows <- s2, builds <- s3, objects <- s4, runs <- s5, recorded <- s6,
    reachable <- s7, request <- s8, count <- s9
TogetherP == INSTANCE ServicesProofs WITH
    Requests <- ServiceClients, Names <- ServiceNamesAtOnce, MaxServices <- MaxServicesAtOnce,
    MaxStarts <- MaxCallsAtOnce, MaxFaults <- MaxCallFaultsAtOnce, MaxCrashes <- MaxCrashesAtOnce,
    services <- s1, workflows <- s2, builds <- s3, objects <- s4, runs <- s5, recorded <- s6,
    reachable <- s7, request <- s8, count <- s9
SerialP == INSTANCE TablesProofs WITH
    Tx <- {"t"}, Names <- VolumeNames, Twice <- FALSE, MaxStarts <- MaxTransactions,
    MaxFaults <- MaxStatementFaults,
    rows <- s1, tx <- s2, count <- s3
LockingP == INSTANCE TablesProofs WITH
    Tx <- TableClients, Names <- VolumeNamesAtOnce, Twice <- FALSE, MaxStarts <- MaxTransactions,
    MaxFaults <- MaxStatementFaults,
    rows <- s1, tx <- s2, count <- s3

(* Both instances of a module say the same.                                *)
LEMMA OneByOneCounts == \A S : OneByOne!Cardinality(S) = OneByOneP!Cardinality(S)
  BY DEF OneByOne!Cardinality, OneByOneP!Cardinality, OneByOne!IsFiniteSet, OneByOneP!IsFiniteSet

LEMMA OneByOneIs ==
    /\ OneByOne!Init <=> OneByOneP!Init
    /\ OneByOne!Next <=> OneByOneP!Next
    /\ OneByOneP!TypeOK /\ OneByOneP!RowsHaveAService /\ OneByOneP!RunsAreRecorded =>
         OneByOne!TypeOK /\ OneByOne!RowsHaveAService /\ OneByOne!RunsAreRecorded
    /\ OneByOneP!ObjectsGoFirst <=> OneByOne!ObjectsGoFirst
<1>1. OneByOne!Init <=> OneByOneP!Init
  BY DEF OneByOne!Init, OneByOneP!Init, OneByOne!None, OneByOneP!None, OneByOne!Ids, OneByOneP!Ids, OneByOne!Idle, OneByOneP!Idle
<1>2. OneByOne!Next <=> OneByOneP!Next
  BY DEF
        OneByOne!None, OneByOneP!None, OneByOne!Ids, OneByOneP!Ids, OneByOne!Idle, OneByOneP!Idle,
        OneByOne!Present, OneByOneP!Present, OneByOne!Without, OneByOneP!Without,
        OneByOne!Counted, OneByOneP!Counted, OneByOne!Start, OneByOneP!Start, OneByOne!At, OneByOneP!At,
        OneByOne!Goto, OneByOneP!Goto, OneByOne!End, OneByOneP!End, OneByOne!Save, OneByOneP!Save,
        OneByOne!Delete, OneByOneP!Delete, OneByOne!SaveWorkflow, OneByOneP!SaveWorkflow,
        OneByOne!CreateContinuousIntegration, OneByOneP!CreateContinuousIntegration,
        OneByOne!CreateContinuousDeployment, OneByOneP!CreateContinuousDeployment,
        OneByOne!ApplyService, OneByOneP!ApplyService, OneByOne!DeleteBuild, OneByOneP!DeleteBuild,
        OneByOne!GetServiceByName, OneByOneP!GetServiceByName,
        OneByOne!WriteService, OneByOneP!WriteService, OneByOne!Get, OneByOneP!Get,
        OneByOne!GetServiceStatus, OneByOneP!GetServiceStatus, OneByOne!GetBuild, OneByOneP!GetBuild,
        OneByOne!GetWorkflowByServiceId, OneByOneP!GetWorkflowByServiceId,
        OneByOne!WriteWorkflow, OneByOneP!WriteWorkflow, OneByOne!CommitWorkflow, OneByOneP!CommitWorkflow,
        OneByOne!Build, OneByOneP!Build, OneByOne!SaveBuild, OneByOneP!SaveBuild,
        OneByOne!ApplyObject, OneByOneP!ApplyObject, OneByOne!DeleteObject, OneByOneP!DeleteObject,
        OneByOne!DeleteRows, OneByOneP!DeleteRows, OneByOne!Fail, OneByOneP!Fail,
        OneByOne!Crash, OneByOneP!Crash, OneByOne!Flip, OneByOneP!Flip, OneByOne!Call, OneByOneP!Call,
        OneByOne!Next, OneByOneP!Next, OneByOne!Types, OneByOneP!Types
<1>3. OneByOneP!TypeOK <=> OneByOne!TypeOK
  BY DEF OneByOne!TypeOK, OneByOneP!TypeOK, OneByOne!None, OneByOneP!None, OneByOne!Ids, OneByOneP!Ids, OneByOne!Types, OneByOneP!Types
<1>4. OneByOneP!RowsHaveAService <=> OneByOne!RowsHaveAService
  <2>1. OneByOne!Orphans = OneByOneP!Orphans
    BY DEF OneByOne!Orphans, OneByOneP!Orphans, OneByOne!None, OneByOneP!None
  <2> QED
    BY <2>1, OneByOneCounts DEF OneByOne!RowsHaveAService, OneByOneP!RowsHaveAService
<1>5. OneByOneP!RunsAreRecorded <=> OneByOne!RunsAreRecorded
  BY OneByOneCounts DEF OneByOne!RunsAreRecorded, OneByOneP!RunsAreRecorded, OneByOne!At, OneByOneP!At
<1>6. OneByOneP!ObjectsGoFirst <=> OneByOne!ObjectsGoFirst
  BY DEF OneByOne!ObjectsGoFirst, OneByOneP!ObjectsGoFirst, OneByOne!None, OneByOneP!None, OneByOne!Ids, OneByOneP!Ids, OneByOne!At, OneByOneP!At
<1> QED
  BY <1>1, <1>2, <1>3, <1>4, <1>5, <1>6

LEMMA TogetherCounts == \A S : Together!Cardinality(S) = TogetherP!Cardinality(S)
  BY DEF Together!Cardinality, TogetherP!Cardinality, Together!IsFiniteSet, TogetherP!IsFiniteSet

LEMMA TogetherIs ==
    /\ Together!Init <=> TogetherP!Init
    /\ Together!Next <=> TogetherP!Next
    /\ TogetherP!TypeOK /\ TogetherP!RowsHaveAService /\ TogetherP!RunsAreRecorded =>
         Together!TypeOK /\ Together!RowsHaveAService /\ Together!RunsAreRecorded
    /\ TogetherP!ObjectsGoFirst <=> Together!ObjectsGoFirst
<1>1. Together!Init <=> TogetherP!Init
  BY DEF Together!Init, TogetherP!Init, Together!None, TogetherP!None, Together!Ids, TogetherP!Ids, Together!Idle, TogetherP!Idle
<1>2. Together!Next <=> TogetherP!Next
  BY DEF
        Together!None, TogetherP!None, Together!Ids, TogetherP!Ids, Together!Idle, TogetherP!Idle,
        Together!Present, TogetherP!Present, Together!Without, TogetherP!Without,
        Together!Counted, TogetherP!Counted, Together!Start, TogetherP!Start, Together!At, TogetherP!At,
        Together!Goto, TogetherP!Goto, Together!End, TogetherP!End, Together!Save, TogetherP!Save,
        Together!Delete, TogetherP!Delete, Together!SaveWorkflow, TogetherP!SaveWorkflow,
        Together!CreateContinuousIntegration, TogetherP!CreateContinuousIntegration,
        Together!CreateContinuousDeployment, TogetherP!CreateContinuousDeployment,
        Together!ApplyService, TogetherP!ApplyService, Together!DeleteBuild, TogetherP!DeleteBuild,
        Together!GetServiceByName, TogetherP!GetServiceByName,
        Together!WriteService, TogetherP!WriteService, Together!Get, TogetherP!Get,
        Together!GetServiceStatus, TogetherP!GetServiceStatus, Together!GetBuild, TogetherP!GetBuild,
        Together!GetWorkflowByServiceId, TogetherP!GetWorkflowByServiceId,
        Together!WriteWorkflow, TogetherP!WriteWorkflow, Together!CommitWorkflow, TogetherP!CommitWorkflow,
        Together!Build, TogetherP!Build, Together!SaveBuild, TogetherP!SaveBuild,
        Together!ApplyObject, TogetherP!ApplyObject, Together!DeleteObject, TogetherP!DeleteObject,
        Together!DeleteRows, TogetherP!DeleteRows, Together!Fail, TogetherP!Fail,
        Together!Crash, TogetherP!Crash, Together!Flip, TogetherP!Flip, Together!Call, TogetherP!Call,
        Together!Next, TogetherP!Next, Together!Types, TogetherP!Types
<1>3. TogetherP!TypeOK <=> Together!TypeOK
  BY DEF Together!TypeOK, TogetherP!TypeOK, Together!None, TogetherP!None, Together!Ids, TogetherP!Ids, Together!Types, TogetherP!Types
<1>4. TogetherP!RowsHaveAService <=> Together!RowsHaveAService
  <2>1. Together!Orphans = TogetherP!Orphans
    BY DEF Together!Orphans, TogetherP!Orphans, Together!None, TogetherP!None
  <2> QED
    BY <2>1, TogetherCounts DEF Together!RowsHaveAService, TogetherP!RowsHaveAService
<1>5. TogetherP!RunsAreRecorded <=> Together!RunsAreRecorded
  BY TogetherCounts DEF Together!RunsAreRecorded, TogetherP!RunsAreRecorded, Together!At, TogetherP!At
<1>6. TogetherP!ObjectsGoFirst <=> Together!ObjectsGoFirst
  BY DEF Together!ObjectsGoFirst, TogetherP!ObjectsGoFirst, Together!None, TogetherP!None, Together!Ids, TogetherP!Ids, Together!At, TogetherP!At
<1> QED
  BY <1>1, <1>2, <1>3, <1>4, <1>5, <1>6

LEMMA SerialCounts == \A S : Serial!Cardinality(S) = SerialP!Cardinality(S)
  BY DEF Serial!Cardinality, SerialP!Cardinality, Serial!IsFiniteSet, SerialP!IsFiniteSet

LEMMA SerialSaves ==
    ASSUME NEW t
    PROVE  Serial!SaveVolumes(t) <=> SerialP!SaveVolumes(t)
<1> DEFINE q == s2[t]
           kept == {r \in q.old : r.name \in q.names}
           fresh == {<<n, 1>> : n \in q.names \ {r.name : r \in kept}}
                    \cup {<<n, 2>> : n \in q.twice \ {r.name : r \in kept}}
           id(m) == CHOOSE f \in [fresh -> (s3.id + 1)..(s3.id + m)] :
                      \A x, y \in fresh : f[x] = f[y] => x = y
           SavesNew(m) ==
             /\ q.at = "save" /\ q.op = "save"
             /\ Serial!Step(t, Serial!IdsOf(kept), [q EXCEPT !.at = "commit", !.put =
                  @ \cup kept \cup {Serial!Row(id(m)[f], "volume", q.root, 0, f[1]) : f \in fresh}])
             /\ s3' = [s3 EXCEPT !.id = @ + m]
             /\ UNCHANGED s1
<1>1. Serial!SaveVolumes(t) <=> SavesNew(Serial!Cardinality(fresh))
  BY DEF Serial!SaveVolumes
<1>2. SerialP!SaveVolumes(t) <=> SavesNew(SerialP!Cardinality(fresh))
  BY Zenon DEF SerialP!SaveVolumes, Serial!Step, SerialP!Step, Serial!IdsOf, SerialP!IdsOf, Serial!Row, SerialP!Row,
               Serial!Free, SerialP!Free
<1>3. Serial!Cardinality(fresh) = SerialP!Cardinality(fresh)
  BY SerialCounts
<1> HIDE DEF SavesNew
<1> QED
  BY <1>1, <1>2, <1>3

LEMMA SerialIs ==
    /\ Serial!Init <=> SerialP!Init
    /\ Serial!Next <=> SerialP!Next
    /\ SerialP!TypeOK <=> Serial!TypeOK
    /\ SerialP!NoOrphans <=> Serial!NoOrphans
    /\ SerialP!WorkflowsAreExact <=> Serial!WorkflowsAreExact
    /\ SerialP!VolumesAreExact <=> Serial!VolumesAreExact
<1>1. Serial!Init <=> SerialP!Init
  BY DEF Serial!Init, SerialP!Init, Serial!NoTx, SerialP!NoTx
<1>2. ASSUME NEW t
      PROVE  Serial!SaveSteps(t) <=> SerialP!SaveSteps(t)
  BY SerialCounts DEF Serial!SaveSteps, SerialP!SaveSteps,
         Serial!Step, SerialP!Step, Serial!Free, SerialP!Free, Serial!IdsOf, SerialP!IdsOf,
         Serial!Row, SerialP!Row, Serial!Unnamed, SerialP!Unnamed
<1>3. ASSUME NEW t
      PROVE  Serial!Run(t) <=> SerialP!Run(t)
  BY SerialSaves, <1>2 DEF
        Serial!Row, SerialP!Row, Serial!Unnamed, SerialP!Unnamed, Serial!NoTx, SerialP!NoTx,
        Serial!IdsOf, SerialP!IdsOf, Serial!Of, SerialP!Of, Serial!Parts, SerialP!Parts,
        Serial!View, SerialP!View, Serial!Free, SerialP!Free, Serial!Step, SerialP!Step,
        Serial!SaveRoot, SerialP!SaveRoot, Serial!ReadExisting, SerialP!ReadExisting,
        Serial!Dropped, SerialP!Dropped, Serial!Pruned, SerialP!Pruned, Serial!Prune, SerialP!Prune,
        Serial!DeleteFrom, SerialP!DeleteFrom, Serial!OfFound, SerialP!OfFound,
        Serial!Delete, SerialP!Delete, Serial!Commit, SerialP!Commit, Serial!Needs, SerialP!Needs,
        Serial!WaitsFor, SerialP!WaitsFor, Serial!Deadlock, SerialP!Deadlock, Serial!Run, SerialP!Run
<1>4. Serial!Next <=> SerialP!Next
  BY <1>3 DEF
        Serial!Next, SerialP!Next, Serial!BeginSave, SerialP!BeginSave,
        Serial!BeginSaveWorkflow, SerialP!BeginSaveWorkflow, Serial!BeginDelete, SerialP!BeginDelete,
        Serial!Begin, SerialP!Begin, Serial!Fail, SerialP!Fail, Serial!NoTx, SerialP!NoTx,
        Serial!IdsOf, SerialP!IdsOf, Serial!Of, SerialP!Of, Serial!Parts, SerialP!Parts
<1>5. SerialP!TypeOK <=> Serial!TypeOK
  BY DEF Serial!TypeOK, SerialP!TypeOK, Serial!Kinds, SerialP!Kinds
<1>6. SerialP!NoOrphans <=> Serial!NoOrphans
  BY DEF Serial!NoOrphans, SerialP!NoOrphans, Serial!IdsOf, SerialP!IdsOf
<1>7. SerialP!WorkflowsAreExact <=> Serial!WorkflowsAreExact
  BY DEF
        Serial!WorkflowsAreExact, SerialP!WorkflowsAreExact, Serial!NoTx, SerialP!NoTx,
        Serial!IdsOf, SerialP!IdsOf, Serial!Of, SerialP!Of, Serial!Parts, SerialP!Parts
<1>8. SerialP!VolumesAreExact <=> Serial!VolumesAreExact
  BY SerialCounts DEF
        Serial!VolumesAreExact, SerialP!VolumesAreExact, Serial!NoTx, SerialP!NoTx, Serial!Of, SerialP!Of
<1> QED
  BY <1>1, <1>4, <1>5, <1>6, <1>7, <1>8

LEMMA LockingCounts == \A S : Locking!Cardinality(S) = LockingP!Cardinality(S)
  BY DEF Locking!Cardinality, LockingP!Cardinality, Locking!IsFiniteSet, LockingP!IsFiniteSet

LEMMA LockingSaves ==
    ASSUME NEW t
    PROVE  Locking!SaveVolumes(t) <=> LockingP!SaveVolumes(t)
<1> DEFINE q == s2[t]
           kept == {r \in q.old : r.name \in q.names}
           fresh == {<<n, 1>> : n \in q.names \ {r.name : r \in kept}}
                    \cup {<<n, 2>> : n \in q.twice \ {r.name : r \in kept}}
           id(m) == CHOOSE f \in [fresh -> (s3.id + 1)..(s3.id + m)] :
                      \A x, y \in fresh : f[x] = f[y] => x = y
           SavesNew(m) ==
             /\ q.at = "save" /\ q.op = "save"
             /\ Locking!Step(t, Locking!IdsOf(kept), [q EXCEPT !.at = "commit", !.put =
                  @ \cup kept \cup {Locking!Row(id(m)[f], "volume", q.root, 0, f[1]) : f \in fresh}])
             /\ s3' = [s3 EXCEPT !.id = @ + m]
             /\ UNCHANGED s1
<1>1. Locking!SaveVolumes(t) <=> SavesNew(Locking!Cardinality(fresh))
  BY DEF Locking!SaveVolumes
<1>2. LockingP!SaveVolumes(t) <=> SavesNew(LockingP!Cardinality(fresh))
  BY Zenon DEF LockingP!SaveVolumes, Locking!Step, LockingP!Step, Locking!IdsOf, LockingP!IdsOf, Locking!Row, LockingP!Row,
               Locking!Free, LockingP!Free
<1>3. Locking!Cardinality(fresh) = LockingP!Cardinality(fresh)
  BY LockingCounts
<1> HIDE DEF SavesNew
<1> QED
  BY <1>1, <1>2, <1>3

LEMMA LockingIs ==
    /\ Locking!Init <=> LockingP!Init
    /\ Locking!Next <=> LockingP!Next
    /\ LockingP!TypeOK <=> Locking!TypeOK
    /\ LockingP!NoOrphans <=> Locking!NoOrphans
    /\ LockingP!WorkflowsAreExact <=> Locking!WorkflowsAreExact
    /\ LockingP!VolumesAreExact <=> Locking!VolumesAreExact
<1>1. Locking!Init <=> LockingP!Init
  BY DEF Locking!Init, LockingP!Init, Locking!NoTx, LockingP!NoTx
<1>2. ASSUME NEW t
      PROVE  Locking!SaveSteps(t) <=> LockingP!SaveSteps(t)
  BY LockingCounts DEF Locking!SaveSteps, LockingP!SaveSteps,
         Locking!Step, LockingP!Step, Locking!Free, LockingP!Free, Locking!IdsOf, LockingP!IdsOf,
         Locking!Row, LockingP!Row, Locking!Unnamed, LockingP!Unnamed
<1>3. ASSUME NEW t
      PROVE  Locking!Run(t) <=> LockingP!Run(t)
  BY LockingSaves, <1>2 DEF
        Locking!Row, LockingP!Row, Locking!Unnamed, LockingP!Unnamed, Locking!NoTx, LockingP!NoTx,
        Locking!IdsOf, LockingP!IdsOf, Locking!Of, LockingP!Of, Locking!Parts, LockingP!Parts,
        Locking!View, LockingP!View, Locking!Free, LockingP!Free, Locking!Step, LockingP!Step,
        Locking!SaveRoot, LockingP!SaveRoot, Locking!ReadExisting, LockingP!ReadExisting,
        Locking!Dropped, LockingP!Dropped, Locking!Pruned, LockingP!Pruned, Locking!Prune, LockingP!Prune,
        Locking!DeleteFrom, LockingP!DeleteFrom, Locking!OfFound, LockingP!OfFound,
        Locking!Delete, LockingP!Delete, Locking!Commit, LockingP!Commit, Locking!Needs, LockingP!Needs,
        Locking!WaitsFor, LockingP!WaitsFor, Locking!Deadlock, LockingP!Deadlock,
        Locking!Run, LockingP!Run
<1>4. Locking!Next <=> LockingP!Next
  BY <1>3 DEF
        Locking!Next, LockingP!Next, Locking!BeginSave, LockingP!BeginSave,
        Locking!BeginSaveWorkflow, LockingP!BeginSaveWorkflow, Locking!BeginDelete, LockingP!BeginDelete,
        Locking!Begin, LockingP!Begin, Locking!Fail, LockingP!Fail, Locking!NoTx, LockingP!NoTx,
        Locking!IdsOf, LockingP!IdsOf, Locking!Of, LockingP!Of, Locking!Parts, LockingP!Parts
<1>5. LockingP!TypeOK <=> Locking!TypeOK
  BY DEF Locking!TypeOK, LockingP!TypeOK, Locking!Kinds, LockingP!Kinds
<1>6. LockingP!NoOrphans <=> Locking!NoOrphans
  BY DEF Locking!NoOrphans, LockingP!NoOrphans, Locking!IdsOf, LockingP!IdsOf
<1>7. LockingP!WorkflowsAreExact <=> Locking!WorkflowsAreExact
  BY DEF
        Locking!WorkflowsAreExact, LockingP!WorkflowsAreExact, Locking!NoTx, LockingP!NoTx,
        Locking!IdsOf, LockingP!IdsOf, Locking!Of, LockingP!Of, Locking!Parts, LockingP!Parts
<1>8. LockingP!VolumesAreExact <=> Locking!VolumesAreExact
  BY LockingCounts DEF
        Locking!VolumesAreExact, LockingP!VolumesAreExact, Locking!NoTx, LockingP!NoTx,
        Locking!Of, LockingP!Of
<1> QED
  BY <1>1, <1>4, <1>5, <1>6, <1>7, <1>8

(* What the constants of the runs have to be, and what holds of each part.  *)
LEMMA PartsAssume ==
    /\ OneByOneP!ServicesAssumption /\ OneByOneP!InTurn /\ TogetherP!ServicesAssumption
    /\ SerialP!TablesAssumption /\ LockingP!TablesAssumption
<1>1. IsFiniteSet({"r"}) /\ IsFiniteSet(ServiceClients)
  BY FS_Singleton, NamesAssumption
<1>2. OneByOneP!ServicesAssumption
  BY <1>1, NamesAssumption DEF OneByOneP!ServicesAssumption, OneByOneP!None, OneByOneP!IsFiniteSet, IsFiniteSet
<1>3. TogetherP!ServicesAssumption
  BY <1>1, NamesAssumption DEF TogetherP!ServicesAssumption, TogetherP!None, TogetherP!IsFiniteSet, IsFiniteSet
<1>4. SerialP!TablesAssumption
  BY NamesAssumption DEF SerialP!TablesAssumption, SerialP!IsFiniteSet, IsFiniteSet
<1>5. LockingP!TablesAssumption
  BY NamesAssumption DEF LockingP!TablesAssumption, LockingP!IsFiniteSet, IsFiniteSet
<1> QED
  BY <1>2, <1>3, <1>4, <1>5 DEF OneByOneP!InTurn

TablesInv ==
    /\ part = "services" => OneByOneP!ServicesInv /\ OneByOneP!InTurnInv
    /\ part = "services at once" => TogetherP!ServicesInv
    /\ part = "tables" => SerialP!TablesInv /\ SerialP!TablesInTurn
    /\ part = "tables at once" => LockingP!TablesInv

LEMMA TablesStart == AppsInit => TablesInv
<1> SUFFICES ASSUME AppsInit
             PROVE  TablesInv
  OBVIOUS
<1>1. part = "services" => OneByOneP!Init
  BY OneByOneIs DEF AppsInit
<1>2. part = "services at once" => TogetherP!Init
  BY TogetherIs DEF AppsInit
<1>3. part = "tables" => SerialP!Init
  BY SerialIs DEF AppsInit
<1>4. part = "tables at once" => LockingP!Init
  BY LockingIs DEF AppsInit
<1>5. /\ OneByOneP!Init => OneByOneP!ServicesInv /\ OneByOneP!InTurnInv
      /\ TogetherP!Init => TogetherP!ServicesInv
  BY PartsAssume, OneByOneP!ServicesBegin, OneByOneP!InTurnBegins, TogetherP!ServicesBegin
<1>6. /\ SerialP!Init => SerialP!TablesInv /\ SerialP!TablesInTurn
      /\ LockingP!Init => LockingP!TablesInv
  BY SerialP!TablesBegin, SerialP!InTurnTablesBegin, LockingP!TablesBegin
<1> QED
  BY <1>1, <1>2, <1>3, <1>4, <1>5, <1>6 DEF TablesInv

(* A step is one of its part, or leaves its variables alone.               *)
LEMMA StepOfPart ==
    ASSUME [AppsNext]_<<part, All>>
    PROVE  /\ part' = part
           /\ part = "services" => [OneByOneP!Next]_(OneByOneP!vars)
           /\ part = "services at once" => [TogetherP!Next]_(TogetherP!vars)
           /\ part = "tables" => [SerialP!Next]_(SerialP!vars)
           /\ part = "tables at once" => [LockingP!Next]_(LockingP!vars)
           /\ part = "catalog" => [C!Next]_(C!vars)
<1>1. CASE UNCHANGED <<part, All>>
  BY <1>1 DEF All, OneByOneP!vars, TogetherP!vars, SerialP!vars, LockingP!vars, C!vars
<1>2. CASE AppsNext
  BY <1>2, OneByOneIs, TogetherIs, SerialIs, LockingIs
     DEF AppsNext, ServicesInTurn, ServicesAtOnce, TablesInTurn, TablesAtOnce, Workflow, Catalog,
         ReleasesInTurn, ReleasesAtOnce
<1> QED
  BY <1>1, <1>2

LEMMA TablesStay == TablesInv /\ [AppsNext]_<<part, All>> => TablesInv'
<1> SUFFICES ASSUME TablesInv, [AppsNext]_<<part, All>>
             PROVE  TablesInv'
  OBVIOUS
<1>1. part' = "services" => (OneByOneP!ServicesInv /\ OneByOneP!InTurnInv)'
  <2> SUFFICES ASSUME part = "services"
               PROVE  (OneByOneP!ServicesInv /\ OneByOneP!InTurnInv)'
    BY StepOfPart
  <2>1. OneByOneP!ServicesInv /\ OneByOneP!InTurnInv /\ [OneByOneP!Next]_(OneByOneP!vars)
    BY StepOfPart DEF TablesInv
  <2>2. OneByOneP!ServicesInv'
    BY <2>1, PartsAssume, OneByOneP!ServicesStep
  <2>3. OneByOneP!Shape'
    BY <2>2 DEF OneByOneP!ServicesInv
  <2> QED
    BY <2>1, <2>2, <2>3, PartsAssume, OneByOneP!InTurnStep
<1>2. part' = "services at once" => TogetherP!ServicesInv'
  BY StepOfPart, PartsAssume, TogetherP!ServicesStep DEF TablesInv
<1>3. part' = "tables" => (SerialP!TablesInv /\ SerialP!TablesInTurn)'
  <2> SUFFICES ASSUME part = "tables"
               PROVE  (SerialP!TablesInv /\ SerialP!TablesInTurn)'
    BY StepOfPart
  <2>1. SerialP!TablesInv /\ SerialP!TablesInTurn /\ [SerialP!Next]_(SerialP!vars)
    BY StepOfPart DEF TablesInv
  <2>2. \A t, u \in {"t"} : t = u
    OBVIOUS
  <2> QED
    BY <2>1, <2>2, PartsAssume, SerialP!TablesStep, SerialP!InTurnTablesStep
<1>4. part' = "tables at once" => LockingP!TablesInv'
  BY StepOfPart, PartsAssume, LockingP!TablesStep DEF TablesInv
<1> QED
  BY <1>1, <1>2, <1>3, <1>4 DEF TablesInv

(* In every behaviour, for any clients and names and any number of requests,*)
(* failures, crashes and losses of the cluster: a workflow, an integration  *)
(* or a deployment is without its service only where a request overlapped   *)
(* the delete of it, a run without a record only by a failure or a crash,   *)
(* and in the tables no row is without the one that it belongs to while     *)
(* transactions come one at a time (biz/service.go:515,571,                 *)
(* data/service.go:313).                                                    *)
THEOREM RowsAndRunsAlways == AppsSpec => []RowsAndRunsAgree
<1>1. TablesInv => RowsAndRunsAgree
  <2> SUFFICES ASSUME TablesInv
               PROVE  RowsAndRunsAgree
    OBVIOUS
  <2>1. part = "services" => OneByOne!TypeOK /\ OneByOne!RowsHaveAService /\ OneByOne!RunsAreRecorded
    BY PartsAssume, OneByOneIs, OneByOneP!ServicesHold DEF TablesInv
  <2>2. part = "services at once" =>
          Together!TypeOK /\ Together!RowsHaveAService /\ Together!RunsAreRecorded
    BY PartsAssume, TogetherIs, TogetherP!ServicesHold DEF TablesInv
  <2>3. part = "tables" => Serial!TypeOK /\ Serial!NoOrphans
    BY SerialIs, SerialP!TablesAreTyped, SerialP!LinkedHasNoOrphans DEF TablesInv
  <2>4. part = "tables at once" => Locking!TypeOK
    BY LockingIs, LockingP!TablesAreTyped DEF TablesInv
  <2> QED
    BY <2>1, <2>2, <2>3, <2>4 DEF RowsAndRunsAgree
<1> QED
  BY <1>1, TablesStart, TablesStay, PTL DEF AppsSpec

-----------------------------------------------------------------------------
(* What is saved and what goes, step by step.                              *)

SavedInv == AppsInv /\ TablesInv /\ (part = "catalog" => ListsInv)

LEMMA SavedStays == SavedInv /\ [AppsNext]_<<part, All>> => SavedInv'
<1> SUFFICES ASSUME SavedInv, [AppsNext]_<<part, All>>
             PROVE  SavedInv'
  OBVIOUS
<1>1. AppsInv' /\ TablesInv'
  BY AppsStay, TablesStay DEF SavedInv
<1>2. ASSUME part' = "catalog"
      PROVE  ListsInv'
  <2>1. part = "catalog" /\ [C!Next]_(C!vars)
    BY <1>2, StepOfPart
  <2>2. CatalogInv /\ ListsInv
    BY <2>1 DEF SavedInv, AppsInv
  <2>3. CASE UNCHANGED C!vars
    BY <2>2, <2>3 DEF C!vars, ListsInv, SavesInv, NamesInv, C!Of
  <2> QED
    BY <2>1, <2>2, <2>3, ListsStep
<1> QED
  BY <1>1, <1>2 DEF SavedInv

LEMMA SavedHolds ==
    SavedInv /\ [AppsNext]_<<part, All>> =>
      /\ part = "services" => OneByOne!ObjectsGoFirst
      /\ part = "tables" => Serial!WorkflowsAreExact /\ Serial!VolumesAreExact
      /\ part = "tables at once" => Locking!WorkflowsAreExact /\ Locking!VolumesAreExact
      /\ part = "catalog" => C!SavedIsListed /\ C!ChartsStay
<1> SUFFICES ASSUME SavedInv, [AppsNext]_<<part, All>>
             PROVE  /\ part = "services" => OneByOne!ObjectsGoFirst
                    /\ part = "tables" => Serial!WorkflowsAreExact /\ Serial!VolumesAreExact
                    /\ part = "tables at once" => Locking!WorkflowsAreExact /\ Locking!VolumesAreExact
                    /\ part = "catalog" => C!SavedIsListed /\ C!ChartsStay
  OBVIOUS
<1>1. part = "services" => OneByOne!ObjectsGoFirst
  BY PartsAssume, StepOfPart, OneByOneIs, OneByOneP!RowGoesLast DEF SavedInv, TablesInv
<1>2. part = "tables" => Serial!WorkflowsAreExact /\ Serial!VolumesAreExact
  BY PartsAssume, StepOfPart, SerialIs, SerialP!WorkflowsExact, SerialP!VolumesExact DEF SavedInv, TablesInv
<1>3. part = "tables at once" => Locking!WorkflowsAreExact /\ Locking!VolumesAreExact
  BY PartsAssume, StepOfPart, LockingIs, LockingP!WorkflowsExact, LockingP!VolumesExact DEF SavedInv, TablesInv
<1>4. part = "catalog" => C!SavedIsListed /\ C!ChartsStay
  BY StepOfPart, SavedAreListed, ChartsAreKept DEF SavedInv, AppsInv
<1> QED
  BY <1>1, <1>2, <1>3, <1>4

(* In every behaviour, for any clients, names, versions, charts and volumes *)
(* and any number of requests and failures: the save of a workflow, of a    *)
(* service and of an application leaves the steps, the volumes and the      *)
(* versions that it lists and no others, of transactions that come at once  *)
(* too; the row of a service goes after its object, and while nothing fails *)
(* no chart goes that a version names (data/service.go:103,380,             *)
(* data/app.go:31, biz/app.go:293).                                         *)
THEOREM ListsAlways == AppsSpec => ListsAreSaved
<1>1. AppsInit => SavedInv
  <2>1. AppsInit /\ part = "catalog" => ListsInv
    BY ListsStart DEF AppsInit
  <2> QED
    BY <2>1, AppsStarts, TablesStart DEF SavedInv
<1> QED
  BY <1>1, SavedStays, SavedHolds, PTL DEF AppsSpec, ListsAreSaved

=============================================================================
