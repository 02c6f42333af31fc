--------------------------- MODULE OperationsProofs ---------------------------
(***************************************************************************)
(* Theorems about what runs beside the use cases.  About TraceLogs, for    *)
(* every finite set of partitions, every set of pairs of services, every   *)
(* log and any number of faults: no message is skipped, no count is        *)
(* invented, and with one partition counts are exact.  About the machines, *)
(* for every set of them, any base of addresses, any ranges and any number *)
(* of repetitions, faults and cuts: MachinesAreInOrder.  About the logs,   *)
(* for any replicas, days, keywords and sizes of pages: LogsAreFound.      *)
(***************************************************************************)
EXTENDS MCOperations, FiniteSetTheorems, SequenceTheorems, TLAPS

Offset == Nat \cup {None}
Claims == [pc : {"none", "idle", "write", "mark", "returned"}, pos : Nat, marked : Offset, seen : Offset]

Types ==
    /\ produced \in [Partitions -> Nat] /\ committed \in [Partitions -> Offset]
    /\ claim \in [Partitions -> Claims] /\ from \in [Partitions -> Nat]
    /\ rows \in [Routes -> Seq(Nat)] /\ counted \in [Routes -> Nat]
    /\ docs = [p \in Partitions |-> docs[p]] /\ handled = [p \in Partitions |-> handled[p]]
    /\ up \in BOOLEAN /\ session \in {"none", "open", "ending"} /\ faults \in 0 .. MaxFaults

(* All from the first claim for good up to n has been handled.             *)
Done(p, n) == \A o \in from[p] .. n - 1 : o \in handled[p]

(* What the broker has for a partition.                                    *)
Broker(p) ==
    /\ produced[p] <= Len(Log[p]) /\ committed[p] <= produced[p] /\ from[p] <= produced[p]
    /\ docs[p] \in [Offsets(p) -> Nat] /\ handled[p] \subseteq Offsets(p)
    /\ Done(p, committed[p])

(* What a claim has taken, what it would commit, and what it has counted.  *)
Position(p) ==
    /\ claim[p].pos <= produced[p] /\ claim[p].marked <= produced[p]
    /\ claim[p].pc \in {"write", "mark"} => claim[p].pos < produced[p]
    /\ claim[p].pc # "none" => Done(p, claim[p].pos)
    /\ claim[p].pc = "mark" => claim[p].pos \in handled[p]
    /\ claim[p].pc = "none" => claim[p] = NoClaim
    /\ claim[p].marked # None => Done(p, claim[p].marked)
    /\ session = "none" => claim[p].pc = "none"

Seen(p) ==
    claim[p].pc = "write" =>
        /\ RouteOf(p) \in Routes
        /\ claim[p].seen # None => claim[p].seen \in 1 .. counted[RouteOf(p)]

TraceInv == Types /\ CountsAreNotInvented /\ \A p \in Partitions : Broker(p) /\ Position(p) /\ Seen(p)

-----------------------------------------------------------------------------
(* The invariant holds before anything is read.                            *)
LEMMA InitInv == Init => TraceInv
<1>1. SUFFICES ASSUME Init PROVE TraceInv
  OBVIOUS
<1>2. NoClaim \in Claims
  BY DEF NoClaim, Claims, Offset, None
<1>3. Types
  <2>1. faults \in 0 .. MaxFaults
    BY <1>1, LogAssumption DEF Init
  <2>2. rows \in [Routes -> Seq(Nat)]
    BY <1>1 DEF Init
  <2>3. QED
    BY <1>1, <1>2, <2>1, <2>2 DEF Init, Types, Offset, None
<1>4. CountsAreNotInvented
  BY <1>1 DEF Init, CountsAreNotInvented
<1>5. ASSUME NEW p \in Partitions PROVE Broker(p) /\ Position(p) /\ Seen(p)
  <2>1. /\ produced[p] = 0 /\ committed[p] = None /\ claim[p] = NoClaim /\ from[p] = 0 /\ handled[p] = {}
        /\ docs[p] = [o \in Offsets(p) |-> 0]
    BY <1>1 DEF Init
  <2>2. Len(Log[p]) \in Nat
    BY LogAssumption
  <2>3. Broker(p)
    BY <2>1, <2>2 DEF Broker, Done, None
  <2>4. Position(p) /\ Seen(p)
    BY <2>1 DEF Position, Seen, NoClaim, Done, None
  <2>5. QED
    BY <2>3, <2>4
<1>6. QED
  BY <1>3, <1>4, <1>5 DEF TraceInv

(* A partition whose claim, offsets and history do not change.             *)
LEMMA OthersStay ==
    ASSUME TraceInv, NEW p \in Partitions, claim'[p] = claim[p], committed'[p] = committed[p],
           from'[p] = from[p], handled'[p] = handled[p], docs'[p] = docs[p], produced'[p] = produced[p],
           session' = session \/ session' # "none",
           \A r \in Routes : counted[r] \in Nat /\ counted'[r] \in Nat /\ counted[r] <= counted'[r]
    PROVE  (Broker(p) /\ Position(p) /\ Seen(p))'
<1>1. Broker(p) /\ Position(p) /\ Seen(p)
  BY DEF TraceInv
<1>2. \A n : Done(p, n) <=> Done(p, n)'
  BY DEF Done
<1>3. Broker(p)'
  BY <1>1, <1>2 DEF Broker
<1>4. Position(p)'
  BY <1>1, <1>2 DEF Position
<1>5. Seen(p)'
  BY <1>1 DEF Seen, RouteOf, MessageAt
<1>6. QED
  BY <1>3, <1>4, <1>5

(* A step of one claim.                                                    *)
Kept(p, k) ==
    /\ claim' = [claim EXCEPT ![p] = k]
    /\ UNCHANGED <<produced, committed, from, up>>
    /\ session' = session \/ session' = "ending"
    /\ faults' \in 0 .. MaxFaults
Handles(p) ==
    \/ handled' = handled
    \/ claim[p].pos < produced[p] /\ handled' = [handled EXCEPT ![p] = @ \cup {claim[p].pos}]
Indexes(p) == \/ docs' = docs
              \/ \E d \in [Offsets(p) -> Nat] : docs' = [docs EXCEPT ![p] = d]
Counts ==
    /\ rows' \in [Routes -> Seq(Nat)] /\ counted' \in [Routes -> Nat] /\ CountsAreNotInvented'
    /\ \A r \in Routes : counted[r] <= counted'[r]

(* A step of one claim that is right for its own partition is right.             *)
LEMMA ClaimStep ==
    ASSUME TraceInv, NEW p \in Partitions, NEW k \in Claims, claim[p].pc # "none", k.pc # "none",
           Kept(p, k), Handles(p), Indexes(p), Counts,
           (Position(p) /\ Seen(p))'
    PROVE  TraceInv'
<1>1. Types /\ Broker(p)
  BY DEF TraceInv
<1>2. /\ handled' = [q \in Partitions |-> handled'[q]] /\ docs' = [q \in Partitions |-> docs'[q]]
      /\ \A q \in Partitions : q # p => handled'[q] = handled[q] /\ docs'[q] = docs[q] /\ claim'[q] = claim[q]
  BY <1>1 DEF Types, Handles, Indexes, Kept
<1>3. Types'
  BY <1>1, <1>2 DEF Types, Kept, Counts
<1>4. Broker(p)'
  <2>1. handled'[p] \subseteq Offsets(p) /\ handled[p] \subseteq handled'[p]
    <3>1. produced[p] \in Nat /\ claim[p].pos \in Nat /\ produced[p] <= Len(Log[p]) /\ Len(Log[p]) \in Nat
      BY <1>1, LogAssumption DEF Types, Broker, Claims
    <3>2. claim[p].pos < produced[p] => claim[p].pos \in Offsets(p)
      BY <3>1 DEF Offsets
    <3>3. QED
      BY <1>1, <3>2 DEF Handles, Types, Broker
  <2>2. docs'[p] \in [Offsets(p) -> Nat]
    BY <1>1 DEF Indexes, Types, Broker
  <2>3. Done(p, committed[p]) => Done(p, committed[p])'
    BY <2>1 DEF Done, Kept
  <2>4. QED
    BY <1>1, <2>1, <2>2, <2>3 DEF Broker, Kept
<1>5. \A q \in Partitions : q # p => (Broker(q) /\ Position(q) /\ Seen(q))'
  <2>1. \A r \in Routes : counted[r] \in Nat /\ counted'[r] \in Nat /\ counted[r] <= counted'[r]
    BY <1>1, <1>3 DEF Types, Counts
  <2>2. QED
    BY <1>2, <2>1, OthersStay DEF Kept
<1>6. QED
  BY <1>3, <1>4, <1>5 DEF TraceInv, Counts

(* A claim that stays at its message: what it had done is still done.      *)
LEMMA StaysPut ==
    ASSUME TraceInv, NEW p \in Partitions, NEW k \in Claims, Kept(p, k), Handles(p), claim[p].pc # "none",
           k.pc # "none", k.pos = claim[p].pos, k.marked = claim[p].marked,
           k.pc \in {"write", "mark"} => k.pos < produced[p],
           k.pc = "mark" => k.pos \in handled'[p]
    PROVE  Position(p)'
<1>1. Types /\ Position(p) /\ claim'[p] = k
  BY DEF TraceInv, Types, Kept
<1>2. handled[p] \subseteq handled'[p]
  BY <1>1 DEF Handles, Types
<1>3. \A n : Done(p, n) => Done(p, n)'
  BY <1>2 DEF Done, Kept
<1>4. session' # "none"
  BY <1>1 DEF Kept, Position
<1>5. QED
  BY <1>1, <1>3, <1>4 DEF Position, Kept

(* The claim is at a message that there is.                                *)
LEMMA AtMessage ==
    ASSUME TraceInv, NEW p \in Partitions, claim[p].pos < produced[p]
    PROVE  claim[p].pos \in Offsets(p) /\ MessageAt(p, claim[p].pos) \in Message
<1>1. claim[p].pos \in Nat /\ produced[p] \in Nat /\ produced[p] <= Len(Log[p])
  BY DEF TraceInv, Types, Broker, Claims
<1>2. Log[p] \in Seq(Message) /\ Len(Log[p]) \in Nat
  BY LogAssumption
<1>3. claim[p].pos + 1 \in 1 .. Len(Log[p])
  BY <1>1, <1>2
<1>4. QED
  BY <1>1, <1>2, <1>3 DEF Offsets, MessageAt

(* Nothing is counted.                                                     *)
LEMMA NoCount == ASSUME TraceInv, UNCHANGED <<rows, counted>> PROVE Counts
<1>1. rows \in [Routes -> Seq(Nat)] /\ counted \in [Routes -> Nat] /\ CountsAreNotInvented
  BY DEF TraceInv, Types
<1>2. CountsAreNotInvented'
  BY <1>1 DEF CountsAreNotInvented
<1>3. \A r \in Routes : counted[r] <= counted'[r]
  BY <1>1
<1>4. QED
  BY <1>1, <1>2, <1>3 DEF Counts

(* A handler that fails, that ignores its message, or that indexes it.     *)
LEMMA HandlerInv ==
    ASSUME TraceInv, NEW p \in Partitions,
           HandlerFails(p) \/ HandlerIgnores(p) \/ IndexDocument(p) \/ CountFails(p)
    PROVE  TraceInv'
<1>1. Types /\ Position(p) /\ claim[p] \in Claims
  BY DEF TraceInv, Types
<1>2. /\ claim[p].pc \in {"idle", "write"} /\ claim[p].pos < produced[p]
      /\ UNCHANGED <<produced, committed, from, up, rows, counted>>
      /\ session' = session \/ session' = "ending"
      /\ \/ handled' = handled /\ claim' = [claim EXCEPT ![p].pc = "returned"]
         \/ claim' = [claim EXCEPT ![p].pc = "mark"] /\ handled' = [handled EXCEPT ![p] = @ \cup {claim[p].pos}]
  <2>1. CASE HandlerFails(p) \/ HandlerIgnores(p)
    BY <2>1 DEF HandlerFails, HandlerIgnores, Taking, Fails, Succeeds, history
  <2>2. CASE IndexDocument(p)
    BY <2>2 DEF IndexDocument, Taking, Fails, Succeeds
  <2>3. CASE CountFails(p)
    BY <1>1, <2>3 DEF CountFails, Taking, Fails, Position, history
  <2>4. QED
    BY <2>1, <2>2, <2>3
<1>3. faults' \in 0 .. MaxFaults
  <2>1. faults \in 0 .. MaxFaults /\ MaxFaults \in Nat
    BY <1>1, LogAssumption DEF Types
  <2>2. faults' = faults \/ (faults' = faults + 1 /\ faults < MaxFaults)
    BY DEF HandlerFails, HandlerIgnores, IndexDocument, CountFails, Fails, Succeeds
  <2>3. QED
    BY <2>1, <2>2
<1>4. Indexes(p)
  <2>1. claim[p].pos \in Offsets(p) /\ docs[p] \in [Offsets(p) -> Nat]
    BY <1>2, AtMessage DEF TraceInv, Broker
  <2>2. docs' = docs \/ docs' = [docs EXCEPT ![p][claim[p].pos] = @ + 1]
    BY DEF HandlerFails, HandlerIgnores, IndexDocument, CountFails
  <2>3. [docs[p] EXCEPT ![claim[p].pos] = @ + 1] \in [Offsets(p) -> Nat]
    BY <2>1
  <2>4. docs' = docs \/ docs' = [docs EXCEPT ![p] = [docs[p] EXCEPT ![claim[p].pos] = @ + 1]]
    BY <2>2
  <2>5. QED
    BY <2>3, <2>4 DEF Indexes
<1>5. Handles(p) /\ Counts
  BY <1>2, NoCount DEF Handles
<1>6. ASSUME NEW pc \in {"returned", "mark"}, claim' = [claim EXCEPT ![p].pc = pc],
             pc = "mark" => claim[p].pos \in handled'[p]
      PROVE  TraceInv'
  <2>1. [claim[p] EXCEPT !.pc = pc] \in Claims /\ Kept(p, [claim[p] EXCEPT !.pc = pc])
    BY <1>1, <1>2, <1>3, <1>6 DEF Claims, Kept, Types
  <2>2. Position(p)'
    BY <1>1, <1>2, <1>5, <1>6, <2>1, StaysPut DEF Claims
  <2>3. Seen(p)'
    BY <1>1, <1>6 DEF Seen, Types, Claims
  <2>4. QED
    BY <1>1, <1>2, <1>4, <1>5, <1>6, <2>1, <2>2, <2>3, ClaimStep DEF Claims
<1>7. QED
  BY <1>1, <1>2, <1>6 DEF Types

(* A count is read: if there is a row, it is one that was stored.          *)
LEMMA ReadInv == ASSUME TraceInv, NEW p \in Partitions, ReadCount(p) PROVE TraceInv'
<1>1. Types /\ Position(p) /\ claim[p] \in Claims
  BY DEF TraceInv, Types
<1>2. PICK m \in Message :
        /\ Taking(p, m) /\ m.body \in Routes
        /\ claim' = [claim EXCEPT ![p].pc = "write", ![p].seen = IF rows[m.body] = <<>> THEN None
                                                                 ELSE Head(rows[m.body])]
  BY DEF ReadCount
<1> DEFINE seen == IF rows[m.body] = <<>> THEN None ELSE Head(rows[m.body])
           k == [claim[p] EXCEPT !.pc = "write", !.seen = seen]
<1>3. /\ claim[p].pc = "idle" /\ claim[p].pos < produced[p] /\ MessageAt(p, claim[p].pos) = m
      /\ UNCHANGED <<produced, committed, up, session, rows, docs, faults, handled, counted, from>>
  BY <1>2 DEF Taking, ReadCount, history
<1>4. seen \in Offset /\ (seen # None => seen \in 1 .. counted[m.body])
  <2>1. rows[m.body] \in Seq(Nat) /\ counted[m.body] \in Nat
    BY <1>1, <1>2 DEF Types
  <2>2. CASE rows[m.body] = <<>>
    BY <2>2 DEF Offset
  <2>3. CASE rows[m.body] # <<>>
    <3>1. 1 \in DOMAIN rows[m.body] /\ Head(rows[m.body]) = rows[m.body][1]
      BY <2>1, <2>3
    <3>2. rows[m.body][1] \in 1 .. counted[m.body]
      BY <1>2, <3>1 DEF TraceInv, CountsAreNotInvented
    <3>3. QED
      BY <2>1, <2>3, <3>1, <3>2 DEF Offset
  <2>4. QED
    BY <2>2, <2>3
<1> HIDE DEF seen
<1>5. /\ k \in Claims /\ k.pos = claim[p].pos /\ k.marked = claim[p].marked /\ k.pc = "write" /\ k.seen = seen
  BY <1>1, <1>4 DEF Claims
<1>6. claim' = [claim EXCEPT ![p] = k] /\ claim'[p] = k
  BY <1>1, <1>2 DEF Types, seen
<1> HIDE DEF k
<1>7. Kept(p, k) /\ Handles(p) /\ Indexes(p) /\ Counts
  BY <1>1, <1>3, <1>6, NoCount DEF Kept, Handles, Indexes, Types
<1>8. Position(p)'
  BY <1>1, <1>3, <1>5, <1>7, StaysPut
<1>9. Seen(p)'
  BY <1>2, <1>3, <1>4, <1>5, <1>6 DEF Seen, RouteOf, MessageAt
<1>10. QED
  BY <1>3, <1>5, <1>7, <1>8, <1>9, ClaimStep

(* A count is stored: it is at most what has been counted with it.         *)
LEMMA WriteInv == ASSUME TraceInv, NEW p \in Partitions, WriteCount(p) PROVE TraceInv'
<1> DEFINE r == RouteOf(p)
           seen == claim[p].seen
           k == [claim[p] EXCEPT !.pc = "mark", !.seen = None]
<1>1. Types /\ Position(p) /\ claim[p] \in Claims /\ claim[p].pc = "write" /\ claim[p].pos < produced[p]
  BY DEF TraceInv, Types, WriteCount, Position
<1>2. r \in Routes /\ (seen # None => seen \in 1 .. counted[r])
  BY <1>1 DEF TraceInv, Seen
<1>3. /\ rows' = [rows EXCEPT ![r] = IF seen = None THEN Append(@, 1) ELSE [i \in DOMAIN @ |-> seen + 1]]
      /\ counted' = [counted EXCEPT ![r] = @ + 1] /\ claim' = [claim EXCEPT ![p] = k]
      /\ handled' = [handled EXCEPT ![p] = @ \cup {claim[p].pos}]
      /\ UNCHANGED <<produced, committed, up, session, docs, faults, from>>
  BY <1>1 DEF WriteCount, Types
<1>4. /\ k \in Claims /\ k.pos = claim[p].pos /\ k.marked = claim[p].marked /\ k.pc = "mark" /\ claim'[p] = k
  BY <1>1, <1>3 DEF Claims, Types, Offset
<1> HIDE DEF k, r, seen
<1>5. Counts
  <2>1. rows[r] \in Seq(Nat) /\ counted[r] \in Nat /\ rows \in [Routes -> Seq(Nat)] /\ counted \in [Routes -> Nat]
    BY <1>1, <1>2 DEF Types
  <2>2. \A i \in DOMAIN rows[r] : rows[r][i] \in 1 .. counted[r]
    BY <1>2 DEF TraceInv, CountsAreNotInvented
  <2> DEFINE new == IF seen = None THEN Append(rows[r], 1) ELSE [i \in DOMAIN rows[r] |-> seen + 1]
  <2>3. new \in Seq(Nat) /\ \A i \in DOMAIN new : new[i] \in 1 .. counted[r] + 1
    <3>1. CASE seen = None
      BY <2>1, <2>2, <3>1
    <3>2. CASE seen # None
      <4>1. seen + 1 \in 1 .. counted[r] + 1
        BY <1>2, <2>1, <3>2
      <4>2. DOMAIN rows[r] = 1 .. Len(rows[r]) /\ Len(rows[r]) \in Nat
        BY <2>1
      <4>3. QED
        BY <3>2, <4>1, <4>2
    <3>3. QED
      BY <3>1, <3>2
  <2>4. rows' = [rows EXCEPT ![r] = new]
    BY <1>3
  <2> HIDE DEF new
  <2>5. rows' \in [Routes -> Seq(Nat)] /\ counted' \in [Routes -> Nat] /\ \A t \in Routes : counted[t] <= counted'[t]
    BY <1>2, <1>3, <2>1, <2>3, <2>4
  <2>6. CountsAreNotInvented'
    <3>1. SUFFICES ASSUME NEW t \in Routes, NEW i \in DOMAIN rows'[t] PROVE rows'[t][i] \in 1 .. counted'[t]
      BY DEF CountsAreNotInvented
    <3>2. CASE t = r
      BY <1>2, <1>3, <2>1, <2>3, <2>4, <3>2
    <3>3. CASE t # r
      BY <1>3, <2>1, <2>4, <3>3 DEF TraceInv, CountsAreNotInvented
    <3>4. QED
      BY <3>2, <3>3
  <2>7. QED
    BY <2>5, <2>6 DEF Counts
<1>6. Kept(p, k) /\ Handles(p) /\ Indexes(p)
  BY <1>1, <1>3 DEF Kept, Handles, Indexes, Types
<1>7. Position(p)'
  <2>1. claim[p].pos \in handled'[p]
    BY <1>1, <1>3 DEF Types
  <2>2. QED
    BY <1>1, <1>4, <1>6, <2>1, StaysPut
<1>8. Seen(p)'
  BY <1>4 DEF Seen
<1>9. QED
  BY <1>1, <1>4, <1>5, <1>6, <1>7, <1>8, ClaimStep

(* A message is marked once it was handled, or the claim returns.          *)
LEMMA MarkInv ==
    ASSUME TraceInv, NEW p \in Partitions, MarkMessage(p) \/ ClaimReturns(p)
    PROVE  TraceInv'
<1>1. Types /\ Position(p) /\ claim[p] \in Claims /\ produced[p] \in Nat
  BY DEF TraceInv, Types
<1>2. UNCHANGED <<produced, committed, up, session, rows, docs, faults, handled, counted, from>>
  BY DEF MarkMessage, ClaimReturns, history
<1>3. ASSUME NEW k \in Claims, claim[p].pc # "none", k.pc \in {"idle", "returned"},
             claim' = [claim EXCEPT ![p] = k], Position(p)'
      PROVE  TraceInv'
  <2>1. Kept(p, k) /\ Handles(p) /\ Indexes(p) /\ Counts
    BY <1>1, <1>2, <1>3, NoCount DEF Kept, Handles, Indexes, Types
  <2>2. Seen(p)'
    BY <1>1, <1>3 DEF Seen, Types
  <2>3. QED
    BY <1>3, <2>1, <2>2, ClaimStep
<1>4. CASE MarkMessage(p)
  <2> DEFINE n == claim[p].pos + 1
             k == [claim[p] EXCEPT !.pc = "idle", !.pos = n, !.marked = n]
  <2>1. claim[p].pc = "mark" /\ claim' = [claim EXCEPT ![p] = k]
    BY <1>1, <1>4 DEF MarkMessage, Types
  <2>2. claim[p].pos \in Nat /\ n \in Nat
    BY <1>1 DEF Claims
  <2> HIDE DEF n
  <2>3. k \in Claims /\ k.pc = "idle" /\ k.pos = n /\ k.marked = n /\ claim'[p] = k
    BY <1>1, <2>1, <2>2 DEF Claims, Offset, Types
  <2> USE DEF n
  <2> HIDE DEF k
  <2>4. \A o \in from'[p] .. (claim[p].pos + 1) - 1 : o \in handled'[p]
    <3>1. Done(p, claim[p].pos) /\ claim[p].pos \in handled[p]
      BY <1>1, <2>1 DEF Position
    <3>2. from[p] \in Nat
      BY <1>1 DEF Types
    <3>3. \A o \in from[p] .. (claim[p].pos + 1) - 1 : o \in from[p] .. claim[p].pos - 1 \/ o = claim[p].pos
      BY <2>2, <3>2
    <3>4. QED
      BY <1>2, <3>1, <3>3 DEF Done
  <2>5. claim[p].pos + 1 <= produced[p]
    BY <1>1, <2>1, <2>2 DEF Position
  <2>6. Done(p, claim[p].pos)' /\ Done(p, claim[p].marked)'
    BY <2>3, <2>4 DEF Done
  <2>7. Position(p)'
    BY <1>1, <1>2, <2>1, <2>2, <2>3, <2>5, <2>6 DEF Position
  <2>8. QED
    BY <1>3, <2>1, <2>3, <2>7
<1>5. CASE ClaimReturns(p)
  <2> DEFINE k == [claim[p] EXCEPT !.pc = "returned"]
  <2>1. claim[p].pc = "idle" /\ claim' = [claim EXCEPT ![p] = k]
    BY <1>1, <1>5 DEF ClaimReturns, Types
  <2>2. k \in Claims /\ k.pos = claim[p].pos /\ k.marked = claim[p].marked /\ k.pc = "returned"
    BY <1>1 DEF Claims
  <2> HIDE DEF k
  <2>3. Kept(p, k) /\ Handles(p)
    BY <1>1, <1>2, <2>1 DEF Kept, Handles, Types
  <2>4. Position(p)'
    BY <2>1, <2>2, <2>3, StaysPut
  <2>5. QED
    BY <1>3, <2>1, <2>2, <2>4
<1>6. QED
  BY <1>4, <1>5

-----------------------------------------------------------------------------
(* Steps outside of a claim, that leave counts as they are.                *)
LEMMA OutsideInv ==
    ASSUME TraceInv, Types', UNCHANGED <<rows, counted>>,
           \A p \in Partitions : (Broker(p) /\ Position(p))',
           \A p \in Partitions : claim'[p].pc = "write" => claim'[p] = claim[p]
    PROVE  TraceInv'
<1>1. CountsAreNotInvented'
  BY DEF TraceInv, CountsAreNotInvented
<1>2. \A p \in Partitions : Seen(p)'
  BY DEF TraceInv, Seen, RouteOf, MessageAt
<1>3. QED
  BY <1>1, <1>2 DEF TraceInv

(* A message that arrives keeps the invariant.                             *)
LEMMA ProduceInv == ASSUME TraceInv, NEW p \in Partitions, Produce(p) PROVE TraceInv'
<1>1. /\ produced' = [produced EXCEPT ![p] = @ + 1] /\ produced[p] < Len(Log[p])
      /\ UNCHANGED <<committed, up, session, claim, rows, docs, faults, handled, counted, from>>
  BY DEF Produce, history
<1>2. Types /\ Types'
  BY <1>1 DEF TraceInv, Types
<1>3. ASSUME NEW q \in Partitions PROVE (Broker(q) /\ Position(q))'
  <2>1. /\ produced[q] \in Nat /\ produced'[q] \in Nat /\ produced[q] <= produced'[q] /\ produced'[q] <= Len(Log[q])
        /\ committed[q] \in Int /\ from[q] \in Nat /\ claim[q].pos \in Nat /\ claim[q].marked \in Int
        /\ committed[q] <= produced[q] /\ from[q] <= produced[q]
    <3>1. Len(Log[q]) \in Nat
      BY LogAssumption
    <3>2. QED
      BY <1>1, <1>2, <3>1 DEF TraceInv, Types, Broker, Claims, Offset, None
  <2>2. \A n : Done(q, n) <=> Done(q, n)'
    BY <1>1 DEF Done
  <2>3. Broker(q)'
    BY <1>1, <2>1, <2>2 DEF TraceInv, Broker
  <2>4. Position(q)'
    BY <1>1, <2>1, <2>2 DEF TraceInv, Position
  <2>5. QED
    BY <2>3, <2>4
<1>4. QED
  BY <1>1, <1>2, <1>3, OutsideInv

(* What is committed was handled, in the background ...                    *)
LEMMA CommitInv == ASSUME TraceInv, NEW p \in Partitions, AutoCommit(p) PROVE TraceInv'
<1>1. /\ claim[p].marked # None /\ committed' = [committed EXCEPT ![p] = claim[p].marked]
      /\ UNCHANGED <<produced, up, session, claim, rows, docs, faults, handled, counted, from>>
  BY DEF AutoCommit, Stored, history
<1>2. Types /\ Types'
  BY <1>1 DEF TraceInv, Types, Claims
<1>3. ASSUME NEW q \in Partitions PROVE (Broker(q) /\ Position(q))'
  <2>1. Broker(q) /\ Position(q)
    BY DEF TraceInv
  <2>2. \A n : Done(q, n) <=> Done(q, n)'
    BY <1>1 DEF Done
  <2>3. committed'[q] = committed[q] \/ (committed'[q] = claim[q].marked /\ claim[q].marked # None)
    BY <1>1, <1>2 DEF Types
  <2>4. committed'[q] <= produced[q] /\ Done(q, committed'[q])
    BY <2>1, <2>3 DEF Broker, Position
  <2>5. Done(q, committed[q])'
    BY <1>1, <2>4 DEF Done
  <2>6. Broker(q)'
    BY <1>1, <2>1, <2>4, <2>5 DEF Broker
  <2>7. Position(q)'
    BY <1>1, <2>1, <2>2 DEF Position
  <2>8. QED
    BY <2>6, <2>7
<1>4. QED
  BY <1>1, <1>2, <1>3, OutsideInv

(* ... and at the end of a session.                                        *)
LEMMA EndsInv == ASSUME TraceInv, SessionEnds PROVE TraceInv'
<1>1. /\ session' = "none" /\ committed' = [p \in Partitions |-> Stored(p)]
      /\ claim' = [p \in Partitions |-> NoClaim]
      /\ UNCHANGED <<produced, up, rows, docs, faults, handled, counted, from>>
  BY DEF SessionEnds, history
<1>2. NoClaim \in Claims /\ NoClaim.pc = "none" /\ NoClaim.pos = 0 /\ NoClaim.marked = None
  BY DEF NoClaim, Claims, Offset, None
<1>3. Types /\ Types'
  <2>1. \A p \in Partitions : Stored(p) \in Offset
    BY DEF TraceInv, Types, Stored, Claims
  <2>2. QED
    BY <1>1, <1>2, <2>1 DEF TraceInv, Types
<1>4. ASSUME NEW q \in Partitions PROVE (Broker(q) /\ Position(q))'
  <2>1. Broker(q) /\ Position(q) /\ produced[q] \in Nat
    BY <1>3 DEF TraceInv, Types
  <2>2. committed'[q] = committed[q] \/ (committed'[q] = claim[q].marked /\ claim[q].marked # None)
    BY <1>1 DEF Stored
  <2>3. committed'[q] <= produced[q] /\ Done(q, committed'[q])
    BY <2>1, <2>2 DEF Broker, Position
  <2>4. Done(q, committed[q])'
    BY <1>1, <2>3 DEF Done
  <2>5. Broker(q)'
    BY <1>1, <2>1, <2>3, <2>4 DEF Broker
  <2>6. Position(q)'
    BY <1>1, <1>2, <2>1 DEF Position, None
  <2>7. QED
    BY <2>5, <2>6
<1>5. QED
  BY <1>1, <1>2, <1>3, <1>4, OutsideInv

(* A session starts where the broker says, and what is before that offset  *)
(* was handled; without one it starts at the end.                          *)
LEMMA ConsumeInv == ASSUME TraceInv, Consume PROVE TraceInv'
<1> DEFINE Start(p) == IF committed[p] = None THEN produced[p] ELSE committed[p]
<1>1. /\ session = "none" /\ session' = "open"
      /\ claim' = [p \in Partitions |-> [NoClaim EXCEPT !.pc = "idle", !.pos = Start(p)]]
      /\ from' = [p \in Partitions |-> IF committed[p] = None THEN Start(p) ELSE from[p]]
      /\ UNCHANGED <<produced, committed, up, rows, docs, faults, handled, counted>>
  BY DEF Consume
<1>2. \A p \in Partitions : Start(p) \in Nat /\ Start(p) <= produced[p] /\ produced[p] \in Nat
  BY DEF TraceInv, Types, Broker, Offset
<1>3. \A p \in Partitions :
         /\ claim'[p] \in Claims /\ claim'[p].pc = "idle" /\ claim'[p].pos = Start(p) /\ claim'[p].marked = None
  BY <1>1, <1>2 DEF NoClaim, Claims, Offset
<1>4. Types'
  <2>1. claim' \in [Partitions -> Claims]
    BY <1>1, <1>3
  <2>2. from' \in [Partitions -> Nat]
    BY <1>1, <1>2 DEF TraceInv, Types
  <2>3. QED
    BY <1>1, <2>1, <2>2 DEF TraceInv, Types
<1>5. ASSUME NEW q \in Partitions PROVE (Broker(q) /\ Position(q))'
  <2>1. Broker(q) /\ produced[q] \in Nat /\ from[q] \in Nat
    BY DEF TraceInv, Types
  <2>2. \A o \in from'[q] .. Start(q) - 1 : o \in handled[q]
    <3>1. CASE committed[q] = None
      <4>1. from'[q] = produced[q] /\ Start(q) = produced[q]
        BY <1>1, <3>1
      <4>2. QED
        BY <2>1, <4>1
    <3>2. CASE committed[q] # None
      BY <1>1, <2>1, <3>2 DEF Broker, Done
    <3>3. QED
      BY <3>1, <3>2
  <2>3. \A o \in from'[q] .. committed[q] - 1 : o \in handled[q]
    <3>1. CASE committed[q] = None
      <4>1. from'[q] \in Nat
        BY <1>4 DEF Types
      <4>2. QED
        BY <3>1, <4>1 DEF None
    <3>2. CASE committed[q] # None
      BY <2>2, <3>2
    <3>3. QED
      BY <3>1, <3>2
  <2>4. Broker(q)'
    <3>1. from'[q] <= produced[q]
      BY <1>1, <1>2, <2>1 DEF Broker
    <3>2. Done(q, committed[q])'
      BY <1>1, <2>3 DEF Done
    <3>3. QED
      BY <1>1, <2>1, <3>1, <3>2 DEF Broker
  <2>5. Position(q)'
    <3>1. Done(q, claim[q].pos)'
      BY <1>1, <1>3, <2>2 DEF Done
    <3>2. /\ claim'[q].pc = "idle" /\ claim'[q].pos = Start(q) /\ claim'[q].marked = None /\ None = -1
          /\ session' = "open" /\ produced'[q] = produced[q] /\ Start(q) <= produced[q] /\ produced[q] \in Nat
      BY <1>1, <1>2, <1>3 DEF None
    <3> HIDE DEF Start
    <3>3. QED
      BY <3>1, <3>2 DEF Position
  <2>6. QED
    BY <2>4, <2>5
<1>6. QED
  BY <1>1, <1>3, <1>4, <1>5, OutsideInv

(* A rebalance, a crash and a start keep what is known of each partition.  *)
LEMMA ProcessInv ==
    ASSUME TraceInv, Rebalance \/ Crash \/ Restart \/ UNCHANGED vars
    PROVE  TraceInv'
<1>1. /\ UNCHANGED <<produced, committed, rows, docs, handled, counted, from>>
      /\ \/ claim' = claim /\ (session' = session \/ session' = "ending")
         \/ claim' = [p \in Partitions |-> NoClaim]
  BY DEF Rebalance, Crash, Restart, history, vars
<1>2. NoClaim \in Claims /\ NoClaim.pc = "none" /\ NoClaim.pos = 0 /\ NoClaim.marked = None
  BY DEF NoClaim, Claims, Offset, None
<1>3. Types /\ Types'
  <2>1. faults' \in 0 .. MaxFaults
    BY LogAssumption DEF TraceInv, Types, Rebalance, Crash, Restart, vars
  <2>2. up' \in BOOLEAN /\ session' \in {"none", "open", "ending"}
    BY DEF TraceInv, Types, Rebalance, Crash, Restart, vars
  <2>3. QED
    BY <1>1, <1>2, <2>1, <2>2 DEF TraceInv, Types
<1>4. ASSUME NEW q \in Partitions PROVE (Broker(q) /\ Position(q))'
  <2>1. Broker(q) /\ Position(q) /\ produced[q] \in Nat
    BY <1>3 DEF TraceInv, Types
  <2>2. \A n : Done(q, n) <=> Done(q, n)'
    BY <1>1 DEF Done
  <2>3. Broker(q)'
    BY <1>1, <2>1, <2>2 DEF Broker
  <2>4. CASE claim' = claim
    BY <1>1, <1>2, <2>1, <2>2, <2>3, <2>4 DEF Position
  <2>5. CASE claim' = [p \in Partitions |-> NoClaim]
    BY <1>1, <1>2, <2>1, <2>3, <2>5 DEF Position, None
  <2>6. QED
    BY <1>1, <2>3, <2>4, <2>5
<1>5. QED
  BY <1>1, <1>2, <1>3, <1>4, OutsideInv

-----------------------------------------------------------------------------
(* Every step of the pipeline keeps the invariant.                         *)
LEMMA NextInv == ASSUME TraceInv, [Next]_vars PROVE TraceInv'
<1>1. ASSUME NEW p \in Partitions, Produce(p) \/ AutoCommit(p) \/ ConsumeClaim(p) PROVE TraceInv'
  BY <1>1, ProduceInv, CommitInv, HandlerInv, ReadInv, WriteInv, MarkInv DEF ConsumeClaim
<1>2. QED
  BY <1>1, ConsumeInv, EndsInv, ProcessInv DEF Next

(* The invariant of the log pipeline, through rebalances, failures and     *)
(* crashes (data/cluster.go, lib/kafka.go).                                *)
THEOREM TracesCorrect == Spec => []TraceInv
<1>1. Init => TraceInv
  BY InitInv
<1>2. TraceInv /\ [Next]_vars => TraceInv'
  BY NextInv
<1>3. QED
  BY <1>1, <1>2, PTL DEF Spec

(* With the invariant, types and bounds are right.                         *)
LEMMA TypesAreRight == ASSUME TraceInv PROVE TypeOK
<1>1. ASSUME NEW p \in Partitions
      PROVE  /\ produced[p] \in 0 .. Len(Log[p]) /\ committed[p] \in {None} \cup 0 .. produced[p]
             /\ claim[p].pc \in {"none", "idle", "write", "mark", "returned"}
             /\ claim[p].pos \in 0 .. produced[p] /\ claim[p].marked \in {None} \cup 0 .. produced[p]
             /\ claim[p].seen \in {None} \cup Nat /\ handled[p] \subseteq Offsets(p)
             /\ docs[p] \in [Offsets(p) -> Nat] /\ from[p] \in 0 .. produced[p]
  <2>1. Types /\ Broker(p) /\ Position(p) /\ Len(Log[p]) \in Nat
    BY LogAssumption DEF TraceInv
  <2>2. /\ produced[p] \in Nat /\ committed[p] \in Offset /\ claim[p].pos \in Nat /\ claim[p].marked \in Offset
        /\ claim[p].seen \in Offset /\ claim[p].pc \in {"none", "idle", "write", "mark", "returned"}
        /\ from[p] \in Nat
    BY <2>1 DEF Types, Claims
  <2>3. QED
    BY <2>1, <2>2 DEF Broker, Position, Offset
<1>2. QED
  BY <1>1 DEF TypeOK, TraceInv, Types

(* The variables keep their types and bounds.                              *)
THEOREM TracesTypeCorrect == Spec => []TypeOK
<1>1. TraceInv => TypeOK
  BY TypesAreRight
<1>2. QED
  BY <1>1, TracesCorrect, PTL

(* No message is skipped, whatever fails, crashes or moves.                *)
THEOREM NoMessageIsSkipped == Spec => []NothingSkipped
<1>1. TraceInv => NothingSkipped
  BY DEF TraceInv, Broker, Done, NothingSkipped
<1>2. QED
  BY <1>1, TracesCorrect, PTL

(* A row never shows more requests than were counted, however claims race. *)
THEOREM NoCountIsInvented == Spec => []CountsAreNotInvented
<1>1. TraceInv => CountsAreNotInvented
  BY DEF TraceInv
<1>2. QED
  BY <1>1, TracesCorrect, PTL

-----------------------------------------------------------------------------
(* With one partition a claim that writes has seen the one count there is. *)
Single == \A p, q \in Partitions : p = q
Exact(r) == rows[r] = IF counted[r] = 0 THEN <<>> ELSE <<counted[r]>>
SeenIsLast(p) ==
    claim[p].pc = "write" =>
        claim[p].seen = IF counted[RouteOf(p)] = 0 THEN None ELSE counted[RouteOf(p)]
ExactInv == Single => (\A r \in Routes : Exact(r)) /\ (\A p \in Partitions : SeenIsLast(p))

(* With one partition every step keeps the count exact.                    *)
LEMMA ExactNext == ASSUME TraceInv, ExactInv, Single, [Next]_vars PROVE ExactInv'
<1>1. Types /\ (\A r \in Routes : Exact(r)) /\ (\A p \in Partitions : SeenIsLast(p))
  BY DEF TraceInv, ExactInv
<1>2. ASSUME UNCHANGED <<rows, counted>>,
             \A p \in Partitions : claim'[p].pc = "write" => claim'[p] = claim[p]
      PROVE  ExactInv'
  <2>1. \A r \in Routes : Exact(r)'
    BY <1>1, <1>2 DEF Exact
  <2>2. \A p \in Partitions : SeenIsLast(p)'
    BY <1>1, <1>2 DEF SeenIsLast, RouteOf, MessageAt
  <2>3. QED
    BY <2>1, <2>2 DEF ExactInv
<1>3. ASSUME NEW p \in Partitions, ReadCount(p) PROVE ExactInv'
  <2>1. PICK m \in Message :
          /\ MessageAt(p, claim[p].pos) = m /\ m.body \in Routes
          /\ claim' = [claim EXCEPT ![p].pc = "write", ![p].seen = IF rows[m.body] = <<>> THEN None
                                                                   ELSE Head(rows[m.body])]
          /\ UNCHANGED <<rows, counted>>
    BY <1>3 DEF ReadCount, Taking, history
  <2>2. counted[m.body] \in Nat /\ Exact(m.body)
    BY <1>1, <2>1 DEF Types
  <2>3. (IF rows[m.body] = <<>> THEN None ELSE Head(rows[m.body]))
          = IF counted[m.body] = 0 THEN None ELSE counted[m.body]
    BY <2>2 DEF Exact
  <2>4. claim'[p].pos = claim[p].pos /\ claim'[p].seen = IF rows[m.body] = <<>> THEN None ELSE Head(rows[m.body])
    BY <1>1, <2>1 DEF Types, Claims
  <2>5. SeenIsLast(p)'
    BY <2>1, <2>3, <2>4 DEF SeenIsLast, RouteOf, MessageAt
  <2>6. \A r \in Routes : Exact(r)'
    BY <1>1, <2>1 DEF Exact
  <2>7. QED
    BY <2>5, <2>6 DEF Single, ExactInv
<1>4. ASSUME NEW p \in Partitions, WriteCount(p) PROVE ExactInv'
  <2> DEFINE r == RouteOf(p)
             seen == claim[p].seen
  <2>1. /\ r \in Routes /\ counted[r] \in Nat /\ Exact(r)
        /\ seen = IF counted[r] = 0 THEN None ELSE counted[r]
    BY <1>1, <1>4 DEF TraceInv, Types, Seen, SeenIsLast, WriteCount
  <2>2. /\ rows' = [rows EXCEPT ![r] = IF seen = None THEN Append(@, 1) ELSE [i \in DOMAIN @ |-> seen + 1]]
        /\ counted' = [counted EXCEPT ![r] = @ + 1] /\ claim'[p].pc = "mark"
    BY <1>1, <1>4 DEF WriteCount, Types, Claims
  <2> HIDE DEF r, seen
  <2>3. rows'[r] = <<counted[r] + 1>> /\ counted'[r] = counted[r] + 1
    <3>1. CASE counted[r] = 0
      BY <1>1, <2>1, <2>2, <3>1 DEF Exact, Types
    <3>2. CASE counted[r] # 0
      <4>1. seen = counted[r] /\ seen # None /\ rows[r] = <<counted[r]>>
        BY <2>1, <3>2 DEF Exact, None
      <4>2. [i \in DOMAIN rows[r] |-> seen + 1] = <<counted[r] + 1>>
        BY <4>1
      <4>3. QED
        BY <1>1, <2>1, <2>2, <4>1, <4>2 DEF Types
    <3>3. QED
      BY <3>1, <3>2
  <2>4. ASSUME NEW t \in Routes PROVE Exact(t)'
    <3>1. CASE t = r
      BY <2>1, <2>3, <3>1 DEF Exact
    <3>2. CASE t # r
      BY <1>1, <2>2, <3>2 DEF Exact, Types
    <3>3. QED
      BY <3>1, <3>2
  <2>5. SeenIsLast(p)'
    BY <2>2 DEF SeenIsLast
  <2>6. QED
    BY <2>4, <2>5 DEF Single, ExactInv
<1>5. ASSUME NEW p \in Partitions,
             \/ Produce(p) \/ AutoCommit(p) \/ HandlerFails(p) \/ HandlerIgnores(p) \/ IndexDocument(p)
             \/ CountFails(p) \/ MarkMessage(p) \/ ClaimReturns(p)
      PROVE  ExactInv'
  <2>1. UNCHANGED <<rows, counted>>
    BY <1>5 DEF Produce, AutoCommit, HandlerFails, HandlerIgnores, IndexDocument, CountFails, MarkMessage,
                ClaimReturns, history
  <2>2. \/ claim' = claim
        \/ \E pc \in {"idle", "mark", "returned"} : claim'[p].pc = pc
    <3>1. CASE Produce(p) \/ AutoCommit(p)
      BY <3>1 DEF Produce, AutoCommit
    <3>2. CASE HandlerFails(p) \/ HandlerIgnores(p) \/ CountFails(p)
      BY <1>1, <3>2 DEF HandlerFails, HandlerIgnores, CountFails, Fails, Succeeds, Types, Claims
    <3>3. CASE IndexDocument(p)
      BY <1>1, <3>3 DEF IndexDocument, Fails, Succeeds, Types, Claims
    <3>4. CASE MarkMessage(p) \/ ClaimReturns(p)
      BY <1>1, <3>4 DEF MarkMessage, ClaimReturns, Types, Claims
    <3>5. QED
      BY <1>5, <3>1, <3>2, <3>3, <3>4
  <2>3. \A q \in Partitions : claim'[q].pc = "write" => claim'[q] = claim[q]
    BY <2>2 DEF Single
  <2>4. QED
    BY <1>2, <2>1, <2>3
<1>6. CASE Consume \/ Rebalance \/ SessionEnds \/ Crash \/ Restart \/ UNCHANGED vars
  <2>1. UNCHANGED <<rows, counted>>
    BY <1>6 DEF Consume, Rebalance, SessionEnds, Crash, Restart, history, vars
  <2>2. \A q \in Partitions : claim'[q].pc = "write" => claim'[q] = claim[q]
    <3>1. CASE Consume
      BY <3>1 DEF Consume, NoClaim
    <3>2. CASE SessionEnds \/ Crash
      BY <3>2 DEF SessionEnds, Crash, NoClaim
    <3>3. CASE Rebalance \/ Restart \/ UNCHANGED vars
      BY <3>3 DEF Rebalance, Restart, vars
    <3>4. QED
      BY <1>6, <3>1, <3>2, <3>3
  <2>3. QED
    BY <1>2, <2>1, <2>2
<1>7. QED
  BY <1>3, <1>4, <1>5, <1>6 DEF Next, ConsumeClaim

(* With one partition the row of two services shows the traces counted.    *)
THEOREM OnePartitionCountsExactly == Spec => []CountIsExact
<1>1. Init => ExactInv
  BY DEF Init, ExactInv, Exact, SeenIsLast, NoClaim
<1>2. TraceInv /\ ExactInv /\ [Next]_vars => ExactInv'
  <2>1. CASE Single
    BY <2>1, ExactNext
  <2>2. CASE ~Single
    BY <2>2 DEF ExactInv, Single
  <2>3. QED
    BY <2>1, <2>2
<1>3. ExactInv => CountIsExact
  <2>1. Cardinality(Partitions) = 1 => Single
    BY LogAssumption, FS_Singleton DEF Single
  <2>2. QED
    BY <2>1 DEF ExactInv, Exact, CountIsExact
<1>4. QED
  BY <1>1, <1>2, <1>3, TracesCorrect, PTL DEF Spec

-----------------------------------------------------------------------------
(* The variables of the scripts on the machines, by their names in         *)
(* MachineScripts.                                                         *)
machine == s1
job == s2
jobs == s3

Copied == {"no", "part", "whole"}
Installed == {{}, {"runc"}, {"runc", "containerd"}, {"runc", "containerd", "kubeadm"}}
Memberships == [role : {"none", "control", "worker"}, cluster : Nat]
MachineStates ==
    [files : [M!Scripts -> Copied], resource : Copied, set : SUBSET M!Range(M!Settings), software : Installed,
     kube : Memberships, found : {"none", "arm64", "amd64", "unspecified"}]
Tasks == [on : Hosts, do : M!Scripts \cup {"resource"}, control : BOOLEAN]
JobKinds == {"none", "install", "uninstall", "find", "join", "reset"}
Jobs ==
    [kind : JobKinds, at : {"none", "next", "look", "copy", "run", "done", "error"}, tasks : Seq(Tasks),
     rest : SUBSET Hosts, faults : Nat, token : BOOLEAN]

MachineTypes ==
    /\ machine \in [Hosts -> MachineStates] /\ job \in Jobs
    /\ jobs \in [job : Nat, fault : Nat, cut : Nat, cluster : Nat]
    /\ M!AtTask <=> job.tasks # <<>>
    /\ \A m \in Hosts : machine[m].kube.cluster <= jobs.cluster
                          /\ (machine[m].kube = M!Out <=> machine[m].kube.role = "none")

(* While no copy was cut off: what is there in part is being copied, and    *)
(* what is run is whole.                                                   *)
CopiesAreWhole ==
    /\ \A t \in Tasks : M!There(t) = "part" =>
         job.at = "copy" /\ t.on = M!Task.on /\ t.do = M!Task.do
    /\ job.at = "run" => M!There(M!Task) = "whole" /\ M!Task.do # "resource"

(* Components come after the settings, on the same machine.                *)
Earlier(i) == \E j \in 1 .. i - 1 : job.tasks[j].on = job.tasks[i].on /\ job.tasks[j].do = "nodeinit.sh"
SetFirst ==
    \A i \in DOMAIN job.tasks : job.tasks[i].do = "kubernetes-component.sh" =>
        Earlier(i) \/ machine[job.tasks[i].on].set = M!Range(M!Settings)

(* An install has an init of the master or is past it; what is neither to   *)
(* come nor being done has joined the cluster of the master.               *)
InCluster(m) == machine[m].kube # M!Out /\ machine[m].kube.cluster = machine[Chief].kube.cluster
Awaits(m, whats) == m \in job.rest \/ \E i \in DOMAIN job.tasks : job.tasks[i].on = m /\ job.tasks[i].do \in whats
InstallInv ==
    job.kind = "install" /\ job.at # "error" =>
        /\ Chief \notin job.rest
        /\ \A m \in Hosts : InCluster(m) \/ Awaits(m, {"kubernetes-init.sh", "kubernetes-join.sh"})
        /\ \A i \in DOMAIN job.tasks :
             /\ job.tasks[i].do # "kubernetes-reset.sh"
             /\ job.tasks[i].do = "kubernetes-init.sh" => job.tasks[i].on = Chief /\ job.rest = Hosts \ {Chief}
             /\ job.tasks[i].do = "kubernetes-join.sh" => job.tasks[i].on # Chief

(* What is neither to be reset nor being reset is in no cluster.           *)
UninstallInv ==
    job.kind = "uninstall" /\ job.at # "error" =>
        /\ \A m \in Hosts : machine[m].kube = M!Out \/ Awaits(m, {"kubernetes-reset.sh"})
        /\ \A i \in DOMAIN job.tasks : job.tasks[i].do = "kubernetes-reset.sh"

MachineInv ==
    /\ MachineTypes
    /\ jobs.cut = 0 => CopiesAreWhole /\ M!InOrder /\ SetFirst /\ InstallInv /\ UninstallInv
    /\ job.at = "done" => job.tasks = <<>> /\ job.rest = {}

-----------------------------------------------------------------------------
USE DEF machine, job, jobs

(* The steps of the scripts, one by one.                                   *)
LEMMA SoftwareIs ==
    /\ M!First(M!Software, 0) = {} /\ M!First(M!Software, 1) = {"runc"}
    /\ M!First(M!Software, 2) = {"runc", "containerd"}
    /\ M!First(M!Software, 3) = {"runc", "containerd", "kubeadm"}
    /\ M!Range(M!Software) = {"runc", "containerd", "kubeadm"} /\ Len(M!Software) = 3
<1>1. M!Software = <<"runc", "containerd", "kubeadm">>
  <2>1. M!Containerd = <<"runc", "containerd">>
    BY DEF M!Containerd
  <2>2. <<"runc", "containerd">> \in Seq({"runc", "containerd", "kubeadm"}) /\ <<"kubeadm">> \in Seq({"runc", "containerd", "kubeadm"})
    OBVIOUS
  <2>3. /\ M!Software \in Seq({"runc", "containerd", "kubeadm"}) /\ Len(M!Software) = 3
        /\ \A i \in 1 .. 3 : M!Software[i] = IF i <= 2 THEN <<"runc", "containerd">>[i] ELSE <<"kubeadm">>[i - 2]
    BY <2>1, <2>2, ConcatProperties DEF M!Software
  <2>4. M!Software[1] = "runc" /\ M!Software[2] = "containerd" /\ M!Software[3] = "kubeadm"
    BY <2>3
  <2> QED
    BY <2>3, <2>4
<1>2. 1 .. 0 = {} /\ 1 .. 1 = {1} /\ 1 .. 2 = {1, 2} /\ 1 .. 3 = {1, 2, 3}
  OBVIOUS
<1>3. DOMAIN M!Software = {1, 2, 3}
  BY <1>1
<1> QED
  BY <1>1, <1>2, <1>3 DEF M!First, M!Range

LEMMA SettingsIs ==
    /\ Len(M!Settings) \in Nat
    /\ M!First(M!Settings, Len(M!Settings)) = M!Range(M!Settings)
    /\ \A k \in 0 .. Len(M!Settings) : M!First(M!Settings, k) \in SUBSET M!Range(M!Settings)
<1> DEFINE All3 == {"hostname", "hosts", "forwarding", "swap", "fstab", "firewall", "conntrack and yq",
                    "jq, lvm2 and util-linux"}
<1>1. M!System \in Seq(All3) /\ M!Firewall \in Seq(All3) /\ M!Packages \in Seq(All3)
  BY DEF M!System, M!Firewall, M!Packages
<1>2. M!Settings \in Seq(All3)
  <2> HIDE DEF All3
  <2>1. M!System \o M!Firewall \in Seq(All3)
    BY <1>1, ConcatProperties
  <2> QED
    BY <1>1, <2>1, ConcatProperties DEF M!Settings
<1> HIDE DEF All3
<1>3. DOMAIN M!Settings = 1 .. Len(M!Settings) /\ Len(M!Settings) \in Nat
  BY <1>2
<1> QED
  BY <1>3 DEF M!First, M!Range

LEMMA DoIs ==
    ASSUME NEW m \in Hosts, NEW what \in M!Scripts \cup {"resource"}
    PROVE  M!Do(m, what) \in Tasks /\ M!Do(m, what).on = m /\ M!Do(m, what).do = what
BY DEF M!Do, Tasks

LEMMA ScriptsAre ==
    {"nodeinit.sh", "kubernetes-component.sh", "kubernetes-init.sh", "kubernetes-join.sh",
     "kubernetes-reset.sh", "systeminfo.sh", "kubeadm-catoken.sh"} = M!Scripts
BY DEF M!Scripts, M!CaToken

LEMMA InitNodeIs ==
    ASSUME NEW m \in Hosts
    PROVE  /\ M!initNode(m) \in Seq(Tasks) /\ Len(M!initNode(m)) = 2
           /\ M!initNode(m)[1].do = "nodeinit.sh" /\ M!initNode(m)[2].do = "kubernetes-component.sh"
           /\ M!initNode(m)[1].on = m /\ M!initNode(m)[2].on = m
BY DoIs, ScriptsAre DEF M!initNode

(* A list of one, one of two, and what comes after them.                   *)
LEMMA OneTwoMore ==
    ASSUME NEW S, NEW s \in Seq(S), NEW t \in Seq(S), NEW u \in Seq(S), Len(s) = 1, Len(t) = 2
    PROVE  /\ s \o t \o u \in Seq(S) /\ Len(s \o t \o u) = 3 + Len(u)
           /\ (s \o t \o u)[1] = s[1] /\ (s \o t \o u)[2] = t[1] /\ (s \o t \o u)[3] = t[2]
           /\ \A i \in 1 .. Len(u) : (s \o t \o u)[3 + i] = u[i]
<1>1. /\ s \o t \in Seq(S) /\ Len(s \o t) = 3
      /\ \A i \in 1 .. 3 : (s \o t)[i] = IF i <= 1 THEN s[i] ELSE t[i - 1]
  <2>1. /\ s \o t \in Seq(S) /\ Len(s \o t) = Len(s) + Len(t)
        /\ \A i \in 1 .. Len(s) + Len(t) : (s \o t)[i] = IF i <= Len(s) THEN s[i] ELSE t[i - Len(s)]
    BY ConcatProperties
  <2> QED
    BY <2>1
<1>2. (s \o t)[1] = s[1] /\ (s \o t)[2] = t[1] /\ (s \o t)[3] = t[2]
  BY <1>1
<1> DEFINE st == s \o t
<1>3. st \in Seq(S) /\ Len(st) = 3 /\ st[1] = s[1] /\ st[2] = t[1] /\ st[3] = t[2]
  BY <1>1, <1>2
<1> HIDE DEF st
<1>4. /\ st \o u \in Seq(S) /\ Len(st \o u) = 3 + Len(u)
      /\ \A i \in 1 .. 3 + Len(u) : (st \o u)[i] = IF i <= 3 THEN st[i] ELSE u[i - 3]
  <2>1. st \in Seq(S)
    BY <1>3
  <2>2. /\ st \o u \in Seq(S) /\ Len(st \o u) = Len(st) + Len(u)
        /\ \A i \in 1 .. Len(st) + Len(u) : (st \o u)[i] = IF i <= Len(st) THEN st[i] ELSE u[i - Len(st)]
    BY <2>1, ConcatProperties
  <2> QED
    BY <1>3, <2>2
<1>5. Len(u) \in Nat
  OBVIOUS
<1>6. (st \o u)[1] = st[1] /\ (st \o u)[2] = st[2] /\ (st \o u)[3] = st[3]
  BY <1>4, <1>5
<1>7. ASSUME NEW i \in 1 .. Len(u) PROVE (st \o u)[3 + i] = u[i]
  <2>1. 3 + i \in 1 .. 3 + Len(u) /\ ~(3 + i <= 3) /\ 3 + i - 3 = i
    BY <1>5
  <2> QED
    BY <2>1, <1>4
<1> QED
  BY <1>3, <1>4, <1>6, <1>7 DEF st

LEMMA JoinIs ==
    ASSUME MachinesAssumption, NEW m \in Hosts
    PROVE  /\ M!joinCluster(m) \in Seq(Tasks) /\ Len(M!joinCluster(m)) = 6
           /\ M!joinCluster(m)[1].do = "resource" /\ M!joinCluster(m)[2].do = "nodeinit.sh"
           /\ M!joinCluster(m)[3].do = "kubernetes-component.sh" /\ M!joinCluster(m)[4].do = "kubeadm-catoken.sh"
           /\ M!joinCluster(m)[5].do = "kubeadm-catoken.sh" /\ M!joinCluster(m)[6].do = "kubernetes-join.sh"
           /\ M!joinCluster(m)[2].on = m /\ M!joinCluster(m)[3].on = m /\ M!joinCluster(m)[6].on = m
<1> DEFINE first == <<M!Do(m, "resource")>>
           last == [M!Do(m, "kubernetes-join.sh") EXCEPT !.control = HostRole[m] # "master"]
           token == M!Do(Chief, "kubeadm-catoken.sh")
           end == <<token, token, last>>
           node == M!initNode(m)
           all == first \o node \o end
<1>1. Chief \in Hosts
  BY DEF MachinesAssumption
<1>2. first \in Seq(Tasks) /\ Len(first) = 1 /\ first[1].do = "resource" /\ first[1].on = m
  BY DoIs
<1>3. last \in Tasks /\ last.do = "kubernetes-join.sh" /\ last.on = m
  BY DoIs, ScriptsAre DEF Tasks, M!Do
<1>4. token \in Tasks /\ token.do = "kubeadm-catoken.sh"
  BY DoIs, ScriptsAre, <1>1
<1>5. end \in Seq(Tasks) /\ Len(end) = 3 /\ end[1] = token /\ end[2] = token /\ end[3] = last
  BY <1>3, <1>4
<1>6. M!joinCluster(m) = all
  BY DEF M!joinCluster, M!CaToken
<1>7. /\ node \in Seq(Tasks) /\ Len(node) = 2
      /\ node[1].do = "nodeinit.sh" /\ node[2].do = "kubernetes-component.sh" /\ node[1].on = m /\ node[2].on = m
  BY InitNodeIs
<1> HIDE DEF first, last, token, end, node
<1>8. /\ all \in Seq(Tasks) /\ Len(all) = 3 + Len(end)
      /\ all[1] = first[1] /\ all[2] = node[1] /\ all[3] = node[2]
      /\ \A i \in 1 .. Len(end) : all[3 + i] = end[i]
  <2>1. first \in Seq(Tasks) /\ node \in Seq(Tasks) /\ end \in Seq(Tasks) /\ Len(first) = 1 /\ Len(node) = 2
    BY <1>2, <1>5, <1>7
  <2> QED
    BY <2>1, OneTwoMore
<1> HIDE DEF all
<1>9. all[3 + 1] = end[1] /\ all[3 + 2] = end[2] /\ all[3 + 3] = end[3]
  BY <1>5, <1>8
<1>10. all[4] = token /\ all[5] = token /\ all[6] = last /\ Len(all) = 6
  BY <1>5, <1>8, <1>9
<1>11. /\ all[1].do = "resource" /\ all[2].do = "nodeinit.sh" /\ all[3].do = "kubernetes-component.sh"
       /\ all[4].do = "kubeadm-catoken.sh" /\ all[5].do = "kubeadm-catoken.sh" /\ all[6].do = "kubernetes-join.sh"
       /\ all[1].on = m /\ all[2].on = m /\ all[3].on = m /\ all[6].on = m
  BY <1>2, <1>3, <1>4, <1>7, <1>8, <1>10
<1> QED
  BY <1>6, <1>8, <1>10, <1>11

LEMMA InstallIs ==
    ASSUME MachinesAssumption
    PROVE  /\ M!InstallTasks \in Seq(Tasks) /\ Len(M!InstallTasks) = 4
           /\ M!InstallTasks[1].do = "resource" /\ M!InstallTasks[2].do = "nodeinit.sh"
           /\ M!InstallTasks[3].do = "kubernetes-component.sh" /\ M!InstallTasks[4].do = "kubernetes-init.sh"
           /\ M!InstallTasks[1].on = Chief /\ M!InstallTasks[2].on = Chief /\ M!InstallTasks[3].on = Chief /\ M!InstallTasks[4].on = Chief
<1> DEFINE first == <<M!Do(Chief, "resource")>>
           end == <<M!Do(Chief, "kubernetes-init.sh")>>
           node == M!initNode(Chief)
           all == first \o node \o end
<1>1. Chief \in Hosts
  BY DEF MachinesAssumption
<1>2. first \in Seq(Tasks) /\ Len(first) = 1 /\ first[1].do = "resource" /\ first[1].on = Chief
  BY DoIs, <1>1
<1>3. end \in Seq(Tasks) /\ Len(end) = 1 /\ end[1].do = "kubernetes-init.sh" /\ end[1].on = Chief
  BY DoIs, ScriptsAre, <1>1
<1>4. M!InstallTasks = all
  BY DEF M!InstallTasks
<1>5. /\ node \in Seq(Tasks) /\ Len(node) = 2
      /\ node[1].do = "nodeinit.sh" /\ node[2].do = "kubernetes-component.sh" /\ node[1].on = Chief /\ node[2].on = Chief
  BY <1>1, InitNodeIs
<1> HIDE DEF first, end, node
<1>6. /\ all \in Seq(Tasks) /\ Len(all) = 3 + Len(end)
      /\ all[1] = first[1] /\ all[2] = node[1] /\ all[3] = node[2]
      /\ \A i \in 1 .. Len(end) : all[3 + i] = end[i]
  <2>1. first \in Seq(Tasks) /\ node \in Seq(Tasks) /\ end \in Seq(Tasks) /\ Len(first) = 1 /\ Len(node) = 2
    BY <1>2, <1>3, <1>5
  <2> QED
    BY <2>1, OneTwoMore
<1> HIDE DEF all
<1>7. all[3 + 1] = end[1]
  BY <1>3, <1>6
<1>8. all[4] = end[1] /\ Len(all) = 4
  BY <1>3, <1>6, <1>7
<1>9. /\ all[1].do = "resource" /\ all[2].do = "nodeinit.sh" /\ all[3].do = "kubernetes-component.sh"
      /\ all[4].do = "kubernetes-init.sh"
      /\ all[1].on = Chief /\ all[2].on = Chief /\ all[3].on = Chief /\ all[4].on = Chief
  BY <1>2, <1>3, <1>5, <1>6, <1>8
<1> QED
  BY <1>4, <1>6, <1>8, <1>9

-----------------------------------------------------------------------------
(* What the task at hand may do to the machines, whether it works or not:   *)
(* it leaves files and other machines alone, and is in or out of a cluster  *)
(* afterwards only as its script says.                                     *)
FilesStay == \A t \in Tasks : M!There(t)' = M!There(t)
Changes ==
    /\ machine' \in [Hosts -> MachineStates]
    /\ \A m \in Hosts \ {M!Task.on} : machine'[m] = machine[m]
    /\ \A m \in Hosts :
         /\ machine[m].set \subseteq machine'[m].set /\ machine[m].software \subseteq machine'[m].software
         /\ machine'[m].software = machine[m].software \/ M!Task.do = "kubernetes-component.sh"
         /\ machine'[m].kube \in {M!Out, machine[m].kube} \/ "kubeadm" \in machine[m].software
         /\ machine'[m].kube = machine[m].kube \/ M!Task.do \in {"kubernetes-init.sh", "kubernetes-join.sh", "kubernetes-reset.sh"}
         /\ machine'[m].kube.cluster <= jobs'.cluster
         /\ machine'[m].kube = M!Out <=> machine'[m].kube.role = "none"
Effects == FilesStay /\ Changes

(* And when it works.                                                      *)
Effective ==
    LET now == machine'[M!Task.on] IN
    /\ M!Task.do = "nodeinit.sh" => now.set = M!Range(M!Settings)
    /\ M!Task.do = "kubernetes-init.sh" => now.kube # M!Out
    /\ M!Task.do = "kubernetes-join.sh" => now.kube # M!Out /\ now.kube.cluster = machine[Chief].kube.cluster
    /\ M!Task.do = "kubernetes-reset.sh" => now.kube = M!Out

LEMMA TaskIs ==
    ASSUME MachineTypes, M!AtTask
    PROVE  /\ M!Task \in Tasks /\ M!Task = job.tasks[1] /\ 1 \in DOMAIN job.tasks
           /\ machine[M!Task.on] \in MachineStates
<1>1. job.tasks \in Seq(Tasks) /\ job.tasks # <<>> /\ machine \in [Hosts -> MachineStates]
  BY DEF MachineTypes, Jobs
<1>2. job.tasks[1] \in Tasks /\ 1 \in DOMAIN job.tasks /\ M!Task = job.tasks[1]
  BY <1>1 DEF M!Task
<1> QED
  BY <1>1, <1>2 DEF Tasks

(* What is on the machine of the task when it ends is one record.          *)
LEMMA OneMachine ==
    ASSUME MachineTypes, M!AtTask, NEW r \in MachineStates, M!Becomes(M!Task, r), jobs'.cluster >= jobs.cluster,
           jobs'.cluster \in Nat, LET old == machine[M!Task.on] IN
           /\ r.files = old.files /\ r.resource = old.resource
           /\ old.set \subseteq r.set /\ old.software \subseteq r.software
           /\ r.software = old.software \/ M!Task.do = "kubernetes-component.sh"
           /\ r.kube \in {M!Out, old.kube} \/ "kubeadm" \in old.software
           /\ r.kube = old.kube \/ M!Task.do \in {"kubernetes-init.sh", "kubernetes-join.sh", "kubernetes-reset.sh"}
           /\ r.kube.cluster <= jobs'.cluster
           /\ r.kube = M!Out <=> r.kube.role = "none"
    PROVE  Effects /\ machine'[M!Task.on] = r
<1> DEFINE on == M!Task.on
<1>1. on \in Hosts /\ machine \in [Hosts -> MachineStates] /\ machine' = [machine EXCEPT ![on] = r]
  BY TaskIs DEF MachineTypes, Tasks, M!Becomes
<1>2. machine' \in [Hosts -> MachineStates] /\ machine'[on] = r /\ \A m \in Hosts \ {on} : machine'[m] = machine[m]
  BY <1>1
<1>3. ASSUME NEW t \in Tasks PROVE M!There(t)' = M!There(t)
  <2>1. t.on \in Hosts /\ machine'[t.on].files = machine[t.on].files /\ machine'[t.on].resource = machine[t.on].resource
    BY <1>2 DEF Tasks
  <2> QED
    BY <2>1 DEF M!There
<1>4. ASSUME NEW m \in Hosts \ {on}
      PROVE  machine'[m].kube.cluster <= jobs'.cluster /\ (machine'[m].kube = M!Out <=> machine'[m].kube.role = "none")
  <2>1. /\ machine[m].kube.cluster <= jobs.cluster /\ (machine[m].kube = M!Out <=> machine[m].kube.role = "none")
        /\ machine[m].kube.cluster \in Nat /\ jobs.cluster \in Nat
    BY <1>1 DEF MachineTypes, MachineStates, Memberships
  <2> QED
    BY <2>1, <1>2
<1> QED
  BY <1>2, <1>3, <1>4 DEF Effects, FilesStay, Changes

LEMMA OutIs == M!Out \in Memberships /\ M!Out.role = "none" /\ M!Out.cluster = 0
BY DEF M!Out, Memberships

(* What a script leaves that does not get to its end.                      *)
LEMMA LeftIs ==
    ASSUME MachineTypes, M!AtTask, NEW r \in M!Left(M!Task), M!Becomes(M!Task, r), jobs'.cluster >= jobs.cluster,
           jobs'.cluster \in Nat
    PROVE  Effects
<1> DEFINE old == machine[M!Task.on]
<1>1. old \in MachineStates /\ M!Task \in Tasks
  BY TaskIs
<1>2. /\ old.kube.cluster <= jobs'.cluster /\ (old.kube = M!Out <=> old.kube.role = "none")
  BY <1>1 DEF MachineTypes, Tasks, MachineStates, Memberships
<1>3. jobs'.cluster >= 0
  OBVIOUS
<1>4. CASE M!Task.do = "nodeinit.sh"
  <2>1. PICK k \in 0 .. Len(M!Settings) - 1 : r = M!Nodeinit(old, k)
    BY <1>4 DEF M!Left
  <2>2. M!First(M!Settings, k) \subseteq M!Range(M!Settings)
    BY SettingsIs
  <2>3. r = [old EXCEPT !.set = old.set \cup M!First(M!Settings, k)]
    BY <2>1 DEF M!Nodeinit
  <2>4. r \in MachineStates
    BY <1>1, <2>2, <2>3 DEF MachineStates
  <2> QED
    BY <1>1, <1>2, <2>3, <2>4, OneMachine DEF MachineStates
<1>5. CASE M!Task.do = "kubernetes-component.sh"
  <2>1. PICK k \in 0 .. Len(M!Software) - 1 : r = M!Component(old, k)
    BY <1>5 DEF M!Left
  <2>2. k \in {0, 1, 2}
    BY SoftwareIs
  <2>3. r = [old EXCEPT !.software = old.software \cup M!First(M!Software, k)]
    BY <2>1 DEF M!Component
  <2>4. old.software \cup M!First(M!Software, k) \in Installed
    BY <1>1, <2>2, SoftwareIs DEF MachineStates, Installed
  <2>5. r \in MachineStates
    BY <1>1, <2>3, <2>4 DEF MachineStates
  <2> QED
    BY <1>1, <1>2, <1>5, <2>3, <2>5, OneMachine DEF MachineStates
<1>6. CASE r = old
  BY <1>1, <1>2, <1>6, OneMachine
<1>7. CASE r = M!Reset(old) /\ M!Task.do \in {"kubernetes-init.sh", "kubernetes-join.sh", "kubernetes-reset.sh"}
  <2>1. r = [old EXCEPT !.kube = M!Out]
    BY <1>7 DEF M!Reset
  <2>2. r \in MachineStates
    BY <1>1, <2>1, OutIs DEF MachineStates
  <2> QED
    BY <1>1, <1>3, <1>7, <2>1, <2>2, OutIs, OneMachine DEF MachineStates
<1> QED
  BY <1>4, <1>5, <1>6, <1>7 DEF M!Left

(* What a script does that works.                                          *)
LEMMA WorkedIs ==
    ASSUME MachinesAssumption, MachineTypes, M!AtTask, M!Works(M!Task), M!Becomes(M!Task, M!Worked(M!Task)),
           jobs'.cluster = M!AnotherCluster(M!Task)
    PROVE  Effects /\ Effective
<1> DEFINE old == machine[M!Task.on]
           r == M!Worked(M!Task)
<1>1. old \in MachineStates /\ M!Task \in Tasks /\ machine[Chief] \in MachineStates /\ jobs.cluster \in Nat
  BY TaskIs DEF MachineTypes, MachinesAssumption
<1>2. /\ old.kube.cluster <= jobs.cluster /\ (old.kube = M!Out <=> old.kube.role = "none")
      /\ machine[Chief].kube.cluster <= jobs.cluster /\ old.kube.cluster \in Nat
  BY <1>1 DEF MachineTypes, MachinesAssumption, Tasks, MachineStates, Memberships
<1>3. jobs'.cluster >= jobs.cluster /\ jobs'.cluster \in Nat /\ (M!Task.do = "kubernetes-init.sh" => jobs'.cluster = jobs.cluster + 1)
      /\ old.kube.cluster <= jobs'.cluster /\ machine[Chief].kube.cluster <= jobs'.cluster
  <2>1. jobs'.cluster \in {jobs.cluster, jobs.cluster + 1} /\ (M!Task.do = "kubernetes-init.sh" => jobs'.cluster = jobs.cluster + 1)
    BY DEF M!AnotherCluster
  <2>2. machine[Chief].kube.cluster \in Nat
    BY <1>1 DEF MachineStates, Memberships
  <2> QED
    BY <1>1, <1>2, <2>1, <2>2
<1>4. CASE M!Task.do = "nodeinit.sh"
  <2>1. r = [old EXCEPT !.set = old.set \cup M!Range(M!Settings)]
    BY <1>4, SettingsIs DEF M!Worked, M!Nodeinit
  <2>2. r \in MachineStates /\ r.set = M!Range(M!Settings)
    BY <1>1, <2>1 DEF MachineStates
  <2>3. Effects /\ machine'[M!Task.on] = r
    BY <1>1, <1>2, <1>3, <2>1, <2>2, OneMachine DEF MachineStates
  <2> QED
    BY <1>4, <2>2, <2>3 DEF Effective
<1>5. CASE M!Task.do = "kubernetes-component.sh"
  <2>1. r = [old EXCEPT !.software = old.software \cup {"runc", "containerd", "kubeadm"}]
    BY <1>5, SoftwareIs DEF M!Worked, M!Component
  <2>2. r \in MachineStates
    BY <1>1, <2>1 DEF MachineStates, Installed
  <2>3. Effects
    BY <1>1, <1>2, <1>3, <1>5, <2>1, <2>2, OneMachine DEF MachineStates
  <2> QED
    BY <1>5, <2>3 DEF Effective
<1>6. CASE M!Task.do = "kubernetes-init.sh"
  <2>1. r = [old EXCEPT !.kube = [role |-> "control", cluster |-> jobs.cluster + 1]]
    BY <1>6 DEF M!Worked, M!Initialised
  <2>2. r \in MachineStates /\ r.kube.role = "control" /\ r.kube.cluster = jobs.cluster + 1
    BY <1>1, <2>1 DEF MachineStates, Memberships
  <2>3. "kubeadm" \in old.software
    <3>1. M!Ready(M!Task.on)
      BY <1>6 DEF M!Works
    <3> QED
      BY <3>1 DEF M!Ready
  <2>4. Effects /\ machine'[M!Task.on] = r
    BY <1>1, <1>2, <1>3, <1>6, <2>1, <2>2, <2>3, OutIs, OneMachine DEF MachineStates
  <2> QED
    BY <1>6, <2>2, <2>4, OutIs DEF Effective
<1>7. CASE M!Task.do = "kubernetes-join.sh"
  <2>1. PICK role \in {"control", "worker"} : r = [old EXCEPT !.kube = [role |-> role, cluster |-> machine[Chief].kube.cluster]]
    BY <1>7 DEF M!Worked, M!Joined
  <2>2. r \in MachineStates /\ r.kube.role # "none" /\ r.kube.cluster = machine[Chief].kube.cluster
    BY <1>1, <2>1 DEF MachineStates, Memberships
  <2>3. "kubeadm" \in old.software
    <3>1. M!Ready(M!Task.on)
      BY <1>7 DEF M!Works
    <3> QED
      BY <3>1 DEF M!Ready
  <2>4. Effects /\ machine'[M!Task.on] = r
    BY <1>1, <1>2, <1>3, <1>7, <2>1, <2>2, <2>3, OutIs, OneMachine DEF MachineStates, Memberships
  <2> QED
    BY <1>7, <2>2, <2>4, OutIs DEF Effective
<1>8. CASE M!Task.do = "kubernetes-reset.sh"
  <2>1. r = [old EXCEPT !.kube = M!Out]
    BY <1>8 DEF M!Worked, M!Reset
  <2>2. r \in MachineStates /\ r.kube = M!Out
    BY <1>1, <2>1, OutIs DEF MachineStates
  <2>3. r.kube.cluster <= jobs'.cluster /\ r.kube.role = "none"
    BY <1>3, <2>2, OutIs
  <2>4. Effects /\ machine'[M!Task.on] = r
    BY <1>1, <1>3, <1>8, <2>1, <2>2, <2>3, OneMachine DEF MachineStates
  <2> QED
    BY <1>8, <2>2, <2>4 DEF Effective
<1>9. CASE M!Task.do = "systeminfo.sh"
  <2>1. PICK said \in {"arm64", "amd64", "unspecified"} : r = [old EXCEPT !.found = said]
    BY <1>9 DEF M!Worked, M!ArchOf
  <2>2. r \in MachineStates
    BY <1>1, <2>1 DEF MachineStates
  <2>4. Effects
    BY <1>1, <1>2, <1>3, <1>9, <2>1, <2>2, OneMachine DEF MachineStates
  <2> QED
    BY <1>9, <2>4 DEF Effective
<1>10. CASE M!Task.do \notin {"nodeinit.sh", "kubernetes-component.sh", "kubernetes-init.sh", "kubernetes-join.sh",
                              "kubernetes-reset.sh", "systeminfo.sh"}
  <2>1. r = old
    BY <1>10 DEF M!Worked
  <2>2. Effects
    BY <1>1, <1>2, <1>3, <2>1, OneMachine
  <2> QED
    BY <1>10, <2>2 DEF Effective
<1> QED
  BY <1>4, <1>5, <1>6, <1>7, <1>8, <1>9, <1>10

-----------------------------------------------------------------------------
(* How a job goes on: to its next task, or to an error.                     *)
Popped ==
    /\ job' \in Jobs /\ job'.kind = job.kind /\ job'.rest = job.rest
    /\ job'.at \in {"next", "look"} /\ (job'.at = "look" <=> job'.tasks # <<>>)
    /\ \A i \in DOMAIN job.tasks' : i + 1 \in DOMAIN job.tasks /\ job'.tasks[i] = job.tasks[i + 1]
    /\ \A i \in DOMAIN job.tasks : i # 1 => i - 1 \in DOMAIN job'.tasks /\ job'.tasks[i - 1] = job.tasks[i]
Broken == job' \in Jobs /\ job'.at = "error" /\ job'.tasks = <<>>

LEMMA TailIs ==
    ASSUME NEW S, NEW s \in Seq(S), s # <<>>
    PROVE  /\ Tail(s) \in Seq(S) /\ (Len(s) = 1 <=> Tail(s) = <<>>)
           /\ \A i \in DOMAIN Tail(s) : i + 1 \in DOMAIN s /\ Tail(s)[i] = s[i + 1]
           /\ \A i \in DOMAIN s : i # 1 => i - 1 \in DOMAIN Tail(s) /\ Tail(s)[i - 1] = s[i]
<1>1. /\ Tail(s) \in Seq(S) /\ Len(Tail(s)) = Len(s) - 1 /\ Len(s) \in Nat \ {0}
      /\ \A i \in 1 .. Len(Tail(s)) : Tail(s)[i] = s[i + 1]
  BY HeadTailProperties
<1>2. DOMAIN s = 1 .. Len(s) /\ DOMAIN Tail(s) = 1 .. Len(s) - 1
  BY <1>1
<1>3. Len(s) = 1 <=> Tail(s) = <<>>
  <2> DEFINE tail == Tail(s)
  <2>1. tail \in Seq(S) /\ Len(tail) = Len(s) - 1
    BY <1>1
  <2> HIDE DEF tail
  <2>2. tail = <<>> <=> Len(tail) = 0
    BY <2>1, EmptySeq
  <2> QED
    BY <1>1, <2>1, <2>2 DEF tail
<1>4. ASSUME NEW i \in DOMAIN s, i # 1 PROVE i - 1 \in DOMAIN Tail(s) /\ Tail(s)[i - 1] = s[i]
  <2>1. i - 1 \in 1 .. Len(Tail(s)) /\ (i - 1) + 1 = i
    BY <1>1, <1>2, <1>4
  <2> QED
    BY <1>1, <1>2, <2>1
<1> QED
  BY <1>1, <1>2, <1>3, <1>4

LEMMA Next1Is ==
    ASSUME MachineTypes, M!AtTask,
           job' \in {M!Next1, [M!Next1 EXCEPT !.token = TRUE], [M!Next1 EXCEPT !.faults = @ + 1]}
    PROVE  Popped
<1> DEFINE next == IF Len(job.tasks) = 1 THEN "next" ELSE "look"
<1>1. job \in Jobs /\ job.tasks \in Seq(Tasks) /\ job.tasks # <<>> /\ job.faults + 1 \in Nat
  BY DEF MachineTypes, Jobs
<1>2. M!Next1 = [job EXCEPT !.tasks = Tail(job.tasks), !.at = next]
  BY DEF M!Next1
<1> DEFINE rest == Tail(job.tasks)
<1>3. /\ rest \in Seq(Tasks) /\ (Len(job.tasks) = 1 <=> rest = <<>>)
      /\ \A i \in DOMAIN rest : i + 1 \in DOMAIN job.tasks /\ rest[i] = job.tasks[i + 1]
      /\ \A i \in DOMAIN job.tasks : i # 1 => i - 1 \in DOMAIN rest /\ rest[i - 1] = job.tasks[i]
  BY <1>1, TailIs
<1>4. next \in {"next", "look"} /\ (next = "look" <=> rest # <<>>)
  BY <1>3
<1>5. M!Next1 = [job EXCEPT !.tasks = rest, !.at = next]
  BY <1>2
<1> HIDE DEF rest, next
<1>6. M!Next1 \in Jobs /\ M!Next1.kind = job.kind /\ M!Next1.rest = job.rest /\ M!Next1.at = next /\ M!Next1.tasks = rest
      /\ M!Next1.faults + 1 \in Nat
  BY <1>1, <1>3, <1>4, <1>5 DEF Jobs
<1>7. job' \in Jobs /\ job'.kind = job.kind /\ job'.rest = job.rest /\ job'.at = next /\ job'.tasks = rest
  <2> DEFINE new == M!Next1
  <2>0. new \in Jobs /\ new.kind = job.kind /\ new.rest = job.rest /\ new.at = next /\ new.tasks = rest /\ new.faults + 1 \in Nat
    BY <1>6
  <2>1. job' \in {new, [new EXCEPT !.token = TRUE], [new EXCEPT !.faults = @ + 1]}
    OBVIOUS
  <2> HIDE DEF new
  <2>2. CASE job' = new
    BY <2>0, <2>2
  <2>3. CASE job' = [new EXCEPT !.token = TRUE]
    BY <2>0, <2>3 DEF Jobs
  <2>4. CASE job' = [new EXCEPT !.faults = @ + 1]
    BY <2>0, <2>4 DEF Jobs
  <2> QED
    BY <2>1, <2>2, <2>3, <2>4
<1> QED
  BY <1>3, <1>4, <1>7 DEF Popped

LEMMA FailedIs ==
    ASSUME MachineTypes, M!AtTask, job' \in {M!Failed, [M!Failed EXCEPT !.faults = @ + 1]}
    PROVE  (M!Task.do = "systeminfo.sh" /\ Popped) \/ Broken
<1>1. CASE M!Task.do = "systeminfo.sh"
  BY <1>1, Next1Is DEF M!Failed
<1>2. CASE M!Task.do # "systeminfo.sh"
  <2>1. M!Failed = [job EXCEPT !.at = "error", !.tasks = <<>>, !.rest = {}]
    BY <1>2 DEF M!Failed
  <2>2. job \in Jobs /\ <<>> \in Seq(Tasks) /\ job.faults \in Nat
    BY DEF MachineTypes, Jobs
  <2>3. M!Failed \in Jobs /\ M!Failed.at = "error" /\ M!Failed.tasks = <<>> /\ M!Failed.faults + 1 \in Nat
    <3>1. [job EXCEPT !.at = "error", !.tasks = <<>>, !.rest = {}] \in Jobs
      BY <2>2 DEF Jobs
    <3> QED
      BY <2>1, <2>2, <3>1 DEF Jobs
  <2> DEFINE new == M!Failed
  <2>4. new \in Jobs /\ new.at = "error" /\ new.tasks = <<>> /\ new.faults + 1 \in Nat
    BY <2>3
  <2>5. job' = new \/ job' = [new EXCEPT !.faults = @ + 1]
    OBVIOUS
  <2> HIDE DEF new
  <2>6. CASE job' = [new EXCEPT !.faults = @ + 1]
    BY <2>4, <2>6 DEF Jobs, Broken
  <2> QED
    BY <2>4, <2>5, <2>6 DEF Broken
<1> QED
  BY <1>1, <1>2

(* In what order the machines are set up, whatever the task does.          *)
LEMMA OrderStays ==
    ASSUME MachineTypes, M!AtTask, jobs.cut = 0, M!InOrder, SetFirst, Changes
    PROVE  \A m \in Hosts :
             /\ machine'[m].software # {} => machine'[m].set = M!Range(M!Settings)
             /\ machine'[m].kube # M!Out => machine'[m].software = M!Range(M!Software)
<1> SUFFICES ASSUME NEW m \in Hosts
             PROVE  /\ machine'[m].software # {} => machine'[m].set = M!Range(M!Settings)
                    /\ machine'[m].kube # M!Out => machine'[m].software = M!Range(M!Software)
  OBVIOUS
<1>1. /\ machine[m] \in MachineStates /\ machine'[m] \in MachineStates
      /\ machine[m].software # {} => machine[m].set = M!Range(M!Settings)
      /\ machine[m].kube # M!Out => machine[m].software = M!Range(M!Software)
  BY DEF MachineTypes, M!InOrder, Changes
<1>2. CASE m # M!Task.on
  BY <1>1, <1>2 DEF Changes
<1>3. CASE m = M!Task.on
  <2>1. M!Task.do = "kubernetes-component.sh" => machine[m].set = M!Range(M!Settings)
    BY <1>3, TaskIs DEF SetFirst, Earlier
  <2>2. machine[m].set \subseteq machine'[m].set /\ machine'[m].set \subseteq M!Range(M!Settings)
    BY <1>1 DEF Changes, MachineStates
  <2>3. machine'[m].software = machine[m].software \/ M!Task.do = "kubernetes-component.sh"
    BY DEF Changes
  <2>4. machine'[m].kube \in {M!Out, machine[m].kube} \/ "kubeadm" \in machine[m].software
    BY DEF Changes
  <2>5. machine[m].software \subseteq machine'[m].software /\ machine'[m].software \in Installed
    BY <1>1 DEF Changes, MachineStates
  <2>6. machine'[m].software # {} => machine'[m].set = M!Range(M!Settings)
    BY <1>1, <2>1, <2>2, <2>3
  <2>7. machine'[m].kube # M!Out => "kubeadm" \in machine[m].software
    BY <1>1, <2>4, SoftwareIs
  <2>8. "kubeadm" \in machine'[m].software => machine'[m].software = M!Range(M!Software)
    BY <2>5, SoftwareIs DEF Installed
  <2> QED
    BY <2>5, <2>6, <2>7, <2>8
<1> QED
  BY <1>2, <1>3

LEMMA SetFirstPopped ==
    ASSUME MachineTypes, M!AtTask, SetFirst, Popped, Changes, Effective
    PROVE  SetFirst'
<1> SUFFICES ASSUME NEW i \in DOMAIN job.tasks', job'.tasks[i].do = "kubernetes-component.sh"
             PROVE  \/ \E j \in 1 .. i - 1 : job'.tasks[j].on = job'.tasks[i].on /\ job'.tasks[j].do = "nodeinit.sh"
                    \/ machine'[job'.tasks[i].on].set = M!Range(M!Settings)
  BY DEF SetFirst, Earlier
<1>1. i + 1 \in DOMAIN job.tasks /\ job'.tasks[i] = job.tasks[i + 1] /\ i \in Nat /\ i >= 1 /\ job.tasks \in Seq(Tasks)
  BY DEF Popped, Jobs, MachineTypes
<1>2. job.tasks[i + 1] \in Tasks
  BY <1>1
<1>3. CASE machine[job.tasks[i + 1].on].set = M!Range(M!Settings)
  <2>1. PICK m \in Hosts : m = job.tasks[i + 1].on
    BY <1>2 DEF Tasks
  <2>2. machine[m].set \subseteq machine'[m].set /\ machine'[m] \in MachineStates
    BY DEF Changes
  <2>3. machine'[m].set \subseteq M!Range(M!Settings)
    BY <2>2 DEF MachineStates
  <2>4. machine'[m].set = M!Range(M!Settings)
    BY <1>3, <2>1, <2>2, <2>3
  <2> QED
    BY <1>1, <2>1, <2>4
<1>4. CASE Earlier(i + 1)
  <2>1. PICK j \in 1 .. i : job.tasks[j].on = job.tasks[i + 1].on /\ job.tasks[j].do = "nodeinit.sh"
    BY <1>1, <1>4 DEF Earlier
  <2>2. CASE j = 1
    <3>1. M!Task.do = "nodeinit.sh" /\ M!Task.on = job.tasks[i + 1].on
      BY <2>1, <2>2, TaskIs
    <3> QED
      BY <1>1, <3>1 DEF Effective
  <2>3. CASE j # 1
    <3>1. j - 1 \in 1 .. i - 1 /\ j \in DOMAIN job.tasks
      BY <1>1, <2>3
    <3>2. job'.tasks[j - 1] = job.tasks[j]
      BY <2>3, <3>1 DEF Popped
    <3> QED
      BY <1>1, <2>1, <3>1, <3>2
  <2> QED
    BY <2>2, <2>3
<1> QED
  BY <1>1, <1>3, <1>4 DEF SetFirst

(* Who is still awaited when a task was done.                              *)
LEMMA AwaitsPopped ==
    ASSUME MachineTypes, M!AtTask, Popped, NEW m, NEW whats, Awaits(m, whats)
    PROVE  Awaits(m, whats)' \/ (M!Task.on = m /\ M!Task.do \in whats)
<1>1. CASE m \in job.rest
  BY <1>1 DEF Awaits, Popped
<1>2. CASE \E i \in DOMAIN job.tasks : job.tasks[i].on = m /\ job.tasks[i].do \in whats
  BY <1>2, TaskIs DEF Awaits, Popped
<1> QED
  BY <1>1, <1>2 DEF Awaits

LEMMA InstallPopped ==
    ASSUME MachinesAssumption, MachineTypes, M!AtTask, InstallInv, Popped, Changes, Effective
    PROVE  InstallInv'
<1> SUFFICES ASSUME job.kind = "install"
             PROVE  InstallInv'
  BY DEF InstallInv, Popped
<1>1. job.at # "error"
  BY DEF M!AtTask
<1>2. /\ \A m \in Hosts : InCluster(m) \/ Awaits(m, {"kubernetes-init.sh", "kubernetes-join.sh"})
      /\ \A i \in DOMAIN job.tasks :
             /\ job.tasks[i].do # "kubernetes-reset.sh"
             /\ job.tasks[i].do = "kubernetes-init.sh" => job.tasks[i].on = Chief /\ job.rest = Hosts \ {Chief}
             /\ job.tasks[i].do = "kubernetes-join.sh" => job.tasks[i].on # Chief
  BY <1>1 DEF InstallInv
<1>3. \A i \in DOMAIN job.tasks' :
             /\ job'.tasks[i].do # "kubernetes-reset.sh"
             /\ job'.tasks[i].do = "kubernetes-init.sh" => job'.tasks[i].on = Chief /\ job'.rest = Hosts \ {Chief}
             /\ job'.tasks[i].do = "kubernetes-join.sh" => job'.tasks[i].on # Chief
  BY <1>2 DEF Popped
<1>4. Chief \in Hosts /\ M!Task.on \in Hosts /\ M!Task.do # "kubernetes-reset.sh"
  BY <1>2, TaskIs DEF MachinesAssumption, Tasks
<1>5. M!Task.do = "kubernetes-init.sh" => M!Task.on = Chief /\ job.rest = Hosts \ {Chief}
  BY <1>2, TaskIs
<1>6. M!Task.do = "kubernetes-join.sh" => M!Task.on # Chief
  BY <1>2, TaskIs
<1>7. ASSUME NEW m \in Hosts
      PROVE  InCluster(m)' \/ Awaits(m, {"kubernetes-init.sh", "kubernetes-join.sh"})'
  <2>1. CASE M!Task.do = "kubernetes-init.sh"
    <3>1. CASE m = Chief
      BY <1>5, <2>1, <3>1 DEF InCluster, Effective
    <3>2. CASE m # Chief
      BY <1>5, <2>1, <3>2 DEF Awaits, Popped
    <3> QED
      BY <3>1, <3>2
  <2>2. CASE M!Task.do = "kubernetes-join.sh"
    <3>1. machine'[Chief] = machine[Chief]
      BY <1>4, <1>6, <2>2 DEF Changes
    <3>2. CASE m = M!Task.on
      BY <2>2, <3>1, <3>2 DEF InCluster, Effective
    <3>3. CASE m # M!Task.on
      <4>1. InCluster(m) => InCluster(m)'
        BY <3>1, <3>3 DEF InCluster, Changes
      <4> QED
        BY <1>2, <3>3, <4>1, AwaitsPopped
    <3> QED
      BY <3>2, <3>3
  <2>3. CASE M!Task.do \notin {"kubernetes-init.sh", "kubernetes-join.sh"}
    <3>1. machine'[m].kube = machine[m].kube /\ machine'[Chief].kube = machine[Chief].kube
      BY <1>4, <2>3 DEF Changes
    <3>2. InCluster(m) => InCluster(m)'
      BY <3>1 DEF InCluster
    <3> QED
      BY <1>2, <2>3, <3>2, AwaitsPopped
  <2> QED
    BY <2>1, <2>2, <2>3
<1> QED
  BY <1>1, <1>3, <1>7 DEF InstallInv, Popped

LEMMA UninstallPopped ==
    ASSUME MachineTypes, M!AtTask, UninstallInv, Popped, Changes, Effective
    PROVE  UninstallInv'
<1> SUFFICES ASSUME job.kind = "uninstall"
             PROVE  UninstallInv'
  BY DEF UninstallInv, Popped
<1>1. job.at # "error"
  BY DEF M!AtTask
<1>2. /\ \A m \in Hosts : machine[m].kube = M!Out \/ Awaits(m, {"kubernetes-reset.sh"})
      /\ \A i \in DOMAIN job.tasks : job.tasks[i].do = "kubernetes-reset.sh"
  BY <1>1 DEF UninstallInv
<1>3. \A i \in DOMAIN job.tasks' : job'.tasks[i].do = "kubernetes-reset.sh"
  BY <1>2 DEF Popped
<1>4. M!Task.do = "kubernetes-reset.sh"
  BY <1>2, TaskIs
<1>5. ASSUME NEW m \in Hosts
      PROVE  machine'[m].kube = M!Out \/ Awaits(m, {"kubernetes-reset.sh"})'
  <2>1. CASE m = M!Task.on
    BY <1>4, <2>1 DEF Effective
  <2>2. CASE m # M!Task.on
    <3>1. machine'[m] = machine[m]
      BY <2>2 DEF Changes
    <3> QED
      BY <1>2, <2>2, <3>1, AwaitsPopped
  <2> QED
    BY <2>1, <2>2
<1> QED
  BY <1>3, <1>5 DEF UninstallInv

-----------------------------------------------------------------------------
(* The invariant over the steps of a task.                                 *)
JobCounts == [job : Nat, fault : Nat, cut : Nat, cluster : Nat]

LEMMA PoppedKeeps ==
    ASSUME MachinesAssumption, MachineInv, M!AtTask, Popped, Changes, Effective,
           jobs' \in JobCounts, jobs'.cut = jobs.cut, jobs.cut = 0 => CopiesAreWhole'
    PROVE  MachineInv'
<1>1. MachineTypes
  BY DEF MachineInv
<1>2. MachineTypes'
  <2>1. (M!AtTask <=> job.tasks # <<>>)'
    BY DEF Popped, M!AtTask
  <2>2. job' \in Jobs /\ machine' \in [Hosts -> MachineStates]
    BY DEF Popped, Changes
  <2>3. \A m \in Hosts : machine'[m].kube.cluster <= jobs'.cluster
                          /\ (machine'[m].kube = M!Out <=> machine'[m].kube.role = "none")
    BY DEF Changes
  <2> QED
    BY <2>1, <2>2, <2>3 DEF MachineTypes, JobCounts, M!Out
<1>3. ASSUME jobs'.cut = 0
      PROVE  (CopiesAreWhole /\ M!InOrder /\ SetFirst /\ InstallInv /\ UninstallInv)'
  <2>1. CopiesAreWhole' /\ jobs.cut = 0 /\ M!InOrder /\ SetFirst /\ InstallInv /\ UninstallInv
    BY <1>3 DEF MachineInv
  <2>2. M!InOrder'
    <3>1. \A m \in Hosts :
             /\ machine'[m].software # {} => machine'[m].set = M!Range(M!Settings)
             /\ machine'[m].kube # M!Out => machine'[m].software = M!Range(M!Software)
      BY <1>1, <2>1, OrderStays
    <3> QED
      BY <3>1 DEF M!InOrder, M!Out
  <2>3. SetFirst'
    BY <1>1, <2>1, SetFirstPopped
  <2>4. InstallInv'
    BY <1>1, <2>1, InstallPopped
  <2>5. UninstallInv'
    BY <1>1, <2>1, UninstallPopped
  <2> QED
    BY <2>1, <2>2, <2>3, <2>4, <2>5
<1>4. job'.at # "done"
  BY DEF Popped
<1> QED
  BY <1>2, <1>3, <1>4 DEF MachineInv

LEMMA BrokenKeeps ==
    ASSUME MachineInv, M!AtTask, Broken, Changes,
           jobs' \in JobCounts, jobs'.cut >= jobs.cut, jobs'.cut = 0 => CopiesAreWhole'
    PROVE  MachineInv'
<1>1. MachineTypes /\ jobs.cut \in Nat
  BY DEF MachineInv, MachineTypes
<1>2. MachineTypes'
  <2>1. (M!AtTask <=> job.tasks # <<>>)'
    BY DEF Broken, M!AtTask
  <2>2. job' \in Jobs /\ machine' \in [Hosts -> MachineStates]
    BY DEF Broken, Changes
  <2>3. \A m \in Hosts : machine'[m].kube.cluster <= jobs'.cluster
                          /\ (machine'[m].kube = M!Out <=> machine'[m].kube.role = "none")
    BY DEF Changes
  <2> QED
    BY <2>1, <2>2, <2>3 DEF MachineTypes, JobCounts, M!Out
<1>3. ASSUME jobs'.cut = 0
      PROVE  (CopiesAreWhole /\ M!InOrder /\ SetFirst /\ InstallInv /\ UninstallInv)'
  <2>1. jobs.cut = 0
    BY <1>1, <1>3 DEF JobCounts
  <2>2. M!InOrder'
    <3>1. \A m \in Hosts :
             /\ machine'[m].software # {} => machine'[m].set = M!Range(M!Settings)
             /\ machine'[m].kube # M!Out => machine'[m].software = M!Range(M!Software)
      BY <1>1, <2>1, OrderStays DEF MachineInv
    <3> QED
      BY <3>1 DEF M!InOrder, M!Out
  <2>3. DOMAIN job'.tasks = {} /\ job'.at = "error"
    BY DEF Broken
  <2>4. SetFirst' /\ InstallInv' /\ UninstallInv'
    BY <2>3 DEF SetFirst, InstallInv, UninstallInv
  <2> QED
    BY <1>3, <2>2, <2>4
<1>4. job'.at # "done"
  BY DEF Broken
<1> QED
  BY <1>2, <1>3, <1>4 DEF MachineInv

(* The task is the same, and so is what is on the machines but for files.   *)
SameTask == job' = [job EXCEPT !.at = "copy"] \/ job' = [job EXCEPT !.at = "run"]
SameMachines ==
    /\ machine' \in [Hosts -> MachineStates]
    /\ \A m \in Hosts \ {M!Task.on} : machine'[m] = machine[m]
    /\ \A m \in Hosts : /\ machine'[m].set = machine[m].set /\ machine'[m].software = machine[m].software
                        /\ machine'[m].kube = machine[m].kube

LEMMA SameIs ==
    ASSUME MachineTypes, SameMachines, jobs' = jobs
    PROVE  Changes
<1>1. \A m \in Hosts : machine[m].kube.cluster <= jobs.cluster /\ (machine[m].kube = M!Out <=> machine[m].kube.role = "none")
  BY DEF MachineTypes
<1> QED
  BY <1>1 DEF Changes, SameMachines

LEMMA StayIs ==
    ASSUME MachineTypes, machine' = machine
    PROVE  SameMachines /\ FilesStay
BY DEF SameMachines, FilesStay, MachineTypes, M!There

LEMMA WithFileIs ==
    ASSUME MachineTypes, M!AtTask, NEW f \in Copied, M!WithFile(M!Task, f)
    PROVE  SameMachines /\ \A t \in Tasks :
             M!There(t)' = IF t.on = M!Task.on /\ t.do = M!Task.do THEN f ELSE M!There(t)
<1> DEFINE on == M!Task.on
           what == M!Task.do
<1>1. /\ on \in Hosts /\ machine \in [Hosts -> MachineStates] /\ machine[on] \in MachineStates
      /\ what \in M!Scripts \cup {"resource"}
  BY TaskIs DEF MachineTypes, Tasks
<1>2. "resource" \notin M!Scripts
  BY ScriptsAre
<1>3. CASE what = "resource"
  <2>1. machine' = [machine EXCEPT ![on] = [machine[on] EXCEPT !.resource = f]]
    BY <1>1, <1>3 DEF M!WithFile
  <2>2. [machine[on] EXCEPT !.resource = f] \in MachineStates
    BY <1>1 DEF MachineStates
  <2>3. SameMachines
    BY <1>1, <2>1, <2>2 DEF SameMachines, MachineStates
  <2>4. ASSUME NEW t \in Tasks
        PROVE  M!There(t)' = IF t.on = on /\ t.do = what THEN f ELSE M!There(t)
    <3>1. machine'[t.on].files = machine[t.on].files
      BY <1>1, <2>1 DEF Tasks, MachineStates
    <3>2. machine'[t.on].resource = IF t.on = on THEN f ELSE machine[t.on].resource
      BY <1>1, <2>1 DEF Tasks, MachineStates
    <3> QED
      BY <1>3, <3>1, <3>2 DEF M!There
  <2> QED
    BY <2>3, <2>4
<1>4. CASE what # "resource"
  <2> DEFINE new == [machine[on] EXCEPT !.files = [machine[on].files EXCEPT ![what] = f]]
  <2>1. machine' = [machine EXCEPT ![on] = new]
    BY <1>1, <1>4 DEF M!WithFile
  <2>2. /\ new \in MachineStates /\ new.resource = machine[on].resource
        /\ new.files = [machine[on].files EXCEPT ![what] = f]
        /\ new.set = machine[on].set /\ new.software = machine[on].software /\ new.kube = machine[on].kube
    BY <1>1, <1>4 DEF MachineStates
  <2> HIDE DEF new
  <2>3. SameMachines
    BY <1>1, <2>1, <2>2 DEF SameMachines
  <2>4. ASSUME NEW t \in Tasks
        PROVE  M!There(t)' = IF t.on = on /\ t.do = what THEN f ELSE M!There(t)
    <3>1. machine'[t.on].resource = machine[t.on].resource
      BY <1>1, <2>1, <2>2 DEF Tasks
    <3>2. t.do # "resource" => t.do \in M!Scripts
      BY DEF Tasks
    <3>3. CASE t.on = on /\ t.do = what
      <4>1. machine[on].files \in [M!Scripts -> Copied]
        BY <1>1 DEF MachineStates
      <4> QED
        BY <1>1, <1>4, <2>1, <2>2, <3>2, <3>3, <4>1 DEF M!There
    <3>4. CASE t.on = on /\ t.do # what
      <4>1. machine[on].files \in [M!Scripts -> Copied]
        BY <1>1 DEF MachineStates
      <4>2. machine'[on] = new
        BY <1>1, <2>1
      <4> QED
        BY <1>4, <2>2, <3>1, <3>2, <3>4, <4>1, <4>2 DEF M!There
    <3>5. CASE t.on # on
      <4>1. machine'[t.on] = machine[t.on]
        BY <1>1, <2>1, <3>5 DEF Tasks
      <4> QED
        BY <3>5, <4>1 DEF M!There
    <3> QED
      BY <3>3, <3>4, <3>5
  <2> QED
    BY <2>3, <2>4
<1> QED
  BY <1>3, <1>4

LEMMA SameTaskKeeps ==
    ASSUME MachinesAssumption, MachineInv, M!AtTask, SameTask, SameMachines, jobs' = jobs, jobs.cut = 0 => CopiesAreWhole'
    PROVE  MachineInv'
<1>1. MachineTypes
  BY DEF MachineInv
<1>2. job \in Jobs /\ job' \in Jobs /\ job'.at \in {"copy", "run"} /\ job.at \in {"look", "copy", "run"}
      /\ job'.tasks = job.tasks /\ job'.rest = job.rest /\ job'.kind = job.kind
  BY <1>1 DEF SameTask, Jobs, MachineTypes, M!AtTask
<1>3. MachineTypes'
  <2>1. (M!AtTask <=> job.tasks # <<>>)'
    BY <1>1, <1>2 DEF MachineTypes, M!AtTask
  <2>2. \A m \in Hosts : machine'[m].kube.cluster <= jobs'.cluster
                          /\ (machine'[m].kube = M!Out <=> machine'[m].kube.role = "none")
    BY <1>1 DEF SameMachines, MachineTypes
  <2> QED
    BY <1>1, <1>2, <2>1, <2>2 DEF MachineTypes, SameMachines, M!Out
<1>4. ASSUME jobs.cut = 0
      PROVE  (M!InOrder /\ SetFirst /\ InstallInv /\ UninstallInv)'
  <2>1. M!InOrder /\ SetFirst /\ InstallInv /\ UninstallInv
    BY <1>4 DEF MachineInv
  <2>2. M!InOrder'
    BY <1>4, <2>1 DEF M!InOrder, SameMachines, M!Out
  <2>3. SetFirst'
    <3>1. ASSUME NEW i \in DOMAIN job.tasks
          PROVE  machine'[job.tasks[i].on].set = machine[job.tasks[i].on].set
      <4>1. job.tasks[i] \in Tasks
        BY <1>2 DEF Jobs
      <4> QED
        BY <4>1 DEF Tasks, SameMachines
    <3> QED
      BY <1>2, <2>1, <3>1 DEF SetFirst, Earlier
  <2>4. InstallInv'
    <3>1. ASSUME NEW m \in Hosts PROVE InCluster(m)' <=> InCluster(m)
      BY DEF InCluster, SameMachines, M!Out, MachinesAssumption
    <3>2. ASSUME NEW m, NEW whats PROVE Awaits(m, whats)' <=> Awaits(m, whats)
      BY <1>2 DEF Awaits
    <3> QED
      BY <1>2, <2>1, <3>1, <3>2 DEF InstallInv
  <2>5. UninstallInv'
    <3>1. ASSUME NEW m, NEW whats PROVE Awaits(m, whats)' <=> Awaits(m, whats)
      BY <1>2 DEF Awaits
    <3> QED
      BY <1>2, <2>1, <3>1 DEF UninstallInv, SameMachines, M!Out
  <2> QED
    BY <2>2, <2>3, <2>4, <2>5
<1> QED
  BY <1>2, <1>3, <1>4 DEF MachineInv

(* While no copy was cut off, what a script does leaves no part.            *)
LEMMA RanWhole ==
    ASSUME CopiesAreWhole, job.at = "run", M!AtTask, MachineTypes, FilesStay, Popped \/ Broken
    PROVE  CopiesAreWhole'
<1>1. \A t \in Tasks : M!There(t) # "part"
  BY DEF CopiesAreWhole
<1>2. \A t \in Tasks : M!There(t)' # "part"
  BY <1>1 DEF FilesStay
<1>3. job'.at # "run"
  BY DEF Popped, Broken
<1> QED
  BY <1>2, <1>3 DEF CopiesAreWhole

LEMMA NothingDone ==
    ASSUME M!Task.do \in {"resource", "systeminfo.sh", "kubeadm-catoken.sh"}
    PROVE  Effective
BY DEF Effective

(* A job that a quiet script does not stop changes no machine's cluster.    *)
LEMMA AfterFailureIs ==
    ASSUME MachineTypes, M!AtTask, job' \in {M!AfterFailure, [M!AfterFailure EXCEPT !.faults = @ + 1]}
    PROVE  (Popped /\ Effective) \/ Broken
<1>1. CASE M!Quiet(M!Task)
  <2>1. job' \in {M!Next1, [M!Next1 EXCEPT !.faults = @ + 1]}
    BY <1>1 DEF M!AfterFailure
  <2>2. Popped
    BY <2>1, Next1Is
  <2> QED
    BY <1>1, <2>2, NothingDone DEF M!Quiet, M!CaToken
<1>2. CASE ~M!Quiet(M!Task)
  <2>1. job' \in {M!Failed, [M!Failed EXCEPT !.faults = @ + 1]}
    BY <1>2 DEF M!AfterFailure
  <2> QED
    BY <1>2, <2>1, FailedIs DEF M!Quiet
<1> QED
  BY <1>1, <1>2

LEMMA LookKeeps ==
    ASSUME MachinesAssumption, MachineInv, M!Look
    PROVE  MachineInv'
<1>1. MachineTypes /\ M!AtTask /\ jobs' = jobs /\ job.at = "look" /\ jobs \in JobCounts
  BY DEF MachineInv, MachineTypes, M!Look, M!AtTask, JobCounts
<1>2. M!Task \in Tasks
  BY <1>1, TaskIs
<1>3. M!There(M!Task) \in Copied
  BY <1>1, <1>2, TaskIs DEF M!There, MachineStates, Tasks
<1>4. ASSUME jobs.cut = 0 PROVE \A t \in Tasks : M!There(t) # "part"
  BY <1>1, <1>4 DEF MachineInv, CopiesAreWhole
<1>5. CASE M!There(M!Task) # "no" /\ M!Task.do = "resource"
  <2>1. machine' = machine /\ job' = M!Next1
    BY <1>5 DEF M!Look
  <2>2. Popped /\ Effective /\ Changes /\ FilesStay
    BY <1>1, <1>5, <2>1, Next1Is, NothingDone, StayIs, SameIs
  <2>3. jobs.cut = 0 => CopiesAreWhole'
    BY <1>4, <2>2 DEF CopiesAreWhole, FilesStay, Popped
  <2> QED
    BY <1>1, <2>2, <2>3, PoppedKeeps
<1>6. CASE M!There(M!Task) # "no" /\ M!Task.do # "resource"
  <2>1. machine' = machine /\ job' = [job EXCEPT !.at = "run"]
    BY <1>6 DEF M!Look
  <2>2. SameTask /\ SameMachines /\ FilesStay
    BY <1>1, <2>1, StayIs DEF SameTask
  <2>3. M!Task' = M!Task /\ job'.at = "run"
    BY <1>1, <2>1 DEF M!Task, MachineTypes, Jobs
  <2>4. jobs.cut = 0 => CopiesAreWhole'
    <3>1. M!There(M!Task)' = M!There(M!Task)
      BY <2>1, <2>3 DEF M!There
    <3> QED
      BY <1>2, <1>3, <1>4, <1>6, <2>2, <2>3, <3>1 DEF CopiesAreWhole, FilesStay, Copied
  <2> QED
    BY <1>1, <2>2, <2>4, SameTaskKeeps
<1>7. CASE M!There(M!Task) = "no" /\ M!Task.do # "resource" /\ M!Task.do \notin Shells
  <2>1. machine' = machine /\ job' = M!Failed
    BY <1>7 DEF M!Look
  <2>2. Changes /\ FilesStay
    BY <1>1, <2>1, StayIs, SameIs
  <2>3. (Popped /\ Effective) \/ Broken
    BY <1>1, <2>1, FailedIs, NothingDone
  <2>4. jobs.cut = 0 => CopiesAreWhole'
    BY <1>4, <2>2, <2>3 DEF CopiesAreWhole, FilesStay, Popped, Broken
  <2> QED
    BY <1>1, <2>2, <2>3, <2>4, PoppedKeeps, BrokenKeeps DEF JobCounts
<1>8. CASE M!There(M!Task) = "no" /\ ~(M!Task.do # "resource" /\ M!Task.do \notin Shells)
  <2>1. M!WithFile(M!Task, "part") /\ job' = [job EXCEPT !.at = "copy"]
    BY <1>8 DEF M!Look
  <2>2. SameTask /\ SameMachines /\ \A t \in Tasks :
             M!There(t)' = IF t.on = M!Task.on /\ t.do = M!Task.do THEN "part" ELSE M!There(t)
    BY <1>1, <2>1, WithFileIs DEF SameTask, Copied
  <2>3. M!Task' = M!Task /\ job'.at = "copy"
    BY <1>1, <2>1 DEF M!Task, MachineTypes, Jobs
  <2>4. jobs.cut = 0 => CopiesAreWhole'
    BY <1>4, <2>2, <2>3 DEF CopiesAreWhole
  <2> QED
    BY <1>1, <2>2, <2>4, SameTaskKeeps
<1> QED
  BY <1>5, <1>6, <1>7, <1>8

LEMMA CopyKeeps ==
    ASSUME MachinesAssumption, MachineInv, M!Copy
    PROVE  MachineInv'
<1>1. MachineTypes /\ M!AtTask /\ jobs' = jobs /\ job.at = "copy" /\ jobs \in JobCounts
  BY DEF MachineInv, MachineTypes, M!Copy, M!AtTask, JobCounts
<1>2. M!Task \in Tasks
  BY <1>1, TaskIs
<1>3. SameMachines /\ \A t \in Tasks :
             M!There(t)' = IF t.on = M!Task.on /\ t.do = M!Task.do THEN "whole" ELSE M!There(t)
  BY <1>1, WithFileIs DEF M!Copy, Copied
<1>4. ASSUME jobs.cut = 0 PROVE \A t \in Tasks : M!There(t)' # "part"
  BY <1>1, <1>3, <1>4 DEF MachineInv, CopiesAreWhole
<1>5. CASE M!Task.do = "resource"
  <2>1. job' = M!Next1
    BY <1>5 DEF M!Copy
  <2>2. Popped /\ Effective /\ Changes
    BY <1>1, <1>3, <1>5, <2>1, Next1Is, NothingDone, SameIs
  <2>3. jobs.cut = 0 => CopiesAreWhole'
    BY <1>4, <2>2 DEF CopiesAreWhole, Popped
  <2> QED
    BY <1>1, <2>2, <2>3, PoppedKeeps
<1>6. CASE M!Task.do # "resource"
  <2>1. job' = [job EXCEPT !.at = "run"]
    BY <1>6 DEF M!Copy
  <2>2. M!Task' = M!Task /\ job'.at = "run"
    BY <1>1, <2>1 DEF M!Task, MachineTypes, Jobs
  <2>3. M!There(M!Task)' = "whole"
    <3>1. M!There(M!Task)' = IF M!Task.do = "resource" THEN machine'[M!Task.on].resource ELSE machine'[M!Task.on].files[M!Task.do]
      BY <2>2 DEF M!There
    <3> DEFINE task == M!Task
    <3>2. (IF task.do = "resource" THEN machine'[task.on].resource ELSE machine'[task.on].files[task.do]) = "whole"
      BY <1>2, <1>3 DEF M!There
    <3> QED
      BY <3>1, <3>2
  <2>4. jobs.cut = 0 => CopiesAreWhole'
    BY <1>4, <1>6, <2>2, <2>3 DEF CopiesAreWhole
  <2> QED
    BY <1>1, <1>3, <2>1, <2>4, SameTaskKeeps DEF SameTask
<1> QED
  BY <1>5, <1>6

LEMMA CutCopyKeeps ==
    ASSUME MachinesAssumption, MachineInv, M!CutCopy
    PROVE  MachineInv'
<1>1. MachineTypes /\ M!AtTask /\ job.at = "copy" /\ jobs \in JobCounts
  BY DEF MachineInv, MachineTypes, M!CutCopy, M!AtTask, JobCounts
<1>2. machine' = machine /\ job' = [M!Failed EXCEPT !.faults = @ + 1] /\ jobs' = [jobs EXCEPT !.cut = jobs.cut + 1]
  BY DEF M!CutCopy
<1>3. jobs' \in JobCounts /\ jobs'.cut = jobs.cut + 1 /\ jobs'.cluster = jobs.cluster /\ jobs.cut \in Nat
  BY <1>1, <1>2 DEF JobCounts
<1>4. (M!Task.do = "systeminfo.sh" /\ Popped) \/ Broken
  BY <1>1, <1>2, FailedIs
<1>5. MachineTypes'
  <2>1. (M!AtTask <=> job.tasks # <<>>)' /\ job' \in Jobs
    BY <1>4 DEF M!AtTask, Popped, Broken
  <2> QED
    BY <1>1, <1>2, <1>3, <2>1 DEF MachineTypes, JobCounts, M!Out
<1>6. job'.at # "done" /\ jobs'.cut # 0
  BY <1>3, <1>4 DEF Popped, Broken
<1> QED
  BY <1>5, <1>6 DEF MachineInv

LEMMA RunWholeKeeps ==
    ASSUME MachinesAssumption, MachineInv, M!RunWhole
    PROVE  MachineInv'
<1>1. MachineTypes /\ M!AtTask /\ job.at = "run" /\ jobs \in JobCounts
  BY DEF MachineInv, MachineTypes, M!RunWhole, M!AtTask, JobCounts
<1>2. CASE M!Works(M!Task)
  <2>1. /\ M!Becomes(M!Task, M!Worked(M!Task)) /\ job' \in {M!Next1, [M!Next1 EXCEPT !.token = TRUE]}
        /\ jobs' = [jobs EXCEPT !.cluster = M!AnotherCluster(M!Task)]
    BY <1>2 DEF M!RunWhole
  <2>2. jobs' \in JobCounts /\ jobs'.cut = jobs.cut /\ jobs'.cluster = M!AnotherCluster(M!Task)
    BY <1>1, <2>1 DEF JobCounts, M!AnotherCluster
  <2>3. Effects /\ Effective
    BY <1>1, <1>2, <2>1, <2>2, WorkedIs
  <2>4. Popped
    BY <1>1, <2>1, Next1Is
  <2>5. jobs.cut = 0 => CopiesAreWhole'
    BY <1>1, <2>3, <2>4, RanWhole DEF MachineInv, Effects
  <2> QED
    BY <1>1, <2>2, <2>3, <2>4, <2>5, PoppedKeeps DEF Effects
<1>3. CASE ~M!Works(M!Task)
  <2>1. PICK r \in M!Left(M!Task) : M!Becomes(M!Task, r)
    BY <1>3 DEF M!RunWhole
  <2>2. job' = M!AfterFailure /\ jobs' = jobs
    BY <1>3 DEF M!RunWhole
  <2>3. jobs.cluster \in Nat /\ jobs'.cluster >= jobs.cluster
    BY <1>1, <2>2 DEF JobCounts
  <2>4. Effects
    BY <1>1, <2>1, <2>2, <2>3, LeftIs
  <2>5. (Popped /\ Effective) \/ Broken
    BY <1>1, <2>2, AfterFailureIs
  <2>6. jobs.cut = 0 => CopiesAreWhole'
    BY <1>1, <2>4, <2>5, RanWhole DEF MachineInv, Effects
  <2>7. jobs'.cut >= jobs.cut
    BY <1>1, <2>2 DEF JobCounts
  <2> QED
    BY <1>1, <2>2, <2>4, <2>5, <2>6, <2>7, PoppedKeeps, BrokenKeeps DEF Effects
<1> QED
  BY <1>2, <1>3

LEMMA RunFailsKeeps ==
    ASSUME MachinesAssumption, MachineInv, M!RunFails
    PROVE  MachineInv'
<1>1. MachineTypes /\ M!AtTask /\ job.at = "run" /\ jobs \in JobCounts
  BY DEF MachineInv, MachineTypes, M!RunFails, M!AtTask, JobCounts
<1>2. job' = [M!AfterFailure EXCEPT !.faults = @ + 1]
  BY DEF M!RunFails
<1>3. (Popped /\ Effective) \/ Broken
  BY <1>1, <1>2, AfterFailureIs
<1>4. Effects /\ jobs' \in JobCounts /\ jobs'.cut = jobs.cut
  <2>1. CASE (\E r \in M!Left(M!Task) : M!Becomes(M!Task, r)) /\ jobs' = [jobs EXCEPT !.fault = @ + 1]
    <3>1. PICK r \in M!Left(M!Task) : M!Becomes(M!Task, r)
      BY <2>1
    <3>2. jobs' \in JobCounts /\ jobs'.cut = jobs.cut /\ jobs'.cluster >= jobs.cluster /\ jobs'.cluster \in Nat
      BY <1>1, <2>1 DEF JobCounts
    <3> QED
      BY <1>1, <3>1, <3>2, LeftIs
  <2>2. CASE /\ M!Works(M!Task) /\ M!Becomes(M!Task, M!Worked(M!Task))
             /\ jobs' = [jobs EXCEPT !.fault = @ + 1, !.cluster = M!AnotherCluster(M!Task)]
    <3>1. PICK c \in Nat : c = M!AnotherCluster(M!Task)
      BY <1>1 DEF JobCounts, M!AnotherCluster
    <3>2. jobs' \in JobCounts /\ jobs'.cut = jobs.cut /\ jobs'.cluster = M!AnotherCluster(M!Task)
      <4>1. jobs.fault + 1 \in Nat
        BY <1>1 DEF JobCounts
      <4>2. jobs' = [jobs EXCEPT !.fault = jobs.fault + 1, !.cluster = c]
        BY <2>2, <3>1
      <4> QED
        BY <1>1, <3>1, <4>1, <4>2 DEF JobCounts
    <3> QED
      BY <1>1, <2>2, <3>2, WorkedIs
  <2> QED
    BY <2>1, <2>2 DEF M!RunFails
<1>5. jobs.cut = 0 => CopiesAreWhole'
  BY <1>1, <1>3, <1>4, RanWhole DEF MachineInv, Effects
<1>6. jobs'.cut >= jobs.cut
  BY <1>1, <1>4 DEF JobCounts
<1> QED
  BY <1>1, <1>3, <1>4, <1>5, <1>6, PoppedKeeps, BrokenKeeps DEF Effects

(* A part is run only when a copy was cut off.                             *)
LEMMA RunPartKeeps ==
    ASSUME MachinesAssumption, MachineInv, M!RunPart
    PROVE  MachineInv'
<1>1. MachineTypes /\ M!AtTask /\ job.at = "run" /\ jobs \in JobCounts /\ jobs' = jobs
  BY DEF MachineInv, MachineTypes, M!RunPart, M!AtTask, JobCounts
<1>2. jobs.cut # 0
  BY DEF MachineInv, M!RunPart, CopiesAreWhole
<1>3. Popped
  BY <1>1, Next1Is DEF M!RunPart
<1>4. Changes
  <2>1. PICK r \in M!Left(M!Task) : M!Becomes(M!Task, r)
    BY DEF M!RunPart
  <2>2. jobs'.cluster >= jobs.cluster /\ jobs'.cluster \in Nat
    BY <1>1 DEF JobCounts
  <2> QED
    BY <1>1, <2>1, <2>2, LeftIs DEF Effects
<1>5. MachineTypes'
  <2>1. (M!AtTask <=> job.tasks # <<>>)' /\ job' \in Jobs
    BY <1>3 DEF M!AtTask, Popped
  <2> QED
    BY <1>1, <1>4, <2>1 DEF MachineTypes, JobCounts, Changes, M!Out
<1>6. job'.at # "done" /\ jobs'.cut # 0
  BY <1>1, <1>2, <1>3 DEF Popped
<1> QED
  BY <1>5, <1>6 DEF MachineInv

-----------------------------------------------------------------------------
(* How jobs begin, and go on to the next machine.                           *)
LEMMA StartKeeps ==
    ASSUME MachinesAssumption, MachineInv, NEW kind \in JobKinds, NEW tasks \in Seq(Tasks), NEW rest \in SUBSET Hosts,
           M!Start(kind, tasks, rest),
           \A i \in DOMAIN tasks : tasks[i].do = "kubernetes-component.sh" =>
             \E j \in 1 .. i - 1 : tasks[j].on = tasks[i].on /\ tasks[j].do = "nodeinit.sh",
           kind = "install" =>
             /\ rest = Hosts \ {Chief} /\ \E i \in DOMAIN tasks : tasks[i].on = Chief /\ tasks[i].do = "kubernetes-init.sh"
             /\ \A i \in DOMAIN tasks : tasks[i].on = Chief /\ tasks[i].do \notin {"kubernetes-reset.sh", "kubernetes-join.sh"},
           kind = "uninstall" => rest = Hosts /\ tasks = <<>>
    PROVE  MachineInv'
<1>1. /\ MachineTypes /\ jobs \in JobCounts /\ jobs.job + 1 \in Nat /\ ~M!Busy
  BY DEF MachineInv, MachineTypes, M!Start, JobCounts
<1>2. machine' = machine /\ jobs' = [jobs EXCEPT !.job = jobs.job + 1]
  BY DEF M!Start
<1>3. jobs' \in JobCounts /\ jobs'.cut = jobs.cut /\ jobs'.cluster = jobs.cluster
  BY <1>1, <1>2 DEF JobCounts
<1>4. /\ job' \in Jobs /\ job'.kind = kind /\ job'.tasks = tasks /\ job'.rest = rest
      /\ job'.at = IF tasks = <<>> THEN "next" ELSE "look"
  <2> DEFINE at == IF tasks = <<>> THEN "next" ELSE "look"
  <2>1. job' = [M!NoJob EXCEPT !.kind = kind, !.at = at, !.tasks = tasks, !.rest = rest]
    BY DEF M!Start
  <2>2. at \in {"next", "look"}
    OBVIOUS
  <2> HIDE DEF at
  <2>3. job' = [kind |-> kind, at |-> at, tasks |-> tasks, rest |-> rest, faults |-> 0, token |-> FALSE]
    BY <2>1 DEF M!NoJob
  <2> QED
    BY <2>2, <2>3 DEF Jobs, at
<1>5. MachineTypes'
  <2>1. (M!AtTask <=> job.tasks # <<>>)'
    BY <1>4 DEF M!AtTask
  <2> QED
    BY <1>1, <1>2, <1>3, <1>4, <2>1 DEF MachineTypes, JobCounts, M!Out
<1>6. ASSUME jobs'.cut = 0
      PROVE  (CopiesAreWhole /\ M!InOrder /\ SetFirst /\ InstallInv /\ UninstallInv)'
  <2>1. CopiesAreWhole /\ M!InOrder
    BY <1>3, <1>6 DEF MachineInv
  <2>2. CopiesAreWhole'
    BY <1>1, <1>2, <1>4, <2>1 DEF CopiesAreWhole, M!There, M!Busy, M!AtTask
  <2>3. M!InOrder'
    BY <1>2, <1>3, <1>6, <2>1 DEF M!InOrder, M!Out
  <2>4. SetFirst'
    BY <1>4 DEF SetFirst, Earlier
  <2>5. InstallInv'
    BY <1>4 DEF InstallInv, Awaits
  <2>6. UninstallInv'
    BY <1>4 DEF UninstallInv, Awaits
  <2> QED
    BY <2>2, <2>3, <2>4, <2>5, <2>6
<1>7. job'.at # "done"
  BY <1>4
<1> QED
  BY <1>5, <1>6, <1>7 DEF MachineInv

(* The tasks of a machine: components come after settings, an install has    *)
(* a join of it and nothing of another cluster, and an uninstall a reset.   *)
LEMMA TasksOfIs ==
    ASSUME MachinesAssumption, NEW kind, NEW m \in Hosts
    PROVE  LET tasks == M!TasksOf(kind, m) IN
           /\ tasks \in Seq(Tasks) /\ tasks # <<>>
           /\ \A i \in DOMAIN tasks : tasks[i].do = "kubernetes-component.sh" =>
                \E j \in 1 .. i - 1 : tasks[j].on = tasks[i].on /\ tasks[j].do = "nodeinit.sh"
           /\ kind = "install" =>
                /\ \E i \in DOMAIN tasks : tasks[i].on = m /\ tasks[i].do = "kubernetes-join.sh"
                /\ \A i \in DOMAIN tasks : /\ tasks[i].do \notin {"kubernetes-reset.sh", "kubernetes-init.sh"}
                                           /\ tasks[i].do = "kubernetes-join.sh" => tasks[i].on = m
           /\ kind = "uninstall" =>
                /\ \E i \in DOMAIN tasks : tasks[i].on = m /\ tasks[i].do = "kubernetes-reset.sh"
                /\ \A i \in DOMAIN tasks : tasks[i].do = "kubernetes-reset.sh"
<1>1. CASE kind \in {"install", "join"}
  <2> DEFINE tasks == M!joinCluster(m)
  <2>1. M!TasksOf(kind, m) = tasks
    BY <1>1 DEF M!TasksOf
  <2>2. /\ tasks \in Seq(Tasks) /\ Len(tasks) = 6
        /\ tasks[1].do = "resource" /\ tasks[2].do = "nodeinit.sh" /\ tasks[3].do = "kubernetes-component.sh"
        /\ tasks[4].do = "kubeadm-catoken.sh" /\ tasks[5].do = "kubeadm-catoken.sh" /\ tasks[6].do = "kubernetes-join.sh"
        /\ tasks[2].on = m /\ tasks[3].on = m /\ tasks[6].on = m
    BY JoinIs
  <2> HIDE DEF tasks
  <2>3. DOMAIN tasks = {1, 2, 3, 4, 5, 6} /\ tasks # <<>>
    BY <2>2, SMTT(30)
  <2>4. \A i \in DOMAIN tasks : tasks[i].do = "kubernetes-component.sh" => i = 3
    BY <2>2, <2>3
  <2>5. 2 \in 1 .. 3 - 1
    OBVIOUS
  <2>6. \A i \in DOMAIN tasks : /\ tasks[i].do \notin {"kubernetes-reset.sh", "kubernetes-init.sh"}
                                /\ tasks[i].do = "kubernetes-join.sh" => tasks[i].on = m
    BY <2>2, <2>3
  <2>7. \A i \in DOMAIN tasks : tasks[i].do = "kubernetes-component.sh" =>
                \E j \in 1 .. i - 1 : tasks[j].on = tasks[i].on /\ tasks[j].do = "nodeinit.sh"
    BY <2>2, <2>4, <2>5
  <2>8. \E i \in DOMAIN tasks : tasks[i].on = m /\ tasks[i].do = "kubernetes-join.sh"
    BY <2>2, <2>3
  <2> QED
    BY <1>1, <2>1, <2>2, <2>3, <2>6, <2>7, <2>8
<1>2. CASE kind \notin {"install", "join"}
  <2> DEFINE what == IF kind \in {"uninstall", "reset"} THEN "kubernetes-reset.sh" ELSE "systeminfo.sh"
             task == M!Do(m, what)
             tasks == <<task>>
  <2>1. M!TasksOf(kind, m) = tasks
    BY <1>2 DEF M!TasksOf, M!ResetTask, M!FindTask
  <2>2. task \in Tasks /\ task.on = m /\ task.do = what
    BY DoIs, ScriptsAre
  <2>3. what # "kubernetes-component.sh" /\ (kind = "uninstall" => what = "kubernetes-reset.sh")
    OBVIOUS
  <2> HIDE DEF what, task
  <2>4. tasks \in Seq(Tasks) /\ DOMAIN tasks = {1} /\ tasks[1] = task /\ tasks # <<>>
    BY <2>2
  <2> HIDE DEF tasks
  <2> QED
    BY <1>2, <2>1, <2>2, <2>3, <2>4
<1> QED
  BY <1>1, <1>2

LEMMA NextMachineKeeps ==
    ASSUME MachinesAssumption, MachineInv, M!NextMachine
    PROVE  MachineInv'
<1>1. /\ MachineTypes /\ jobs \in JobCounts /\ job \in Jobs /\ job.at = "next" /\ machine' = machine /\ jobs' = jobs
      /\ job.tasks = <<>> /\ job.rest \in SUBSET Hosts
  BY DEF MachineInv, MachineTypes, M!NextMachine, JobCounts, M!AtTask, Jobs
<1>2. ASSUME jobs.cut = 0
      PROVE  M!InOrder' /\ \A t \in Tasks : M!There(t)' # "part"
  <2>1. CopiesAreWhole /\ M!InOrder
    BY <1>2 DEF MachineInv
  <2> QED
    BY <1>1, <2>1 DEF CopiesAreWhole, M!InOrder, M!There, M!Out
<1>3. CASE job.rest = {} /\ job' = [job EXCEPT !.at = "done"]
  <2>1. job' \in Jobs /\ job'.at = "done" /\ job'.tasks = <<>> /\ job'.rest = {} /\ job'.kind = job.kind
    BY <1>1, <1>3 DEF Jobs
  <2>2. MachineTypes'
    <3>1. (M!AtTask <=> job.tasks # <<>>)'
      BY <2>1 DEF M!AtTask
    <3> QED
      BY <1>1, <2>1, <3>1 DEF MachineTypes, M!Out
  <2>3. ASSUME jobs.cut = 0
        PROVE  (CopiesAreWhole /\ M!InOrder /\ SetFirst /\ InstallInv /\ UninstallInv)'
    <3>1. InstallInv /\ UninstallInv
      BY <2>3 DEF MachineInv
    <3>2. CopiesAreWhole' /\ M!InOrder'
      BY <1>2, <2>1, <2>3 DEF CopiesAreWhole
    <3>3. ASSUME NEW m, NEW whats PROVE ~Awaits(m, whats)
      BY <1>1, <1>3 DEF Awaits
    <3>4. SetFirst'
      BY <2>1 DEF SetFirst
    <3>5. InstallInv'
      BY <1>1, <2>1, <3>1, <3>3 DEF InstallInv, InCluster, M!Out
    <3>6. UninstallInv'
      BY <1>1, <2>1, <3>1, <3>3 DEF UninstallInv, M!Out
    <3> QED
      BY <3>2, <3>4, <3>5, <3>6
  <2> QED
    BY <1>1, <2>1, <2>2, <2>3 DEF MachineInv
<1>4. ASSUME NEW m \in job.rest,
             job' = [job EXCEPT !.at = "look", !.tasks = M!TasksOf(job.kind, m), !.rest = job.rest \ {m}, !.token = FALSE]
      PROVE  MachineInv'
  <2> DEFINE tasks == M!TasksOf(job.kind, m)
             kind == job.kind
  <2>1. /\ tasks \in Seq(Tasks) /\ tasks # <<>>
        /\ \A i \in DOMAIN tasks : tasks[i].do = "kubernetes-component.sh" =>
             \E j \in 1 .. i - 1 : tasks[j].on = tasks[i].on /\ tasks[j].do = "nodeinit.sh"
        /\ kind = "install" =>
             /\ \E i \in DOMAIN tasks : tasks[i].on = m /\ tasks[i].do = "kubernetes-join.sh"
             /\ \A i \in DOMAIN tasks : /\ tasks[i].do \notin {"kubernetes-reset.sh", "kubernetes-init.sh"}
                                        /\ tasks[i].do = "kubernetes-join.sh" => tasks[i].on = m
        /\ kind = "uninstall" =>
             /\ \E i \in DOMAIN tasks : tasks[i].on = m /\ tasks[i].do = "kubernetes-reset.sh"
             /\ \A i \in DOMAIN tasks : tasks[i].do = "kubernetes-reset.sh"
    BY <1>1, TasksOfIs
  <2>2. job' = [job EXCEPT !.at = "look", !.tasks = tasks, !.rest = job.rest \ {m}, !.token = FALSE]
    BY <1>4
  <2> HIDE DEF tasks
  <2>3. job' \in Jobs /\ job'.at = "look" /\ job'.tasks = tasks /\ job'.rest = job.rest \ {m} /\ job'.kind = kind
    BY <1>1, <2>1, <2>2 DEF Jobs
  <2>4. MachineTypes'
    <3>1. (M!AtTask <=> job.tasks # <<>>)'
      BY <2>1, <2>3 DEF M!AtTask
    <3> QED
      BY <1>1, <2>3, <3>1 DEF MachineTypes, M!Out
  <2>5. ASSUME jobs.cut = 0
        PROVE  (CopiesAreWhole /\ M!InOrder /\ SetFirst /\ InstallInv /\ UninstallInv)'
    <3>1. InstallInv /\ UninstallInv
      BY <2>5 DEF MachineInv
    <3>2. CopiesAreWhole' /\ M!InOrder'
      BY <1>2, <2>3, <2>5 DEF CopiesAreWhole
    <3>3. SetFirst'
      BY <2>1, <2>3 DEF SetFirst, Earlier
    <3>4. InstallInv'
      <4> SUFFICES ASSUME kind = "install" PROVE InstallInv'
        BY <2>3 DEF InstallInv
      <4>1. \A n \in Hosts : InCluster(n) \/ n \in job.rest
        BY <1>1, <3>1 DEF InstallInv, Awaits
      <4>2. m # Chief
        BY <1>1, <3>1 DEF InstallInv
      <4>3. \A n \in Hosts : InCluster(n)' <=> InCluster(n)
        BY <1>1 DEF InCluster, M!Out
      <4>4. \A n \in Hosts : InCluster(n)' \/ Awaits(n, {"kubernetes-init.sh", "kubernetes-join.sh"})'
        BY <2>1, <2>3, <4>1, <4>3 DEF Awaits
      <4> QED
        BY <1>1, <2>1, <2>3, <3>1, <4>2, <4>4 DEF InstallInv
    <3>5. UninstallInv'
      <4> SUFFICES ASSUME kind = "uninstall" PROVE UninstallInv'
        BY <2>3 DEF UninstallInv
      <4>1. \A n \in Hosts : machine[n].kube = M!Out \/ n \in job.rest
        BY <1>1, <3>1 DEF UninstallInv, Awaits
      <4>2. \A n \in Hosts : machine'[n].kube = M!Out \/ Awaits(n, {"kubernetes-reset.sh"})'
        BY <1>1, <2>1, <2>3, <4>1 DEF Awaits, M!Out
      <4> QED
        BY <2>1, <2>3, <4>2 DEF UninstallInv, M!Out
    <3> QED
      BY <3>2, <3>3, <3>4, <3>5
  <2> QED
    BY <1>1, <2>3, <2>4, <2>5 DEF MachineInv
<1> QED
  BY <1>3, <1>4 DEF M!NextMachine

LEMMA MachineInit ==
    ASSUME M!Init
    PROVE  MachineInv
<1>1. M!Blank \in MachineStates /\ M!Blank.kube = M!Out /\ M!Blank.software = {} /\ M!Blank.resource = "no"
      /\ M!Blank.files = [s \in M!Scripts |-> "no"]
  BY OutIs DEF M!Blank, MachineStates, Copied, Installed
<1>2. /\ machine = [m \in Hosts |-> M!Blank] /\ job = M!NoJob
      /\ jobs = [job |-> 0, fault |-> 0, cut |-> 0, cluster |-> 0]
  BY DEF M!Init
<1>3. job \in Jobs /\ job.at = "none" /\ job.tasks = <<>> /\ job.kind = "none"
  BY <1>2 DEF M!NoJob, Jobs, JobKinds
<1>4. MachineTypes
  BY <1>1, <1>2, <1>3, OutIs DEF MachineTypes, M!AtTask
<1>5. \A t \in Tasks : M!There(t) # "part"
  BY <1>1, <1>2 DEF Tasks, M!There
<1>6. CopiesAreWhole /\ SetFirst /\ InstallInv /\ UninstallInv
  BY <1>3, <1>5 DEF CopiesAreWhole, SetFirst, InstallInv, UninstallInv
<1>7. M!InOrder
  BY <1>1, <1>2 DEF M!InOrder
<1> QED
  BY <1>3, <1>4, <1>6, <1>7 DEF MachineInv

LEMMA MachineStep ==
    ASSUME MachinesAssumption, MachineInv, M!Next
    PROVE  MachineInv'
<1>1. CASE M!Install
  <2>1. M!Start("install", M!InstallTasks, Hosts \ {Chief})
    BY <1>1 DEF M!Install, M!Others
  <2> DEFINE tasks == M!InstallTasks
  <2>2. /\ tasks \in Seq(Tasks) /\ Len(tasks) = 4
        /\ tasks[1].do = "resource" /\ tasks[2].do = "nodeinit.sh"
        /\ tasks[3].do = "kubernetes-component.sh" /\ tasks[4].do = "kubernetes-init.sh"
        /\ tasks[1].on = Chief /\ tasks[2].on = Chief /\ tasks[3].on = Chief /\ tasks[4].on = Chief
    BY InstallIs
  <2>3. M!Start("install", tasks, Hosts \ {Chief})
    BY <2>1
  <2> HIDE DEF tasks
  <2>4. DOMAIN tasks = {1, 2, 3, 4} /\ 2 \in 1 .. 3 - 1
    BY <2>2
  <2>5. \A i \in DOMAIN tasks : tasks[i].do = "kubernetes-component.sh" =>
             \E j \in 1 .. i - 1 : tasks[j].on = tasks[i].on /\ tasks[j].do = "nodeinit.sh"
    <3>1. \A i \in DOMAIN tasks : tasks[i].do = "kubernetes-component.sh" => i = 3
      BY <2>2, <2>4
    <3> QED
      BY <2>2, <2>4, <3>1
  <2>6. /\ \E i \in DOMAIN tasks : tasks[i].on = Chief /\ tasks[i].do = "kubernetes-init.sh"
        /\ \A i \in DOMAIN tasks : tasks[i].on = Chief /\ tasks[i].do \notin {"kubernetes-reset.sh", "kubernetes-join.sh"}
    BY <2>2, <2>4
  <2>7. "install" \in JobKinds
    BY DEF JobKinds
  <2> QED
    BY <2>2, <2>3, <2>5, <2>6, <2>7, StartKeeps
<1>2. ASSUME NEW kind \in JobKinds \ {"install"}, NEW rest \in SUBSET Hosts, M!Start(kind, <<>>, rest),
             kind = "uninstall" => rest = Hosts
      PROVE  MachineInv'
  <2> DEFINE tasks == <<>>
  <2>1. tasks \in Seq(Tasks) /\ DOMAIN tasks = {}
    OBVIOUS
  <2>2. M!Start(kind, tasks, rest)
    BY <1>2
  <2>3. kind = "uninstall" => tasks = <<>>
    OBVIOUS
  <2> HIDE DEF tasks
  <2> QED
    BY <1>2, <2>1, <2>2, <2>3, StartKeeps
<1>3. CASE M!UnInstall
  BY <1>2, <1>3 DEF M!UnInstall, JobKinds
<1>4. CASE M!GetNodesSystemInfo
  BY <1>2, <1>4 DEF M!GetNodesSystemInfo, JobKinds
<1>5. ASSUME NEW m \in Hosts, M!HandlerNodes(m) PROVE MachineInv'
  <2>1. {m} \in SUBSET Hosts
    OBVIOUS
  <2>2. M!Start("join", <<>>, {m}) \/ M!Start("reset", <<>>, {m})
    BY <1>5 DEF M!HandlerNodes
  <2> QED
    BY <1>2, <2>1, <2>2 DEF JobKinds
<1> QED
  BY <1>1, <1>3, <1>4, <1>5, NextMachineKeeps, LookKeeps, CopyKeeps, CutCopyKeeps, RunWholeKeeps, RunFailsKeeps,
     RunPartKeeps DEF M!Next, M!Step

LEMMA MachinesStay ==
    ASSUME MachineInv, UNCHANGED <<s1, s2, s3>>
    PROVE  MachineInv'
BY DEF MachineInv, MachineTypes, CopiesAreWhole, M!InOrder, SetFirst, InstallInv, UninstallInv, M!There, M!Task,
       M!AtTask, Earlier, InCluster, Awaits, M!Out

(* What the runs check of the scripts.                                      *)
LEMMA MachinesAreRight ==
    ASSUME MachineInv
    PROVE  M!TypeOK /\ M!InOrder /\ M!OneCluster /\ M!UninstalledIsOut
<1>1. M!TypeOK
  BY DEF MachineInv, MachineTypes, M!TypeOK, Jobs
<1>2. M!InOrder
  BY DEF MachineInv, M!InOrder
<1>3. ASSUME NEW m, NEW whats, job.at = "done" PROVE ~Awaits(m, whats)
  BY <1>3 DEF MachineInv, Awaits
<1>4. M!OneCluster
  BY <1>3 DEF MachineInv, InstallInv, InCluster, M!OneCluster
<1>5. M!UninstalledIsOut
  BY <1>3 DEF MachineInv, UninstallInv, M!UninstalledIsOut
<1> QED
  BY <1>1, <1>2, <1>4, <1>5

-----------------------------------------------------------------------------
(* The handover of a cluster to the program on its master.                  *)
hscript == s1
hdisk == s2
hservice == s3
hdb == s4

HandoverInv ==
    /\ hscript \in {"check", "package", "configs", "file", "point", "shell", "binary", "unit", "start", "resource",
                    "none", "done", "failed"}
    /\ hdisk \in [package : Copied, config : {"no", "plain", "cluster"}, file : BOOLEAN, binary : BOOLEAN,
                  unit : BOOLEAN, resource : Copied]
    /\ hservice \in [at : {"off", "down", "config", "database", "cluster", "start", "serve"}, cluster : BOOLEAN]
    /\ hdb \in [there : BOOLEAN, saves : {0, 1}, starts : {0, 1}]
    /\ hscript \in {"unit", "start", "resource"} => hdisk.binary
    /\ hscript \in {"start", "resource"} => hdisk.unit
    /\ hservice.at # "off" => hdisk.binary /\ hdisk.unit

USE DEF hscript, hdisk, hservice, hdb

LEMMA StepsAre ==
    /\ H!Range(H!Steps) = {"check", "package", "configs", "file", "point", "shell", "binary", "unit", "start", "resource"}
    /\ H!After("check") = "package" /\ H!After("package") = "configs" /\ H!After("configs") = "file"
    /\ H!After("file") = "point" /\ H!After("point") = "shell" /\ H!After("shell") = "binary"
    /\ H!After("binary") = "unit" /\ H!After("unit") = "start" /\ H!After("start") = "resource"
<1> DEFINE steps == H!Steps
<1>1. /\ DOMAIN steps = 1 .. 10 /\ Len(steps) = 10
      /\ steps[1] = "check" /\ steps[2] = "package" /\ steps[3] = "configs" /\ steps[4] = "file" /\ steps[5] = "point"
      /\ steps[6] = "shell" /\ steps[7] = "binary" /\ steps[8] = "unit" /\ steps[9] = "start" /\ steps[10] = "resource"
  BY DEF H!Steps
<1>2. H!Last(steps) = "resource"
  BY <1>1 DEF H!Last
<1> HIDE DEF steps
<1>3. ASSUME NEW k \in 2 .. 10
      PROVE  (CHOOSE i \in DOMAIN steps : i > 1 /\ steps[i - 1] = steps[k - 1]) = k
  <2>1. \A i, j \in 1 .. 10 : steps[i] = steps[j] => i = j
    BY <1>1
  <2>2. \A i \in DOMAIN steps : i > 1 /\ steps[i - 1] = steps[k - 1] <=> i = k
    <3>1. SUFFICES ASSUME NEW i \in 2 .. 10, steps[i - 1] = steps[k - 1] PROVE i = k
      BY <1>1
    <3>2. i - 1 \in 1 .. 10 /\ k - 1 \in 1 .. 10
      OBVIOUS
    <3>3. i - 1 = k - 1
      BY <2>1, <3>1, <3>2
    <3> QED
      BY <3>3
  <2>3. k \in DOMAIN steps
    BY <1>1
  <2> QED
    BY <2>2, <2>3
<1>4. ASSUME NEW k \in 2 .. 10
      PROVE  H!After(steps[k - 1]) = steps[k]
  <2>1. steps[k - 1] # "resource"
    <3>1. k - 1 \in 1 .. 9
      OBVIOUS
    <3> QED
      BY <1>1, <3>1
  <2>2. H!After(steps[k - 1]) = steps[CHOOSE i \in DOMAIN steps : i > 1 /\ steps[i - 1] = steps[k - 1]]
    BY <1>2, <2>1 DEF H!After, steps
  <2> QED
    BY <1>3, <2>2
<1>5. /\ H!After(steps[2 - 1]) = steps[2] /\ H!After(steps[3 - 1]) = steps[3] /\ H!After(steps[4 - 1]) = steps[4]
      /\ H!After(steps[5 - 1]) = steps[5] /\ H!After(steps[6 - 1]) = steps[6] /\ H!After(steps[7 - 1]) = steps[7]
      /\ H!After(steps[8 - 1]) = steps[8] /\ H!After(steps[9 - 1]) = steps[9] /\ H!After(steps[10 - 1]) = steps[10]
  BY <1>4
<1>6. 2 - 1 = 1 /\ 3 - 1 = 2 /\ 4 - 1 = 3 /\ 5 - 1 = 4 /\ 6 - 1 = 5 /\ 7 - 1 = 6 /\ 8 - 1 = 7 /\ 9 - 1 = 8 /\ 10 - 1 = 9
  OBVIOUS
<1>7. H!Range(steps) = {"check", "package", "configs", "file", "point", "shell", "binary", "unit", "start", "resource"}
  <2>1. DOMAIN steps = {1, 2, 3, 4, 5, 6, 7, 8, 9, 10}
    BY <1>1
  <2> QED
    BY <1>1, <2>1 DEF H!Range
<1> QED
  BY <1>1, <1>5, <1>6, <1>7 DEF steps

LEMMA HandoverScript ==
    ASSUME HandoverInv, H!PreInstall \/ H!Script \/ H!ScriptFails
    PROVE  HandoverInv'
<1>1. CASE H!PreInstall
  BY <1>1 DEF HandoverInv, H!PreInstall
<1>2. CASE H!Check \/ H!ClusterFile \/ H!Point
  BY <1>2, StepsAre DEF HandoverInv, H!Check, H!ClusterFile, H!Point, H!Does
<1>3. CASE H!Package
  BY <1>3, StepsAre DEF HandoverInv, H!Package, H!Does, Copied
<1>4. CASE H!Configs \/ H!ShellAndComponent
  BY <1>4, StepsAre DEF HandoverInv, H!Configs, H!ShellAndComponent, H!Does
<1>5. CASE H!Binary \/ H!Unit
  BY <1>5, StepsAre DEF HandoverInv, H!Binary, H!Unit, H!Does
<1>6. CASE H!StartService
  BY <1>6, StepsAre DEF HandoverInv, H!StartService
<1>7. CASE H!Resource
  BY <1>7 DEF HandoverInv, H!Resource, Copied
<1>8. CASE H!ScriptEnds
  BY <1>8 DEF HandoverInv, H!ScriptEnds
<1>9. CASE H!ScriptFails
  BY <1>9 DEF HandoverInv, H!ScriptFails, Copied
<1> QED
  BY <1>1, <1>2, <1>3, <1>4, <1>5, <1>6, <1>7, <1>8, <1>9 DEF H!Script

LEMMA HandoverStep ==
    ASSUME HandoverInv, H!Next
    PROVE  HandoverInv'
<1>1. CASE H!LoadConfig
  BY <1>1 DEF HandoverInv, H!LoadConfig
<1>2. CASE H!newDatabase \/ H!Restart
  BY <1>2 DEF HandoverInv, H!newDatabase, H!Restart, H!Goes
<1>3. CASE H!NewClusterUseCase
  BY <1>3 DEF HandoverInv, H!NewClusterUseCase, H!Goes
<1>4. CASE H!StartCluster
  BY <1>4 DEF HandoverInv, H!StartCluster, H!Goes
<1>5. CASE H!Ends
  BY <1>5 DEF HandoverInv, H!Ends, H!Up
<1> QED
  BY <1>1, <1>2, <1>3, <1>4, <1>5, HandoverScript DEF H!Next, H!Program

LEMMA HandoverIsRight ==
    ASSUME HandoverInv
    PROVE  H!TypeOK /\ H!SavedOnce
BY StepsAre DEF HandoverInv, H!TypeOK, H!SavedOnce, H!Up, Copied

LEMMA HandoverInit ==
    ASSUME H!Init
    PROVE  HandoverInv
BY DEF H!Init, H!NoService, HandoverInv, Copied

LEMMA HandoverStays ==
    ASSUME HandoverInv, UNCHANGED <<s1, s2, s3, s4>>
    PROVE  HandoverInv'
BY DEF HandoverInv

-----------------------------------------------------------------------------
(* The variables of the downloads, by their names in Downloads.             *)
here == s1
place == s2
line == s3
ended == s4
tries == s5

(* The script lists and checks the downloads in this order; what it passed  *)
(* is unpacked and gone from where it was downloaded.                       *)
NotHere(f) == here[f].got = "no"
Whole(f) == place[f] = "whole"
DownloadTypes ==
    /\ here \in [D!Files -> [got : Copied, sum : BOOLEAN]] /\ place \in [D!Files -> Copied]
    /\ line \in 0 .. 12 /\ ended \in {"none", "done", "failed"} /\ (line # 0 => ended = "none")
    /\ tries \in [run : Nat, cut : Nat, failed : 0 .. 2]
PassedIsGone ==
    /\ line = 4 => here["containerd"].got = "whole"
    /\ line \in 5 .. 12 => Whole("containerd")
    /\ line \in 6 .. 12 => NotHere("containerd")
    /\ line \in 8 .. 12 => NotHere("runc")
    /\ line \in 11 .. 12 => NotHere("kubeadm")
    /\ line = 12 => NotHere("kubelet")
    /\ ended = "done" => Whole("containerd") /\ Whole("kubeadm") /\ \A f \in D!Files : NotHere(f)

(* Since the last cut or success, the first run that failed cleared away    *)
(* what was left of containerd, or failed after it, and the second one what *)
(* was left of kubeadm: the next one does not fail.                         *)
FailuresClear ==
    /\ tries.failed >= 1 =>
         /\ line \in {0, 1} => NotHere("containerd")
         /\ line \in {2, 3} => here["containerd"].got = "whole"
         /\ line = 3 => here["containerd"].sum
    /\ tries.failed = 2 =>
         /\ line \in 0 .. 8 => NotHere("kubeadm")
         /\ line \in 9 .. 10 => here["kubeadm"].got = "whole"
         /\ line \in 11 .. 12 => Whole("kubeadm")
DownloadInv == DownloadTypes /\ PassedIsGone /\ FailuresClear

USE DEF here, place, line, ended, tries

LEMMA ScriptIs ==
    /\ Len(D!Script) = 12
    /\ D!Script[1] = D!Do("get", "containerd") /\ D!Script[2] = D!Do("sum", "containerd")
    /\ D!Script[3] = D!Do("verify", "containerd") /\ D!Script[4] = D!Do("extract", "containerd")
    /\ D!Script[5] = D!Do("clean", "containerd") /\ D!Script[6] = D!Do("get", "runc")
    /\ D!Script[7] = D!Do("move", "runc") /\ D!Script[8] = D!Do("get", "kubeadm")
    /\ D!Script[9] = D!Do("get", "kubelet") /\ D!Script[10] = D!Do("move", "kubeadm")
    /\ D!Script[11] = D!Do("move", "kubelet") /\ D!Script[12] = D!Do("images", "kubeadm")
<1> DEFINE Item == [what : {"get", "sum", "verify", "extract", "clean", "move", "images"}, file : D!Files]
           a == D!download_containerd
           b == D!download_kubeadm_kubelet
           c == D!pull_images
<1>1. /\ a \in Seq(Item) /\ Len(a) = 7
      /\ a[1] = D!Do("get", "containerd") /\ a[2] = D!Do("sum", "containerd") /\ a[3] = D!Do("verify", "containerd")
      /\ a[4] = D!Do("extract", "containerd") /\ a[5] = D!Do("clean", "containerd") /\ a[6] = D!Do("get", "runc")
      /\ a[7] = D!Do("move", "runc")
  BY DEF D!download_containerd, D!Do, D!Files
<1>2. /\ b \in Seq(Item) /\ Len(b) = 4
      /\ b[1] = D!Do("get", "kubeadm") /\ b[2] = D!Do("get", "kubelet") /\ b[3] = D!Do("move", "kubeadm")
      /\ b[4] = D!Do("move", "kubelet")
  BY DEF D!download_kubeadm_kubelet, D!Do, D!Files
<1>3. c \in Seq(Item) /\ Len(c) = 1 /\ c[1] = D!Do("images", "kubeadm")
  BY DEF D!pull_images, D!Do, D!Files
<1>4. D!Script = a \o b \o c
  BY DEF D!Script
<1> HIDE DEF a, b, c, Item
<1>5. /\ Len(a \o b) = 11 /\ a \o b \in Seq(Item)
      /\ \A i \in 1 .. 11 : (a \o b)[i] = IF i <= 7 THEN a[i] ELSE b[i - 7]
  <2>1. /\ a \o b \in Seq(Item) /\ Len(a \o b) = Len(a) + Len(b)
        /\ \A i \in 1 .. Len(a) + Len(b) : (a \o b)[i] = IF i <= Len(a) THEN a[i] ELSE b[i - Len(a)]
    BY <1>1, <1>2, ConcatProperties
  <2>2. Len(a) + Len(b) = 11
    BY <1>1, <1>2
  <2> QED
    BY <1>1, <2>1, <2>2
<1> DEFINE ab == a \o b
<1>6. ab \in Seq(Item) /\ Len(ab) = 11 /\ \A i \in 1 .. 11 : ab[i] = IF i <= 7 THEN a[i] ELSE b[i - 7]
  BY <1>5
<1>7. D!Script = ab \o c
  BY <1>4
<1> HIDE DEF ab
<1>8. /\ Len(ab \o c) = 12
      /\ \A i \in 1 .. 12 : (ab \o c)[i] = IF i <= 11 THEN ab[i] ELSE c[i - 11]
  <2>1. /\ Len(ab \o c) = Len(ab) + Len(c)
        /\ \A i \in 1 .. Len(ab) + Len(c) : (ab \o c)[i] = IF i <= Len(ab) THEN ab[i] ELSE c[i - Len(ab)]
    BY <1>3, <1>6, ConcatProperties
  <2>2. Len(ab) + Len(c) = 12
    BY <1>3, <1>6
  <2> QED
    BY <1>6, <2>1, <2>2
<1>9. \A i \in 1 .. 7 : D!Script[i] = a[i]
  <2> TAKE i \in 1 .. 7
  <2> QED
    BY <1>6, <1>7, <1>8, SMTT(30)
<1>10. \A i \in 8 .. 11 : D!Script[i] = b[i - 7]
  <2> TAKE i \in 8 .. 11
  <2> QED
    BY <1>6, <1>7, <1>8, SMTT(30)
<1>11. D!Script[12] = c[1] /\ Len(D!Script) = 12
  BY <1>7, <1>8
<1>12. D!Script[8] = b[1] /\ D!Script[9] = b[2] /\ D!Script[10] = b[3] /\ D!Script[11] = b[4]
  BY <1>10
<1> QED
  BY <1>1, <1>2, <1>3, <1>9, <1>11, <1>12

(* Where the script is when it does what it does.                           *)
LEMMA LinesAre ==
    ASSUME DownloadTypes
    PROVE  /\ D!Is("get") => (line = 1 /\ D!File = "containerd") \/ (line = 6 /\ D!File = "runc")
                               \/ (line = 8 /\ D!File = "kubeadm") \/ (line = 9 /\ D!File = "kubelet")
           /\ D!Is("sum") => line = 2 /\ D!File = "containerd"
           /\ D!Is("verify") => line = 3 /\ D!File = "containerd"
           /\ D!Is("extract") => line = 4 /\ D!File = "containerd"
           /\ D!Is("clean") => line = 5 /\ D!File = "containerd"
           /\ D!Is("move") => (line = 7 /\ D!File = "runc") \/ (line = 10 /\ D!File = "kubeadm")
                                \/ (line = 11 /\ D!File = "kubelet")
           /\ D!Is("images") => line = 12 /\ D!File = "kubeadm"
<1>1. SUFFICES ASSUME line # 0
               PROVE  \/ line = 1 /\ D!Script[line] = D!Do("get", "containerd")
                      \/ line = 2 /\ D!Script[line] = D!Do("sum", "containerd")
                      \/ line = 3 /\ D!Script[line] = D!Do("verify", "containerd")
                      \/ line = 4 /\ D!Script[line] = D!Do("extract", "containerd")
                      \/ line = 5 /\ D!Script[line] = D!Do("clean", "containerd")
                      \/ line = 6 /\ D!Script[line] = D!Do("get", "runc")
                      \/ line = 7 /\ D!Script[line] = D!Do("move", "runc")
                      \/ line = 8 /\ D!Script[line] = D!Do("get", "kubeadm")
                      \/ line = 9 /\ D!Script[line] = D!Do("get", "kubelet")
                      \/ line = 10 /\ D!Script[line] = D!Do("move", "kubeadm")
                      \/ line = 11 /\ D!Script[line] = D!Do("move", "kubelet")
                      \/ line = 12 /\ D!Script[line] = D!Do("images", "kubeadm")
  BY DEF D!Is, D!File, D!Do
<1>2. line \in {1, 2, 3, 4, 5, 6, 7, 8, 9, 10, 11, 12}
  BY <1>1 DEF DownloadTypes
<1> QED
  BY <1>2, ScriptIs

(* A step that goes on, from a line that is not the last.                   *)
LEMMA GoesOn ==
    ASSUME DownloadTypes, D!Goes, line # 12
    PROVE  line' = line + 1 /\ ended' = ended /\ tries' = tries
BY ScriptIs DEF D!Goes, D!AtLast

LEMMA GetKeeps ==
    ASSUME DownloadInv, D!Get
    PROVE  DownloadInv'
<1>1. DownloadTypes /\ place' = place
  BY DEF DownloadInv, D!Get
<1>2. \/ (line = 1 /\ D!File = "containerd") \/ (line = 6 /\ D!File = "runc")
      \/ (line = 8 /\ D!File = "kubeadm") \/ (line = 9 /\ D!File = "kubelet")
  BY <1>1, LinesAre DEF D!Get
<1>3. D!File \in D!Files /\ line # 12 /\ line # 0
  BY <1>2 DEF D!Files
<1>4. ended' = ended /\ tries' = tries /\ line' = (IF line = 1 /\ ~NotHere("containerd") THEN 3 ELSE line + 1)
  <2>1. CASE here[D!File].got = "no"
    BY <1>1, <1>2, <1>3, <2>1, GoesOn DEF D!Get, NotHere
  <2>2. CASE here[D!File].got # "no"
    <3>1. /\ D!Script[line + 1].what = "sum" <=> line = 1
      BY <1>2, ScriptIs DEF D!Do
    <3> QED
      BY <1>2, <2>2, <3>1 DEF D!Get, NotHere
  <2> QED
    BY <2>1, <2>2
<1>5. here' \in [D!Files -> [got : Copied, sum : BOOLEAN]] /\ \A f \in D!Files \ {D!File} : here'[f] = here[f]
  BY <1>1, <1>3 DEF D!Get, DownloadTypes, Copied
<1>6. here'[D!File].got = IF NotHere(D!File) THEN "whole" ELSE here[D!File].got
  BY <1>1, <1>3 DEF D!Get, DownloadTypes, NotHere
<1>7. DownloadTypes'
  BY <1>1, <1>2, <1>4, <1>5 DEF DownloadTypes
<1>8. {"containerd", "runc", "kubeadm", "kubelet"} = D!Files
  BY DEF D!Files
<1>9. PassedIsGone'
  BY <1>1, <1>2, <1>4, <1>5, <1>8 DEF DownloadInv, DownloadTypes, PassedIsGone, NotHere, Whole
<1>10. FailuresClear'
  BY <1>1, <1>2, <1>4, <1>5, <1>6, <1>8 DEF DownloadInv, DownloadTypes, FailuresClear, NotHere, Whole
<1> QED
  BY <1>7, <1>9, <1>10 DEF DownloadInv

LEMMA GetSumKeeps ==
    ASSUME DownloadInv, D!GetSum
    PROVE  DownloadInv'
<1>1. DownloadTypes /\ place' = place /\ line = 2 /\ D!File = "containerd"
  BY LinesAre DEF DownloadInv, D!GetSum
<1>2. line' = 3 /\ ended' = ended /\ tries' = tries
  BY <1>1, GoesOn DEF D!GetSum
<1>3. /\ here' \in [D!Files -> [got : Copied, sum : BOOLEAN]]
      /\ \A f \in D!Files : here'[f].got = here[f].got
      /\ here'["containerd"].sum
  BY <1>1 DEF D!GetSum, DownloadTypes, D!Files
<1>4. DownloadTypes'
  BY <1>1, <1>2, <1>3 DEF DownloadTypes
<1>5. {"containerd", "runc", "kubeadm", "kubelet"} = D!Files
  BY DEF D!Files
<1>6. PassedIsGone'
  BY <1>1, <1>2, <1>3, <1>5 DEF DownloadInv, DownloadTypes, PassedIsGone, NotHere, Whole
<1>7. FailuresClear'
  BY <1>1, <1>2, <1>3, <1>5 DEF DownloadInv, DownloadTypes, FailuresClear, NotHere, Whole
<1> QED
  BY <1>4, <1>6, <1>7 DEF DownloadInv

LEMMA VerifyKeeps ==
    ASSUME DownloadInv, D!Verify
    PROVE  DownloadInv'
<1>1. DownloadTypes /\ place' = place /\ line = 3 /\ D!File = "containerd"
  BY LinesAre DEF DownloadInv, D!Verify
<1>2. {"containerd", "runc", "kubeadm", "kubelet"} = D!Files
  BY DEF D!Files
<1>3. CASE here["containerd"].got = "whole" /\ here["containerd"].sum
  <2>1. here' = here /\ line' = 4 /\ ended' = ended /\ tries' = tries
    BY <1>1, <1>3, GoesOn DEF D!Verify
  <2>2. DownloadTypes'
    BY <1>1, <2>1 DEF DownloadTypes
  <2>3. PassedIsGone'
    BY <1>1, <1>2, <1>3, <2>1 DEF DownloadInv, DownloadTypes, PassedIsGone, NotHere, Whole
  <2>4. FailuresClear'
    BY <1>1, <2>1 DEF DownloadInv, FailuresClear, NotHere, Whole
  <2> QED
    BY <2>2, <2>3, <2>4 DEF DownloadInv
<1>4. CASE ~(here["containerd"].got = "whole" /\ here["containerd"].sum)
  <2>1. /\ line' = 0 /\ ended' = "failed" /\ tries' = [tries EXCEPT !.failed = @ + 1]
        /\ here' = [here EXCEPT !["containerd"] = [got |-> "no", sum |-> FALSE]]
    BY <1>1, <1>4 DEF D!Verify, D!Ends
  <2>2. tries.failed = 0
    BY <1>1, <1>4 DEF DownloadInv, DownloadTypes, FailuresClear
  <2>3. tries' \in [run : Nat, cut : Nat, failed : 0 .. 2] /\ tries'.failed = 1
    BY <1>1, <2>1, <2>2 DEF DownloadTypes
  <2>4. here' \in [D!Files -> [got : Copied, sum : BOOLEAN]] /\ NotHere("containerd")'
    BY <1>1, <1>2, <2>1 DEF DownloadTypes, Copied, NotHere
  <2>5. DownloadTypes'
    BY <1>1, <2>1, <2>3, <2>4 DEF DownloadTypes
  <2>6. PassedIsGone'
    BY <2>1 DEF PassedIsGone
  <2>7. FailuresClear'
    BY <2>1, <2>3, <2>4 DEF FailuresClear
  <2> QED
    BY <2>5, <2>6, <2>7 DEF DownloadInv
<1> QED
  BY <1>3, <1>4

LEMMA ExtractKeeps ==
    ASSUME DownloadInv, D!Extract
    PROVE  DownloadInv'
<1>1. DownloadTypes /\ here' = here /\ line = 4 /\ D!File = "containerd"
  BY LinesAre DEF DownloadInv, D!Extract
<1>2. {"containerd", "runc", "kubeadm", "kubelet"} = D!Files
  BY DEF D!Files
<1>3. line' = 5 /\ ended' = ended /\ tries' = tries
  BY <1>1, GoesOn DEF D!Extract
<1>4. here["containerd"].got = "whole"
  BY <1>1 DEF DownloadInv, PassedIsGone
<1>5. /\ place' \in [D!Files -> Copied] /\ Whole("containerd")'
      /\ \A f \in D!Files \ {"containerd"} : place'[f] = place[f]
  BY <1>1, <1>2, <1>4 DEF D!Extract, DownloadTypes, Copied, Whole
<1>6. DownloadTypes'
  BY <1>1, <1>3, <1>5 DEF DownloadTypes
<1>7. PassedIsGone'
  BY <1>1, <1>3, <1>5 DEF DownloadInv, DownloadTypes, PassedIsGone, Whole
<1>8. FailuresClear'
  BY <1>1, <1>2, <1>3, <1>5 DEF DownloadInv, FailuresClear, NotHere, Whole
<1> QED
  BY <1>6, <1>7, <1>8 DEF DownloadInv

LEMMA CleanKeeps ==
    ASSUME DownloadInv, D!Clean
    PROVE  DownloadInv'
<1>1. DownloadTypes /\ place' = place /\ line = 5 /\ D!File = "containerd"
  BY LinesAre DEF DownloadInv, D!Clean
<1>2. {"containerd", "runc", "kubeadm", "kubelet"} = D!Files
  BY DEF D!Files
<1>3. line' = 6 /\ ended' = ended /\ tries' = tries
  BY <1>1, GoesOn DEF D!Clean
<1>4. /\ here' \in [D!Files -> [got : Copied, sum : BOOLEAN]] /\ NotHere("containerd")'
      /\ \A f \in D!Files \ {"containerd"} : here'[f] = here[f]
  BY <1>1, <1>2 DEF D!Clean, DownloadTypes, Copied, NotHere
<1>5. DownloadTypes'
  BY <1>1, <1>3, <1>4 DEF DownloadTypes
<1>6. PassedIsGone'
  BY <1>1, <1>3, <1>4 DEF DownloadInv, DownloadTypes, PassedIsGone, Whole
<1>7. FailuresClear'
  BY <1>1, <1>2, <1>3, <1>4 DEF DownloadInv, FailuresClear, NotHere, Whole
<1> QED
  BY <1>5, <1>6, <1>7 DEF DownloadInv

LEMMA MoveKeeps ==
    ASSUME DownloadInv, D!Move
    PROVE  DownloadInv'
<1>1. /\ DownloadTypes
      /\ \/ (line = 7 /\ D!File = "runc") \/ (line = 10 /\ D!File = "kubeadm")
         \/ (line = 11 /\ D!File = "kubelet")
  BY LinesAre DEF DownloadInv, D!Move
<1>2. {"containerd", "runc", "kubeadm", "kubelet"} = D!Files
  BY DEF D!Files
<1>3. line' = line + 1 /\ ended' = ended /\ tries' = tries
  BY <1>1, GoesOn DEF D!Move
<1>4. /\ here' \in [D!Files -> [got : Copied, sum : BOOLEAN]] /\ here'[D!File].got = "no"
      /\ \A f \in D!Files \ {D!File} : here'[f] = here[f]
  BY <1>1, <1>2 DEF D!Move, DownloadTypes, Copied, NotHere
<1>5. /\ place' \in [D!Files -> Copied] /\ place'[D!File] = here[D!File].got
      /\ \A f \in D!Files \ {D!File} : place'[f] = place[f]
  BY <1>1, <1>2 DEF D!Move, DownloadTypes
<1>6. DownloadTypes'
  BY <1>1, <1>3, <1>4, <1>5 DEF DownloadTypes
<1>7. PassedIsGone'
  BY <1>1, <1>2, <1>3, <1>4, <1>5 DEF DownloadInv, DownloadTypes, PassedIsGone, Whole, NotHere
<1>8. FailuresClear'
  BY <1>1, <1>2, <1>3, <1>4, <1>5 DEF DownloadInv, DownloadTypes, FailuresClear, NotHere, Whole
<1> QED
  BY <1>6, <1>7, <1>8 DEF DownloadInv

LEMMA ImagesKeeps ==
    ASSUME DownloadInv, D!Images
    PROVE  DownloadInv'
<1>1. DownloadTypes /\ here' = here /\ place' = place /\ line = 12
  BY LinesAre DEF DownloadInv, D!Images
<1>2. {"containerd", "runc", "kubeadm", "kubelet"} = D!Files
  BY DEF D!Files
<1>3. Whole("containerd") /\ \A f \in D!Files : NotHere(f)
  BY <1>1, <1>2 DEF DownloadInv, PassedIsGone
<1>4. CASE Whole("kubeadm")
  <2>1. line' = 0 /\ ended' = "done" /\ tries' = [tries EXCEPT !.failed = 0]
    BY <1>1, <1>4, ScriptIs DEF D!Images, D!Goes, D!AtLast, Whole
  <2>2. tries' \in [run : Nat, cut : Nat, failed : 0 .. 2] /\ tries'.failed = 0
    BY <1>1, <2>1 DEF DownloadTypes
  <2>3. DownloadTypes'
    BY <1>1, <2>1, <2>2 DEF DownloadTypes
  <2>4. PassedIsGone'
    BY <1>1, <1>3, <1>4, <2>1 DEF PassedIsGone, Whole, NotHere
  <2>5. FailuresClear'
    BY <2>2 DEF FailuresClear
  <2> QED
    BY <2>3, <2>4, <2>5 DEF DownloadInv
<1>5. CASE ~Whole("kubeadm")
  <2>1. line' = 0 /\ ended' = "failed" /\ tries' = [tries EXCEPT !.failed = @ + 1]
    BY <1>1, <1>5 DEF D!Images, D!Ends, Whole
  <2>2. tries.failed \in {0, 1}
    BY <1>1, <1>5 DEF DownloadInv, DownloadTypes, FailuresClear
  <2>3. tries' \in [run : Nat, cut : Nat, failed : 0 .. 2]
    BY <1>1, <2>1, <2>2 DEF DownloadTypes
  <2>4. DownloadTypes'
    BY <1>1, <2>1, <2>3 DEF DownloadTypes
  <2>5. PassedIsGone'
    BY <2>1 DEF PassedIsGone
  <2>6. FailuresClear'
    BY <1>1, <1>2, <1>3, <2>1 DEF FailuresClear, NotHere
  <2> QED
    BY <2>4, <2>5, <2>6 DEF DownloadInv
<1> QED
  BY <1>4, <1>5

(* Between two runs, and where one is cut off.                              *)
LEMMA StartDownloadKeeps ==
    ASSUME DownloadInv, D!Start
    PROVE  DownloadInv'
<1>1. /\ DownloadTypes /\ here' = here /\ place' = place /\ line = 0 /\ line' = 1 /\ ended' = "none"
      /\ tries' = [tries EXCEPT !.run = @ + 1]
  BY DEF DownloadInv, D!Start
<1>2. tries' \in [run : Nat, cut : Nat, failed : 0 .. 2] /\ tries'.failed = tries.failed
  BY <1>1 DEF DownloadTypes
<1>3. DownloadTypes'
  BY <1>1, <1>2 DEF DownloadTypes
<1>4. PassedIsGone'
  BY <1>1 DEF PassedIsGone
<1>5. FailuresClear'
  BY <1>1, <1>2 DEF DownloadInv, FailuresClear, NotHere
<1> QED
  BY <1>3, <1>4, <1>5 DEF DownloadInv

LEMMA CutOffKeeps ==
    ASSUME DownloadTypes, here' \in [D!Files -> [got : Copied, sum : BOOLEAN]], place' \in [D!Files -> Copied],
           line' = 0, ended' = "failed", tries' = [tries EXCEPT !.cut = @ + 1, !.failed = 0]
    PROVE  DownloadInv'
<1>1. tries' = [run |-> tries.run, cut |-> tries.cut + 1, failed |-> 0] /\ tries.run \in Nat /\ tries.cut \in Nat
  BY DEF DownloadTypes
<1> QED
  BY <1>1 DEF DownloadInv, DownloadTypes, PassedIsGone, FailuresClear

LEMMA DownloadStep ==
    ASSUME DownloadInv, D!Next
    PROVE  DownloadInv'
<1>1. DownloadTypes
  BY DEF DownloadInv
<1>2. ASSUME D!Is("get") \/ D!Is("sum") \/ D!Is("extract")
      PROVE  D!File \in D!Files
  BY <1>1, <1>2, LinesAre DEF D!Files
<1>3. CASE D!Cut
  <2>1. here' \in [D!Files -> [got : Copied, sum : BOOLEAN]] /\ place' \in [D!Files -> Copied]
    BY <1>1, <1>2, <1>3 DEF D!Cut, DownloadTypes, Copied
  <2> QED
    BY <1>1, <1>3, <2>1, CutOffKeeps DEF D!Cut
<1>4. CASE D!DownloadFails
  <2>1. here' \in [D!Files -> [got : Copied, sum : BOOLEAN]] /\ place' \in [D!Files -> Copied]
    BY <1>1, <1>2, <1>4 DEF D!DownloadFails, DownloadTypes, Copied
  <2> QED
    BY <1>1, <1>4, <2>1, CutOffKeeps DEF D!DownloadFails
<1> QED
  BY <1>3, <1>4, StartDownloadKeeps, GetKeeps, GetSumKeeps, VerifyKeeps, ExtractKeeps, CleanKeeps, MoveKeeps,
     ImagesKeeps DEF D!Next, D!Step

LEMMA DownloadInit ==
    ASSUME D!Init
    PROVE  DownloadInv
BY DEF D!Init, DownloadInv, DownloadTypes, PassedIsGone, FailuresClear, NotHere, Copied

LEMMA DownloadsStay ==
    ASSUME DownloadInv, UNCHANGED <<s1, s2, s3, s4, s5>>
    PROVE  DownloadInv'
BY DEF DownloadInv, DownloadTypes, PassedIsGone, FailuresClear, NotHere, Whole

(* What the runs check of the downloads.                                    *)
LEMMA DownloadsAreRight ==
    ASSUME DownloadInv
    PROVE  D!TypeOK /\ D!CheckedIsWhole /\ D!NothingIsLeft /\ D!TwoRunsClear
BY ScriptIs DEF DownloadInv, DownloadTypes, PassedIsGone, NotHere, Whole, Copied, D!TypeOK, D!CheckedIsWhole,
   D!NothingIsLeft, D!TwoRunsClear

-----------------------------------------------------------------------------
(* Numbers: what multiplication, division and remainder are needed for.     *)
LEMMA TimesKeepsOrder ==
    ASSUME NEW m \in Nat, NEW a \in Int, NEW b \in Int, a <= b
    PROVE  a * m <= b * m
<1>1. b - a \in Nat /\ (b - a) * m >= 0
  OBVIOUS
<1> QED
  BY <1>1

LEMMA DivMod ==
    ASSUME NEW m \in Nat \ {0}, NEW x \in Int
    PROVE  /\ x \div m \in Int /\ x % m \in 0 .. m - 1
           /\ x = (x \div m) * m + (x % m)
OBVIOUS

LEMMA OneQuotient ==
    ASSUME NEW m \in Nat \ {0}, NEW q \in Int, NEW r \in 0 .. m - 1, NEW x \in Int, x = q * m + r
    PROVE  x \div m = q /\ x % m = r
<1> DEFINE d == x \div m
           e == x % m
<1>1. d \in Int /\ e \in 0 .. m - 1 /\ x = d * m + e
  BY DivMod
<1> HIDE DEF d, e
<1>2. CASE d >= q + 1
  <2>1. (q + 1) * m <= d * m /\ (q + 1) * m = q * m + m
    BY <1>1, <1>2, TimesKeepsOrder
  <2> DEFINE u == q * m
             v == d * m
  <2>2. u \in Int /\ v \in Int /\ u + m <= v /\ u + r = v + e
    BY <1>1, <2>1
  <2> HIDE DEF u, v
  <2> QED
    BY <1>1, <2>2
<1>3. CASE d <= q - 1
  <2>1. (d + 1) * m <= q * m /\ (d + 1) * m = d * m + m
    BY <1>1, <1>3, TimesKeepsOrder
  <2> DEFINE u == q * m
             v == d * m
  <2>2. u \in Int /\ v \in Int /\ v + m <= u /\ u + r = v + e
    BY <1>1, <2>1
  <2> HIDE DEF u, v
  <2> QED
    BY <1>1, <2>2
<1>4. d = q
  BY <1>1, <1>2, <1>3
<1>5. e = r
  BY <1>1, <1>4
<1> QED
  BY <1>4, <1>5 DEF d, e

LEMMA OwnRemainder ==
    ASSUME NEW m \in Nat \ {0}, NEW r \in 0 .. m - 1
    PROVE  r % m = r
<1>1. r \in Int /\ 0 \in Int /\ r = 0 * m + r
  OBVIOUS
<1> QED
  BY <1>1, OneQuotient

(* A number before another, and a digit behind each.                        *)
Digits == 0 .. IpBase - 1
Behind(a, c) == a * IpBase + c

LEMMA DigitsInOrder ==
    ASSUME MachinesAssumption, NEW a \in Int, NEW b \in Int, NEW c \in Digits, NEW d \in Digits
    PROVE  /\ Behind(a, c) \in Int /\ Behind(b, d) \in Int
           /\ Behind(a, c) <= Behind(b, d) <=> a < b \/ (a = b /\ c <= d)
           /\ Behind(a, c) = Behind(b, d) <=> a = b /\ c = d
<1> DEFINE m == IpBase
           u == a * m
           v == b * m
<1>1. m \in Nat \ {0} /\ u \in Int /\ v \in Int
  BY DEF MachinesAssumption
<1>2. c \in 0 .. m - 1 /\ d \in 0 .. m - 1 /\ Behind(a, c) = u + c /\ Behind(b, d) = v + d
  BY DEF Behind, Digits
<1> HIDE DEF m
<1>3. a < b => u + m <= v
  <2> SUFFICES ASSUME a < b PROVE u + m <= v
    OBVIOUS
  <2>1. (a + 1) * m <= b * m /\ (a + 1) * m = a * m + m
    BY <1>1, TimesKeepsOrder
  <2> QED
    BY <2>1
<1>4. b < a => v + m <= u
  <2> SUFFICES ASSUME b < a PROVE v + m <= u
    OBVIOUS
  <2>1. (b + 1) * m <= a * m /\ (b + 1) * m = b * m + m
    BY <1>1, TimesKeepsOrder
  <2> QED
    BY <2>1
<1>5. a = b => u = v
  OBVIOUS
<1> HIDE DEF u, v
<1> QED
  BY <1>1, <1>2, <1>3, <1>4, <1>5

(* Addresses and their numbers.                                             *)
AddressWords == [1 .. 4 -> Digits]
Of2(w) == Behind(w[1], w[2])
Of3(w) == Behind(Of2(w), w[3])
Number(w) == Behind(Of3(w), w[4])

LEMMA Within ==
    ASSUME NEW m \in Nat \ {0}, NEW n \in Nat \ {0}, NEW a \in 0 .. n - 1, NEW c \in 0 .. m - 1
    PROVE  n * m \in Nat \ {0} /\ a * m + c \in 0 .. n * m - 1
<1>1. 0 * m <= a * m /\ (a + 1) * m <= n * m /\ (a + 1) * m = a * m + m /\ 0 * m = 0
  BY TimesKeepsOrder
<1> DEFINE u == a * m
           v == n * m
<1>2. u \in Int /\ v \in Int /\ 0 <= u /\ u + m <= v
  BY <1>1
<1> HIDE DEF u, v
<1>3. v \in Nat \ {0} /\ u + c \in 0 .. v - 1
  BY <1>2
<1> QED
  BY <1>3 DEF u, v

LEMMA SizeIs ==
    ASSUME MachinesAssumption
    PROVE  /\ IpBase \in Nat \ {0} /\ IpBase * IpBase \in Nat \ {0} /\ IpBase * IpBase * IpBase \in Nat \ {0}
           /\ N!Size \in Nat \ {0} /\ N!Size = IpBase * IpBase * IpBase * IpBase /\ N!Top = N!Size - 1 /\ N!Top \in Nat
           /\ N!Weight[1] = IpBase * IpBase * IpBase /\ N!Weight[2] = IpBase * IpBase
           /\ N!Weight[3] = IpBase /\ N!Weight[4] = 1
<1>1. IpBase \in Nat \ {0}
  BY DEF MachinesAssumption
<1>2. IpBase * IpBase \in Nat \ {0}
  BY <1>1, Within
<1>3. IpBase * IpBase * IpBase \in Nat \ {0}
  <2> DEFINE b2 == IpBase * IpBase
  <2>1. b2 \in Nat \ {0}
    BY <1>2
  <2> HIDE DEF b2
  <2>2. b2 * IpBase \in Nat \ {0}
    BY <1>1, <2>1, Within
  <2> QED
    BY <2>2 DEF b2
<1>4. IpBase * IpBase * IpBase * IpBase \in Nat \ {0}
  <2> DEFINE b3 == IpBase * IpBase * IpBase
  <2>1. b3 \in Nat \ {0}
    BY <1>3
  <2> HIDE DEF b3
  <2>2. b3 * IpBase \in Nat \ {0}
    BY <1>1, <2>1, Within
  <2> QED
    BY <2>2 DEF b3
<1>5. N!Size = IpBase * IpBase * IpBase * IpBase /\ N!Top = N!Size - 1
  BY DEF N!Size, N!Top
<1>6. N!Top \in Nat
  <2> DEFINE s == N!Size
  <2>1. s \in Nat \ {0} /\ N!Top = s - 1
    BY <1>4, <1>5
  <2> HIDE DEF s
  <2> QED
    BY <2>1
<1> QED
  BY <1>1, <1>2, <1>3, <1>4, <1>5, <1>6 DEF N!Weight

LEMMA NumberIs ==
    ASSUME MachinesAssumption, NEW w \in AddressWords
    PROVE  /\ w[1] \in Digits /\ w[2] \in Digits /\ w[3] \in Digits /\ w[4] \in Digits
           /\ Of2(w) \in 0 .. IpBase * IpBase - 1 /\ Of3(w) \in 0 .. IpBase * IpBase * IpBase - 1
           /\ Number(w) \in 0 .. N!Top
<1>1. w[1] \in Digits /\ w[2] \in Digits /\ w[3] \in Digits /\ w[4] \in Digits
  BY DEF AddressWords
<1>2. Of2(w) \in 0 .. IpBase * IpBase - 1
  BY <1>1, SizeIs, Within DEF Of2, Behind, Digits
<1> DEFINE b2 == IpBase * IpBase
           b3 == IpBase * IpBase * IpBase
<1>3. b2 \in Nat \ {0} /\ b3 \in Nat \ {0} /\ b3 = b2 * IpBase /\ N!Size = b3 * IpBase /\ Of2(w) \in 0 .. b2 - 1
  BY <1>2, SizeIs
<1> HIDE DEF b2, b3
<1>4. Of3(w) \in 0 .. b3 - 1
  <2> DEFINE p == Of2(w)
  <2>1. p \in 0 .. b2 - 1 /\ Of3(w) = p * IpBase + w[3]
    BY <1>3 DEF Of3, Behind
  <2> HIDE DEF p
  <2>2. p * IpBase + w[3] \in 0 .. b2 * IpBase - 1
    BY <1>1, <1>3, <2>1, SizeIs, Within DEF Digits
  <2> QED
    BY <1>3, <2>1, <2>2
<1>5. Number(w) \in 0 .. N!Top
  <2> DEFINE p == Of3(w)
  <2>1. p \in 0 .. b3 - 1 /\ Number(w) = p * IpBase + w[4]
    BY <1>4 DEF Number, Behind
  <2> HIDE DEF p
  <2>2. p * IpBase + w[4] \in 0 .. b3 * IpBase - 1
    BY <1>1, <1>3, <2>1, SizeIs, Within DEF Digits
  <2> QED
    BY <1>3, <2>1, <2>2, SizeIs
<1> QED
  BY <1>1, <1>2, <1>4, <1>5 DEF b3

(* The number of an address is what the code sums up.                       *)
LEMMA SumIsNumber ==
    ASSUME MachinesAssumption, NEW w \in AddressWords, Len(w) = 4
    PROVE  N!ip4ToUint32(w) = Number(w)
<1>1. w[1] \in Int /\ w[2] \in Int /\ w[3] \in Int /\ w[4] \in Int /\ IpBase \in Int
  <2>1. IpBase \in Int /\ \A d \in Digits : d \in Int
    BY SizeIs DEF Digits
  <2> QED
    BY <2>1, NumberIs
<1>2. w[1] * (IpBase * IpBase * IpBase) + w[2] * (IpBase * IpBase) + w[3] * IpBase + w[4] = Number(w)
  BY <1>1, SMTT(30) DEF Number, Of3, Of2, Behind
<1>3. N!ip4ToUint32(w) = Number(w) % N!Size
  BY <1>2, SizeIs DEF N!ip4ToUint32
<1>4. Number(w) \in 0 .. N!Size - 1 /\ N!Size \in Nat \ {0}
  BY NumberIs, SizeIs
<1> DEFINE x == Number(w)
           s == N!Size
<1>5. x \in 0 .. s - 1 /\ s \in Nat \ {0}
  BY <1>4
<1> HIDE DEF x, s
<1>6. x % s = x
  BY <1>5, OwnRemainder
<1> QED
  BY <1>3, <1>6 DEF x, s

LEMMA SumInRange ==
    ASSUME MachinesAssumption, NEW w \in Seq(Int)
    PROVE  N!ip4ToUint32(w) \in 0 .. N!Top
<1>1. CASE Len(w) # 4
  BY <1>1, SizeIs DEF N!ip4ToUint32
<1>2. CASE Len(w) = 4
  <2> DEFINE x == w[1] * N!Weight[1] + w[2] * N!Weight[2] + w[3] * N!Weight[3] + w[4]
  <2>1. w[1] \in Int /\ w[2] \in Int /\ w[3] \in Int /\ w[4] \in Int
    <3>1. 1 \in 1 .. Len(w) /\ 2 \in 1 .. Len(w) /\ 3 \in 1 .. Len(w) /\ 4 \in 1 .. Len(w)
      BY <1>2
    <3>2. \A k \in 1 .. Len(w) : w[k] \in Int
      BY ElementOfSeq
    <3> QED
      BY <3>1, <3>2
  <2>2. N!Weight[1] \in Int /\ N!Weight[2] \in Int /\ N!Weight[3] \in Int
    BY SizeIs
  <2>3. x \in Int
    <3>1. \A p, q \in Int : p * q \in Int /\ p + q \in Int
      OBVIOUS
    <3>2. w[1] * N!Weight[1] \in Int /\ w[2] * N!Weight[2] \in Int /\ w[3] * N!Weight[3] \in Int
      BY <2>1, <2>2, <3>1
    <3>3. w[1] * N!Weight[1] + w[2] * N!Weight[2] \in Int
      BY <3>1, <3>2
    <3>4. w[1] * N!Weight[1] + w[2] * N!Weight[2] + w[3] * N!Weight[3] \in Int
      BY <3>1, <3>2, <3>3
    <3> QED
      BY <2>1, <3>1, <3>4
  <2>4. N!ip4ToUint32(w) = x % N!Size
    BY <1>2 DEF N!ip4ToUint32
  <2> HIDE DEF x
  <2>5. x % N!Size \in 0 .. N!Size - 1
    BY <2>3, SizeIs, DivMod
  <2> QED
    BY <2>4, <2>5, SizeIs
<1> QED
  BY <1>1, <1>2

(* The digits are the remainders of the number, again and again.            *)
LEMMA TwoDivisions ==
    ASSUME NEW m \in Nat \ {0}, NEW k \in Nat \ {0}, NEW x \in Int
    PROVE  x \div (m * k) = (x \div m) \div k
<1>1. PICK d \in Int, e \in 0 .. m - 1 : d = x \div m /\ x = d * m + e
  BY DivMod
<1>2. PICK q \in Int, r \in 0 .. k - 1 : q = d \div k /\ d = q * k + r
  BY DivMod
<1>3. m * k \in Nat \ {0} /\ r * m + e \in 0 .. m * k - 1
  BY Within
<1>4. x = q * (m * k) + (r * m + e)
  <2>1. (q * k + r) * m = q * (m * k) + r * m
    BY <1>1, <1>2
  <2>2. x = (q * k + r) * m + e
    BY <1>1, <1>2
  <2> DEFINE u == q * (m * k)
             v == r * m
             z == (q * k + r) * m
  <2>3. z = u + v /\ x = z + e
    BY <2>1, <2>2
  <2>4. u \in Int /\ v \in Int /\ e \in Int
    BY <1>1, <1>2
  <2> HIDE DEF u, v, z
  <2>5. x = u + (v + e)
    BY <2>3, <2>4
  <2> QED
    BY <2>5 DEF u, v
<1> DEFINE n == m * k
           s == r * m + e
<1>5. n \in Nat \ {0} /\ s \in 0 .. n - 1 /\ x = q * n + s
  BY <1>3, <1>4
<1> HIDE DEF n, s
<1>6. x \div n = q
  BY <1>5, OneQuotient
<1> QED
  BY <1>1, <1>2, <1>6 DEF n

LEMMA DigitsAre ==
    ASSUME MachinesAssumption, NEW x \in Nat
    PROVE  LET a == x \div IpBase
               b == a \div IpBase
               c == b \div IpBase
           IN /\ N!uint32ToIp4(x) = [k \in 1 .. 4 |-> (x \div N!Weight[k]) % IpBase]
              /\ N!uint32ToIp4(x)[1] = c % IpBase /\ N!uint32ToIp4(x)[2] = b % IpBase
              /\ N!uint32ToIp4(x)[3] = a % IpBase /\ N!uint32ToIp4(x)[4] = x % IpBase
              /\ N!uint32ToIp4(x) \in AddressWords
<1> DEFINE a == x \div IpBase
           b == a \div IpBase
           c == b \div IpBase
           b2 == IpBase * IpBase
<1>1. IpBase \in Nat \ {0} /\ x \in Int /\ b2 \in Nat \ {0}
  BY SizeIs
<1>2. a \in Int
  BY <1>1, DivMod
<1>3. b \in Int
  BY <1>1, <1>2, DivMod
<1>4. c \in Int
  BY <1>1, <1>3, DivMod
<1>5. x \div b2 = b
  BY <1>1, TwoDivisions
<1>6. x \div (b2 * IpBase) = c
  <2> HIDE DEF b2
  <2>1. x \div (b2 * IpBase) = (x \div b2) \div IpBase
    BY <1>1, TwoDivisions
  <2> QED
    BY <1>5, <2>1
<1>7. x \div 1 = x
  BY <1>1
<1>8. N!uint32ToIp4(x) = [k \in 1 .. 4 |-> (x \div N!Weight[k]) % IpBase]
  BY DEF N!uint32ToIp4
<1>9. /\ N!Weight[1] = b2 * IpBase /\ N!Weight[2] = b2 /\ N!Weight[3] = IpBase /\ N!Weight[4] = 1
  BY SizeIs
<1> HIDE DEF b2
<1>10. /\ N!uint32ToIp4(x)[1] = c % IpBase /\ N!uint32ToIp4(x)[2] = b % IpBase
       /\ N!uint32ToIp4(x)[3] = a % IpBase /\ N!uint32ToIp4(x)[4] = x % IpBase
  <2>1. 1 \in 1 .. 4 /\ 2 \in 1 .. 4 /\ 3 \in 1 .. 4 /\ 4 \in 1 .. 4
    OBVIOUS
  <2> QED
    BY <1>5, <1>6, <1>7, <1>8, <1>9, <2>1
<1>11. c % IpBase \in Digits /\ b % IpBase \in Digits /\ a % IpBase \in Digits /\ x % IpBase \in Digits
  BY <1>1, <1>2, <1>3, <1>4, DivMod DEF Digits
<1> HIDE DEF a, b, c
<1>12. N!uint32ToIp4(x) \in AddressWords
  <2> DEFINE ip == N!uint32ToIp4(x)
  <2>1. ip = [k \in 1 .. 4 |-> ip[k]]
    BY <1>8
  <2>2. \A k \in 1 .. 4 : ip[k] \in Digits
    <3>1. \A k \in 1 .. 4 : k = 1 \/ k = 2 \/ k = 3 \/ k = 4
      OBVIOUS
    <3> QED
      BY <1>10, <1>11, <3>1
  <2> HIDE DEF ip
  <2>3. ip \in AddressWords
    BY <2>1, <2>2 DEF AddressWords
  <2> QED
    BY <2>3 DEF ip
<1> QED
  BY <1>8, <1>10, <1>12 DEF a, b, c

LEMMA QuotientWithin ==
    ASSUME NEW m \in Nat \ {0}, NEW n \in Nat \ {0}, NEW x \in 0 .. n * m - 1
    PROVE  x \div m \in 0 .. n - 1
<1> DEFINE d == x \div m
           e == x % m
<1>1. n * m \in Nat /\ x \in Int /\ d \in Int /\ e \in 0 .. m - 1 /\ x = d * m + e
  <2>1. n * m \in Nat
    BY Within
  <2>2. x \in Int
    BY <2>1
  <2> QED
    BY <2>1, <2>2, DivMod
<1> HIDE DEF d, e
<1>2. CASE d >= n
  <2>1. n * m <= d * m
    BY <1>1, <1>2, TimesKeepsOrder
  <2> DEFINE u == n * m
             v == d * m
  <2>2. u \in Int /\ v \in Int /\ x <= u - 1 /\ x = v + e /\ u <= v
    BY <1>1, <2>1
  <2> HIDE DEF u, v
  <2> QED
    BY <1>1, <2>2
<1>3. CASE d <= -1
  <2>1. (d + 1) * m <= 0 * m /\ (d + 1) * m = d * m + m /\ 0 * m = 0
    BY <1>1, <1>3, TimesKeepsOrder
  <2> DEFINE v == d * m
  <2>2. v \in Int /\ x >= 0 /\ x = v + e /\ v + m <= 0
    BY <1>1, <2>1
  <2> HIDE DEF v
  <2> QED
    BY <1>1, <2>2
<1>4. d \in 0 .. n - 1
  BY <1>1, <1>2, <1>3
<1> QED
  BY <1>4 DEF d

LEMMA NumberOfAddress ==
    ASSUME MachinesAssumption, NEW x \in 0 .. N!Top
    PROVE  N!uint32ToIp4(x) \in AddressWords /\ Number(N!uint32ToIp4(x)) = x
<1> DEFINE ip == N!uint32ToIp4(x)
           a == x \div IpBase
           b == a \div IpBase
           c == b \div IpBase
           b2 == IpBase * IpBase
           b3 == b2 * IpBase
<1>1. IpBase \in Nat \ {0} /\ b2 \in Nat \ {0} /\ b3 \in Nat \ {0} /\ N!Size = b3 * IpBase /\ N!Top = N!Size - 1
  BY SizeIs
<1>2. x \in Nat
  BY SizeIs
<1>3. ip \in AddressWords /\ ip[1] = c % IpBase /\ ip[2] = b % IpBase /\ ip[3] = a % IpBase /\ ip[4] = x % IpBase
  BY <1>2, DigitsAre
<1> HIDE DEF ip
<1>4. a \in 0 .. b3 - 1
  <2> HIDE DEF b3
  <2>1. x \in 0 .. b3 * IpBase - 1
    BY <1>1
  <2> QED
    BY <1>1, <2>1, QuotientWithin
<1>5. b \in 0 .. b2 - 1
  <2> HIDE DEF a, b2
  <2>1. a \in 0 .. b2 * IpBase - 1
    BY <1>4
  <2> QED
    BY <1>1, <2>1, QuotientWithin
<1>6. c \in 0 .. IpBase - 1
  <2> HIDE DEF b
  <2>1. b \in 0 .. IpBase * IpBase - 1
    BY <1>5
  <2> QED
    BY <1>1, <2>1, QuotientWithin
<1>7. x = a * IpBase + (x % IpBase)
  BY <1>1, <1>2, DivMod
<1>8. a = b * IpBase + (a % IpBase)
  <2> HIDE DEF a
  <2>1. a \in Int
    BY <1>1, <1>4
  <2> QED
    BY <1>1, <2>1, DivMod
<1>9. b = c * IpBase + (b % IpBase)
  <2> HIDE DEF b
  <2>1. b \in Int
    BY <1>1, <1>5
  <2> QED
    BY <1>1, <2>1, DivMod
<1>10. c % IpBase = c
  <2> HIDE DEF c
  <2> QED
    BY <1>1, <1>6, OwnRemainder
<1>11. Of2(ip) = b
  BY <1>3, <1>9, <1>10 DEF Of2, Behind
<1>12. Of3(ip) = a
  BY <1>3, <1>8, <1>11 DEF Of3, Behind
<1>13. Number(ip) = x
  BY <1>3, <1>7, <1>12 DEF Number, Behind
<1> QED
  BY <1>3, <1>13 DEF ip

LEMMA AddressOfNumber ==
    ASSUME MachinesAssumption, NEW w \in AddressWords
    PROVE  N!uint32ToIp4(Number(w)) = w
<1> DEFINE x == Number(w)
           a == x \div IpBase
           b == a \div IpBase
           c == b \div IpBase
           ip == N!uint32ToIp4(x)
<1>1. /\ IpBase \in Nat \ {0} /\ x \in Nat
      /\ w[1] \in 0 .. IpBase - 1 /\ w[2] \in 0 .. IpBase - 1 /\ w[3] \in 0 .. IpBase - 1 /\ w[4] \in 0 .. IpBase - 1
      /\ Of2(w) \in Int /\ Of3(w) \in Int
  <2>1. IpBase * IpBase \in Nat /\ IpBase * IpBase * IpBase \in Nat
    BY SizeIs
  <2>2. Of2(w) \in Int /\ Of3(w) \in Int
    <3> DEFINE b2 == IpBase * IpBase
               b3 == IpBase * IpBase * IpBase
    <3>1. b2 \in Nat /\ b3 \in Nat /\ Of2(w) \in 0 .. b2 - 1 /\ Of3(w) \in 0 .. b3 - 1
      BY <2>1, NumberIs
    <3> HIDE DEF b2, b3
    <3> QED
      BY <3>1
  <2> QED
    BY <2>2, NumberIs, SizeIs DEF Digits
<1>2. /\ ip = [k \in 1 .. 4 |-> (x \div N!Weight[k]) % IpBase]
      /\ ip[1] = c % IpBase /\ ip[2] = b % IpBase /\ ip[3] = a % IpBase /\ ip[4] = x % IpBase
  BY <1>1, DigitsAre
<1>3. a = Of3(w) /\ x % IpBase = w[4]
  <2> DEFINE p == Of3(w)
             r == w[4]
  <2>1. x = p * IpBase + r /\ x \in Int /\ p \in Int /\ r \in 0 .. IpBase - 1
    BY <1>1 DEF Number, Behind
  <2> HIDE DEF x, p, r
  <2>2. x \div IpBase = p /\ x % IpBase = r
    BY <1>1, <2>1, OneQuotient
  <2> QED
    BY <2>2 DEF p, r
<1>4. b = Of2(w) /\ a % IpBase = w[3]
  <2> DEFINE p == Of2(w)
             r == w[3]
  <2> HIDE DEF a
  <2>1. a = p * IpBase + r /\ a \in Int /\ p \in Int /\ r \in 0 .. IpBase - 1
    BY <1>1, <1>3 DEF Of3, Behind
  <2> HIDE DEF p, r
  <2>2. a \div IpBase = p /\ a % IpBase = r
    BY <1>1, <2>1, OneQuotient
  <2> QED
    BY <2>2 DEF p, r
<1>5. c = w[1] /\ b % IpBase = w[2]
  <2> DEFINE p == w[1]
             r == w[2]
  <2> HIDE DEF b
  <2>1. b = p * IpBase + r /\ b \in Int /\ p \in Int /\ r \in 0 .. IpBase - 1
    BY <1>1, <1>4 DEF Of2, Behind
  <2> HIDE DEF p, r
  <2>2. b \div IpBase = p /\ b % IpBase = r
    BY <1>1, <2>1, OneQuotient
  <2> QED
    BY <2>2 DEF p, r
<1>6. c % IpBase = w[1]
  <2> DEFINE r == w[1]
  <2> HIDE DEF c
  <2>1. c = r /\ r \in 0 .. IpBase - 1
    BY <1>1, <1>5
  <2> HIDE DEF r
  <2>2. r % IpBase = r
    BY <1>1, <2>1, OwnRemainder
  <2> QED
    BY <2>1, <2>2 DEF r
<1>7. ip[1] = w[1] /\ ip[2] = w[2] /\ ip[3] = w[3] /\ ip[4] = w[4]
  BY <1>2, <1>3, <1>4, <1>5, <1>6
<1>8. ip = [k \in 1 .. 4 |-> ip[k]]
  BY <1>2
<1> HIDE DEF ip
<1>9. w = [k \in 1 .. 4 |-> w[k]] /\ \A k \in 1 .. 4 : k = 1 \/ k = 2 \/ k = 3 \/ k = 4
  BY DEF AddressWords
<1>10. \A k \in 1 .. 4 : ip[k] = w[k]
  BY <1>7, <1>9
<1>11. ip = w
  BY <1>8, <1>9, <1>10
<1> QED
  BY <1>11 DEF ip

(* The order of addresses is that of their numbers.                         *)
LEMMA OrderIs ==
    ASSUME MachinesAssumption, NEW v \in AddressWords, NEW w \in AddressWords
    PROVE  /\ N!Before(v, w) <=> Number(v) <= Number(w)
           /\ Number(v) = Number(w) => v = w
<1>1. /\ IpBase \in Nat \ {0}
      /\ v[1] \in Digits /\ v[2] \in Digits /\ v[3] \in Digits /\ v[4] \in Digits
      /\ w[1] \in Digits /\ w[2] \in Digits /\ w[3] \in Digits /\ w[4] \in Digits
  BY NumberIs, SizeIs
<1>2. /\ v[1] \in Int /\ v[2] \in Int /\ v[3] \in Int /\ v[4] \in Int
      /\ w[1] \in Int /\ w[2] \in Int /\ w[3] \in Int /\ w[4] \in Int
  BY <1>1 DEF Digits
<1>3. /\ Of2(v) \in Int /\ Of2(w) \in Int
      /\ Of2(v) <= Of2(w) <=> v[1] < w[1] \/ (v[1] = w[1] /\ v[2] <= w[2])
      /\ Of2(v) = Of2(w) <=> v[1] = w[1] /\ v[2] = w[2]
  <2> DEFINE a == v[1]
             b == w[1]
             c == v[2]
             d == w[2]
  <2>1. a \in Int /\ b \in Int /\ c \in Digits /\ d \in Digits
    BY <1>1, <1>2
  <2>2. Of2(v) = Behind(a, c) /\ Of2(w) = Behind(b, d)
    BY DEF Of2
  <2> HIDE DEF a, b, c, d
  <2>3. /\ Behind(a, c) \in Int /\ Behind(b, d) \in Int
        /\ Behind(a, c) <= Behind(b, d) <=> a < b \/ (a = b /\ c <= d)
        /\ Behind(a, c) = Behind(b, d) <=> a = b /\ c = d
    BY <2>1, DigitsInOrder
  <2> QED
    BY <2>2, <2>3 DEF a, b, c, d
<1>4. /\ Of3(v) \in Int /\ Of3(w) \in Int
      /\ Of3(v) <= Of3(w) <=> Of2(v) < Of2(w) \/ (Of2(v) = Of2(w) /\ v[3] <= w[3])
      /\ Of3(v) = Of3(w) <=> Of2(v) = Of2(w) /\ v[3] = w[3]
  <2> DEFINE a == Of2(v)
             b == Of2(w)
             c == v[3]
             d == w[3]
  <2>1. a \in Int /\ b \in Int /\ c \in Digits /\ d \in Digits
    BY <1>1, <1>3
  <2>2. Of3(v) = Behind(a, c) /\ Of3(w) = Behind(b, d)
    BY DEF Of3
  <2> HIDE DEF a, b, c, d
  <2>3. /\ Behind(a, c) \in Int /\ Behind(b, d) \in Int
        /\ Behind(a, c) <= Behind(b, d) <=> a < b \/ (a = b /\ c <= d)
        /\ Behind(a, c) = Behind(b, d) <=> a = b /\ c = d
    BY <2>1, DigitsInOrder
  <2> QED
    BY <2>2, <2>3 DEF a, b, c, d
<1>5. /\ Number(v) <= Number(w) <=> Of3(v) < Of3(w) \/ (Of3(v) = Of3(w) /\ v[4] <= w[4])
      /\ Number(v) = Number(w) <=> Of3(v) = Of3(w) /\ v[4] = w[4]
  <2> DEFINE a == Of3(v)
             b == Of3(w)
             c == v[4]
             d == w[4]
  <2>1. a \in Int /\ b \in Int /\ c \in Digits /\ d \in Digits
    BY <1>1, <1>4
  <2>2. Number(v) = Behind(a, c) /\ Number(w) = Behind(b, d)
    BY DEF Number
  <2> HIDE DEF a, b, c, d
  <2>3. /\ Behind(a, c) \in Int /\ Behind(b, d) \in Int
        /\ Behind(a, c) <= Behind(b, d) <=> a < b \/ (a = b /\ c <= d)
        /\ Behind(a, c) = Behind(b, d) <=> a = b /\ c = d
    BY <2>1, DigitsInOrder
  <2> QED
    BY <2>2, <2>3 DEF a, b, c, d
<1>6. v = w <=> v[1] = w[1] /\ v[2] = w[2] /\ v[3] = w[3] /\ v[4] = w[4]
  <2>1. SUFFICES ASSUME v[1] = w[1], v[2] = w[2], v[3] = w[3], v[4] = w[4] PROVE v = w
    OBVIOUS
  <2>2. \A k \in 1 .. 4 : k = 1 \/ k = 2 \/ k = 3 \/ k = 4
    OBVIOUS
  <2>3. \A k \in 1 .. 4 : v[k] = w[k]
    BY <2>1, <2>2
  <2> QED
    BY <2>3 DEF AddressWords
<1>7. N!Before(v, w) <=> \/ v = w \/ v[1] < w[1] \/ (v[1] = w[1] /\ v[2] < w[2])
                         \/ (v[1] = w[1] /\ v[2] = w[2] /\ v[3] < w[3])
                         \/ (v[1] = w[1] /\ v[2] = w[2] /\ v[3] = w[3] /\ v[4] < w[4])
  <2> DEFINE S(k) == \A j \in 1 .. k - 1 : v[j] = w[j]
  <2>1. N!Before(v, w) <=> v = w \/ \E k \in 1 .. 4 : v[k] < w[k] /\ S(k)
    BY DEF N!Before
  <2>2. S(1)
    OBVIOUS
  <2>3. S(2) <=> v[1] = w[1]
    <3>1. \A j \in 1 .. 2 - 1 : j = 1
      OBVIOUS
    <3>2. 1 \in 1 .. 2 - 1
      OBVIOUS
    <3> QED
      BY <3>1, <3>2
  <2>4. S(3) <=> v[1] = w[1] /\ v[2] = w[2]
    <3>1. \A j \in 1 .. 3 - 1 : j = 1 \/ j = 2
      OBVIOUS
    <3>2. 1 \in 1 .. 3 - 1 /\ 2 \in 1 .. 3 - 1
      OBVIOUS
    <3> QED
      BY <3>1, <3>2
  <2>5. S(4) <=> v[1] = w[1] /\ v[2] = w[2] /\ v[3] = w[3]
    <3>1. \A j \in 1 .. 4 - 1 : j = 1 \/ j = 2 \/ j = 3
      OBVIOUS
    <3>2. 1 \in 1 .. 4 - 1 /\ 2 \in 1 .. 4 - 1 /\ 3 \in 1 .. 4 - 1
      OBVIOUS
    <3> QED
      BY <3>1, <3>2
  <2>6. /\ \A k \in 1 .. 4 : k = 1 \/ k = 2 \/ k = 3 \/ k = 4
        /\ 1 \in 1 .. 4 /\ 2 \in 1 .. 4 /\ 3 \in 1 .. 4 /\ 4 \in 1 .. 4
    OBVIOUS
  <2> HIDE DEF S
  <2>7. (\E k \in 1 .. 4 : v[k] < w[k] /\ S(k)) <=> \/ (v[1] < w[1] /\ S(1)) \/ (v[2] < w[2] /\ S(2))
                                                     \/ (v[3] < w[3] /\ S(3)) \/ (v[4] < w[4] /\ S(4))
    BY <2>6
  <2> QED
    BY <2>1, <2>2, <2>3, <2>4, <2>5, <2>7
<1>8. Number(v) = Number(w) => v = w
  BY <1>3, <1>4, <1>5, <1>6
<1>9. N!Before(v, w) <=> Number(v) <= Number(w)
  <2>1. Of2(v) < Of2(w) <=> v[1] < w[1] \/ (v[1] = w[1] /\ v[2] < w[2])
    BY <1>2, <1>3
  <2>2. Of3(v) < Of3(w) <=> Of2(v) < Of2(w) \/ (Of2(v) = Of2(w) /\ v[3] < w[3])
    BY <1>2, <1>3, <1>4
  <2>3. v[4] <= w[4] <=> v[4] < w[4] \/ v[4] = w[4]
    BY <1>2
  <2> QED
    BY <1>3, <1>4, <1>5, <1>6, <1>7, <2>1, <2>2, <2>3
<1> QED
  BY <1>8, <1>9

(* The variables of the range, by their names in NodeRange.                 *)
given == s1
walk == s2
members == s3
saves == s4

First == N!ip4ToUint32(given.start)
Last == N!ip4ToUint32(given.end)
NodeRecords ==
    [name : Nat, ip : AddressWords, role : {"worker", "master"}, status : {"finding", "deleting"}, change : Nat]
Walks ==
    [at : {"idle", "loop", "done"}, i : 0 .. N!Top, end : 0 .. N!Top, ips : Seq(AddressWords), next : Nat]
RangeTypes == given \in IpRanges /\ walk \in Walks /\ members \in Seq(NodeRecords) /\ saves \in Nat

(* The walk has listed the addresses from the first on, each at its place;  *)
(* one that ends at the highest address is never done.                      *)
Listed == \A k \in 1 .. Len(walk.ips) : walk.ips[k] = N!uint32ToIp4(First + k - 1)
WalkInv ==
    /\ walk.at # "idle" => walk.end = Last /\ walk.next \in 1 .. Len(walk.ips) + 1
    /\ walk.at = "loop" /\ Last < N!Top => Listed /\ walk.i = First + Len(walk.ips) /\ walk.i <= Last + 1
    /\ walk.at = "done" => Listed /\ Len(walk.ips) = (IF First > Last THEN 0 ELSE Last + 1 - First)

(* A node that was added under the range as it is has the address at the    *)
(* place it is named for.                                                   *)
MembersInv ==
    /\ \A n \in DOMAIN members :
         /\ members[n].name \in 1 .. N!Size /\ members[n].change <= saves
         /\ members[n].change = saves => members[n].ip = N!uint32ToIp4(First + members[n].name - 1)
    /\ N!OneNodePerMachine /\ N!NamesRepeatOverChanges
RangeInv == RangeTypes /\ WalkInv /\ MembersInv

USE DEF given, walk, members, saves

LEMMA AddressIsWord ==
    ASSUME MachinesAssumption, NEW w \in AddressWords
    PROVE  w \in Seq(Int) /\ Len(w) = 4 /\ N!IsAddress(w)
<1>1. \A k \in 1 .. 4 : w[k] \in 0 .. IpBase - 1
  BY DEF AddressWords, Digits
<1>2. w \in [1 .. 4 -> Int] /\ DOMAIN w = 1 .. 4
  BY <1>1 DEF AddressWords, Digits
<1>3. w \in Seq(Int)
  <2>1. [1 .. 4 -> Int] \in {[1 .. n -> Int] : n \in Nat}
    OBVIOUS
  <2> QED
    BY <1>2, <2>1, SeqDef
<1>4. Len(w) = 4
  BY <1>2, <1>3, LenProperties
<1> QED
  BY <1>1, <1>3, <1>4 DEF N!IsAddress

LEMMA WordIsAddress ==
    ASSUME MachinesAssumption, NEW w \in Seq(Int), N!IsAddress(w)
    PROVE  w \in AddressWords /\ N!ip4ToUint32(w) = Number(w)
<1>1. Len(w) = 4 /\ \A k \in 1 .. 4 : w[k] \in Digits
  BY DEF N!IsAddress, Digits
<1>2. w \in [1 .. 4 -> Int]
  BY <1>1, LenProperties
<1>3. w \in AddressWords
  BY <1>1, <1>2 DEF AddressWords
<1> QED
  BY <1>1, <1>3, SumIsNumber

LEMMA EndsAre ==
    ASSUME MachinesAssumption, given \in IpRanges
    PROVE  /\ given.start \in Seq(Int) /\ given.end \in Seq(Int)
           /\ First \in 0 .. N!Top /\ Last \in 0 .. N!Top
<1>1. given.start \in Seq(Int) /\ given.end \in Seq(Int)
  BY DEF MachinesAssumption
<1> QED
  BY <1>1, SumInRange DEF First, Last

(* Listed addresses differ, and each is between the ends.                   *)
LEMMA ListedAre ==
    ASSUME MachinesAssumption, RangeTypes, WalkInv, walk.at = "done", NEW k \in 1 .. Len(walk.ips)
    PROVE  /\ k \in Nat /\ Len(walk.ips) \in Nat /\ First + k - 1 \in 0 .. N!Top /\ First + k - 1 >= First
           /\ First + k - 1 <= Last
           /\ walk.ips[k] = N!uint32ToIp4(First + k - 1) /\ walk.ips[k] \in AddressWords
           /\ Number(walk.ips[k]) = First + k - 1
<1>1. First \in 0 .. N!Top /\ Last \in 0 .. N!Top /\ N!Top \in Nat /\ walk.ips \in Seq(AddressWords)
  BY EndsAre, SizeIs DEF RangeTypes, Walks
<1>2. Len(walk.ips) \in Nat /\ Len(walk.ips) = (IF First > Last THEN 0 ELSE Last + 1 - First)
  BY <1>1 DEF WalkInv
<1>3. k \in Nat /\ First + k - 1 \in 0 .. N!Top /\ First + k - 1 >= First /\ First + k - 1 <= Last
  BY <1>1, <1>2
<1>4. walk.ips[k] = N!uint32ToIp4(First + k - 1)
  BY DEF WalkInv, Listed
<1> QED
  BY <1>2, <1>3, <1>4, NumberOfAddress

LEMMA ChangeRangeKeeps ==
    ASSUME MachinesAssumption, RangeInv, N!ChangeRange
    PROVE  RangeInv'
<1>1. /\ given' \in IpRanges /\ saves' = saves + 1 /\ walk' = walk /\ members' = members /\ walk.at = "idle"
      /\ saves \in Nat
  BY DEF N!ChangeRange, RangeInv, RangeTypes
<1>2. RangeTypes' /\ WalkInv'
  BY <1>1 DEF RangeInv, RangeTypes, WalkInv
<1>3. \A n \in DOMAIN members : members[n].change <= saves /\ members[n].change \in Nat
  <2>1. \A n \in DOMAIN members : members[n] \in NodeRecords
    BY DEF RangeInv, RangeTypes
  <2>2. \A n \in DOMAIN members : members[n].change \in Nat
    BY <2>1 DEF NodeRecords
  <2> QED
    BY <2>2 DEF RangeInv, MembersInv
<1>4. \A n \in DOMAIN members : members[n].change <= saves' /\ members[n].change # saves'
  BY <1>1, <1>3
<1>5. MembersInv'
  BY <1>1, <1>4 DEF RangeInv, MembersInv, N!OneNodePerMachine, N!NamesRepeatOverChanges
<1> QED
  BY <1>2, <1>5 DEF RangeInv

LEMMA MembersStay ==
    ASSUME MembersInv, given' = given, members' = members, saves' = saves
    PROVE  MembersInv'
BY DEF MembersInv, First, N!OneNodePerMachine, N!NamesRepeatOverChanges

LEMMA RangeIpsKeeps ==
    ASSUME MachinesAssumption, RangeInv, N!RangeIps
    PROVE  RangeInv'
<1> DEFINE at == IF First > Last THEN "done" ELSE "loop"
           start == First
           end == Last
           none == <<>>
<1>1. /\ RangeTypes /\ given' = given /\ members' = members /\ saves' = saves
      /\ walk' = [at |-> at, i |-> start, end |-> end, ips |-> none, next |-> 1]
  BY DEF RangeInv, N!RangeIps, First, Last
<1>2. /\ at \in {"done", "loop"} /\ none \in Seq(AddressWords) /\ Len(none) = 0
      /\ start \in 0 .. N!Top /\ end \in 0 .. N!Top /\ First' = First /\ Last' = Last
      /\ N!Top \in Nat
  BY <1>1, EndsAre, SizeIs DEF RangeTypes, First, Last
<1>3. (at = "done" => start > end) /\ (at = "loop" => start <= end) /\ start = First /\ end = Last
  BY <1>2
<1> HIDE DEF at, start, end, none
<1>4. walk'.at = at /\ walk'.i = start /\ walk'.end = end /\ walk'.ips = none /\ walk'.next = 1 /\ walk' \in Walks
  BY <1>1, <1>2 DEF Walks
<1>5. RangeTypes'
  BY <1>1, <1>4 DEF RangeTypes
<1>6. Listed'
  BY <1>2, <1>4 DEF Listed
<1>7. WalkInv'
  <2>1. walk'.end = Last' /\ walk'.next \in 1 .. Len(walk'.ips) + 1
    BY <1>2, <1>3, <1>4
  <2>2. at = "loop" => walk'.i = First' + Len(walk'.ips) /\ walk'.i <= Last' + 1
    BY <1>2, <1>3, <1>4
  <2>3. at = "done" => Len(walk'.ips) = (IF First' > Last' THEN 0 ELSE Last' + 1 - First')
    BY <1>2, <1>3, <1>4
  <2> QED
    BY <1>4, <1>6, <2>1, <2>2, <2>3 DEF WalkInv
<1>8. MembersInv'
  BY <1>1, MembersStay DEF RangeInv
<1> QED
  BY <1>5, <1>7, <1>8 DEF RangeInv

LEMMA AppendIpKeeps ==
    ASSUME MachinesAssumption, RangeInv, N!AppendIp
    PROVE  RangeInv'
<1>1. RangeTypes /\ WalkInv /\ given' = given /\ members' = members /\ saves' = saves /\ walk.at = "loop"
  BY DEF RangeInv, N!AppendIp
<1>2. /\ First \in 0 .. N!Top /\ Last \in 0 .. N!Top /\ N!Top \in Nat /\ N!Size = N!Top + 1
      /\ First' = First /\ Last' = Last
      /\ walk.ips \in Seq(AddressWords) /\ Len(walk.ips) \in Nat /\ walk.i \in 0 .. N!Top /\ walk.end = Last
      /\ walk.next \in 1 .. Len(walk.ips) + 1 /\ walk.next \in Nat /\ walk \in Walks
  <2>1. walk.ips \in Seq(AddressWords) /\ walk.i \in 0 .. N!Top /\ walk.next \in Nat /\ walk \in Walks
    BY <1>1 DEF RangeTypes, Walks
  <2>2. Len(walk.ips) \in Nat
    BY <2>1
  <2>3. First \in 0 .. N!Top /\ Last \in 0 .. N!Top /\ First' = First /\ Last' = Last
    BY <1>1, EndsAre DEF RangeTypes, First, Last
  <2>4. N!Top \in Nat /\ N!Size = N!Top + 1
    <3> DEFINE size == N!Size
               top == N!Top
    <3>1. size \in Nat /\ top \in Nat /\ top = size - 1
      BY SizeIs
    <3> HIDE DEF size, top
    <3>2. size = top + 1
      BY <3>1
    <3> QED
      BY <3>1, <3>2 DEF size, top
  <2> QED
    BY <1>1, <2>1, <2>2, <2>3, <2>4 DEF WalkInv
<1>3. MembersInv'
  BY <1>1, MembersStay DEF RangeInv
<1>4. CASE walk.i > Last
  <2>1. walk' = [walk EXCEPT !.at = "done"]
    BY <1>2, <1>4 DEF N!AppendIp
  <2>2. /\ walk' \in Walks /\ walk'.at = "done" /\ walk'.i = walk.i /\ walk'.end = walk.end /\ walk'.ips = walk.ips
        /\ walk'.next = walk.next
    BY <1>2, <2>1 DEF Walks
  <2>3. Last < N!Top
    BY <1>2, <1>4
  <2>4. Listed /\ walk.i = First + Len(walk.ips) /\ walk.i <= Last + 1
    BY <1>1, <2>3 DEF WalkInv
  <2>5. Len(walk.ips) = (IF First > Last THEN 0 ELSE Last + 1 - First)
    BY <1>2, <1>4, <2>4
  <2>6. Listed'
    BY <1>2, <2>2, <2>4 DEF Listed
  <2>7. WalkInv'
    BY <1>2, <2>2, <2>5, <2>6 DEF WalkInv
  <2>8. RangeTypes'
    BY <1>1, <2>2 DEF RangeTypes
  <2> QED
    BY <1>3, <2>7, <2>8 DEF RangeInv
<1>5. CASE walk.i <= Last
  <2> DEFINE new == N!uint32ToIp4(walk.i)
             ips == IF Len(walk.ips) = N!Size THEN walk.ips ELSE Append(walk.ips, new)
             i == IF walk.i = N!Top THEN 0 ELSE walk.i + 1
  <2>1. walk' = [walk EXCEPT !.ips = ips, !.i = i]
    BY <1>2, <1>5 DEF N!AppendIp
  <2>2. new \in AddressWords
    BY <1>2, NumberOfAddress
  <2> HIDE DEF new
  <2>3. ips \in Seq(AddressWords) /\ Len(ips) \in {Len(walk.ips), Len(walk.ips) + 1}
    BY <1>2, <2>2
  <2>4. i \in 0 .. N!Top
    BY <1>2
  <2>5. Last < N!Top => /\ Len(walk.ips) # N!Size /\ i = walk.i + 1 /\ walk.i = First + Len(walk.ips) /\ Listed
    <3> SUFFICES ASSUME Last < N!Top PROVE Len(walk.ips) # N!Size /\ i = walk.i + 1 /\ walk.i = First + Len(walk.ips) /\ Listed
      OBVIOUS
    <3>1. Listed /\ walk.i = First + Len(walk.ips)
      BY <1>1 DEF WalkInv
    <3> QED
      BY <1>2, <1>5, <3>1
  <2>6. Last < N!Top => ips = Append(walk.ips, new)
    BY <2>5
  <2> HIDE DEF ips, i
  <2>7. /\ walk' \in Walks /\ walk'.at = "loop" /\ walk'.i = i /\ walk'.end = walk.end /\ walk'.ips = ips
        /\ walk'.next = walk.next
    BY <1>1, <1>2, <2>1, <2>3, <2>4 DEF Walks
  <2>8. walk'.next \in 1 .. Len(walk'.ips) + 1
    BY <1>2, <2>3, <2>7
  <2>9. ASSUME Last < N!Top
        PROVE  Listed' /\ walk'.i = First + Len(walk'.ips) /\ walk'.i <= Last + 1
    <3>1. /\ Len(ips) = Len(walk.ips) + 1 /\ ips[Len(walk.ips) + 1] = new
          /\ \A k \in 1 .. Len(walk.ips) : ips[k] = walk.ips[k]
      BY <1>2, <2>2, <2>6, <2>9, AppendProperties
    <3>2. i = walk.i + 1 /\ walk.i = First + Len(walk.ips) /\ Listed
      BY <2>5, <2>9
    <3>3. walk'.i = First + Len(walk'.ips) /\ walk'.i <= Last + 1
      BY <1>2, <1>5, <2>7, <3>1, <3>2
    <3>4. First + (Len(walk.ips) + 1) - 1 = walk.i
      BY <1>2, <3>2
    <3>5. ASSUME NEW k \in 1 .. Len(ips)
          PROVE  ips[k] = N!uint32ToIp4(First + k - 1)
      <4>1. CASE k = Len(walk.ips) + 1
        BY <3>1, <3>4, <4>1 DEF new
      <4>2. CASE k \in 1 .. Len(walk.ips)
        BY <3>1, <3>2, <4>2 DEF Listed
      <4> QED
        BY <1>2, <3>1, <4>1, <4>2
    <3>6. Listed'
      BY <1>2, <2>7, <3>5 DEF Listed
    <3> QED
      BY <3>3, <3>6
  <2>10. WalkInv'
    BY <1>2, <2>7, <2>8, <2>9 DEF WalkInv
  <2>11. RangeTypes'
    BY <1>1, <2>7 DEF RangeTypes
  <2> QED
    BY <1>3, <2>10, <2>11 DEF RangeInv
<1> QED
  BY <1>2, <1>4, <1>5

LEMMA AddNodeKeeps ==
    ASSUME MachinesAssumption, RangeInv, N!AddNode
    PROVE  RangeInv'
<1> DEFINE k == walk.next
           ip == walk.ips[k]
           new == N!Node(k)
<1>1. /\ RangeTypes /\ WalkInv /\ MembersInv /\ given' = given /\ saves' = saves /\ walk.at = "done"
      /\ walk' = [walk EXCEPT !.next = walk.next + 1] /\ k <= Len(walk.ips)
      /\ members' = IF N!GetNodeByIp(ip) = {} THEN Append(members, new) ELSE members
  BY DEF RangeInv, N!AddNode
<1>2. /\ walk \in Walks /\ walk.ips \in Seq(AddressWords) /\ Len(walk.ips) \in Nat
      /\ k \in 1 .. Len(walk.ips) + 1 /\ saves \in Nat
      /\ First' = First /\ Last' = Last
  BY <1>1 DEF RangeTypes, Walks, WalkInv, First, Last
<1>3. k \in 1 .. Len(walk.ips) /\ k \in Nat
  BY <1>1, <1>2
<1>4. ip = N!uint32ToIp4(First + k - 1) /\ ip \in AddressWords /\ First + k - 1 \in 0 .. N!Top
  BY <1>1, <1>3, ListedAre
<1>5. k \in 1 .. N!Size
  <2>1. First \in Nat /\ First + k - 1 <= N!Top /\ N!Top \in Nat
    <3>1. First \in 0 .. N!Top /\ N!Top \in Nat
      BY <1>1, EndsAre, SizeIs DEF RangeTypes
    <3>2. First + k - 1 <= N!Top
      BY <1>4, <3>1
    <3> QED
      BY <3>1, <3>2
  <2> DEFINE size == N!Size
  <2>2. N!Top = size - 1 /\ size \in Nat
    BY SizeIs
  <2> HIDE DEF size
  <2>3. k \in 1 .. size
    BY <1>3, <2>1, <2>2
  <2> QED
    BY <2>3 DEF size
<1>6. new.name = k /\ new.ip = ip /\ new.change = saves /\ new \in NodeRecords
  BY <1>2, <1>3, <1>4 DEF N!Node, NodeRecords
<1>7. /\ walk' \in Walks /\ walk'.at = "done" /\ walk'.end = walk.end /\ walk'.ips = walk.ips /\ walk'.next = k + 1
  BY <1>1, <1>2, <1>3 DEF Walks
<1>8. WalkInv'
  <2>1. walk'.next \in 1 .. Len(walk'.ips) + 1
    BY <1>2, <1>3, <1>7
  <2>2. Listed'
    BY <1>1, <1>2, <1>7 DEF WalkInv, Listed
  <2> QED
    BY <1>1, <1>2, <1>7, <2>1, <2>2 DEF WalkInv
<1> HIDE DEF k, ip, new
<1>9. members \in Seq(NodeRecords)
  BY <1>1 DEF RangeTypes
<1>10. CASE N!GetNodeByIp(ip) # {}
  <2>1. members' = members
    BY <1>1, <1>10
  <2>2. MembersInv'
    BY <1>1, <2>1, MembersStay
  <2> QED
    BY <1>1, <1>7, <1>8, <2>1, <2>2 DEF RangeInv, RangeTypes
<1>11. CASE N!GetNodeByIp(ip) = {}
  <2> DEFINE n == Len(members)
  <2>1. members' = Append(members, new)
    BY <1>1, <1>11
  <2>2. /\ members' \in Seq(NodeRecords) /\ n \in Nat /\ Len(members') = n + 1 /\ members'[n + 1] = new
        /\ \A j \in 1 .. n : members'[j] = members[j]
    BY <1>6, <1>9, <2>1, AppendProperties
  <2>3. DOMAIN members = 1 .. n /\ DOMAIN members' = 1 .. n + 1
    BY <1>9, <2>2
  <2> HIDE DEF n
  <2>4. \A j \in DOMAIN members' : j = n + 1 \/ j \in 1 .. n
    BY <2>2, <2>3
  <2>5. \A j \in 1 .. n : members[j].ip # ip
    BY <1>11, <2>3 DEF N!GetNodeByIp
  <2>6. \A j \in 1 .. n : ~(members[j].name = k /\ members[j].change = saves)
    BY <1>1, <1>4, <2>3, <2>5 DEF MembersInv
  <2>7. ASSUME NEW j \in DOMAIN members'
        PROVE  /\ members'[j].name \in 1 .. N!Size /\ members'[j].change <= saves'
               /\ members'[j].change = saves' => members'[j].ip = N!uint32ToIp4(First + members'[j].name - 1)
    <3>1. CASE j = n + 1
      BY <1>1, <1>2, <1>4, <1>5, <1>6, <2>2, <3>1
    <3>2. CASE j \in 1 .. n
      BY <1>1, <2>2, <2>3, <3>2 DEF MembersInv
    <3> QED
      BY <2>4, <3>1, <3>2
  <2>8. N!OneNodePerMachine'
    <3>1. \A j, l \in 1 .. n : members[j].ip = members[l].ip => j = l
      BY <1>1, <2>3 DEF MembersInv, N!OneNodePerMachine
    <3>2. \A j, l \in DOMAIN members' : members'[j].ip = members'[l].ip => j = l
      BY <1>6, <2>2, <2>4, <2>5, <3>1
    <3> QED
      BY <3>2 DEF N!OneNodePerMachine
  <2>9. N!NamesRepeatOverChanges'
    <3>1. \A j, l \in 1 .. n : j # l /\ members[j].name = members[l].name => members[j].change # members[l].change
      BY <1>1, <2>3 DEF MembersInv, N!NamesRepeatOverChanges
    <3>2. \A j, l \in DOMAIN members' : j # l /\ members'[j].name = members'[l].name =>
                                          members'[j].change # members'[l].change
      BY <1>6, <2>2, <2>4, <2>6, <3>1
    <3> QED
      BY <3>2 DEF N!NamesRepeatOverChanges
  <2>10. MembersInv'
    BY <1>2, <2>7, <2>8, <2>9 DEF MembersInv
  <2> QED
    BY <1>1, <1>7, <1>8, <2>2, <2>10 DEF RangeInv, RangeTypes
<1> QED
  BY <1>10, <1>11

LEMMA SetBareMetalNodeKeeps ==
    ASSUME MachinesAssumption, RangeInv, N!SetBareMetalNode
    PROVE  RangeInv'
<1> DEFINE n == Len(members)
<1>1. /\ RangeTypes /\ MembersInv /\ given' = given /\ saves' = saves /\ walk' = N!Idle
      /\ members \in Seq(NodeRecords) /\ First' = First
  BY DEF RangeInv, RangeTypes, N!SetBareMetalNode, First
<1>2. n \in Nat /\ DOMAIN members = 1 .. n /\ \A j \in 1 .. n : members[j] \in NodeRecords
  BY <1>1
<1> DEFINE hasMaster == \E j \in DOMAIN members : members[j].role = "master"
           inRange(j) == \E k \in DOMAIN walk.ips : walk.ips[k] = members[j].ip
<1>3. members' = [j \in DOMAIN members |->
         [members[j] EXCEPT !.role = IF ~hasMaster /\ j = 1 THEN "master" ELSE @,
                            !.status = IF inRange(j) THEN @ ELSE "deleting"]]
  BY DEF N!SetBareMetalNode
<1> HIDE DEF hasMaster, inRange
<1>4. /\ DOMAIN members' = 1 .. n
      /\ \A j \in 1 .. n : /\ members'[j] \in NodeRecords /\ members'[j].name = members[j].name
                           /\ members'[j].ip = members[j].ip /\ members'[j].change = members[j].change
  <2>1. DOMAIN members' = 1 .. n
    BY <1>2, <1>3
  <2>2. ASSUME NEW j \in 1 .. n
        PROVE  /\ members'[j] \in NodeRecords /\ members'[j].name = members[j].name
               /\ members'[j].ip = members[j].ip /\ members'[j].change = members[j].change
    <3> DEFINE role == IF ~hasMaster /\ j = 1 THEN "master" ELSE members[j].role
               status == IF inRange(j) THEN members[j].status ELSE "deleting"
               old == members[j]
    <3>1. members'[j] = [old EXCEPT !.role = role, !.status = status]
      BY <1>2, <1>3
    <3>2. old \in NodeRecords /\ role \in {"worker", "master"} /\ status \in {"finding", "deleting"}
      BY <1>2 DEF NodeRecords
    <3> HIDE DEF role, status, old
    <3>3. /\ members'[j] \in NodeRecords /\ members'[j].name = old.name
          /\ members'[j].ip = old.ip /\ members'[j].change = old.change
      BY <3>1, <3>2 DEF NodeRecords
    <3> QED
      BY <3>3 DEF old
  <2> QED
    BY <2>1, <2>2
<1>5. members' \in Seq(NodeRecords)
  <2>1. members' = [j \in 1 .. n |-> members'[j]]
    BY <1>2, <1>3
  <2>2. members' \in [1 .. n -> NodeRecords]
    BY <1>4, <2>1
  <2> QED
    BY <1>2, <2>2, SeqDef
<1>6. walk' \in Walks /\ walk'.at = "idle"
  BY <1>1, SizeIs DEF N!Idle, Walks
<1>7. RangeTypes' /\ WalkInv'
  BY <1>1, <1>5, <1>6 DEF RangeTypes, WalkInv
<1> HIDE DEF n
<1>8. MembersInv'
  <2>1. N!OneNodePerMachine'
    BY <1>1, <1>2, <1>4 DEF MembersInv, N!OneNodePerMachine
  <2>2. N!NamesRepeatOverChanges'
    BY <1>1, <1>2, <1>4 DEF MembersInv, N!NamesRepeatOverChanges
  <2> QED
    BY <1>1, <1>2, <1>4, <2>1, <2>2 DEF MembersInv
<1> QED
  BY <1>7, <1>8 DEF RangeInv

LEMMA RangeStep ==
    ASSUME MachinesAssumption, RangeInv, N!Next
    PROVE  RangeInv'
BY ChangeRangeKeeps, RangeIpsKeeps, AppendIpKeeps, AddNodeKeeps, SetBareMetalNodeKeeps DEF N!Next

LEMMA RangeInit ==
    ASSUME MachinesAssumption, N!Init
    PROVE  RangeInv
<1>1. given \in IpRanges /\ walk = N!Idle /\ members = <<>> /\ saves = 1
  BY DEF N!Init
<1>2. walk \in Walks /\ walk.at = "idle"
  BY <1>1, SizeIs DEF N!Idle, Walks
<1>3. members \in Seq(NodeRecords) /\ DOMAIN members = {}
  BY <1>1
<1>4. MembersInv
  BY <1>3 DEF MembersInv, N!OneNodePerMachine, N!NamesRepeatOverChanges
<1> QED
  BY <1>1, <1>2, <1>3, <1>4 DEF RangeInv, RangeTypes, WalkInv

LEMMA RangeStays ==
    ASSUME RangeInv, UNCHANGED <<s1, s2, s3, s4>>
    PROVE  RangeInv'
BY DEF RangeInv, RangeTypes, WalkInv, MembersInv, Listed, First, Last, N!OneNodePerMachine, N!NamesRepeatOverChanges

(* What the runs check of the range.                                        *)
LEMMA RangeIsRight ==
    ASSUME MachinesAssumption, RangeInv
    PROVE  N!TypeOK /\ N!RangeIsExact /\ N!OneNodePerMachine /\ N!NamesRepeatOverChanges
<1>1. N!TypeOK
  <2>1. \A n \in DOMAIN members : members[n] \in NodeRecords /\ members[n].name \in 1 .. N!Size
    BY DEF RangeInv, RangeTypes, MembersInv
  <2>2. \A n \in DOMAIN members : members[n].ip \in AddressWords
    BY <2>1 DEF NodeRecords
  <2>3. \A n \in DOMAIN members : N!IsAddress(members[n].ip)
    BY <2>2, AddressIsWord
  <2>4. walk.at \in {"idle", "loop", "done"} /\ walk.i \in 0 .. N!Top
    BY DEF RangeInv, RangeTypes, Walks
  <2> QED
    BY <2>1, <2>3, <2>4 DEF N!TypeOK
<1>2. N!RangeIsExact
  <2> SUFFICES ASSUME walk.at = "done", N!IsAddress(given.start), N!IsAddress(given.end)
               PROVE  /\ {walk.ips[k] : k \in DOMAIN walk.ips} =
                           {w \in AddressWords : N!Before(given.start, w) /\ N!Before(w, given.end)}
                      /\ \A j, k \in DOMAIN walk.ips :
                           j < k => N!Before(walk.ips[j], walk.ips[k]) /\ walk.ips[j] # walk.ips[k]
    BY DEF N!RangeIsExact, AddressWords, Digits
  <2>1. RangeTypes /\ WalkInv /\ walk.ips \in Seq(AddressWords)
    BY DEF RangeInv, RangeTypes, Walks
  <2>2. DOMAIN walk.ips = 1 .. Len(walk.ips)
    BY <2>1
  <2>3. /\ given.start \in AddressWords /\ given.end \in AddressWords
        /\ First = Number(given.start) /\ Last = Number(given.end)
    BY <2>1, EndsAre, WordIsAddress DEF RangeTypes, First, Last
  <2>4. First \in Int /\ Last \in Int
    BY <2>1, EndsAre DEF RangeTypes
  <2>5. ASSUME NEW k \in 1 .. Len(walk.ips)
        PROVE  /\ walk.ips[k] \in AddressWords /\ Number(walk.ips[k]) = First + k - 1 /\ k \in Nat
               /\ N!Before(given.start, walk.ips[k]) /\ N!Before(walk.ips[k], given.end)
    <3>1. /\ walk.ips[k] \in AddressWords /\ Number(walk.ips[k]) = First + k - 1 /\ k \in Nat
          /\ First + k - 1 >= First /\ First + k - 1 <= Last
      BY <2>1, ListedAre
    <3>2. Number(given.start) <= Number(walk.ips[k]) /\ Number(walk.ips[k]) <= Number(given.end)
      BY <2>3, <3>1
    <3> QED
      BY <2>3, <3>1, <3>2, OrderIs
  <2>6. ASSUME NEW w \in AddressWords, N!Before(given.start, w), N!Before(w, given.end)
        PROVE  \E k \in 1 .. Len(walk.ips) : w = walk.ips[k]
    <3> DEFINE x == Number(w)
               k == x - First + 1
    <3>1. First <= x /\ x <= Last /\ x \in Int
      <4>1. x \in 0 .. N!Top /\ N!Top \in Nat
        BY NumberIs, SizeIs
      <4>2. First <= x /\ x <= Last
        BY <2>3, <2>6, OrderIs
      <4> QED
        BY <4>1, <4>2
    <3>2. w = N!uint32ToIp4(x)
      BY AddressOfNumber
    <3> HIDE DEF x
    <3>3. Len(walk.ips) = Last + 1 - First
      BY <2>1, <2>4, <3>1 DEF WalkInv
    <3>4. k \in 1 .. Len(walk.ips) /\ First + k - 1 = x
      BY <2>4, <3>1, <3>3
    <3>5. walk.ips[k] = N!uint32ToIp4(First + k - 1)
      BY <2>1, <3>4, ListedAre
    <3> QED
      BY <3>2, <3>4, <3>5
  <2>7. ASSUME NEW j \in 1 .. Len(walk.ips), NEW k \in 1 .. Len(walk.ips), j < k
        PROVE  N!Before(walk.ips[j], walk.ips[k]) /\ walk.ips[j] # walk.ips[k]
    <3>1. Number(walk.ips[j]) < Number(walk.ips[k]) /\ Number(walk.ips[j]) <= Number(walk.ips[k])
          /\ Number(walk.ips[j]) # Number(walk.ips[k])
      BY <2>4, <2>5, <2>7
    <3> QED
      BY <2>5, <3>1, OrderIs
  <2> DEFINE got == {walk.ips[k] : k \in DOMAIN walk.ips}
             want == {w \in AddressWords : N!Before(given.start, w) /\ N!Before(w, given.end)}
  <2>8. \A w \in got : w \in want
    BY <2>2, <2>5
  <2>9. \A w \in want : w \in got
    BY <2>2, <2>6
  <2>10. got = want
    BY <2>8, <2>9
  <2> QED
    BY <2>2, <2>7, <2>10
<1>3. N!OneNodePerMachine /\ N!NamesRepeatOverChanges
  BY DEF RangeInv, MembersInv
<1> QED
  BY <1>1, <1>2, <1>3

-----------------------------------------------------------------------------
(* Each part keeps its own.                                                 *)
MachinesInv ==
    /\ part = "scripts" => MachineInv
    /\ part = "handover" => HandoverInv
    /\ part = "downloads" => DownloadInv
    /\ part = "range" => RangeInv

LEMMA MachinesInitially ==
    ASSUME MachinesAssumption, OpsInit
    PROVE  MachinesInv
<1>1. /\ part = "scripts" => M!Init
      /\ part = "handover" => H!Init
      /\ part = "downloads" => D!Init
      /\ part = "range" => N!Init
  BY DEF OpsInit
<1> QED
  BY <1>1, MachineInit, HandoverInit, DownloadInit, RangeInit DEF MachinesInv

LEMMA MachinesStep ==
    ASSUME MachinesAssumption, MachinesInv, [OpsNext]_<<part, All, vars>>
    PROVE  MachinesInv'
<1>1. CASE RunScripts
  <2>1. part = "scripts" /\ part' = part /\ M!Next
    BY <1>1 DEF RunScripts
  <2> QED
    BY <2>1, MachineStep DEF MachinesInv
<1>2. CASE HandOver
  <2>1. part = "handover" /\ part' = part /\ H!Next
    BY <1>2 DEF HandOver
  <2> QED
    BY <2>1, HandoverStep DEF MachinesInv
<1>3. CASE Download
  <2>1. part = "downloads" /\ part' = part /\ D!Next
    BY <1>3 DEF Download
  <2> QED
    BY <2>1, DownloadStep DEF MachinesInv
<1>4. CASE TakeRange
  <2>1. part = "range" /\ part' = part /\ N!Next
    BY <1>4 DEF TakeRange
  <2> QED
    BY <2>1, RangeStep DEF MachinesInv
<1>5. CASE TwoPartitions \/ OnePartition \/ ReadLogs \/ StartIndices \/ ReadPoints \/ ReadRates \/ EditWords
             \/ CallAutoscaler
  <2>1. part' = part /\ part \notin {"scripts", "handover", "downloads", "range"}
    BY <1>5 DEF TwoPartitions, OnePartition, ReadLogs, StartIndices, ReadPoints, ReadRates, EditWords, CallAutoscaler
  <2> QED
    BY <2>1 DEF MachinesInv
<1>6. CASE UNCHANGED <<part, All, vars>>
  <2>1. part' = part /\ UNCHANGED <<s1, s2, s3, s4, s5>>
    BY <1>6 DEF All
  <2> QED
    BY <2>1, MachinesStay, HandoverStays, DownloadsStay, RangeStays DEF MachinesInv
<1> QED
  BY <1>1, <1>2, <1>3, <1>4, <1>5, <1>6 DEF OpsNext

(* Whatever fails, is repeated or cut off, on any machines: a machine joins *)
(* only with its software and in the one cluster, and leaves it by an       *)
(* uninstall; the program is handed its cluster once; a download that went  *)
(* through is whole; and a range of addresses of any base is turned into    *)
(* exactly its machines, one node each (baremetal.go:181,                   *)
(* shell/cloud-copilot-install.sh, shell/downlocal.sh, utils/utils.go:121). *)
THEOREM MachinesAlways == OpsSpec => []MachinesAreInOrder
<1>1. OpsInit => MachinesInv
  BY MachinesAssumption, MachinesInitially
<1>2. MachinesInv /\ [OpsNext]_<<part, All, vars>> => MachinesInv'
  BY MachinesAssumption, MachinesStep
<1>3. MachinesInv => MachinesAreInOrder
  BY MachinesAssumption, MachinesAreRight, HandoverIsRight, DownloadsAreRight, RangeIsRight
  DEF MachinesInv, MachinesAreInOrder
<1> QED
  BY <1>1, <1>2, <1>3, PTL DEF OpsSpec

-----------------------------------------------------------------------------
(* The claims that read no row of r and are about to insert one: together   *)
(* with the rows there are they are no more than the claims, since a claim  *)
(* that reads later finds a row.                                            *)
Inserting(r) == {p \in Partitions : claim[p].pc = "write" /\ claim[p].seen = None /\ RouteOf(p) = r}
RowsInv ==
    \A r \in Routes : rows[r] # <<>> => Len(rows[r]) + Cardinality(Inserting(r)) <= Cardinality(Partitions)

(* What a claim has behind it, or the next one would start behind.          *)
Covered(p, o) ==
    IF claim[p].pc = "none" THEN o < (IF committed[p] = None THEN produced[p] ELSE committed[p])
    ELSE o < claim[p].pos \/ (o = claim[p].pos /\ claim[p].pc = "mark")
MarkedIsTaken(p) ==
    claim[p].pc # "none" =>
        IF claim[p].marked = None THEN committed[p] \in {None, claim[p].pos} ELSE claim[p].marked = claim[p].pos
DocsInv(p) ==
    \A o \in Offsets(p) :
        /\ docs[p][o] <= IF Covered(p, o) THEN faults + 1 ELSE faults
        /\ MessageAt(p, o).body = "log" /\ EsClient /\ o \in handled[p] => docs[p][o] >= 1
LinesInv == RowsInv /\ \A p \in Partitions : MarkedIsTaken(p) /\ DocsInv(p)

(* The variables of a partition have their types.                          *)
LEMMA PartitionTypes ==
    ASSUME TraceInv, NEW p \in Partitions
    PROVE  /\ claim \in [Partitions -> Claims] /\ claim[p] \in Claims /\ claim[p].pos \in Nat
           /\ claim[p].marked \in Offset /\ claim[p].seen \in Offset
           /\ committed \in [Partitions -> Offset] /\ committed[p] \in Offset
           /\ produced \in [Partitions -> Nat] /\ produced[p] \in Nat /\ faults \in Nat
           /\ docs[p] \in [Offsets(p) -> Nat]
           /\ docs = [q \in Partitions |-> docs[q]] /\ handled = [q \in Partitions |-> handled[q]]
<1>1. faults \in Nat
  BY LogAssumption DEF TraceInv, Types
<1>2. QED
  BY <1>1 DEF TraceInv, Types, Broker, Claims

(* The documents of a partition are as they were, and nothing is taken      *)
(* back but by a fault.                                                    *)
LEMMA DocsStay ==
    ASSUME TraceInv, NEW p \in Partitions, DocsInv(p), UNCHANGED <<docs[p], handled[p]>>,
           faults' \in Nat, faults <= faults',
           \A o \in Offsets(p) : Covered(p, o) => Covered(p, o)' \/ faults + 1 <= faults'
    PROVE  DocsInv(p)'
<1>1. faults \in Nat /\ docs[p] \in [Offsets(p) -> Nat]
  BY PartitionTypes
<1>2. SUFFICES ASSUME NEW o \in Offsets(p)
               PROVE  /\ docs[p][o] <= IF Covered(p, o)' THEN faults' + 1 ELSE faults'
                      /\ MessageAt(p, o).body = "log" /\ EsClient /\ o \in handled[p] => docs[p][o] >= 1
  BY DEF DocsInv, Offsets, MessageAt
<1>3. docs[p][o] \in Nat /\ docs[p][o] <= IF Covered(p, o) THEN faults + 1 ELSE faults
  BY <1>1 DEF DocsInv
<1> HIDE DEF Covered
<1>4. docs[p][o] <= IF Covered(p, o)' THEN faults' + 1 ELSE faults'
  BY <1>1, <1>3
<1>5. QED
  BY <1>4 DEF DocsInv

(* A partition that the step does not concern.                             *)
LEMMA UnmovedStays ==
    ASSUME TraceInv, NEW p \in Partitions, MarkedIsTaken(p), DocsInv(p),
           UNCHANGED <<claim[p], committed[p], produced[p], docs[p], handled[p]>>,
           faults' \in Nat, faults <= faults'
    PROVE  MarkedIsTaken(p)' /\ DocsInv(p)'
<1>1. MarkedIsTaken(p)'
  BY DEF MarkedIsTaken
<1>2. \A o \in Offsets(p) : Covered(p, o) => Covered(p, o)'
  BY DEF Covered
<1>3. QED
  BY <1>1, <1>2, DocsStay

(* A step of one partition that is right for it is right.                  *)
LEMMA OneMoves ==
    ASSUME TraceInv, LinesInv, NEW p \in Partitions, faults' \in Nat, faults <= faults',
           \A q \in Partitions \ {p} : UNCHANGED <<claim[q], committed[q], produced[q], docs[q], handled[q]>>,
           RowsInv', MarkedIsTaken(p)', DocsInv(p)'
    PROVE  LinesInv'
<1>1. \A q \in Partitions \ {p} : MarkedIsTaken(q)' /\ DocsInv(q)'
  BY UnmovedStays DEF LinesInv
<1>2. QED
  BY <1>1 DEF LinesInv

(* No claim begins to insert, and no row is inserted.                      *)
LEMMA RowsStay ==
    ASSUME TraceInv, RowsInv, UNCHANGED rows, \A p \in Partitions : claim'[p].pc = "write" => claim'[p] = claim[p]
    PROVE  RowsInv'
<1>1. SUFFICES ASSUME NEW r \in Routes, rows[r] # <<>>
               PROVE  Len(rows[r]) + Cardinality(Inserting(r)') <= Cardinality(Partitions)
  BY DEF RowsInv
<1>2. Inserting(r)' \subseteq Inserting(r) /\ Inserting(r) \subseteq Partitions
  BY DEF Inserting, RouteOf, MessageAt
<1>3. IsFiniteSet(Inserting(r)) /\ Cardinality(Inserting(r)) \in Nat /\ Cardinality(Partitions) \in Nat
  BY <1>2, LogAssumption, FS_Subset, FS_CardinalityType
<1>4. Cardinality(Inserting(r)') <= Cardinality(Inserting(r)) /\ Cardinality(Inserting(r)') \in Nat
  BY <1>2, <1>3, FS_Subset, FS_CardinalityType
<1>5. Len(rows[r]) \in Nat
  BY DEF TraceInv, Types
<1>6. QED
  BY <1>1, <1>3, <1>4, <1>5 DEF RowsInv

LEMMA LinesInitially == ASSUME Init, TraceInv PROVE LinesInv
<1>1. RowsInv
  BY DEF Init, RowsInv
<1>2. ASSUME NEW p \in Partitions PROVE MarkedIsTaken(p) /\ DocsInv(p)
  <2>1. /\ claim[p] = NoClaim /\ docs[p] = [o \in Offsets(p) |-> 0] /\ handled[p] = {} /\ faults = 0
        /\ committed[p] = None /\ produced[p] = 0
    BY DEF Init
  <2>2. QED
    BY <2>1 DEF MarkedIsTaken, DocsInv, NoClaim
<1>3. QED
  BY <1>1, <1>2 DEF LinesInv

(* The broker: a message arrives, or marks are committed.                  *)
LEMMA BrokerLines ==
    ASSUME TraceInv, LinesInv, NEW p \in Partitions, Produce(p) \/ AutoCommit(p)
    PROVE  LinesInv'
<1>1. /\ UNCHANGED <<claim, rows, docs, handled, faults>>
      /\ \/ produced' = [produced EXCEPT ![p] = @ + 1] /\ committed' = committed
         \/ /\ committed' = [committed EXCEPT ![p] = Stored(p)] /\ produced' = produced
            /\ session # "none" /\ claim[p].marked # None
  BY DEF Produce, AutoCommit, history
<1>2. faults \in Nat /\ produced[p] \in Nat /\ produced \in [Partitions -> Nat] /\ committed \in [Partitions -> Offset]
      /\ claim[p].pos \in Nat /\ committed[p] \in Offset
  BY PartitionTypes
<1>3. claim[p].marked # None => claim[p].pc # "none"
  BY DEF TraceInv, Position, NoClaim
<1>4. MarkedIsTaken(p)'
  BY <1>1, <1>2 DEF LinesInv, MarkedIsTaken
<1>5. \A o \in Offsets(p) : Covered(p, o) => Covered(p, o)'
  <2>1. \A o \in Offsets(p) : o \in Int
    BY DEF Offsets
  <2>2. CASE produced' = [produced EXCEPT ![p] = @ + 1] /\ committed' = committed
    BY <1>1, <1>2, <2>1, <2>2 DEF Covered
  <2>3. CASE claim[p].pc # "none"
    BY <1>1, <2>3 DEF Covered
  <2>4. QED
    BY <1>1, <1>3, <2>2, <2>3
<1>6. DocsInv(p)'
  BY <1>1, <1>2, <1>5, DocsStay DEF LinesInv
<1>7. \A q \in Partitions \ {p} : UNCHANGED <<claim[q], committed[q], produced[q], docs[q], handled[q]>>
  BY <1>1, <1>2
<1>8. RowsInv'
  BY <1>1, RowsStay DEF LinesInv
<1>9. QED
  BY <1>1, <1>2, <1>4, <1>6, <1>7, <1>8, OneMoves

(* The session: it begins where the last one stopped, is ended, or is lost  *)
(* with the process, which is a fault.                                     *)
LEMMA SessionLines ==
    ASSUME TraceInv, LinesInv, Consume \/ Rebalance \/ SessionEnds \/ Crash \/ Restart \/ UNCHANGED vars
    PROVE  LinesInv'
<1>1. UNCHANGED <<rows, docs, handled, produced>> /\ faults' \in {faults, faults + 1}
  BY DEF Consume, Rebalance, SessionEnds, Crash, Restart, history, vars
<1>2. faults \in Nat /\ MaxFaults \in Nat
  BY LogAssumption DEF TraceInv, Types
<1>3. \A p \in Partitions : claim'[p].pc = "write" => claim'[p] = claim[p]
  <2>1. CASE Consume
    BY <2>1 DEF Consume, NoClaim
  <2>2. CASE SessionEnds \/ Crash
    BY <2>2 DEF SessionEnds, Crash, NoClaim
  <2>3. CASE Rebalance \/ Restart \/ UNCHANGED vars
    BY <2>3 DEF Rebalance, Restart, vars
  <2>4. QED
    BY <2>1, <2>2, <2>3
<1>4. RowsInv'
  BY <1>1, <1>3, RowsStay DEF LinesInv
<1>5. ASSUME NEW p \in Partitions PROVE MarkedIsTaken(p)' /\ DocsInv(p)'
  <2>1. MarkedIsTaken(p) /\ DocsInv(p) /\ Position(p) /\ Broker(p)
    BY DEF LinesInv, TraceInv
  <2>2. /\ claim[p].pos \in Nat /\ claim[p].marked \in Offset /\ committed[p] \in Offset /\ produced[p] \in Nat
        /\ claim[p].pos <= produced[p]
    BY <2>1, PartitionTypes DEF Position
  <2>3. \A o \in Offsets(p) : o \in Int
    BY DEF Offsets
  <2>4. CASE Consume
    <3>1. claim[p].pc = "none" /\ committed' = committed /\ faults' = faults
      BY <2>1, <2>4 DEF Consume, Position
    <3>2. /\ claim'[p].pc = "idle" /\ claim'[p].marked = None
          /\ claim'[p].pos = IF committed[p] = None THEN produced[p] ELSE committed[p]
      BY <2>4 DEF Consume, NoClaim
    <3>3. MarkedIsTaken(p)'
      BY <3>1, <3>2 DEF MarkedIsTaken
    <3>4. \A o \in Offsets(p) : Covered(p, o) => Covered(p, o)'
      BY <3>1, <3>2 DEF Covered
    <3>5. QED
      BY <1>1, <1>2, <2>1, <3>1, <3>3, <3>4, DocsStay
  <2>5. CASE SessionEnds
    <3>1. claim[p].pc = "returned" /\ claim'[p].pc = "none" /\ committed'[p] = Stored(p) /\ faults' = faults
      BY <2>5 DEF SessionEnds, NoClaim
    <3>2. MarkedIsTaken(p)'
      BY <3>1 DEF MarkedIsTaken
    <3>3. committed'[p] = None \/ committed'[p] = claim[p].pos
      BY <2>1, <3>1 DEF MarkedIsTaken, Stored
    <3>4. \A o \in Offsets(p) : Covered(p, o) => Covered(p, o)'
      BY <1>1, <2>2, <2>3, <3>1, <3>3 DEF Covered, None
    <3>5. QED
      BY <1>1, <1>2, <2>1, <3>1, <3>2, <3>4, DocsStay
  <2>6. CASE Crash
    <3>1. claim'[p].pc = "none" /\ faults' = faults + 1
      BY <2>6 DEF Crash, NoClaim
    <3>2. MarkedIsTaken(p)'
      BY <3>1 DEF MarkedIsTaken
    <3>3. QED
      BY <1>1, <1>2, <2>1, <3>1, <3>2, DocsStay
  <2>7. CASE Rebalance \/ Restart \/ UNCHANGED vars
    <3>1. claim' = claim /\ committed' = committed
      BY <2>7 DEF Rebalance, Restart, vars
    <3>2. QED
      BY <1>1, <1>2, <2>1, <3>1, UnmovedStays
  <2>8. QED
    BY <2>4, <2>5, <2>6, <2>7
<1>6. QED
  BY <1>4, <1>5 DEF LinesInv

(* A handler that fails or has nothing to index.                           *)
LEMMA HandlerLines ==
    ASSUME TraceInv, LinesInv, NEW p \in Partitions, HandlerFails(p) \/ HandlerIgnores(p) \/ CountFails(p)
    PROVE  LinesInv'
<1>1. /\ claim[p].pc \in {"idle", "write"} /\ UNCHANGED <<produced, committed, rows, docs>>
      /\ faults' \in {faults, faults + 1}
      /\ \/ handled' = handled /\ claim' = [claim EXCEPT ![p].pc = "returned"]
         \/ /\ claim' = [claim EXCEPT ![p].pc = "mark"] /\ handled' = [handled EXCEPT ![p] = @ \cup {claim[p].pos}]
            /\ MessageAt(p, claim[p].pos).body # "log" \/ ~EsClient
  <2>1. CASE HandlerFails(p)
    BY <2>1 DEF HandlerFails, Taking, Fails, history
  <2>2. CASE HandlerIgnores(p)
    <3>1. PICK m \in Message :
            /\ Taking(p, m) /\ m.type # "UNSPECIFIED" /\ (m.body = "ignored" \/ (m.type \in {"POD", "Service"} /\ ~EsClient))
      BY <2>2 DEF HandlerIgnores
    <3>2. MessageAt(p, claim[p].pos).body # "log" \/ ~EsClient
      BY <3>1 DEF Taking
    <3>3. QED
      BY <2>2, <3>1, <3>2 DEF HandlerIgnores, Taking, Succeeds
  <2>3. CASE CountFails(p)
    BY <2>3 DEF CountFails, Taking, Fails, history
  <2>4. QED
    BY <2>1, <2>2, <2>3
<1>2. /\ claim \in [Partitions -> Claims] /\ faults \in Nat /\ claim[p].pos \in Nat
      /\ handled = [q \in Partitions |-> handled[q]] /\ docs[p] \in [Offsets(p) -> Nat]
  BY PartitionTypes
<1>3. /\ claim'[p].pc \in {"returned", "mark"} /\ claim'[p].pos = claim[p].pos /\ claim'[p].marked = claim[p].marked
      /\ \A q \in Partitions \ {p} : claim'[q] = claim[q] /\ handled'[q] = handled[q]
  BY <1>1, <1>2 DEF Claims
<1>4. RowsInv'
  <2>1. \A q \in Partitions : claim'[q].pc = "write" => claim'[q] = claim[q]
    BY <1>3
  <2>2. QED
    BY <1>1, <2>1, RowsStay DEF LinesInv
<1>5. MarkedIsTaken(p)'
  BY <1>1, <1>3 DEF LinesInv, MarkedIsTaken
<1>6. \A o \in Offsets(p) : Covered(p, o) => Covered(p, o)'
  BY <1>1, <1>3 DEF Covered
<1>7. DocsInv(p)'
  <2>1. SUFFICES ASSUME NEW o \in Offsets(p)
                 PROVE  /\ docs[p][o] <= IF Covered(p, o)' THEN faults' + 1 ELSE faults'
                        /\ MessageAt(p, o).body = "log" /\ EsClient /\ o \in handled'[p] => docs[p][o] >= 1
    BY <1>1 DEF DocsInv, Offsets, MessageAt
  <2>2. /\ docs[p][o] \in Nat /\ docs[p][o] <= IF Covered(p, o) THEN faults + 1 ELSE faults
        /\ MessageAt(p, o).body = "log" /\ EsClient /\ o \in handled[p] => docs[p][o] >= 1
    BY <1>2 DEF LinesInv, DocsInv
  <2>3. Covered(p, o) => Covered(p, o)'
    BY <1>6
  <2> HIDE DEF Covered
  <2>4. docs[p][o] <= IF Covered(p, o)' THEN faults' + 1 ELSE faults'
    BY <1>1, <1>2, <2>2, <2>3
  <2>5. MessageAt(p, o).body = "log" /\ EsClient /\ o \in handled'[p] => o \in handled[p]
    BY <1>1, <1>2
  <2>6. QED
    BY <2>2, <2>4, <2>5
<1>8. QED
  BY <1>1, <1>2, <1>3, <1>4, <1>5, <1>7, OneMoves

(* A document arrives: it is behind the claim, or the call failed.         *)
LEMMA IndexLines ==
    ASSUME TraceInv, LinesInv, NEW p \in Partitions, IndexDocument(p)
    PROVE  LinesInv'
<1> DEFINE at == claim[p].pos
<1>1. PICK arrived, ok \in BOOLEAN :
        /\ ok => arrived
        /\ docs' = IF arrived THEN [docs EXCEPT ![p][at] = @ + 1] ELSE docs
        /\ IF ok THEN Succeeds(p) /\ UNCHANGED <<session, faults>>
           ELSE Fails(p) /\ faults' = faults + 1 /\ UNCHANGED handled
  BY DEF IndexDocument
<1>2. /\ claim[p].pc = "idle" /\ claim[p].pos < produced[p] /\ UNCHANGED <<produced, committed, rows>>
      /\ faults' \in {faults, faults + 1}
  BY <1>1 DEF IndexDocument, Taking
<1>3. /\ claim \in [Partitions -> Claims] /\ faults \in Nat /\ at \in Offsets(p)
      /\ handled = [q \in Partitions |-> handled[q]] /\ docs = [q \in Partitions |-> docs[q]]
      /\ docs[p] \in [Offsets(p) -> Nat] /\ at \in Nat
  BY <1>2, PartitionTypes, AtMessage
<1>4. /\ claim' = [claim EXCEPT ![p].pc = IF ok THEN "mark" ELSE "returned"]
      /\ handled' = IF ok THEN [handled EXCEPT ![p] = @ \cup {at}] ELSE handled
      /\ faults' = IF ok THEN faults ELSE faults + 1
  BY <1>1 DEF Succeeds, Fails
<1>5. /\ claim'[p].pc = (IF ok THEN "mark" ELSE "returned") /\ claim'[p].pos = at /\ claim'[p].marked = claim[p].marked
      /\ \A q \in Partitions \ {p} : claim'[q] = claim[q] /\ handled'[q] = handled[q] /\ docs'[q] = docs[q]
      /\ handled'[p] \subseteq handled[p] \cup (IF ok THEN {at} ELSE {})
  BY <1>1, <1>3, <1>4 DEF Claims
<1>6. RowsInv'
  <2>1. \A q \in Partitions : claim'[q].pc = "write" => claim'[q] = claim[q]
    BY <1>5
  <2>2. QED
    BY <1>2, <2>1, RowsStay DEF LinesInv
<1>7. MarkedIsTaken(p)'
  BY <1>2, <1>5 DEF LinesInv, MarkedIsTaken
<1>8. DocsInv(p)'
  <2>1. SUFFICES ASSUME NEW o \in Offsets(p)
                 PROVE  /\ docs'[p][o] <= IF Covered(p, o)' THEN faults' + 1 ELSE faults'
                        /\ MessageAt(p, o).body = "log" /\ EsClient /\ o \in handled'[p] => docs'[p][o] >= 1
    BY DEF DocsInv, Offsets, MessageAt
  <2>2. /\ docs[p][o] \in Nat /\ docs[p][o] <= IF Covered(p, o) THEN faults + 1 ELSE faults
        /\ MessageAt(p, o).body = "log" /\ EsClient /\ o \in handled[p] => docs[p][o] >= 1
    BY <1>3 DEF LinesInv, DocsInv
  <2>3. docs'[p][o] = IF arrived /\ o = at THEN docs[p][o] + 1 ELSE docs[p][o]
    BY <1>1, <1>3
  <2>4. CASE o = at
    <3>1. ~Covered(p, o) /\ Covered(p, o)' = ok
      BY <1>2, <1>3, <1>5, <2>4 DEF Covered
    <3>2. docs[p][o] <= faults
      BY <2>2, <3>1
    <3>3. docs'[p][o] <= IF Covered(p, o)' THEN faults' + 1 ELSE faults'
      BY <1>3, <1>4, <2>2, <2>3, <2>4, <3>1, <3>2
    <3>4. o \in handled'[p] => o \in handled[p] \/ arrived
      BY <1>1, <1>5
    <3>5. QED
      BY <2>2, <2>3, <2>4, <3>3, <3>4
  <2>5. CASE o # at
    <3>1. Covered(p, o)' = Covered(p, o)
      BY <1>2, <1>5, <2>5 DEF Covered
    <3>2. docs'[p][o] <= IF Covered(p, o)' THEN faults' + 1 ELSE faults'
      BY <1>2, <1>3, <2>2, <2>3, <2>5, <3>1
    <3>3. QED
      BY <1>5, <2>2, <2>3, <2>5, <3>2
  <2>6. QED
    BY <2>4, <2>5
<1>9. QED
  BY <1>2, <1>3, <1>5, <1>6, <1>7, <1>8, OneMoves

(* A count is read: without a row the claim joins those about to insert.    *)
LEMMA ReadLines ==
    ASSUME TraceInv, LinesInv, NEW p \in Partitions, ReadCount(p)
    PROVE  LinesInv'
<1>1. PICK m \in Message :
        /\ Taking(p, m) /\ m.body \in Routes
        /\ claim' = [claim EXCEPT ![p].pc = "write", ![p].seen = IF rows[m.body] = <<>> THEN None
                                                                 ELSE Head(rows[m.body])]
  BY DEF ReadCount
<1>2. claim[p].pc = "idle" /\ MessageAt(p, claim[p].pos) = m /\ UNCHANGED <<produced, committed, rows, docs, faults, handled>>
  BY <1>1 DEF ReadCount, Taking, history
<1>3. claim \in [Partitions -> Claims] /\ faults \in Nat /\ claim[p].pos \in Nat
  BY PartitionTypes
<1>4. /\ claim'[p].pc = "write" /\ claim'[p].pos = claim[p].pos /\ claim'[p].marked = claim[p].marked
      /\ claim'[p].seen = (IF rows[m.body] = <<>> THEN None ELSE Head(rows[m.body]))
      /\ \A q \in Partitions \ {p} : claim'[q] = claim[q]
  BY <1>1, <1>3 DEF Claims
<1>5. RowsInv'
  <2>1. SUFFICES ASSUME NEW r \in Routes, rows[r] # <<>>
                 PROVE  Len(rows[r]) + Cardinality(Inserting(r)') <= Cardinality(Partitions)
    BY <1>2 DEF RowsInv
  <2>2. RouteOf(p)' = m.body
    BY <1>2, <1>4 DEF RouteOf, MessageAt
  <2>3. r = m.body => claim'[p].seen # None
    <3>1. rows[r] \in Seq(Nat)
      BY DEF TraceInv, Types
    <3>2. Head(rows[r]) \in Nat
      BY <2>1, <3>1
    <3>3. QED
      BY <1>4, <2>1, <3>2 DEF None
  <2>4. Inserting(r)' \subseteq Inserting(r)
    BY <1>4, <2>2, <2>3 DEF Inserting, RouteOf, MessageAt
  <2>5. IsFiniteSet(Inserting(r)) /\ Cardinality(Inserting(r)) \in Nat /\ Cardinality(Partitions) \in Nat
    <3>1. Inserting(r) \subseteq Partitions
      BY DEF Inserting
    <3>2. QED
      BY <3>1, LogAssumption, FS_Subset, FS_CardinalityType
  <2>6. Cardinality(Inserting(r)') <= Cardinality(Inserting(r)) /\ Cardinality(Inserting(r)') \in Nat
    BY <2>4, <2>5, FS_Subset, FS_CardinalityType
  <2>7. Len(rows[r]) \in Nat
    BY DEF TraceInv, Types
  <2>8. QED
    BY <2>1, <2>5, <2>6, <2>7 DEF LinesInv, RowsInv
<1>6. MarkedIsTaken(p)'
  BY <1>2, <1>4 DEF LinesInv, MarkedIsTaken
<1>7. DocsInv(p)'
  <2>1. \A o \in Offsets(p) : Covered(p, o) => Covered(p, o)'
    BY <1>2, <1>4 DEF Covered
  <2>2. QED
    BY <1>2, <1>3, <2>1, DocsStay DEF LinesInv
<1>8. QED
  BY <1>2, <1>3, <1>4, <1>5, <1>6, <1>7, OneMoves

(* A count is stored: the claim that inserts is no longer about to.         *)
LEMMA WriteLines ==
    ASSUME TraceInv, LinesInv, NEW p \in Partitions, WriteCount(p)
    PROVE  LinesInv'
<1> DEFINE r == RouteOf(p)
           seen == claim[p].seen
<1>1. /\ claim[p].pc = "write" /\ claim' = [claim EXCEPT ![p].pc = "mark", ![p].seen = None]
      /\ rows' = [rows EXCEPT ![r] = IF seen = None THEN Append(@, 1) ELSE [i \in DOMAIN @ |-> seen + 1]]
      /\ handled' = [handled EXCEPT ![p] = @ \cup {claim[p].pos}]
      /\ UNCHANGED <<produced, committed, docs, faults>>
  BY DEF WriteCount
<1>2. /\ claim \in [Partitions -> Claims] /\ faults \in Nat /\ claim[p].pos \in Nat
      /\ handled = [q \in Partitions |-> handled[q]] /\ docs[p] \in [Offsets(p) -> Nat]
  BY PartitionTypes
<1>3. /\ claim'[p].pc = "mark" /\ claim'[p].pos = claim[p].pos /\ claim'[p].marked = claim[p].marked
      /\ \A q \in Partitions \ {p} : claim'[q] = claim[q] /\ handled'[q] = handled[q]
      /\ handled'[p] = handled[p] \cup {claim[p].pos}
  BY <1>1, <1>2 DEF Claims
<1>4. r \in Routes /\ rows \in [Routes -> Seq(Nat)]
  BY <1>1 DEF TraceInv, Seen, Types
<1>5. RowsInv'
  <2>1. SUFFICES ASSUME NEW t \in Routes, rows'[t] # <<>>
                 PROVE  Len(rows'[t]) + Cardinality(Inserting(t)') <= Cardinality(Partitions)
    BY DEF RowsInv
  <2>2. Inserting(t)' = Inserting(t) \ {p}
    BY <1>3 DEF Inserting, RouteOf, MessageAt
  <2>3. /\ IsFiniteSet(Inserting(t)) /\ Cardinality(Inserting(t)) \in Nat /\ Cardinality(Partitions) \in Nat
        /\ Cardinality(Inserting(t)) <= Cardinality(Partitions)
    <3>1. Inserting(t) \subseteq Partitions
      BY DEF Inserting
    <3>2. QED
      BY <3>1, LogAssumption, FS_Subset, FS_CardinalityType
  <2>4. Cardinality(Inserting(t)') = IF p \in Inserting(t) THEN Cardinality(Inserting(t)) - 1 ELSE Cardinality(Inserting(t))
    BY <2>2, <2>3, FS_RemoveElement
  <2>5. Len(rows[t]) \in Nat /\ rows[t] \in Seq(Nat) /\ (rows[t] = <<>> => Len(rows[t]) = 0)
    BY <1>4
  <2>6. rows[t] # <<>> => Len(rows[t]) + Cardinality(Inserting(t)) <= Cardinality(Partitions)
    BY DEF LinesInv, RowsInv
  <2>7. CASE t = r /\ seen = None
    <3>1. p \in Inserting(t)
      BY <1>1, <2>7 DEF Inserting
    <3>2. rows'[t] = Append(rows[t], 1) /\ Len(rows'[t]) = Len(rows[t]) + 1
      BY <1>1, <1>4, <2>5, <2>7
    <3>3. QED
      BY <2>3, <2>4, <2>5, <2>6, <3>1, <3>2
  <2>8. CASE t # r \/ seen # None
    <3>1. Len(rows'[t]) = Len(rows[t]) /\ (rows[t] = <<>> => rows'[t] = <<>>)
      <4>1. CASE t # r
        BY <1>1, <1>4, <4>1
      <4>2. CASE t = r /\ seen # None
        <5>1. rows'[t] = [i \in DOMAIN rows[t] |-> seen + 1]
          BY <1>1, <1>4, <4>2
        <5>2. DOMAIN rows[t] = 1 .. Len(rows[t])
          BY <2>5
        <5>3. seen + 1 \in Int
          BY <4>2, PartitionTypes DEF Offset, None
        <5>4. rows'[t] \in Seq(Int) /\ Len(rows'[t]) = Len(rows[t])
          BY <2>5, <5>1, <5>2, <5>3
        <5>5. QED
          BY <2>5, <5>4
      <4>3. QED
        BY <2>8, <4>1, <4>2
    <3>2. QED
      BY <2>1, <2>3, <2>4, <2>5, <2>6, <3>1
  <2>9. QED
    BY <2>7, <2>8
<1>6. MarkedIsTaken(p)'
  BY <1>1, <1>3 DEF LinesInv, MarkedIsTaken
<1>7. DocsInv(p)'
  <2>1. MessageAt(p, claim[p].pos).body # "log"
    BY <1>4, LogAssumption DEF RouteOf
  <2>2. SUFFICES ASSUME NEW o \in Offsets(p)
                 PROVE  /\ docs[p][o] <= IF Covered(p, o)' THEN faults + 1 ELSE faults
                        /\ MessageAt(p, o).body = "log" /\ EsClient /\ o \in handled'[p] => docs[p][o] >= 1
    BY <1>1 DEF DocsInv, Offsets, MessageAt
  <2>3. /\ docs[p][o] \in Nat /\ docs[p][o] <= IF Covered(p, o) THEN faults + 1 ELSE faults
        /\ MessageAt(p, o).body = "log" /\ EsClient /\ o \in handled[p] => docs[p][o] >= 1
    BY <1>2 DEF LinesInv, DocsInv
  <2>4. Covered(p, o) => Covered(p, o)'
    BY <1>1, <1>3 DEF Covered
  <2>5. QED
    BY <1>2, <1>3, <2>1, <2>3, <2>4
<1>8. QED
  BY <1>1, <1>2, <1>3, <1>5, <1>6, <1>7, OneMoves

(* A message is marked, or the claim returns between two.                  *)
LEMMA MarkLines ==
    ASSUME TraceInv, LinesInv, NEW p \in Partitions, MarkMessage(p) \/ ClaimReturns(p)
    PROVE  LinesInv'
<1>1. /\ UNCHANGED <<produced, committed, rows, docs, faults, handled>>
      /\ \/ /\ claim[p].pc = "mark"
            /\ claim' = [claim EXCEPT ![p].pc = "idle", ![p].pos = @ + 1, ![p].marked = claim[p].pos + 1]
         \/ claim[p].pc = "idle" /\ claim' = [claim EXCEPT ![p].pc = "returned"]
  BY DEF MarkMessage, ClaimReturns, history
<1>2. claim \in [Partitions -> Claims] /\ faults \in Nat /\ claim[p].pos \in Nat
  BY PartitionTypes
<1>3. /\ \A q \in Partitions \ {p} : claim'[q] = claim[q]
      /\ \/ /\ claim[p].pc = "mark" /\ claim'[p].pc = "idle"
            /\ claim'[p].pos = claim[p].pos + 1 /\ claim'[p].marked = claim[p].pos + 1
         \/ /\ claim[p].pc = "idle" /\ claim'[p].pc = "returned"
            /\ claim'[p].pos = claim[p].pos /\ claim'[p].marked = claim[p].marked
  BY <1>1, <1>2 DEF Claims
<1>4. RowsInv'
  <2>1. \A q \in Partitions : claim'[q].pc = "write" => claim'[q] = claim[q]
    BY <1>3
  <2>2. QED
    BY <1>1, <2>1, RowsStay DEF LinesInv
<1>5. MarkedIsTaken(p)'
  BY <1>1, <1>2, <1>3 DEF LinesInv, MarkedIsTaken, None
<1>6. \A o \in Offsets(p) : Covered(p, o) => Covered(p, o)'
  <2>1. \A o \in Offsets(p) : o \in Int
    BY DEF Offsets
  <2>2. QED
    BY <1>2, <1>3, <2>1 DEF Covered
<1>7. DocsInv(p)'
  BY <1>1, <1>2, <1>6, DocsStay DEF LinesInv
<1>8. QED
  BY <1>1, <1>2, <1>3, <1>4, <1>5, <1>7, OneMoves

LEMMA LinesNext == ASSUME TraceInv, LinesInv, [Next]_vars PROVE LinesInv'
<1>1. ASSUME NEW p \in Partitions, Produce(p) \/ AutoCommit(p) \/ ConsumeClaim(p) PROVE LinesInv'
  BY <1>1, BrokerLines, HandlerLines, IndexLines, ReadLines, WriteLines, MarkLines DEF ConsumeClaim
<1>2. QED
  BY <1>1, SessionLines DEF Next

(* With both, a handled log has a document, and one more for each fault ... *)
LEMMA IndexedAre == ASSUME TraceInv, LinesInv PROVE LogsAreIndexed
<1>1. faults \in 0 .. MaxFaults /\ MaxFaults \in Nat
  BY LogAssumption DEF TraceInv, Types
<1>2. SUFFICES ASSUME NEW p \in Partitions, NEW o \in Offsets(p),
                      MessageAt(p, o).body = "log", EsClient, o \in handled[p]
               PROVE  docs[p][o] \in 1 .. 1 + MaxFaults
  BY DEF LogsAreIndexed
<1>3. docs[p][o] \in Nat
  BY PartitionTypes
<1>4. docs[p][o] <= (IF Covered(p, o) THEN faults + 1 ELSE faults) /\ docs[p][o] >= 1
  BY <1>2 DEF LinesInv, DocsInv
<1>5. QED
  BY <1>1, <1>3, <1>4

(* ... and rows are no more than the partitions.                           *)
LEMMA BoundedAre == ASSUME TraceInv, LinesInv PROVE RowsAreBounded
<1>1. SUFFICES ASSUME NEW r \in Routes PROVE Len(rows[r]) <= Cardinality(Partitions)
  BY DEF RowsAreBounded
<1>2. Inserting(r) \subseteq Partitions /\ IsFiniteSet(Partitions)
  BY LogAssumption DEF Inserting
<1>3. Cardinality(Inserting(r)) \in Nat /\ Cardinality(Partitions) \in Nat
  BY <1>2, FS_Subset, FS_CardinalityType
<1>4. Len(rows[r]) \in Nat /\ (rows[r] = <<>> => Len(rows[r]) = 0)
  BY DEF TraceInv, Types
<1>5. QED
  BY <1>3, <1>4 DEF LinesInv, RowsInv

-----------------------------------------------------------------------------
(* The pipeline with one partition: what is committed, passed or marked     *)
(* was handled, and a claim that writes has seen the one count there is.    *)
OnlyTypes ==
    /\ s1 \in [{"p1"} -> Nat] /\ s2 \in [{"p1"} -> Offset] /\ s5 \in [{"p1"} -> Claims]
    /\ s6 \in [OneRoutes -> Seq(Nat)] /\ s10 \in [OneRoutes -> Nat]
    /\ s9 = [p \in {"p1"} |-> s9[p]] /\ s11 \in [{"p1"} -> Nat]
OnlyDone(n) == \A o \in s11["p1"] .. n - 1 : o \in s9["p1"]
OnlyPosition ==
    /\ OnlyDone(s2["p1"])
    /\ s5["p1"].pc # "none" => OnlyDone(s5["p1"].pos)
    /\ s5["p1"].pc = "mark" => s5["p1"].pos \in s9["p1"]
    /\ s5["p1"].marked # None => OnlyDone(s5["p1"].marked)
OnlyRoute == One!RouteOf("p1")
OnlyCount ==
    /\ \A r \in OneRoutes : s6[r] = IF s10[r] = 0 THEN <<>> ELSE <<s10[r]>>
    /\ s5["p1"].pc = "write" =>
         OnlyRoute \in OneRoutes /\ s5["p1"].seen = IF s10[OnlyRoute] = 0 THEN None ELSE s10[OnlyRoute]
OnlyInv == OnlyTypes /\ OnlyPosition /\ OnlyCount

LEMMA OnlyInitially == ASSUME One!Init PROVE OnlyInv
<1>1. NoClaim \in Claims /\ One!NoClaim = NoClaim
  BY DEF NoClaim, One!NoClaim, Claims, Offset, None, One!None
<1>2. /\ s1 = [p \in {"p1"} |-> 0] /\ s2 = [p \in {"p1"} |-> None] /\ s5 = [p \in {"p1"} |-> NoClaim]
      /\ s6 = [r \in OneRoutes |-> <<>>] /\ s10 = [r \in OneRoutes |-> 0]
      /\ s9 = [p \in {"p1"} |-> {}] /\ s11 = [p \in {"p1"} |-> 0]
  BY <1>1 DEF One!Init, One!None, None
<1>3. OnlyTypes
  BY <1>1, <1>2 DEF OnlyTypes, Offset, None
<1>4. OnlyPosition
  BY <1>2 DEF OnlyPosition, OnlyDone, NoClaim, None
<1>5. OnlyCount
  BY <1>2 DEF OnlyCount, NoClaim
<1>6. QED
  BY <1>3, <1>4, <1>5 DEF OnlyInv

(* The counts and what a writing claim has seen stay.                      *)
LEMMA OnlyCountStays ==
    ASSUME OnlyInv, UNCHANGED <<s6, s10>>, s5'["p1"].pc = "write" => s5'["p1"] = s5["p1"]
    PROVE  OnlyCount'
BY DEF OnlyInv, OnlyCount, OnlyRoute, One!RouteOf, One!MessageAt

(* Messages arrive, sessions begin, are ended and are lost.                *)
LEMMA OnlySession ==
    ASSUME OnlyInv, \/ One!Produce("p1") \/ One!Consume \/ One!Rebalance \/ One!SessionEnds \/ One!Crash
                    \/ One!Restart \/ UNCHANGED <<s1, s2, s5, s6, s9, s10, s11>> \/ One!AutoCommit("p1")
    PROVE  OnlyInv'
<1>1. UNCHANGED <<s6, s9, s10>>
  BY DEF One!Produce, One!Consume, One!Rebalance, One!SessionEnds, One!Crash, One!Restart, One!AutoCommit,
         One!history
<1>2. One!NoClaim = NoClaim /\ One!None = None
  BY DEF One!NoClaim, NoClaim, One!None, None
<1>3. /\ OnlyTypes /\ OnlyPosition /\ s2["p1"] \in Offset /\ s1["p1"] \in Nat /\ s11["p1"] \in Nat
      /\ s5["p1"] \in Claims /\ s5["p1"].marked \in Offset
  BY DEF OnlyInv, OnlyTypes, Claims
<1>4. NoClaim \in Claims /\ NoClaim.pc = "none" /\ NoClaim.marked = None
  BY DEF NoClaim, Claims, Offset, None
<1>5. CASE One!Produce("p1") \/ One!Rebalance \/ One!Restart \/ UNCHANGED <<s1, s2, s5, s6, s9, s10, s11>>
  <2>1. UNCHANGED <<s2, s5, s11>> /\ (s1' = s1 \/ s1' = [s1 EXCEPT !["p1"] = @ + 1])
    BY <1>5 DEF One!Produce, One!Rebalance, One!Restart, One!history
  <2>2. OnlyTypes'
    BY <1>1, <1>3, <2>1 DEF OnlyTypes
  <2>3. OnlyPosition'
    BY <1>1, <1>3, <2>1 DEF OnlyPosition, OnlyDone
  <2>4. QED
    BY <1>1, <2>1, <2>2, <2>3, OnlyCountStays DEF OnlyInv
<1>6. CASE One!AutoCommit("p1")
  <2>1. UNCHANGED <<s1, s5, s11>> /\ s5["p1"].marked # None /\ s2' = [s2 EXCEPT !["p1"] = s5["p1"].marked]
    BY <1>2, <1>6 DEF One!AutoCommit, One!Stored, One!history
  <2>2. OnlyTypes'
    BY <1>1, <1>3, <2>1 DEF OnlyTypes
  <2>3. s2'["p1"] = s5["p1"].marked
    BY <1>3, <2>1 DEF OnlyTypes
  <2>4. OnlyPosition'
    BY <1>1, <1>3, <2>1, <2>3 DEF OnlyPosition, OnlyDone
  <2>5. QED
    BY <1>1, <2>1, <2>2, <2>4, OnlyCountStays DEF OnlyInv
<1>7. CASE One!SessionEnds \/ One!Crash
  <2>1. /\ UNCHANGED <<s1, s11>> /\ s5' = [p \in {"p1"} |-> NoClaim]
        /\ s2' = s2 \/ s2' = [p \in {"p1"} |-> IF s5[p].marked = None THEN s2[p] ELSE s5[p].marked]
    BY <1>2, <1>7 DEF One!SessionEnds, One!Crash, One!Stored, One!history
  <2>2. s5'["p1"] = NoClaim /\ (s2'["p1"] = s2["p1"] \/ (s2'["p1"] = s5["p1"].marked /\ s5["p1"].marked # None))
    BY <2>1
  <2>3. OnlyTypes'
    <3>1. s2' \in [{"p1"} -> Offset]
      BY <1>3, <2>1 DEF OnlyTypes
    <3>2. QED
      BY <1>1, <1>3, <1>4, <2>1, <3>1 DEF OnlyTypes
  <2>4. OnlyPosition'
    BY <1>1, <1>3, <1>4, <2>1, <2>2 DEF OnlyPosition, OnlyDone
  <2>5. QED
    BY <1>1, <1>4, <2>2, <2>3, <2>4, OnlyCountStays DEF OnlyInv
<1>8. CASE One!Consume
  <2> DEFINE start == IF s2["p1"] = None THEN s1["p1"] ELSE s2["p1"]
  <2>1. /\ UNCHANGED <<s1, s2>>
        /\ s5' = [p \in {"p1"} |-> [NoClaim EXCEPT !.pc = "idle", !.pos = IF s2[p] = None THEN s1[p] ELSE s2[p]]]
        /\ s11' = [p \in {"p1"} |-> IF s2[p] = None THEN s1[p] ELSE s11[p]]
    BY <1>2, <1>8 DEF One!Consume
  <2>2. start \in Nat
    BY <1>3 DEF Offset
  <2>3. s5'["p1"] \in Claims /\ s5'["p1"].pc = "idle" /\ s5'["p1"].pos = start /\ s5'["p1"].marked = None
    BY <2>1, <2>2 DEF NoClaim, Claims, Offset, None
  <2>4. s11'["p1"] \in Nat /\ s11'["p1"] = IF s2["p1"] = None THEN s1["p1"] ELSE s11["p1"]
    BY <1>3, <2>1
  <2>5. OnlyTypes'
    BY <1>1, <1>3, <2>1, <2>3, <2>4 DEF OnlyTypes
  <2>6. OnlyDone(s2["p1"])' /\ OnlyDone(start)'
    BY <1>1, <1>3, <2>1, <2>4 DEF OnlyPosition, OnlyDone, Offset, None
  <2>7. OnlyPosition'
    BY <2>1, <2>3, <2>6 DEF OnlyPosition, OnlyDone
  <2>8. QED
    BY <1>1, <2>3, <2>5, <2>7, OnlyCountStays DEF OnlyInv
<1>9. QED
  BY <1>5, <1>6, <1>7, <1>8

(* The handler of a message, up to where nothing is counted, and the mark.  *)
LEMMA OnlyHandler ==
    ASSUME OnlyInv, \/ One!HandlerFails("p1") \/ One!HandlerIgnores("p1") \/ One!IndexDocument("p1")
                    \/ One!CountFails("p1") \/ One!MarkMessage("p1") \/ One!ClaimReturns("p1")
    PROVE  OnlyInv'
<1>1. /\ OnlyTypes /\ OnlyPosition /\ s5["p1"] \in Claims /\ s5["p1"].pos \in Nat /\ s11["p1"] \in Nat
      /\ s5 \in [{"p1"} -> Claims] /\ s5["p1"].marked \in Offset
  BY DEF OnlyInv, OnlyTypes, Claims
<1>2. /\ UNCHANGED <<s1, s2, s6, s10, s11>> /\ s5["p1"].pc # "none"
      /\ \/ s9' = s9 /\ s5' = [s5 EXCEPT !["p1"].pc = "returned"]
         \/ s9' = [s9 EXCEPT !["p1"] = @ \cup {s5["p1"].pos}] /\ s5' = [s5 EXCEPT !["p1"].pc = "mark"]
         \/ /\ s9' = s9 /\ s5["p1"].pc = "mark"
            /\ s5' = [s5 EXCEPT !["p1"].pc = "idle", !["p1"].pos = @ + 1, !["p1"].marked = s5["p1"].pos + 1]
  <2>1. CASE One!HandlerFails("p1") \/ One!HandlerIgnores("p1")
    BY <2>1 DEF One!HandlerFails, One!HandlerIgnores, One!Taking, One!Fails, One!Succeeds, One!history
  <2>2. CASE One!IndexDocument("p1")
    BY <2>2 DEF One!IndexDocument, One!Taking, One!Fails, One!Succeeds
  <2>3. CASE One!CountFails("p1")
    BY <2>3 DEF One!CountFails, One!Taking, One!Fails, One!history
  <2>4. CASE One!MarkMessage("p1") \/ One!ClaimReturns("p1")
    BY <2>4 DEF One!MarkMessage, One!ClaimReturns, One!history
  <2>5. QED
    BY <2>1, <2>2, <2>3, <2>4
<1>3. \A n : OnlyDone(n) => OnlyDone(n)'
  BY <1>1, <1>2 DEF OnlyDone, OnlyTypes
<1>4. CASE s9' = s9 /\ s5' = [s5 EXCEPT !["p1"].pc = "returned"]
  <2>1. /\ s5'["p1"] \in Claims /\ s5'["p1"].pc = "returned" /\ s5'["p1"].pos = s5["p1"].pos
        /\ s5'["p1"].marked = s5["p1"].marked /\ s5' \in [{"p1"} -> Claims]
    BY <1>1, <1>4 DEF Claims
  <2>2. OnlyTypes'
    BY <1>1, <1>2, <1>4, <2>1 DEF OnlyTypes
  <2>3. OnlyPosition'
    BY <1>1, <1>2, <1>3, <2>1 DEF OnlyPosition
  <2>4. QED
    BY <1>2, <2>1, <2>2, <2>3, OnlyCountStays DEF OnlyInv
<1>5. CASE s9' = [s9 EXCEPT !["p1"] = @ \cup {s5["p1"].pos}] /\ s5' = [s5 EXCEPT !["p1"].pc = "mark"]
  <2>1. /\ s5'["p1"] \in Claims /\ s5'["p1"].pc = "mark" /\ s5'["p1"].pos = s5["p1"].pos
        /\ s5'["p1"].marked = s5["p1"].marked /\ s5' \in [{"p1"} -> Claims]
    BY <1>1, <1>5 DEF Claims
  <2>2. s5["p1"].pos \in s9'["p1"] /\ s9' = [p \in {"p1"} |-> s9'[p]]
    BY <1>1, <1>5 DEF OnlyTypes
  <2>3. OnlyTypes'
    BY <1>1, <1>2, <2>1, <2>2 DEF OnlyTypes
  <2>4. OnlyPosition'
    BY <1>1, <1>2, <1>3, <2>1, <2>2 DEF OnlyPosition
  <2>5. QED
    BY <1>2, <2>1, <2>3, <2>4, OnlyCountStays DEF OnlyInv
<1>6. CASE /\ s9' = s9 /\ s5["p1"].pc = "mark"
           /\ s5' = [s5 EXCEPT !["p1"].pc = "idle", !["p1"].pos = @ + 1, !["p1"].marked = s5["p1"].pos + 1]
  <2>1. /\ s5'["p1"] \in Claims /\ s5'["p1"].pc = "idle" /\ s5'["p1"].pos = s5["p1"].pos + 1
        /\ s5'["p1"].marked = s5["p1"].pos + 1 /\ s5' \in [{"p1"} -> Claims]
    BY <1>1, <1>6 DEF Claims, Offset
  <2>2. OnlyTypes'
    BY <1>1, <1>2, <1>6, <2>1 DEF OnlyTypes
  <2>3. \A o \in s11["p1"] .. (s5["p1"].pos + 1) - 1 : o \in s9["p1"]
    BY <1>1, <1>6 DEF OnlyPosition, OnlyDone
  <2>4. OnlyPosition'
    <3>1. OnlyDone(s2["p1"])'
      BY <1>1, <1>2, <1>6 DEF OnlyPosition, OnlyDone
    <3>2. OnlyDone(s5["p1"].pos)' /\ OnlyDone(s5["p1"].marked)'
      BY <1>2, <1>6, <2>1, <2>3 DEF OnlyDone
    <3>3. QED
      BY <2>1, <3>1, <3>2 DEF OnlyPosition
  <2>5. QED
    BY <1>2, <2>1, <2>2, <2>4, OnlyCountStays DEF OnlyInv
<1>7. QED
  BY <1>2, <1>4, <1>5, <1>6

(* A count is read ...                                                     *)
LEMMA OnlyRead == ASSUME OnlyInv, One!ReadCount("p1") PROVE OnlyInv'
<1> DEFINE at == s5["p1"].pos
<1>1. /\ OnlyTypes /\ OnlyPosition /\ OnlyCount /\ s5["p1"] \in Claims /\ s5 \in [{"p1"} -> Claims] /\ One!None = None
  BY DEF OnlyInv, OnlyTypes, One!None, None
<1>2. PICK m \in One!Message :
        /\ One!Taking("p1", m) /\ m.body \in OneRoutes
        /\ s5' = [s5 EXCEPT !["p1"].pc = "write", !["p1"].seen = IF s6[m.body] = <<>> THEN None ELSE Head(s6[m.body])]
  BY <1>1 DEF One!ReadCount
<1>3. /\ UNCHANGED <<s1, s2, s6, s9, s10, s11>> /\ s5["p1"].pc = "idle" /\ One!MessageAt("p1", at) = m
  BY <1>2 DEF One!ReadCount, One!Taking, One!history
<1>4. s10[m.body] \in Nat /\ s6[m.body] = IF s10[m.body] = 0 THEN <<>> ELSE <<s10[m.body]>>
  BY <1>1, <1>2 DEF OnlyTypes, OnlyCount
<1> DEFINE seen == IF s10[m.body] = 0 THEN None ELSE s10[m.body]
<1>5. (IF s6[m.body] = <<>> THEN None ELSE Head(s6[m.body])) = seen /\ seen \in Offset
  BY <1>4 DEF Offset
<1> HIDE DEF seen
<1>6. /\ s5'["p1"].pc = "write" /\ s5'["p1"].pos = at /\ s5'["p1"].marked = s5["p1"].marked /\ s5'["p1"].seen = seen
      /\ s5' \in [{"p1"} -> Claims]
  BY <1>1, <1>2, <1>5 DEF Claims
<1>7. OnlyTypes'
  BY <1>1, <1>3, <1>6 DEF OnlyTypes
<1>8. OnlyPosition'
  BY <1>1, <1>3, <1>6 DEF OnlyPosition, OnlyDone
<1>9. OnlyCount'
  <2>1. One!MessageAt("p1", at)' = One!MessageAt("p1", at)
    BY <1>6 DEF One!MessageAt
  <2>2. OnlyRoute' = m.body
    BY <1>3, <1>6 DEF OnlyRoute, One!RouteOf, One!MessageAt
  <2>3. QED
    BY <1>1, <1>2, <1>3, <1>6, <2>2 DEF OnlyCount, seen
<1>10. QED
  BY <1>7, <1>8, <1>9 DEF OnlyInv

(* ... and the next one stored.                                            *)
LEMMA OnlyWrite == ASSUME OnlyInv, One!WriteCount("p1") PROVE OnlyInv'
<1> DEFINE r == OnlyRoute
           seen == s5["p1"].seen
           at == s5["p1"].pos
<1>1. /\ OnlyTypes /\ OnlyPosition /\ OnlyCount /\ s5["p1"] \in Claims /\ s5 \in [{"p1"} -> Claims] /\ One!None = None
  BY DEF OnlyInv, OnlyTypes, One!None, None
<1>2. /\ s5["p1"].pc = "write" /\ s5' = [s5 EXCEPT !["p1"].pc = "mark", !["p1"].seen = None]
      /\ s6' = [s6 EXCEPT ![r] = IF seen = None THEN Append(@, 1) ELSE [i \in DOMAIN @ |-> seen + 1]]
      /\ s10' = [s10 EXCEPT ![r] = @ + 1] /\ s9' = [s9 EXCEPT !["p1"] = @ \cup {at}] /\ UNCHANGED <<s1, s2, s11>>
  BY <1>1 DEF One!WriteCount, OnlyRoute
<1>3. /\ r \in OneRoutes /\ seen = (IF s10[r] = 0 THEN None ELSE s10[r]) /\ s10[r] \in Nat
      /\ s6[r] = (IF s10[r] = 0 THEN <<>> ELSE <<s10[r]>>)
      /\ s6 \in [OneRoutes -> Seq(Nat)] /\ s10 \in [OneRoutes -> Nat]
  BY <1>1, <1>2 DEF OnlyTypes, OnlyCount
<1> HIDE DEF r, seen, at
<1>4. s6'[r] = <<s10[r] + 1>> /\ s10'[r] = s10[r] + 1 /\ \A t \in OneRoutes \ {r} : s6'[t] = s6[t] /\ s10'[t] = s10[t]
  <2>1. CASE s10[r] = 0
    BY <1>2, <1>3, <2>1
  <2>2. CASE s10[r] # 0
    <3>1. seen = s10[r] /\ seen # None /\ s6[r] = <<s10[r]>>
      BY <1>3, <2>2 DEF None
    <3>2. [i \in DOMAIN s6[r] |-> seen + 1] = <<s10[r] + 1>>
      BY <3>1
    <3>3. QED
      BY <1>2, <1>3, <3>1, <3>2
  <2>3. QED
    BY <1>3, <2>1, <2>2
<1>5. s6' \in [OneRoutes -> Seq(Nat)] /\ s10' \in [OneRoutes -> Nat]
  <2>1. <<s10[r] + 1>> \in Seq(Nat)
    BY <1>3
  <2>2. s6' = [s6 EXCEPT ![r] = <<s10[r] + 1>>]
    BY <1>2, <1>3, <1>4
  <2>3. s6' \in [OneRoutes -> Seq(Nat)]
    BY <1>3, <2>1, <2>2
  <2>4. s10' \in [OneRoutes -> Nat]
    BY <1>2, <1>3
  <2>5. QED
    BY <2>3, <2>4
<1>6. /\ s5'["p1"].pc = "mark" /\ s5'["p1"].pos = at /\ s5'["p1"].marked = s5["p1"].marked
      /\ s5' \in [{"p1"} -> Claims]
  BY <1>1, <1>2 DEF Claims, Offset, at
<1>7. s9' = [p \in {"p1"} |-> s9'[p]] /\ at \in s9'["p1"] /\ s9["p1"] \subseteq s9'["p1"]
  BY <1>1, <1>2 DEF OnlyTypes
<1>8. OnlyTypes'
  BY <1>1, <1>2, <1>5, <1>6, <1>7 DEF OnlyTypes
<1>9. OnlyPosition'
  <2>1. \A n : OnlyDone(n) => OnlyDone(n)'
    BY <1>2, <1>7 DEF OnlyDone
  <2>2. OnlyDone(s2["p1"]) /\ OnlyDone(at) /\ (s5["p1"].marked # None => OnlyDone(s5["p1"].marked))
    BY <1>1, <1>2 DEF OnlyPosition, at
  <2>3. QED
    BY <1>2, <1>6, <1>7, <2>1, <2>2 DEF OnlyPosition
<1>10. OnlyCount'
  <2>1. ASSUME NEW t \in OneRoutes PROVE s6'[t] = IF s10'[t] = 0 THEN <<>> ELSE <<s10'[t]>>
    <3>1. CASE t = r
      <4>1. s10'[t] # 0
        BY <1>3, <1>4, <3>1
      <4>2. QED
        BY <1>4, <3>1, <4>1
    <3>2. CASE t # r
      BY <1>1, <1>4, <3>2 DEF OnlyCount
    <3>3. QED
      BY <3>1, <3>2
  <2>2. QED
    BY <1>6, <2>1 DEF OnlyCount
<1>11. QED
  BY <1>8, <1>9, <1>10 DEF OnlyInv

LEMMA OnlyNext == ASSUME OnlyInv, One!Next PROVE OnlyInv'
BY OnlySession, OnlyHandler, OnlyRead, OnlyWrite DEF One!Next, One!ConsumeClaim

LEMMA OnlyIs == ASSUME OnlyInv PROVE One!NothingSkipped /\ One!CountIsExact
<1>1. OnlyDone(s2["p1"]) /\ \A r \in OneRoutes : s6[r] = IF s10[r] = 0 THEN <<>> ELSE <<s10[r]>>
  BY DEF OnlyInv, OnlyPosition, OnlyCount
<1>2. One!NothingSkipped
  BY <1>1 DEF One!NothingSkipped, OnlyDone
<1>3. One!CountIsExact
  BY <1>1 DEF One!CountIsExact
<1>4. QED
  BY <1>2, <1>3

-----------------------------------------------------------------------------
(* The indices, for any logs c.logs and any readers of them: no line goes    *)
(* to an index of a day, none is lost, and each is found.                    *)
Of(c) == INSTANCE LogIndices WITH
    Replicas <- LogReplicas, Logs <- c.logs, Keys <- c.keys, Dates <- LogDays, KeepDays <- KeepLogDays,
    Window <- LogWindow, Sizes <- c.sizes, MaxLines <- c.lines, MaxFaults <- c.faults,
    day <- s1, template <- s2, index <- s3, alias <- s4, boot <- s5, reader <- s6, count <- s7

LogsIn(c) == {c.logs[i] : i \in DOMAIN c.logs}
Logging(c) == c.logs \in Seq(LogsIn(c)) /\ c.logs # <<>> /\ c.sizes \subseteq Nat \ {0}
DayNames(c) == {<<l, LogDays[d]>> : l \in LogsIn(c), d \in DOMAIN LogDays}
LineNames(c) == {<<l, "write", "write">> : l \in LogsIn(c)}
LinesOf(c) == [time : Nat, key : c.keys, day : Nat]
IndicesOf(c) == [docs : SUBSET LinesOf(c), rolled : {0}, mapped : BOOLEAN]
BootsOf(c) == [at : {"off", "template", "exists", "create", "alias", "add", "next", "up"},
               left : Seq(LogsIn(c)), first : DayNames(c) \cup {<<>>}]
ReadersOf(c) == [at : {"no", "reading", "done", "error"}, log : LogsIn(c) \cup {""}, key : c.keys \cup {""},
                 size : Nat \ {0}, page : Nat \ {0}, shown : SUBSET LinesOf(c), owed : SUBSET LinesOf(c)]

(* What is in Elasticsearch: the indices of the days are empty and are the   *)
(* ones that the aliases name, and the lines go to indices that are mapped.  *)
InStore(c) ==
    /\ s1 \in DOMAIN LogDays /\ s7 \in [line : Nat, fault : Nat]
    /\ DOMAIN s2 \subseteq LogsIn(c) /\ \A l \in DOMAIN s2 : s2[l] = <<l, "*">>
    /\ \A n \in DOMAIN s3 :
         /\ s3[n] \in IndicesOf(c)
         /\ (n \in DayNames(c) /\ s3[n].docs = {}) \/ (n \in LineNames(c) /\ s3[n].mapped)
    /\ DOMAIN s4 \subseteq {<<l, "write">> : l \in LogsIn(c)}
    /\ \A a \in DOMAIN s4 : s4[a] \in DayNames(c) \cap DOMAIN s3

(* Each line has a time of its own.                                          *)
OfTheirTime(c) ==
    /\ \A n \in DOMAIN s3 : \A d \in s3[n].docs : d.time <= s7.line
    /\ \A d, e \in Of(c)!Lines : d.time = e.time => d = e

(* How far a replica is: what it has not made yet is left.                   *)
Left(r) == IF s5[r].at = "template" THEN s5[r].left ELSE Tail(s5[r].left)
Booting(c, r) ==
    /\ s5[r].at \notin {"off", "up"} =>
         s5[r].left # <<>> /\ LogsIn(c) \subseteq DOMAIN s2 \cup {Left(r)[i] : i \in DOMAIN Left(r)}
    /\ s5[r].at = "up" => LogsIn(c) \subseteq DOMAIN s2
    /\ s5[r].at \in {"exists", "create"} => s5[r].first \in DayNames(c)
    /\ s5[r].at \in {"alias", "add", "next"} => s5[r].first \in DayNames(c) \cap DOMAIN s3
Starts(c) == s5 \in [LogReplicas -> BootsOf(c)] /\ \A r \in LogReplicas : Booting(c, r)

(* A line that a reader is owed is shown, or is on this page or a later one. *)
Newer(c, d) == Cardinality({e \in Of(c)!Found(s6.log, s6.key) : e.time > d.time})
Reads(c) ==
    /\ s6 \in ReadersOf(c) /\ s6.shown \cup s6.owed \subseteq Of(c)!Lines
    /\ s6.at = "reading" =>
         /\ s6.owed \subseteq Of(c)!Found(s6.log, s6.key)
         /\ \A d \in s6.owed : d \in s6.shown \/ Newer(c, d) >= (s6.page - 1) * s6.size
    /\ s6.at = "done" => s6.owed \subseteq s6.shown

IndexInv(c) == InStore(c) /\ OfTheirTime(c) /\ Starts(c) /\ Reads(c)

LEMMA IndexInitially == ASSUME NEW c, Logging(c), Of(c)!Init PROVE IndexInv(c)
<1>1. /\ s1 = 1 /\ DOMAIN s2 = {} /\ DOMAIN s3 = {} /\ DOMAIN s4 = {}
      /\ s5 = [r \in LogReplicas |-> [at |-> "off", left |-> <<>>, first |-> <<>>]]
      /\ s6 = [at |-> "no", log |-> "", key |-> "", size |-> 1, page |-> 1, shown |-> {}, owed |-> {}]
      /\ s7 = [line |-> 0, fault |-> 0]
  BY DEF Of!Init, Of!Off, Of!NoReader, Of!None
<1>2. InStore(c)
  <2>1. 1 \in DOMAIN LogDays
    BY ReadersAssumption
  <2>2. s7 \in [line : Nat, fault : Nat]
    BY <1>1
  <2>3. QED
    BY <1>1, <2>1, <2>2 DEF InStore
<1>3. OfTheirTime(c)
  BY <1>1 DEF OfTheirTime, Of!Lines
<1>4. Starts(c)
  <2>1. <<>> \in Seq(LogsIn(c))
    OBVIOUS
  <2>2. s5 \in [LogReplicas -> BootsOf(c)] /\ \A r \in LogReplicas : s5[r].at = "off"
    BY <1>1, <2>1 DEF BootsOf
  <2>3. QED
    BY <2>2 DEF Starts, Booting
<1>5. Reads(c)
  <2>1. s6 \in ReadersOf(c)
    <3>1. s6 = [at |-> "no", log |-> "", key |-> "", size |-> 1, page |-> 1, shown |-> {}, owed |-> {}]
      BY <1>1
    <3>2. {} \in SUBSET LinesOf(c) /\ 1 \in Nat \ {0}
      OBVIOUS
    <3>3. QED
      BY <3>1, <3>2 DEF ReadersOf
  <2>2. QED
    BY <1>1, <2>1 DEF Reads
<1>6. QED
  BY <1>2, <1>3, <1>4, <1>5 DEF IndexInv

(* Names of days, of aliases and of lines are not each other's.              *)
LEMMA NamesDiffer ==
    ASSUME NEW c, Logging(c)
    PROVE  /\ \A n \in DayNames(c) : Len(n) = 2 /\ n # <<>> /\ n[Len(n)] \notin {"000001", "000002"}
           /\ \A n \in LineNames(c) : Len(n) = 3
           /\ \A l \in LogsIn(c) : Len(<<l, "write">>) = 2
<1>1. \A d \in DOMAIN LogDays : LogDays[d] \notin {"000001", "000002"}
  BY ReadersAssumption
<1>2. QED
  BY <1>1 DEF DayNames, LineNames

(* What is done to the names.                                                *)
LEMMA NamesAre ==
    ASSUME NEW c, NEW l
    PROVE  /\ Of(c)!GetIndexWrite(<<l>>) = <<l, "write">>
           /\ Of(c)!GetIndexWrite(Of(c)!GetIndexWrite(<<l>>)) = <<l, "write", "write">>
           /\ Of(c)!GetIndexPatternName(<<l>>) = <<l, "*">>
           /\ Of(c)!GetIndexPatternName(Of(c)!GetIndexPatternName(<<l>>)) = <<l, "*", "*">>
           /\ Of(c)!GetFirstIndexName(<<l>>) = <<l, LogDays[s1]>>
           /\ Of(c)!Matches(<<l, "*">>, <<l, "write", "write">>)
           /\ Of(c)!Matches(<<l, "*", "*">>, <<l, "write", "write">>)
<1>1. ASSUME NEW x PROVE Append(<<l>>, x) = <<l, x>>
  <2>1. Append(<<l>>, x) = [i \in 1 .. 2 |-> IF i = 1 THEN l ELSE x]
    OBVIOUS
  <2>2. <<l, x>> = [i \in 1 .. 2 |-> IF i = 1 THEN l ELSE x]
    OBVIOUS
  <2>3. QED
    BY <2>1, <2>2
<1>5. ASSUME NEW x PROVE Append(<<l, x>>, x) = <<l, x, x>>
  <2>1. Append(<<l, x>>, x) = [i \in 1 .. 3 |-> IF i = 1 THEN l ELSE x]
    OBVIOUS
  <2>2. <<l, x, x>> = [i \in 1 .. 3 |-> IF i = 1 THEN l ELSE x]
    OBVIOUS
  <2>3. QED
    BY <2>1, <2>2
<1>2. Of(c)!Matches(<<l, "*">>, <<l, "write", "write">>)
  BY DEF Of!Matches
<1>3. Of(c)!Matches(<<l, "*", "*">>, <<l, "write", "write">>)
  BY DEF Of!Matches
<1>4. QED
  BY <1>1, <1>5, <1>2, <1>3 DEF Of!GetIndexWrite, Of!GetIndexPatternName, Of!GetFirstIndexName

-----------------------------------------------------------------------------
(* Of lines with times of their own, one has as many newer ones as there are *)
(* before it, so that a page that is not the last one is full.               *)
NewerIn(F, d) == Cardinality({e \in F : e.time > d.time})
Distinct(F) == IsFiniteSet(F) /\ (\A d \in F : d.time \in Nat) /\ \A d, e \in F : d.time = e.time => d = e

LEMMA NewerIsLess ==
    ASSUME NEW F, Distinct(F), NEW d \in F, NEW e \in F, d.time < e.time
    PROVE  NewerIn(F, e) < NewerIn(F, d)
<1> DEFINE AfterD == {x \in F : x.time > d.time}
           AfterE == {x \in F : x.time > e.time}
<1>1. IsFiniteSet(AfterD) /\ IsFiniteSet(AfterE)
  BY FS_Subset DEF Distinct
<1>2. AfterE \subseteq AfterD /\ e \in AfterD /\ e \notin AfterE
  BY DEF Distinct
<1>3. Cardinality(AfterE) <= Cardinality(AfterD) /\ Cardinality(AfterE) # Cardinality(AfterD)
  BY <1>1, <1>2, FS_Subset
<1>4. Cardinality(AfterE) \in Nat /\ Cardinality(AfterD) \in Nat
  BY <1>1, FS_CardinalityType
<1>5. QED
  BY <1>3, <1>4 DEF NewerIn

LEMMA NewerBounds ==
    ASSUME NEW F, Distinct(F), NEW d \in F
    PROVE  NewerIn(F, d) \in 0 .. Cardinality(F) - 1
<1> DEFINE AfterD == {x \in F : x.time > d.time}
<1>1. IsFiniteSet(F) /\ IsFiniteSet(AfterD) /\ AfterD \subseteq F /\ d \notin AfterD
  BY FS_Subset DEF Distinct
<1>2. Cardinality(AfterD) <= Cardinality(F) /\ Cardinality(AfterD) # Cardinality(F)
  BY <1>1, FS_Subset
<1>3. Cardinality(F) \in Nat /\ Cardinality(AfterD) \in Nat
  BY <1>1, FS_CardinalityType
<1>4. QED
  BY <1>2, <1>3 DEF NewerIn

LEMMA PageIsFull ==
    ASSUME NEW F, Distinct(F), NEW a \in Nat, NEW b \in Nat, a <= b, b <= Cardinality(F)
    PROVE  Cardinality({d \in F : NewerIn(F, d) \in a .. b - 1}) = b - a
<1> DEFINE n == Cardinality(F)
           rank == [d \in F |-> NewerIn(F, d)]
           P == {d \in F : NewerIn(F, d) \in a .. b - 1}
           part_rank == [d \in P |-> NewerIn(F, d)]
<1>1. IsFiniteSet(F) /\ n \in Nat /\ IsFiniteSet(0 .. n - 1) /\ Cardinality(0 .. n - 1) = n
  <2>1. IsFiniteSet(F) /\ n \in Nat
    BY FS_CardinalityType DEF Distinct
  <2>2. IsFiniteSet(0 .. n - 1) /\ Cardinality(0 .. n - 1) = IF 0 > n - 1 THEN 0 ELSE n - 1 - 0 + 1
    <3> HIDE DEF n
    <3>1. 0 \in Int /\ n - 1 \in Int
      BY <2>1
    <3>2. QED
      BY <3>1, FS_Interval
  <2>3. QED
    BY <2>1, <2>2
<1>2. \A d, e \in F : NewerIn(F, d) = NewerIn(F, e) => d = e
  <2>1. SUFFICES ASSUME NEW d \in F, NEW e \in F, d # e PROVE NewerIn(F, d) # NewerIn(F, e)
    OBVIOUS
  <2>2. d.time < e.time \/ e.time < d.time
    BY <2>1 DEF Distinct
  <2>3. NewerIn(F, d) \in Nat /\ NewerIn(F, e) \in Nat
    BY <1>1, NewerBounds
  <2>4. QED
    BY <2>2, <2>3, NewerIsLess
<1>3. \A d \in F : NewerIn(F, d) \in 0 .. n - 1
  BY NewerBounds
<1> HIDE DEF n
<1>4. rank \in Injection(F, 0 .. n - 1)
  BY <1>2, <1>3 DEF Injection, IsInjective
<1>5. rank \in Surjection(F, 0 .. n - 1)
  BY <1>1, <1>4, FS_Injection DEF n
<1>6. \A k \in 0 .. n - 1 : \E d \in F : NewerIn(F, d) = k
  BY <1>5 DEF Surjection
<1>7. a .. b - 1 \subseteq 0 .. n - 1
  BY <1>1 DEF n
<1>8. part_rank \in Bijection(P, a .. b - 1)
  <2>1. part_rank \in Injection(P, a .. b - 1)
    BY <1>2 DEF Injection, IsInjective
  <2>2. \A k \in a .. b - 1 : \E d \in P : part_rank[d] = k
    BY <1>6, <1>7
  <2>3. QED
    BY <2>1, <2>2 DEF Bijection, Injection, Surjection
<1>9. IsFiniteSet(P)
  BY <1>1, FS_Subset
<1>10. Cardinality(a .. b - 1) = Cardinality(P)
  BY <1>8, <1>9, FS_Bijection DEF ExistsBijection
<1>11. Cardinality(a .. b - 1) = b - a
  <2>1. a \in Int /\ b - 1 \in Int
    OBVIOUS
  <2>2. Cardinality(a .. b - 1) = IF a > b - 1 THEN 0 ELSE b - 1 - a + 1
    BY <2>1, FS_Interval
  <2>3. QED
    BY <2>2
<1>12. QED
  BY <1>10, <1>11

-----------------------------------------------------------------------------
LEMMA LinesCount == ASSUME NEW c, NEW S PROVE Of(c)!Cardinality(S) = Cardinality(S)
  BY DEF Of!Cardinality, Of!IsFiniteSet, Cardinality, IsFiniteSet

(* Lines that come one at a time are finitely many, with times of their own. *)
LEMMA TimesAreDistinct ==
    ASSUME NEW F, NEW n \in Nat, \A d \in F : d.time \in Nat /\ d.time <= n,
           \A d, e \in F : d.time = e.time => d = e
    PROVE  Distinct(F)
<1> DEFINE time == [d \in F |-> d.time]
<1>1. time \in Injection(F, 0 .. n)
  BY DEF Injection, IsInjective
<1>2. IsFiniteSet(0 .. n)
  BY FS_Interval
<1>3. IsFiniteSet(F)
  BY <1>1, <1>2, FS_Injection
<1>4. QED
  BY <1>3 DEF Distinct

LEMMA FoundAreLines == ASSUME NEW c, NEW l, NEW k PROVE Of(c)!Found(l, k) \subseteq Of(c)!Lines
  BY DEF Of!Found, Of!Lines

LEMMA PagesFollow ==
    ASSUME NEW p \in Nat \ {0}, NEW s \in Nat
    PROVE  (p - 1) * s \in Nat /\ p * s \in Nat /\ p * s = (p - 1) * s + s
<1>1. p - 1 \in Nat
  OBVIOUS
<1>2. \A x, y \in Nat : x * y \in Nat
  OBVIOUS
<1>3. p * s = (p - 1) * s + s
  OBVIOUS
<1>4. QED
  BY <1>1, <1>2, <1>3

(* Lines are added to indices and never taken away.                          *)
StoreGrows == \A n \in DOMAIN s3 : n \in DOMAIN s3' /\ s3[n].docs \subseteq s3'[n].docs

LEMMA FoundGrow ==
    ASSUME NEW c, StoreGrows
    PROVE  /\ Of(c)!Lines \subseteq (Of(c)!Lines)'
           /\ \A l, k : Of(c)!Found(l, k) \subseteq Of(c)!Found(l, k)'
<1>1. Of(c)!Lines \subseteq (Of(c)!Lines)'
  BY DEF StoreGrows, Of!Lines
<1>2. ASSUME NEW l, NEW k PROVE Of(c)!Found(l, k) \subseteq Of(c)!Found(l, k)'
  BY DEF StoreGrows, Of!Found, Of!Matches, Of!GetIndexPatternName
<1>3. QED
  BY <1>1, <1>2

LEMMA NewerGrow ==
    ASSUME NEW F, NEW G, F \subseteq G, Distinct(G), NEW d
    PROVE  NewerIn(F, d) <= NewerIn(G, d) /\ NewerIn(F, d) \in Nat /\ NewerIn(G, d) \in Nat
<1> DEFINE InF == {e \in F : e.time > d.time}
           InG == {e \in G : e.time > d.time}
<1>1. InF \subseteq InG /\ IsFiniteSet(InG)
  BY FS_Subset DEF Distinct
<1>2. Cardinality(InF) <= Cardinality(InG) /\ IsFiniteSet(InF)
  BY <1>1, FS_Subset
<1>3. Cardinality(InF) \in Nat /\ Cardinality(InG) \in Nat
  BY <1>1, <1>2, FS_CardinalityType
<1>4. QED
  BY <1>2, <1>3 DEF NewerIn

LEMMA NewerIs == ASSUME NEW c, NEW d PROVE Newer(c, d) = NewerIn(Of(c)!Found(s6.log, s6.key), d)
  BY DEF Newer, NewerIn

(* A reader that does nothing is owed the same and is no further.            *)
LEMMA ReadsStay ==
    ASSUME NEW c, Reads(c), (InStore(c) /\ OfTheirTime(c))', StoreGrows, s6' = s6
    PROVE  Reads(c)'
<1> DEFINE F == Of(c)!Found(s6.log, s6.key)
           G == Of(c)!Found(s6.log, s6.key)'
<1>1. F \subseteq G /\ Of(c)!Lines \subseteq (Of(c)!Lines)' /\ G \subseteq (Of(c)!Lines)'
  <2>1. G \subseteq (Of(c)!Lines)'
    BY DEF Of!Found, Of!Lines
  <2>2. F \subseteq G
    BY FoundGrow, s6' = s6 DEF StoreGrows, Of!Found, Of!Matches, Of!GetIndexPatternName
  <2>3. QED
    BY <2>1, <2>2, FoundGrow
<1>2. Distinct(G)
  <2>1. s7'.line \in Nat
    BY DEF InStore
  <2>2. \A d \in (Of(c)!Lines)' : d.time \in Nat /\ d.time <= s7'.line
    BY DEF InStore, OfTheirTime, Of!Lines, IndicesOf, LinesOf
  <2>3. \A d, e \in (Of(c)!Lines)' : d.time = e.time => d = e
    BY DEF OfTheirTime
  <2>4. QED
    BY <1>1, <2>1, <2>2, <2>3, TimesAreDistinct
<1>3. \A d : Newer(c, d) = NewerIn(F, d) /\ Newer(c, d)' = NewerIn(G, d)
  BY s6' = s6 DEF Newer, NewerIn
<1>4. \A d : Newer(c, d) <= Newer(c, d)' /\ Newer(c, d) \in Nat /\ Newer(c, d)' \in Nat
  <2> HIDE DEF F, G
  <2>1. QED
    BY <1>1, <1>2, <1>3, NewerGrow
<1>5. s6 \in ReadersOf(c) /\ s6.shown \cup s6.owed \subseteq Of(c)!Lines
  BY DEF Reads
<1>6. (s6.page - 1) * s6.size \in Nat
  BY <1>5, PagesFollow DEF ReadersOf
<1>7. ASSUME s6.at = "reading"
      PROVE  s6.owed \subseteq G /\ \A d \in s6.owed : d \in s6.shown \/ Newer(c, d)' >= (s6.page - 1) * s6.size
  <2>1. s6.owed \subseteq F /\ \A d \in s6.owed : d \in s6.shown \/ Newer(c, d) >= (s6.page - 1) * s6.size
    BY <1>7 DEF Reads
  <2>2. \A x, y, z \in Nat : x >= z /\ x <= y => y >= z
    OBVIOUS
  <2>3. QED
    BY <1>1, <1>4, <1>6, <2>1, <2>2
<1>8. s6.at = "done" => s6.owed \subseteq s6.shown
  BY DEF Reads
<1> HIDE DEF F
<1>9. QED
  BY <1>1, <1>5, <1>7, <1>8 DEF Reads

(* Elasticsearch as it was.                                                  *)
LEMMA StoreStays ==
    ASSUME NEW c, InStore(c), OfTheirTime(c), UNCHANGED <<s1, s2, s3, s4>>,
           s7' \in [line : Nat, fault : Nat], s7'.line = s7.line
    PROVE  (InStore(c) /\ OfTheirTime(c))' /\ StoreGrows
<1>1. StoreGrows
  BY DEF StoreGrows
<1>2. InStore(c)'
  BY DEF InStore
<1>3. OfTheirTime(c)'
  BY DEF OfTheirTime, Of!Lines
<1>4. QED
  BY <1>1, <1>2, <1>3

(* One replica goes on; what there is stays.                                 *)
LEMMA OneBoots ==
    ASSUME NEW c, Starts(c), NEW r \in LogReplicas, NEW b \in BootsOf(c), s5' = [s5 EXCEPT ![r] = b],
           DOMAIN s2 \subseteq DOMAIN s2', DOMAIN s3 \subseteq DOMAIN s3', Booting(c, r)'
    PROVE  Starts(c)'
<1>1. s5' \in [LogReplicas -> BootsOf(c)]
  BY DEF Starts
<1>2. ASSUME NEW q \in LogReplicas, q # r PROVE Booting(c, q)'
  <2>1. s5'[q] = s5[q] /\ Booting(c, q)
    BY <1>2 DEF Starts
  <2>2. QED
    BY <2>1 DEF Booting, Left
<1>3. QED
  BY <1>1, <1>2 DEF Starts

(* A start that begins, goes on without a change or is given up.             *)
LEMMA BootKeeps ==
    ASSUME NEW c, Logging(c), IndexInv(c), NEW r \in LogReplicas,
           \/ Of(c)!Start(r) \/ Of(c)!IndexExists(r) \/ Of(c)!Aliases(r) \/ Of(c)!NextLog(r) \/ Of(c)!Fail(r)
    PROVE  IndexInv(c)'
<1> DEFINE b == s5'[r]
<1>1. /\ InStore(c) /\ OfTheirTime(c) /\ Starts(c) /\ Reads(c) /\ Booting(c, r) /\ s5[r] \in BootsOf(c)
      /\ s5 \in [LogReplicas -> BootsOf(c)] /\ s7 \in [line : Nat, fault : Nat]
  BY DEF IndexInv, Starts, InStore
<1>2. /\ UNCHANGED <<s1, s2, s3, s4, s6>> /\ s5' = [s5 EXCEPT ![r] = b]
      /\ s7' = s7 \/ s7' = [s7 EXCEPT !.fault = @ + 1]
      /\ \/ b = [at |-> "template", left |-> c.logs, first |-> <<>>]
         \/ /\ s5[r].at = "exists"
            /\ b = [s5[r] EXCEPT !.at = IF s5[r].first \in DOMAIN s3 THEN "alias" ELSE "create"]
         \/ s5[r].at = "alias" /\ b = [s5[r] EXCEPT !.at = "next"]
         \/ s5[r].at = "alias" /\ b = [s5[r] EXCEPT !.at = "add"]
         \/ /\ s5[r].at = "next"
            /\ b = IF Len(s5[r].left) = 1 THEN [Of(c)!Off EXCEPT !.at = "up"]
                   ELSE [Of(c)!Off EXCEPT !.at = "template", !.left = Tail(s5[r].left)]
         \/ b = [at |-> "off", left |-> <<>>, first |-> <<>>]
  <2>1. CASE Of(c)!Start(r)
    BY <1>1, <2>1 DEF Of!Start, Of!None
  <2>2. CASE Of(c)!IndexExists(r)
    BY <1>1, <2>2 DEF Of!IndexExists, Of!At
  <2>3. CASE Of(c)!Aliases(r)
    BY <1>1, <2>3 DEF Of!Aliases, Of!At
  <2>4. CASE Of(c)!NextLog(r)
    BY <1>1, <2>4 DEF Of!NextLog
  <2>5. CASE Of(c)!Fail(r)
    BY <1>1, <2>5 DEF Of!Fail, Of!Off, Of!None
  <2>6. QED
    BY <2>1, <2>2, <2>3, <2>4, <2>5
<1>3. (InStore(c) /\ OfTheirTime(c))' /\ StoreGrows
  BY <1>1, <1>2, StoreStays
<1>4. b \in BootsOf(c) /\ Booting(c, r)'
  <2>1. CASE b = [at |-> "template", left |-> c.logs, first |-> <<>>]
    <3>1. b \in BootsOf(c)
      BY <2>1 DEF BootsOf, Logging
    <3>2. Booting(c, r)'
      BY <2>1 DEF Booting, Left, LogsIn, Logging
    <3>3. QED
      BY <3>1, <3>2
  <2>2. CASE /\ s5[r].at = "exists"
             /\ b = [s5[r] EXCEPT !.at = IF s5[r].first \in DOMAIN s3 THEN "alias" ELSE "create"]
    <3>1. b.first \in DayNames(c) /\ b.left = s5[r].left /\ b \in BootsOf(c)
          /\ b.at = IF s5[r].first \in DOMAIN s3 THEN "alias" ELSE "create"
      BY <1>1, <2>2 DEF Booting, BootsOf
    <3>2. s5[r].first = b.first
      BY <1>1, <2>2 DEF BootsOf
    <3>3. QED
      BY <1>1, <1>2, <2>2, <3>1, <3>2 DEF Booting, Left
  <2>3. CASE s5[r].at = "alias" /\ (b = [s5[r] EXCEPT !.at = "next"] \/ b = [s5[r] EXCEPT !.at = "add"])
    <3>1. b.left = s5[r].left /\ b.first = s5[r].first /\ b \in BootsOf(c) /\ b.at \in {"next", "add"}
      BY <1>1, <2>3 DEF BootsOf
    <3>2. QED
      BY <1>1, <1>2, <2>3, <3>1 DEF Booting, Left
  <2>4. CASE /\ s5[r].at = "next"
             /\ b = IF Len(s5[r].left) = 1 THEN [Of(c)!Off EXCEPT !.at = "up"]
                    ELSE [Of(c)!Off EXCEPT !.at = "template", !.left = Tail(s5[r].left)]
    <3>1. /\ s5[r].left \in Seq(LogsIn(c)) /\ s5[r].left # <<>>
          /\ LogsIn(c) \subseteq DOMAIN s2 \cup {Tail(s5[r].left)[i] : i \in DOMAIN Tail(s5[r].left)}
      BY <1>1, <2>4 DEF Booting, Left, BootsOf
    <3>2. Tail(s5[r].left) \in Seq(LogsIn(c)) /\ Len(Tail(s5[r].left)) = Len(s5[r].left) - 1
      BY <3>1
    <3>3. CASE Len(s5[r].left) = 1
      <4>1. {Tail(s5[r].left)[i] : i \in DOMAIN Tail(s5[r].left)} = {}
        BY <3>2, <3>3
      <4>2. QED
        <5>1. b = [Of(c)!Off EXCEPT !.at = "up"]
          BY <2>4, <3>3
        <5>2. b \in BootsOf(c) /\ b.at = "up"
          <6>1. <<>> \in Seq(LogsIn(c))
            OBVIOUS
          <6>2. QED
            BY <5>1, <6>1 DEF BootsOf, Of!Off, Of!None
        <5>3. QED
          BY <1>2, <3>1, <4>1, <5>2 DEF Booting
    <3>4. CASE Len(s5[r].left) # 1
      <4>1. Tail(s5[r].left) # <<>>
        <5> DEFINE rest == Tail(s5[r].left)
        <5>1. rest \in Seq(LogsIn(c)) /\ Len(rest) # 0
          BY <3>1, <3>2, <3>4
        <5> HIDE DEF rest
        <5>2. rest # <<>>
          BY <5>1
        <5>3. QED
          BY <5>2 DEF rest
      <4>2. QED
        <5>1. b = [Of(c)!Off EXCEPT !.at = "template", !.left = Tail(s5[r].left)]
          BY <2>4, <3>4
        <5>2. b \in BootsOf(c) /\ b.at = "template" /\ b.left = Tail(s5[r].left)
          BY <3>2, <5>1 DEF BootsOf, Of!Off, Of!None
        <5>3. QED
          BY <1>2, <3>1, <4>1, <5>2 DEF Booting, Left
    <3>5. QED
      BY <3>3, <3>4
  <2>5. CASE b = [at |-> "off", left |-> <<>>, first |-> <<>>]
    BY <2>5 DEF Booting, BootsOf
  <2>6. QED
    BY <1>2, <2>1, <2>2, <2>3, <2>4, <2>5
<1>5. Starts(c)'
  BY <1>1, <1>2, <1>4, OneBoots
<1>6. Reads(c)'
  BY <1>1, <1>2, <1>3, ReadsStay
<1>7. QED
  BY <1>3, <1>5, <1>6 DEF IndexInv

LEMMA HeadAndTail ==
    ASSUME NEW S, NEW q \in Seq(S), q # <<>>
    PROVE  Head(q) \in S /\ \A i \in DOMAIN q : q[i] = Head(q) \/ \E j \in DOMAIN Tail(q) : q[i] = Tail(q)[j]
<1>1. Head(q) \in S /\ Head(q) = q[1] /\ Tail(q) \in Seq(S) /\ Len(Tail(q)) = Len(q) - 1 /\ Len(q) \in Nat
  OBVIOUS
<1>2. ASSUME NEW i \in DOMAIN q, i # 1 PROVE \E j \in DOMAIN Tail(q) : q[i] = Tail(q)[j]
  <2>1. i \in 2 .. Len(q) /\ i - 1 \in 1 .. Len(q) - 1
    BY <1>2
  <2>2. i - 1 \in DOMAIN Tail(q)
    BY <1>1, <2>1
  <2>3. Tail(q)[i - 1] = q[i]
    BY <2>1, <2>2
  <2>4. QED
    BY <2>2, <2>3
<1>3. QED
  BY <1>1, <1>2

(* A start makes the template of a log, and knows the index of the day.      *)
LEMMA TemplateKeeps ==
    ASSUME NEW c, Logging(c), IndexInv(c), NEW r \in LogReplicas, Of(c)!CreateIndexTemplate(r)
    PROVE  IndexInv(c)'
<1> DEFINE l == Head(s5[r].left)
           b == s5'[r]
<1>1. /\ InStore(c) /\ OfTheirTime(c) /\ Starts(c) /\ Reads(c) /\ Booting(c, r) /\ s5[r] \in BootsOf(c)
      /\ s5 \in [LogReplicas -> BootsOf(c)]
  BY DEF IndexInv, Starts
<1>2. /\ s5[r].at = "template" /\ UNCHANGED <<s1, s3, s4, s6, s7>>
      /\ s2' = IF l \in DOMAIN s2 THEN s2 ELSE Of(c)!Put(s2, l, <<l, "*">>)
      /\ s5' = [s5 EXCEPT ![r].at = "exists", ![r].first = <<l, LogDays[s1]>>]
  BY NamesAre DEF Of!CreateIndexTemplate, Of!LogOf
<1>3. /\ s5[r].left \in Seq(LogsIn(c)) /\ s5[r].left # <<>>
      /\ LogsIn(c) \subseteq DOMAIN s2 \cup {s5[r].left[i] : i \in DOMAIN s5[r].left}
  BY <1>1, <1>2 DEF Booting, Left, BootsOf
<1>4. l \in LogsIn(c) /\ LogsIn(c) \subseteq (DOMAIN s2 \cup {l}) \cup {Tail(s5[r].left)[i] : i \in DOMAIN Tail(s5[r].left)}
  BY <1>3, HeadAndTail
<1> HIDE DEF l
<1>5. DOMAIN s2' = DOMAIN s2 \cup {l} /\ \A k \in DOMAIN s2' : s2'[k] = IF k \in DOMAIN s2 THEN s2[k] ELSE <<k, "*">>
  BY <1>2 DEF Of!Put
<1>6. InStore(c)'
  BY <1>1, <1>2, <1>4, <1>5 DEF InStore
<1>7. OfTheirTime(c)' /\ StoreGrows
  BY <1>1, <1>2 DEF OfTheirTime, Of!Lines, StoreGrows
<1>8. s1 \in DOMAIN LogDays /\ <<l, LogDays[s1]>> \in DayNames(c)
  BY <1>1, <1>4 DEF InStore, DayNames
<1>9. /\ s5' = [s5 EXCEPT ![r] = b] /\ b \in BootsOf(c) /\ b.at = "exists" /\ b.left = s5[r].left
      /\ b.first = <<l, LogDays[s1]>>
  BY <1>1, <1>2, <1>8 DEF BootsOf
<1>10. Booting(c, r)'
  BY <1>3, <1>4, <1>5, <1>8, <1>9 DEF Booting, Left
<1>11. Starts(c)'
  BY <1>1, <1>2, <1>5, <1>9, <1>10, OneBoots
<1>12. Reads(c)'
  BY <1>1, <1>2, <1>6, <1>7, ReadsStay
<1>13. QED
  BY <1>6, <1>7, <1>11, <1>12 DEF IndexInv

(* One index is made or written to.                                          *)
LEMMA OneIndex ==
    ASSUME NEW c, InStore(c), UNCHANGED <<s1, s2, s4>>, s7' \in [line : Nat, fault : Nat],
           NEW name, DOMAIN s3' = DOMAIN s3 \cup {name}, \A n \in DOMAIN s3 \ {name} : s3'[n] = s3[n],
           s3'[name] \in IndicesOf(c),
           (name \in DayNames(c) /\ s3'[name].docs = {}) \/ (name \in LineNames(c) /\ s3'[name].mapped)
    PROVE  InStore(c)'
<1>1. \A n \in DOMAIN s3' :
        /\ s3'[n] \in IndicesOf(c)
        /\ (n \in DayNames(c) /\ s3'[n].docs = {}) \/ (n \in LineNames(c) /\ s3'[n].mapped)
  BY DEF InStore
<1>2. s1 \in DOMAIN LogDays /\ DOMAIN s2 \subseteq LogsIn(c) /\ \A l \in DOMAIN s2 : s2[l] = <<l, "*">>
  BY DEF InStore
<1>3. DOMAIN s4 \subseteq {<<l, "write">> : l \in LogsIn(c)} /\ \A a \in DOMAIN s4 : s4[a] \in DayNames(c) \cap DOMAIN s3'
  BY DEF InStore
<1>4. QED
  BY <1>1, <1>2, <1>3 DEF InStore

(* It makes that index, empty, unless another replica has ...                *)
LEMMA FirstIndexKeeps ==
    ASSUME NEW c, Logging(c), IndexInv(c), NEW r \in LogReplicas, Of(c)!CreateFirstIndex(r)
    PROVE  IndexInv(c)'
<1> DEFINE name == s5[r].first
           b == s5'[r]
<1>1. /\ InStore(c) /\ OfTheirTime(c) /\ Starts(c) /\ Reads(c) /\ Booting(c, r) /\ s5[r] \in BootsOf(c)
      /\ s5 \in [LogReplicas -> BootsOf(c)]
  BY DEF IndexInv, Starts
<1>2. /\ s5[r].at = "create" /\ UNCHANGED <<s1, s2, s4, s6, s7>>
      /\ \/ s5' = [s5 EXCEPT ![r] = Of(c)!Off] /\ s3' = s3
         \/ /\ s5' = [s5 EXCEPT ![r].at = "alias"] /\ name \notin DOMAIN s3
            /\ s3' = Of(c)!Put(s3, name, Of(c)!EmptyIndex(name))
  BY DEF Of!CreateFirstIndex, Of!At
<1>3. name \in DayNames(c)
  BY <1>1, <1>2 DEF Booting
<1>4. CASE s5' = [s5 EXCEPT ![r] = Of(c)!Off] /\ s3' = s3
  <2>1. (InStore(c) /\ OfTheirTime(c))' /\ StoreGrows
    BY <1>1, <1>2, <1>4 DEF InStore, OfTheirTime, Of!Lines, StoreGrows
  <2>2. <<>> \in Seq(LogsIn(c))
    OBVIOUS
  <2>3. Of(c)!Off \in BootsOf(c) /\ Of(c)!Off.at = "off" /\ s5'[r] = Of(c)!Off
    BY <1>1, <1>4, <2>2 DEF BootsOf, Of!Off, Of!None
  <2>4. Booting(c, r)'
    BY <2>3 DEF Booting
  <2>5. Starts(c)'
    BY <1>1, <1>2, <1>4, <2>3, <2>4, OneBoots
  <2>6. QED
    BY <1>1, <1>2, <2>1, <2>5, ReadsStay DEF IndexInv
<1>5. CASE /\ s5' = [s5 EXCEPT ![r].at = "alias"] /\ name \notin DOMAIN s3
           /\ s3' = Of(c)!Put(s3, name, Of(c)!EmptyIndex(name))
  <2>1. /\ DOMAIN s3' = DOMAIN s3 \cup {name} /\ \A n \in DOMAIN s3 : s3'[n] = s3[n]
        /\ s3'[name] = Of(c)!EmptyIndex(name)
    BY <1>5 DEF Of!Put
  <2>2. s3'[name] \in IndicesOf(c) /\ s3'[name].docs = {}
    BY <2>1 DEF Of!EmptyIndex, IndicesOf
  <2>3. InStore(c)' /\ StoreGrows
    <3>1. s7' \in [line : Nat, fault : Nat]
      BY <1>1, <1>2 DEF InStore
    <3>2. StoreGrows
      BY <2>1 DEF StoreGrows
    <3>3. (name \in DayNames(c) /\ s3'[name].docs = {}) \/ (name \in LineNames(c) /\ s3'[name].mapped)
      BY <1>3, <2>2
    <3> HIDE DEF name
    <3>4. InStore(c)'
      BY <1>1, <1>2, <2>1, <2>2, <3>1, <3>3, OneIndex
    <3>5. QED
      BY <3>2, <3>4
  <2>4. (Of(c)!Lines)' = Of(c)!Lines
    BY <2>1, <2>2 DEF Of!Lines
  <2>5. OfTheirTime(c)'
    BY <1>1, <1>2, <2>1, <2>2, <2>4 DEF OfTheirTime
  <2>6. s5' = [s5 EXCEPT ![r] = b] /\ b \in BootsOf(c) /\ b.at = "alias" /\ b.left = s5[r].left /\ b.first = name
    BY <1>1, <1>5 DEF BootsOf
  <2>7. Booting(c, r)'
    BY <1>1, <1>2, <1>3, <2>1, <2>6 DEF Booting, Left
  <2>8. Starts(c)'
    BY <1>1, <1>2, <2>1, <2>6, <2>7, OneBoots
  <2>9. QED
    BY <1>1, <1>2, <2>3, <2>5, <2>8, ReadsStay DEF IndexInv
<1>6. QED
  BY <1>2, <1>4, <1>5

(* ... and the aliases of it, unless they are another one's.                 *)
LEMMA AliasesKeep ==
    ASSUME NEW c, Logging(c), IndexInv(c), NEW r \in LogReplicas, Of(c)!AddAliases(r)
    PROVE  IndexInv(c)'
<1> DEFINE l == Head(s5[r].left)
           b == s5'[r]
<1>1. /\ InStore(c) /\ OfTheirTime(c) /\ Starts(c) /\ Reads(c) /\ Booting(c, r) /\ s5[r] \in BootsOf(c)
      /\ s5 \in [LogReplicas -> BootsOf(c)]
  BY DEF IndexInv, Starts
<1>2. /\ s5[r].at = "add" /\ UNCHANGED <<s1, s2, s3, s6, s7>>
      /\ \/ s5' = [s5 EXCEPT ![r] = Of(c)!Off] /\ s4' = s4
         \/ s5' = [s5 EXCEPT ![r].at = "next"] /\ s4' = Of(c)!Put(s4, <<l, "write">>, s5[r].first)
  BY NamesAre DEF Of!AddAliases, Of!At, Of!LogOf
<1>3. s5[r].first \in DayNames(c) \cap DOMAIN s3 /\ s5[r].left \in Seq(LogsIn(c)) /\ s5[r].left # <<>>
  BY <1>1, <1>2 DEF Booting, BootsOf
<1>4. l \in LogsIn(c)
  BY <1>3, HeadAndTail
<1> HIDE DEF l
<1>5. /\ DOMAIN s4' \subseteq DOMAIN s4 \cup {<<l, "write">>}
      /\ \A a \in DOMAIN s4' : s4'[a] = s5[r].first \/ (a \in DOMAIN s4 /\ s4'[a] = s4[a])
  BY <1>2 DEF Of!Put
<1>6. InStore(c)'
  BY <1>1, <1>2, <1>3, <1>4, <1>5 DEF InStore
<1>7. OfTheirTime(c)' /\ StoreGrows
  BY <1>1, <1>2 DEF OfTheirTime, Of!Lines, StoreGrows
<1>8. s5' = [s5 EXCEPT ![r] = b] /\ b \in BootsOf(c) /\ Booting(c, r)'
  <2>1. CASE s5' = [s5 EXCEPT ![r] = Of(c)!Off]
    <3>1. <<>> \in Seq(LogsIn(c))
      OBVIOUS
    <3>2. Of(c)!Off \in BootsOf(c) /\ Of(c)!Off.at = "off" /\ s5'[r] = Of(c)!Off
      BY <1>1, <2>1, <3>1 DEF BootsOf, Of!Off, Of!None
    <3>3. QED
      BY <2>1, <3>2 DEF Booting
  <2>2. CASE s5' = [s5 EXCEPT ![r].at = "next"]
    <3>1. /\ s5' = [s5 EXCEPT ![r] = b] /\ b \in BootsOf(c) /\ b.at = "next" /\ b.left = s5[r].left
          /\ b.first = s5[r].first
      BY <1>1, <2>2 DEF BootsOf
    <3>2. QED
      BY <1>1, <1>2, <1>3, <3>1 DEF Booting, Left
  <2>3. QED
    BY <1>2, <2>1, <2>2
<1>9. Starts(c)'
  BY <1>1, <1>2, <1>8, OneBoots
<1>10. QED
  BY <1>1, <1>2, <1>6, <1>7, <1>9, ReadsStay DEF IndexInv

(* A line goes to the index of its log's lines, with the next time.          *)
LEMMA DocumentKeeps ==
    ASSUME NEW c, Logging(c), IndexInv(c), NEW r \in LogReplicas, NEW l \in LogsIn(c), NEW key \in c.keys,
           Of(c)!IndexDocument(r, l, key)
    PROVE  IndexInv(c)'
<1> DEFINE name == <<l, "write", "write">>
           doc == [time |-> s7.line + 1, key |-> key, day |-> s1]
           old == IF name \in DOMAIN s3 THEN s3[name] ELSE Of(c)!EmptyIndex(name)
<1>1. InStore(c) /\ OfTheirTime(c) /\ Starts(c) /\ Reads(c) /\ Booting(c, r) /\ s7.line \in Nat
  BY DEF IndexInv, Starts, InStore
<1>2. name \notin DOMAIN s4
  BY <1>1, NamesDiffer DEF InStore
<1>3. /\ s5[r].at = "up" /\ s3' = Of(c)!Put(s3, name, [old EXCEPT !.docs = @ \cup {doc}])
      /\ s7' = [s7 EXCEPT !.line = @ + 1] /\ UNCHANGED <<s1, s2, s4, s5, s6>>
  BY <1>2, NamesAre DEF Of!IndexDocument, Of!Up
<1>4. name \in LineNames(c) /\ name \notin DayNames(c)
  BY NamesDiffer DEF LineNames
<1>5. Of(c)!EmptyIndex(name) \in IndicesOf(c) /\ Of(c)!EmptyIndex(name).mapped /\ Of(c)!EmptyIndex(name).docs = {}
  <2>1. l \in DOMAIN s2 /\ s2[l] = <<l, "*">>
    BY <1>1, <1>3 DEF Booting, InStore
  <2>2. Of(c)!Matches(s2[l], name)
    BY <2>1, NamesAre
  <2> HIDE DEF name
  <2>3. QED
    BY <2>1, <2>2 DEF Of!EmptyIndex, IndicesOf
<1>6. old \in IndicesOf(c) /\ old.mapped /\ old.docs = IF name \in DOMAIN s3 THEN s3[name].docs ELSE {}
  BY <1>1, <1>4, <1>5 DEF InStore
<1>7. doc \in LinesOf(c) /\ doc.time = s7.line + 1
  <2>1. s1 \in Nat
    BY <1>1, ReadersAssumption DEF InStore
  <2>2. QED
    BY <1>1, <2>1 DEF LinesOf
<1> HIDE DEF name, doc, old
<1>8. /\ DOMAIN s3' = DOMAIN s3 \cup {name} /\ \A n \in DOMAIN s3 \ {name} : s3'[n] = s3[n]
      /\ s3'[name] = [old EXCEPT !.docs = @ \cup {doc}]
  BY <1>3 DEF Of!Put
<1>9. s3'[name] \in IndicesOf(c) /\ s3'[name].mapped /\ s3'[name].docs = old.docs \cup {doc}
  BY <1>6, <1>7, <1>8 DEF IndicesOf
<1>10. s7' \in [line : Nat, fault : Nat] /\ s7'.line = s7.line + 1
  BY <1>1, <1>3 DEF InStore
<1>11. InStore(c)'
  BY <1>1, <1>3, <1>4, <1>8, <1>9, <1>10, OneIndex
<1>12. StoreGrows
  BY <1>6, <1>8, <1>9 DEF StoreGrows
<1>13. OfTheirTime(c)'
  <2>1. (Of(c)!Lines)' = Of(c)!Lines \cup {doc}
    <3>1. \A d : d \in Of(c)!Lines <=> \E n \in DOMAIN s3 : d \in s3[n].docs
      BY DEF Of!Lines
    <3>2. \A d : d \in (Of(c)!Lines)' <=> \E n \in DOMAIN s3' : d \in s3'[n].docs
      BY DEF Of!Lines
    <3>3. \A d : d \in s3'[name].docs <=> d = doc \/ (name \in DOMAIN s3 /\ d \in s3[name].docs)
      BY <1>6, <1>9
    <3>4. \A d : d \in (Of(c)!Lines)' <=> d = doc \/ d \in Of(c)!Lines
      BY <1>8, <3>1, <3>2, <3>3
    <3>5. QED
      BY <3>4
  <2>2. \A d \in Of(c)!Lines : d.time <= s7.line /\ d.time \in Nat
    BY <1>1 DEF OfTheirTime, Of!Lines, InStore, IndicesOf, LinesOf
  <2>3. \A d \in (Of(c)!Lines)' : d.time <= s7'.line
    BY <1>1, <1>7, <1>10, <2>1, <2>2
  <2>4. \A d, e \in (Of(c)!Lines)' : d.time = e.time => d = e
    <3>1. \A d \in Of(c)!Lines : d.time # doc.time
      BY <1>1, <1>7, <2>2
    <3>2. QED
      BY <1>1, <2>1, <3>1 DEF OfTheirTime
  <2>5. \A n \in DOMAIN s3' : \A d \in s3'[n].docs : d.time <= s7'.line
    BY <2>3 DEF Of!Lines
  <2>6. QED
    BY <2>4, <2>5 DEF OfTheirTime
<1>14. Starts(c)'
  BY <1>1, <1>3, <1>8 DEF Starts, Booting, Left
<1>15. QED
  BY <1>1, <1>3, <1>11, <1>12, <1>13, <1>14, ReadsStay DEF IndexInv

(* With an alias on indices of days only, none is rolled over or goes.       *)
LEMMA TickKeeps == ASSUME NEW c, Logging(c), IndexInv(c), Of(c)!Tick PROVE IndexInv(c)'
<1>1. InStore(c) /\ OfTheirTime(c) /\ Starts(c) /\ Reads(c)
  BY DEF IndexInv
<1>2. /\ s1 < Len(LogDays) /\ s1' = s1 + 1 /\ UNCHANGED <<s2, s4, s5, s6, s7>>
      /\ s3' = [n \in {m \in DOMAIN s3 : Of(c)!Kept(m)} |->
                  [s3[n] EXCEPT !.rolled = IF @ = 0 /\ Of(c)!Rolls(n) THEN s1 ELSE @]]
  BY DEF Of!Tick
<1>3. ASSUME NEW n \in DOMAIN s3 PROVE Of(c)!Kept(n) /\ ~Of(c)!Rolls(n) /\ s3[n] \in IndicesOf(c)
  <2>1. s3[n] \in IndicesOf(c) /\ s3[n].rolled = 0
    BY <1>1 DEF InStore, IndicesOf
  <2>2. Of(c)!Kept(n)
    BY <2>1 DEF Of!Kept
  <2>3. ~Of(c)!Rolls(n)
    BY <1>1, NamesDiffer DEF Of!Rolls, InStore
  <2>4. QED
    BY <2>1, <2>2, <2>3
<1>4. DOMAIN s3' = DOMAIN s3
  BY <1>2, <1>3
<1>5. ASSUME NEW n \in DOMAIN s3 PROVE s3'[n] = s3[n]
  <2>1. s3'[n] = [s3[n] EXCEPT !.rolled = s3[n].rolled]
    BY <1>2, <1>3
  <2>2. QED
    BY <1>3, <2>1 DEF IndicesOf
<1>6. s1' \in DOMAIN LogDays
  BY <1>1, <1>2, ReadersAssumption DEF InStore
<1>7. InStore(c)'
  BY <1>1, <1>2, <1>4, <1>5, <1>6 DEF InStore
<1>8. OfTheirTime(c)' /\ StoreGrows
  BY <1>1, <1>2, <1>4, <1>5 DEF OfTheirTime, Of!Lines, StoreGrows
<1>9. Starts(c)'
  BY <1>1, <1>2, <1>4 DEF Starts, Booting, Left
<1>10. QED
  BY <1>1, <1>2, <1>7, <1>8, <1>9, ReadsStay DEF IndexInv

LEMMA FoundAreDistinct ==
    ASSUME NEW c, InStore(c), OfTheirTime(c), NEW l, NEW k
    PROVE  Distinct(Of(c)!Found(l, k)) /\ Of(c)!Found(l, k) \subseteq LinesOf(c) /\ Of(c)!Found(l, k) \subseteq Of(c)!Lines
<1>1. Of(c)!Found(l, k) \subseteq Of(c)!Lines
  BY FoundAreLines
<1>2. \A d \in Of(c)!Lines : d \in LinesOf(c) /\ d.time \in Nat /\ d.time <= s7.line
  BY DEF InStore, OfTheirTime, Of!Lines, IndicesOf, LinesOf
<1>3. s7.line \in Nat /\ \A d, e \in Of(c)!Lines : d.time = e.time => d = e
  BY DEF InStore, OfTheirTime
<1>4. QED
  BY <1>1, <1>2, <1>3, TimesAreDistinct

(* Who opens a log is owed what there is, from the first page on.            *)
LEMMA OpenKeeps ==
    ASSUME NEW c, Logging(c), IndexInv(c), NEW l \in LogsIn(c), NEW key \in c.keys, NEW size \in c.sizes,
           Of(c)!Open(l, key, size)
    PROVE  IndexInv(c)'
<1> DEFINE F == Of(c)!Found(l, key)
<1>1. InStore(c) /\ OfTheirTime(c) /\ Starts(c) /\ size \in Nat \ {0}
  BY DEF IndexInv, Logging
<1>2. /\ s6' = [at |-> "reading", log |-> l, key |-> key, size |-> size, page |-> 1, shown |-> {}, owed |-> F]
      /\ UNCHANGED <<s1, s2, s3, s4, s5, s7>>
  BY DEF Of!Open
<1>3. Distinct(F) /\ F \subseteq LinesOf(c) /\ F \subseteq Of(c)!Lines
  BY <1>1, FoundAreDistinct
<1>4. InStore(c)' /\ OfTheirTime(c)' /\ Starts(c)'
  BY <1>1, <1>2 DEF InStore, OfTheirTime, Of!Lines, Starts, Booting, Left
<1>5. F' = F /\ (Of(c)!Lines)' = Of(c)!Lines
  BY <1>2 DEF Of!Found, Of!Lines, Of!Matches, Of!GetIndexPatternName
<1>6. \A d : Newer(c, d)' = NewerIn(F, d) /\ NewerIn(F, d) \in Nat
  <2>1. \A d : NewerIn(F, d) \in Nat
    BY <1>3, NewerGrow
  <2>2. s6'.log = l /\ s6'.key = key
    BY <1>2
  <2>3. \A d : Newer(c, d)' = NewerIn(Of(c)!Found(l, key)', d)
    BY <2>2 DEF Newer, NewerIn, Of!Found, Of!Matches, Of!GetIndexPatternName
  <2>4. QED
    BY <1>5, <2>1, <2>3
<1>7. Of(c)!Found(s6.log, s6.key)' = F
  BY <1>2, <1>5 DEF Of!Found, Of!Matches, Of!GetIndexPatternName
<1> HIDE DEF F
<1>8. s6' \in ReadersOf(c)
  <2>1. 1 \in Nat \ {0} /\ {} \in SUBSET LinesOf(c) /\ F \in SUBSET LinesOf(c)
    BY <1>3
  <2>2. QED
    BY <1>1, <1>2, <2>1 DEF ReadersOf
<1>9. (s6'.page - 1) * s6'.size = 0
  BY <1>1, <1>2
<1>10. Reads(c)'
  <2>1. s6'.at = "reading" /\ s6'.owed = F /\ s6'.shown = {}
    BY <1>2
  <2>2. QED
    BY <1>3, <1>5, <1>6, <1>7, <1>8, <1>9, <2>1 DEF Reads
<1>11. QED
  BY <1>4, <1>10 DEF IndexInv

(* A page shows what is on it, and it is the last one only if it is not full. *)
LEMMA ReadKeeps ==
    ASSUME NEW c, Logging(c), IndexInv(c), NEW r \in LogReplicas, Of(c)!Read(r)
    PROVE  IndexInv(c)'
<1> DEFINE F == Of(c)!Found(s6.log, s6.key)
           page == Of(c)!Page(s6.log, s6.key, s6.page, s6.size)
           a == (s6.page - 1) * s6.size
           b == s6.page * s6.size
           end == IF Cardinality(page) < s6.size THEN "done" ELSE "reading"
<1>1. /\ InStore(c) /\ OfTheirTime(c) /\ Starts(c) /\ Reads(c) /\ s6 \in ReadersOf(c)
      /\ s6.page \in Nat \ {0} /\ s6.size \in Nat \ {0}
  BY DEF IndexInv, Reads, ReadersOf
<1>2. /\ s6.at = "reading" /\ UNCHANGED <<s1, s2, s3, s4, s5, s7>>
      /\ \/ s6' = [s6 EXCEPT !.at = "error"]
         \/ s6' = [s6 EXCEPT !.shown = @ \cup page, !.page = @ + 1, !.at = end]
  BY LinesCount DEF Of!Read
<1>3. Distinct(F) /\ F \subseteq LinesOf(c) /\ F \subseteq Of(c)!Lines
  BY <1>1, FoundAreDistinct
<1>4. InStore(c)' /\ OfTheirTime(c)' /\ Starts(c)'
  BY <1>1, <1>2 DEF InStore, OfTheirTime, Of!Lines, Starts, Booting, Left
<1>5. (Of(c)!Lines)' = Of(c)!Lines /\ \A l, k : Of(c)!Found(l, k)' = Of(c)!Found(l, k)
  BY <1>2 DEF Of!Found, Of!Lines, Of!Matches, Of!GetIndexPatternName
<1>6. a \in Nat /\ b \in Nat /\ b = a + s6.size
  BY <1>1, PagesFollow
<1>7. \A d : NewerIn(F, d) \in Nat /\ Newer(c, d) = NewerIn(F, d)
  <2>1. \A d : NewerIn(F, d) \in Nat
    BY <1>3, NewerGrow
  <2>2. QED
    BY <2>1, NewerIs
<1>8. page = {d \in F : NewerIn(F, d) \in a .. b - 1}
  <2>1. page = {d \in F : NewerIn(F, d) >= a /\ NewerIn(F, d) < b}
    BY LinesCount DEF Of!Page, NewerIn
  <2> HIDE DEF F, a, b, page
  <2>2. \A d : NewerIn(F, d) \in a .. b - 1 <=> NewerIn(F, d) >= a /\ NewerIn(F, d) < b
    BY <1>6, <1>7
  <2>3. QED
    BY <2>1, <2>2
<1>9. s6.owed \subseteq F /\ \A d \in s6.owed : d \in s6.shown \/ NewerIn(F, d) >= a
  BY <1>1, <1>2, <1>7 DEF Reads
<1>10. s6.shown \cup s6.owed \subseteq Of(c)!Lines /\ s6.shown \subseteq LinesOf(c)
  BY <1>1 DEF Reads, ReadersOf
<1> HIDE DEF F, page, a, b
<1>11. CASE s6' = [s6 EXCEPT !.at = "error"]
  <2>1. s6' \in ReadersOf(c) /\ s6'.at = "error" /\ s6'.shown = s6.shown /\ s6'.owed = s6.owed
    BY <1>1, <1>11 DEF ReadersOf
  <2>2. QED
    BY <1>4, <1>5, <1>10, <2>1 DEF IndexInv, Reads
<1>12. CASE s6' = [s6 EXCEPT !.shown = @ \cup page, !.page = @ + 1, !.at = end]
  <2>1. page \subseteq F
    BY <1>8
  <2>2. s6.page + 1 \in Nat \ {0} /\ s6.shown \cup page \in SUBSET LinesOf(c) /\ end \in {"reading", "done"}
    BY <1>1, <1>3, <1>10, <2>1
  <2> HIDE DEF end
  <2>3. /\ s6' \in ReadersOf(c) /\ s6'.at = end /\ s6'.shown = s6.shown \cup page /\ s6'.owed = s6.owed
        /\ s6'.page = s6.page + 1 /\ s6'.size = s6.size /\ s6'.log = s6.log /\ s6'.key = s6.key
    BY <1>1, <1>12, <2>2 DEF ReadersOf
  <2>4. \A d \in s6.owed : d \in s6'.shown \/ NewerIn(F, d) >= b
    BY <1>6, <1>7, <1>8, <1>9, <2>3
  <2>5. (s6'.page - 1) * s6'.size = b
    BY <1>1, <2>3 DEF b
  <2>6. Of(c)!Found(s6.log, s6.key)' = F
    BY <1>5, <2>3 DEF F
  <2>7. \A d : Newer(c, d)' = NewerIn(F, d)
    BY <2>6 DEF Newer, NewerIn
  <2>8. end = "done" => s6.owed \subseteq s6'.shown
    <3>1. SUFFICES ASSUME end = "done", NEW d \in s6.owed, d \notin s6'.shown PROVE FALSE
      OBVIOUS
    <3>2. d \in F /\ NewerIn(F, d) >= b
      BY <1>9, <2>4, <3>1
    <3>3. NewerIn(F, d) \in 0 .. Cardinality(F) - 1
      BY <1>3, <3>2, NewerBounds
    <3>4. Cardinality(F) \in Nat
      BY <1>3, FS_CardinalityType DEF Distinct
    <3>5. a <= b /\ b <= Cardinality(F)
      BY <1>1, <1>6, <3>2, <3>3, <3>4
    <3>6. Cardinality(page) = b - a
      BY <1>3, <1>6, <1>8, <3>5, PageIsFull
    <3>7. QED
      BY <1>1, <1>6, <3>1, <3>6 DEF end
  <2>9. Reads(c)'
    BY <1>3, <1>5, <1>9, <1>10, <2>1, <2>2, <2>3, <2>4, <2>5, <2>6, <2>7, <2>8 DEF Reads
  <2>10. QED
    BY <1>4, <2>9 DEF IndexInv
<1>13. QED
  BY <1>2, <1>11, <1>12

LEMMA IndexNext ==
    ASSUME NEW c, Logging(c), IndexInv(c), Of(c)!Next \/ UNCHANGED <<s1, s2, s3, s4, s5, s6, s7>>
    PROVE  IndexInv(c)'
<1>1. CASE UNCHANGED <<s1, s2, s3, s4, s5, s6, s7>>
  <2>1. (InStore(c) /\ OfTheirTime(c))' /\ StoreGrows
    BY <1>1, StoreStays DEF IndexInv, InStore
  <2>2. Starts(c)'
    BY <1>1 DEF IndexInv, Starts, Booting, Left
  <2>3. QED
    BY <1>1, <2>1, <2>2, ReadsStay DEF IndexInv
<1>2. CASE \E r \in LogReplicas : Of(c)!Step(r) \/ Of(c)!Fail(r) \/ Of(c)!Read(r)
  BY <1>2, BootKeeps, TemplateKeeps, FirstIndexKeeps, AliasesKeep, ReadKeeps DEF Of!Step
<1>3. CASE \E r \in LogReplicas, l \in Of(c)!LogSet, key \in c.keys : Of(c)!IndexDocument(r, l, key)
  BY <1>3, DocumentKeeps DEF Of!LogSet, LogsIn
<1>4. CASE \E l \in Of(c)!LogSet, key \in c.keys, size \in c.sizes : Of(c)!Open(l, key, size)
  BY <1>4, OpenKeeps DEF Of!LogSet, LogsIn
<1>5. QED
  BY <1>1, <1>2, <1>3, <1>4, TickKeeps DEF Of!Next

(* From there, what is in the indices is right, and found.                   *)
LEMMA IndexIs ==
    ASSUME NEW c, Logging(c), IndexInv(c)
    PROVE  /\ Of(c)!TypeOK /\ Of(c)!EverythingLoggedIsFound
           /\ Of(c)!DocumentsAreMapped /\ Of(c)!PagesMissNothing
<1>1. InStore(c) /\ Starts(c) /\ Reads(c)
  BY DEF IndexInv
<1>2. Of(c)!LogSet = LogsIn(c)
  BY DEF Of!LogSet, LogsIn
<1>3. Of(c)!TypeOK
  BY <1>1, <1>2 DEF Of!TypeOK, InStore, Starts, Booting, Reads
<1>4. Of(c)!DocumentsAreMapped
  BY <1>1 DEF Of!DocumentsAreMapped, InStore
<1>5. Of(c)!EverythingLoggedIsFound
  <2>1. SUFFICES ASSUME NEW n \in DOMAIN s3, NEW d \in s3[n].docs PROVE \E l \in Of(c)!LogSet : d \in Of(c)!Found(l, d.key)
    BY DEF Of!EverythingLoggedIsFound, Of!Lines
  <2>2. PICK l \in LogsIn(c) : n = <<l, "write", "write">>
    BY <1>1 DEF InStore, LineNames
  <2>3. Of(c)!Matches(Of(c)!GetIndexPatternName(Of(c)!GetIndexPatternName(<<l>>)), n)
    BY <2>2, NamesAre
  <2>4. d \in Of(c)!Found(l, d.key)
    BY <2>1, <2>3 DEF Of!Found
  <2>5. QED
    BY <1>2, <2>4
<1>6. Of(c)!PagesMissNothing
  BY <1>1 DEF Of!PagesMissNothing, Reads
<1>7. QED
  BY <1>3, <1>4, <1>5, <1>6

-----------------------------------------------------------------------------
(* The one log that is read, and the two that replicas make.                 *)
OnePod == [logs |-> <<"pod">>, keys |-> ReadKeys, sizes |-> PageSizes, lines |-> MaxReadLines, faults |-> MaxReadFaults]
BothLogs == [logs |-> <<"pod", "service">>, keys |-> StartKeys, sizes |-> StartSizes, lines |-> MaxStartLines,
             faults |-> MaxStartFaults]

LEMMA TheyAreLogs == Logging(OnePod) /\ Logging(BothLogs)
<1>1. LogsIn(OnePod) = {"pod"} /\ LogsIn(BothLogs) = {"pod", "service"}
  BY DEF LogsIn, OnePod, BothLogs
<1>2. QED
  BY <1>1, ReadersAssumption DEF Logging, OnePod, BothLogs

LEMMA ReadingIs ==
    /\ Reading!Init => Of(OnePod)!Init
    /\ Reading!Next => Of(OnePod)!Next
    /\ Of(OnePod)!TypeOK => Reading!TypeOK
    /\ Of(OnePod)!EverythingLoggedIsFound => Reading!EverythingLoggedIsFound
    /\ Of(OnePod)!PagesMissNothing => Reading!PagesMissNothing
<1>1. /\ OnePod.logs = <<"pod">> /\ OnePod.keys = ReadKeys /\ OnePod.sizes = PageSizes
      /\ OnePod.lines = MaxReadLines /\ OnePod.faults = MaxReadFaults
  BY DEF OnePod
<1>2. Reading!Init => Of(OnePod)!Init
  BY DEF Reading!Init, Of!Init, Reading!Off, Of!Off, Reading!None, Of!None, Reading!NoReader, Of!NoReader
<1>3. Of(OnePod)!PagesMissNothing => Reading!PagesMissNothing
  BY DEF Reading!PagesMissNothing, Of!PagesMissNothing
<1>4. Reading!LogSet = Of(OnePod)!LogSet
  BY <1>1 DEF Reading!LogSet, Of!LogSet
<1>5. \A l, k : Reading!Found(l, k) = Of(OnePod)!Found(l, k)
  BY DEF Reading!Found, Of!Found, Reading!Matches, Of!Matches, Reading!GetIndexPatternName, Of!GetIndexPatternName
<1>6. Reading!Lines = Of(OnePod)!Lines
  BY DEF Reading!Lines, Of!Lines
<1>7. Of(OnePod)!TypeOK => Reading!TypeOK
  BY <1>4, <1>6 DEF Reading!TypeOK, Of!TypeOK
<1>8. Of(OnePod)!EverythingLoggedIsFound => Reading!EverythingLoggedIsFound
  BY <1>4, <1>5, <1>6 DEF Reading!EverythingLoggedIsFound, Of!EverythingLoggedIsFound
<1>9. Reading!Next => Of(OnePod)!Next
  <2>1. \A r : Reading!Step(r) => Of(OnePod)!Step(r)
    <3>1. \A r : Reading!Start(r) => Of(OnePod)!Start(r)
      BY <1>1 DEF Reading!Start, Of!Start, Reading!None, Of!None
    <3>2. \A r : Reading!CreateIndexTemplate(r) => Of(OnePod)!CreateIndexTemplate(r)
      BY DEF Reading!CreateIndexTemplate, Of!CreateIndexTemplate, Reading!Put, Of!Put, Reading!LogOf, Of!LogOf,
             Reading!GetIndexPatternName, Of!GetIndexPatternName, Reading!GetFirstIndexName, Of!GetFirstIndexName
    <3>3. \A r : Reading!IndexExists(r) => Of(OnePod)!IndexExists(r)
      BY DEF Reading!IndexExists, Of!IndexExists, Reading!At, Of!At
    <3>4. \A r : Reading!CreateFirstIndex(r) => Of(OnePod)!CreateFirstIndex(r)
      BY DEF Reading!CreateFirstIndex, Of!CreateFirstIndex, Reading!At, Of!At, Reading!Off, Of!Off, Reading!None, Of!None,
             Reading!Put, Of!Put, Reading!EmptyIndex, Of!EmptyIndex, Reading!Matches, Of!Matches
    <3>5. \A r : Reading!Aliases(r) => Of(OnePod)!Aliases(r)
      BY <1>1 DEF Reading!Aliases, Of!Aliases, Reading!At, Of!At, Reading!LogOf, Of!LogOf,
                  Reading!GetIndexWrite, Of!GetIndexWrite
    <3>6. \A r : Reading!AddAliases(r) => Of(OnePod)!AddAliases(r)
      BY DEF Reading!AddAliases, Of!AddAliases, Reading!At, Of!At, Reading!LogOf, Of!LogOf, Reading!Off, Of!Off,
             Reading!None, Of!None, Reading!Put, Of!Put, Reading!GetIndexWrite, Of!GetIndexWrite
    <3>7. \A r : Reading!NextLog(r) => Of(OnePod)!NextLog(r)
      BY DEF Reading!NextLog, Of!NextLog, Reading!Off, Of!Off, Reading!None, Of!None
    <3>8. QED
      BY <3>1, <3>2, <3>3, <3>4, <3>5, <3>6, <3>7 DEF Reading!Step, Of!Step
  <2>2. \A r : Reading!Fail(r) => Of(OnePod)!Fail(r)
    BY <1>1 DEF Reading!Fail, Of!Fail, Reading!Off, Of!Off, Reading!None, Of!None
  <2>3. \A r : Reading!Read(r) => Of(OnePod)!Read(r)
    BY DEF Reading!Read, Of!Read, Reading!Up, Of!Up, Reading!Page, Of!Page, Reading!Found, Of!Found,
           Reading!Matches, Of!Matches, Reading!GetIndexPatternName, Of!GetIndexPatternName,
           Reading!Cardinality, Of!Cardinality, Reading!IsFiniteSet, Of!IsFiniteSet
  <2>4. \A r, l, key : Reading!IndexDocument(r, l, key) => Of(OnePod)!IndexDocument(r, l, key)
    BY <1>1 DEF Reading!IndexDocument, Of!IndexDocument, Reading!Up, Of!Up, Reading!GetIndexWrite, Of!GetIndexWrite,
                Reading!Put, Of!Put, Reading!EmptyIndex, Of!EmptyIndex, Reading!Matches, Of!Matches
  <2>5. \A l, key, size : Reading!Open(l, key, size) => Of(OnePod)!Open(l, key, size)
    BY <1>5 DEF Reading!Open, Of!Open, Reading!Up, Of!Up
  <2>6. Reading!Tick => Of(OnePod)!Tick
    BY DEF Reading!Tick, Of!Tick, Reading!Kept, Of!Kept, Reading!Rolls, Of!Rolls
  <2>7. QED
    BY <1>1, <1>4, <2>1, <2>2, <2>3, <2>4, <2>5, <2>6 DEF Reading!Next, Of!Next
<1>10. QED
  BY <1>2, <1>3, <1>7, <1>8, <1>9

LEMMA StartingIs ==
    /\ Starting!Init => Of(BothLogs)!Init
    /\ Starting!Next => Of(BothLogs)!Next
    /\ Of(BothLogs)!TypeOK => Starting!TypeOK
    /\ Of(BothLogs)!DocumentsAreMapped => Starting!DocumentsAreMapped
<1>1. /\ BothLogs.logs = <<"pod", "service">> /\ BothLogs.keys = StartKeys /\ BothLogs.sizes = StartSizes
      /\ BothLogs.lines = MaxStartLines /\ BothLogs.faults = MaxStartFaults
  BY DEF BothLogs
<1>2. Starting!Init => Of(BothLogs)!Init
  BY DEF Starting!Init, Of!Init, Starting!Off, Of!Off, Starting!None, Of!None, Starting!NoReader, Of!NoReader
<1>3. Of(BothLogs)!DocumentsAreMapped => Starting!DocumentsAreMapped
  BY DEF Starting!DocumentsAreMapped, Of!DocumentsAreMapped
<1>4. Starting!LogSet = Of(BothLogs)!LogSet
  BY <1>1 DEF Starting!LogSet, Of!LogSet
<1>5. \A l, k : Starting!Found(l, k) = Of(BothLogs)!Found(l, k)
  BY DEF Starting!Found, Of!Found, Starting!Matches, Of!Matches, Starting!GetIndexPatternName, Of!GetIndexPatternName
<1>6. Starting!Lines = Of(BothLogs)!Lines
  BY DEF Starting!Lines, Of!Lines
<1>7. Of(BothLogs)!TypeOK => Starting!TypeOK
  BY <1>4, <1>6 DEF Starting!TypeOK, Of!TypeOK
<1>8. Starting!Next => Of(BothLogs)!Next
  <2>1. \A r : Starting!Step(r) => Of(BothLogs)!Step(r)
    <3>1. \A r : Starting!Start(r) => Of(BothLogs)!Start(r)
      BY <1>1 DEF Starting!Start, Of!Start, Starting!None, Of!None
    <3>2. \A r : Starting!CreateIndexTemplate(r) => Of(BothLogs)!CreateIndexTemplate(r)
      BY DEF Starting!CreateIndexTemplate, Of!CreateIndexTemplate, Starting!Put, Of!Put, Starting!LogOf, Of!LogOf,
             Starting!GetIndexPatternName, Of!GetIndexPatternName, Starting!GetFirstIndexName, Of!GetFirstIndexName
    <3>3. \A r : Starting!IndexExists(r) => Of(BothLogs)!IndexExists(r)
      BY DEF Starting!IndexExists, Of!IndexExists, Starting!At, Of!At
    <3>4. \A r : Starting!CreateFirstIndex(r) => Of(BothLogs)!CreateFirstIndex(r)
      BY DEF Starting!CreateFirstIndex, Of!CreateFirstIndex, Starting!At, Of!At, Starting!Off, Of!Off, Starting!None, Of!None,
             Starting!Put, Of!Put, Starting!EmptyIndex, Of!EmptyIndex, Starting!Matches, Of!Matches
    <3>5. \A r : Starting!Aliases(r) => Of(BothLogs)!Aliases(r)
      BY <1>1 DEF Starting!Aliases, Of!Aliases, Starting!At, Of!At, Starting!LogOf, Of!LogOf,
                  Starting!GetIndexWrite, Of!GetIndexWrite
    <3>6. \A r : Starting!AddAliases(r) => Of(BothLogs)!AddAliases(r)
      BY DEF Starting!AddAliases, Of!AddAliases, Starting!At, Of!At, Starting!LogOf, Of!LogOf, Starting!Off, Of!Off,
             Starting!None, Of!None, Starting!Put, Of!Put, Starting!GetIndexWrite, Of!GetIndexWrite
    <3>7. \A r : Starting!NextLog(r) => Of(BothLogs)!NextLog(r)
      BY DEF Starting!NextLog, Of!NextLog, Starting!Off, Of!Off, Starting!None, Of!None
    <3>8. QED
      BY <3>1, <3>2, <3>3, <3>4, <3>5, <3>6, <3>7 DEF Starting!Step, Of!Step
  <2>2. \A r : Starting!Fail(r) => Of(BothLogs)!Fail(r)
    BY <1>1 DEF Starting!Fail, Of!Fail, Starting!Off, Of!Off, Starting!None, Of!None
  <2>3. \A r : Starting!Read(r) => Of(BothLogs)!Read(r)
    BY DEF Starting!Read, Of!Read, Starting!Up, Of!Up, Starting!Page, Of!Page, Starting!Found, Of!Found,
           Starting!Matches, Of!Matches, Starting!GetIndexPatternName, Of!GetIndexPatternName,
           Starting!Cardinality, Of!Cardinality, Starting!IsFiniteSet, Of!IsFiniteSet
  <2>4. \A r, l, key : Starting!IndexDocument(r, l, key) => Of(BothLogs)!IndexDocument(r, l, key)
    BY <1>1 DEF Starting!IndexDocument, Of!IndexDocument, Starting!Up, Of!Up, Starting!GetIndexWrite, Of!GetIndexWrite,
                Starting!Put, Of!Put, Starting!EmptyIndex, Of!EmptyIndex, Starting!Matches, Of!Matches
  <2>5. \A l, key, size : Starting!Open(l, key, size) => Of(BothLogs)!Open(l, key, size)
    BY <1>5 DEF Starting!Open, Of!Open, Starting!Up, Of!Up
  <2>6. Starting!Tick => Of(BothLogs)!Tick
    BY DEF Starting!Tick, Of!Tick, Starting!Kept, Of!Kept, Starting!Rolls, Of!Rolls
  <2>7. QED
    BY <1>1, <1>4, <2>1, <2>2, <2>3, <2>4, <2>5, <2>6 DEF Starting!Next, Of!Next
<1>9. QED
  BY <1>2, <1>3, <1>7, <1>8

-----------------------------------------------------------------------------
LogsInv ==
    /\ part = "two partitions" => TraceInv /\ LinesInv
    /\ part = "one partition" => OnlyInv
    /\ part = "logs" => IndexInv(OnePod)
    /\ part = "indices" => IndexInv(BothLogs)

LEMMA LogsInitially == ASSUME OpsInit PROVE LogsInv
<1>1. /\ Init
      /\ part = "one partition" => One!Init
      /\ part = "logs" => Reading!Init
      /\ part = "indices" => Starting!Init
  BY DEF OpsInit
<1>2. TraceInv /\ LinesInv
  BY <1>1, InitInv, LinesInitially
<1>3. QED
  BY <1>1, <1>2, OnlyInitially, TheyAreLogs, ReadingIs, StartingIs, IndexInitially DEF LogsInv

LEMMA LogsStep == ASSUME LogsInv, [OpsNext]_<<part, All, vars>> PROVE LogsInv'
<1>1. CASE TwoPartitions
  <2>1. part = "two partitions" /\ part' = part /\ Next
    BY <1>1 DEF TwoPartitions
  <2>2. TraceInv' /\ LinesInv'
    BY <2>1, NextInv, LinesNext DEF LogsInv
  <2>3. QED
    BY <2>1, <2>2 DEF LogsInv
<1>2. CASE OnePartition
  <2>1. part = "one partition" /\ part' = part /\ One!Next
    BY <1>2 DEF OnePartition
  <2>2. QED
    BY <2>1, OnlyNext DEF LogsInv
<1>3. CASE ReadLogs
  <2>1. part = "logs" /\ part' = part /\ Reading!Next
    BY <1>3 DEF ReadLogs
  <2>2. IndexInv(OnePod)'
    BY <2>1, TheyAreLogs, ReadingIs, IndexNext DEF LogsInv
  <2>3. QED
    BY <2>1, <2>2 DEF LogsInv
<1>4. CASE StartIndices
  <2>1. part = "indices" /\ part' = part /\ Starting!Next
    BY <1>4 DEF StartIndices
  <2>2. IndexInv(BothLogs)'
    BY <2>1, TheyAreLogs, StartingIs, IndexNext DEF LogsInv
  <2>3. QED
    BY <2>1, <2>2 DEF LogsInv
<1>5. CASE ReadPoints \/ ReadRates \/ EditWords \/ CallAutoscaler \/ RunScripts \/ HandOver \/ Download \/ TakeRange
  <2>1. part' = part /\ part \notin {"two partitions", "one partition", "logs", "indices"}
    BY <1>5 DEF ReadPoints, ReadRates, EditWords, CallAutoscaler, RunScripts, HandOver, Download, TakeRange
  <2>2. QED
    BY <2>1 DEF LogsInv
<1>6. CASE UNCHANGED <<part, All, vars>>
  <2>1. part' = part /\ UNCHANGED vars /\ UNCHANGED <<s1, s2, s3, s4, s5, s6, s7, s8, s9, s10, s11>>
    BY <1>6 DEF All
  <2>2. part = "two partitions" => TraceInv' /\ LinesInv'
    BY <2>1, NextInv, LinesNext DEF LogsInv
  <2>3. part = "one partition" => OnlyInv'
    BY <2>1, OnlySession DEF LogsInv
  <2>4. part = "logs" => IndexInv(OnePod)'
    BY <2>1, TheyAreLogs, IndexNext DEF LogsInv
  <2>5. part = "indices" => IndexInv(BothLogs)'
    BY <2>1, TheyAreLogs, IndexNext DEF LogsInv
  <2>6. QED
    BY <2>1, <2>2, <2>3, <2>4, <2>5 DEF LogsInv
<1>7. QED
  BY <1>1, <1>2, <1>3, <1>4, <1>5, <1>6 DEF OpsNext

(* However claims race, sessions end and replicas start, die and start      *)
(* again, for any logs, keywords, days and sizes of pages: a log that was   *)
(* handled is in its index, mapped as one, once but for faults, and is      *)
(* found page by page while lines keep coming; a count of traces has at     *)
(* most one row for each claim, and is exact where there is one             *)
(* (data/cluster.go:292,325, lib/es.go:215,544).                            *)
THEOREM LogsAlways == OpsSpec => []LogsAreFound
<1>1. OpsInit => LogsInv
  BY LogsInitially
<1>2. LogsInv /\ [OpsNext]_<<part, All, vars>> => LogsInv'
  BY LogsStep
<1>3. LogsInv => LogsAreFound
  <2>1. SUFFICES ASSUME LogsInv PROVE LogsAreFound
    OBVIOUS
  <2>2. part = "two partitions" => TypeOK /\ LogsAreIndexed /\ RowsAreBounded
    BY <2>1, TypesAreRight, IndexedAre, BoundedAre DEF LogsInv
  <2>3. part = "one partition" => One!NothingSkipped /\ One!CountIsExact
    BY <2>1, OnlyIs DEF LogsInv
  <2>4. part = "logs" => Reading!TypeOK /\ Reading!EverythingLoggedIsFound /\ Reading!PagesMissNothing
    BY <2>1, TheyAreLogs, IndexIs, ReadingIs DEF LogsInv
  <2>5. part = "indices" => Starting!TypeOK /\ Starting!DocumentsAreMapped
    BY <2>1, TheyAreLogs, IndexIs, StartingIs DEF LogsInv
  <2>6. QED
    BY <2>2, <2>3, <2>4, <2>5 DEF LogsAreFound
<1>4. QED
  BY <1>1, <1>2, <1>3, PTL DEF OpsSpec

=============================================================================
