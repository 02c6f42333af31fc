----------------------------- MODULE TraceLogs -----------------------------
(***************************************************************************)
(* The log pipeline: filebeat writes container logs, service logs and the  *)
(* traces of Hubble to the partitions of a Kafka topic; KafkaConsumer is   *)
(* one member of a consumer group, whose session runs ConsumeClaim in a    *)
(* goroutine for each partition; ClusterRepo.HandlerLogMsg counts a trace  *)
(* in the row of its two services, or indexes the document of a log.       *)
(*                                                                         *)
(* External, from how the code uses it: a session claims every partition   *)
(* at its committed offset, or at its end if there is none (OffsetNewest); *)
(* the first claim that returns ends the session, which waits for the      *)
(* others and then commits what is marked; marks are committed in the      *)
(* background too; ConsumeMessages joins again after a session.            *)
(***************************************************************************)
EXTENDS Integers, Sequences, FiniteSets

CONSTANTS
    Partitions,
    Routes,     \* pairs of a source and a destination service
    Log,        \* Log[p]: the messages filebeat will write to p
    EsClient,   \* whether Elasticsearch is configured
    MaxFaults   \* bound: crashes, rebalances, failing calls

(* What HandlerLogMsg tells apart: the type, and whether the message can be *)
(* parsed ("garbled" if not) and asks for something ("ignored" if not).     *)
LogType == {"UNSPECIFIED", "POD", "Service", "Trace"}
Message == [type : LogType, body : Routes \cup {"log", "garbled", "ignored"}]

ASSUME LogAssumption ==
    /\ \A p \in Partitions : Log[p] \in Seq(Message)
    /\ Routes \cap {"log", "garbled", "ignored"} = {}
    /\ IsFiniteSet(Partitions) /\ EsClient \in BOOLEAN /\ MaxFaults \in Nat

None == -1

VARIABLES
    produced,   \* produced[p]: the messages written to p so far
    committed,  \* committed[p]: the offset the broker keeps for the group
    up,
    session,    \* "none", "open" or "ending"
    claim,      \* the goroutine of each partition
    rows,       \* rows[r]: the request counts of the rows of r, by primary key
    docs,       \* docs[p][o]: documents indexed for a message
    faults,
    handled,    \* history: the offsets whose handler has returned no error
    counted,    \* history: how often a count of r was stored
    from        \* history: the offset at which p was first claimed for good

vars == <<produced, committed, up, session, claim, rows, docs, faults, handled, counted, from>>
history == <<handled, counted, from>>

Offsets(p) == 0 .. Len(Log[p]) - 1
MessageAt(p, o) == Log[p][o + 1]

(* pos: the offset to take next; marked: what the session would commit;     *)
(* seen: the count that was read, None if there was no row.                 *)
NoClaim == [pc |-> "none", pos |-> 0, marked |-> None, seen |-> None]

Init ==
    /\ produced = [p \in Partitions |-> 0]
    /\ committed = [p \in Partitions |-> None]
    /\ up = TRUE /\ session = "none"
    /\ claim = [p \in Partitions |-> NoClaim]
    /\ rows = [r \in Routes |-> <<>>]
    /\ docs = [p \in Partitions |-> [o \in Offsets(p) |-> 0]]
    /\ faults = 0
    /\ handled = [p \in Partitions |-> {}]
    /\ counted = [r \in Routes |-> 0]
    /\ from = [p \in Partitions |-> 0]

Produce(p) ==
    /\ produced[p] < Len(Log[p])
    /\ produced' = [produced EXCEPT ![p] = @ + 1]
    /\ UNCHANGED <<committed, up, session, claim, rows, docs, faults, history>>

-----------------------------------------------------------------------------
(* The session of the consumer group.                                       *)

(* group.Consume: claims every partition.                                   *)
Consume ==
    /\ up /\ session = "none"
    /\ session' = "open"
    /\ LET Start(p) == IF committed[p] = None THEN produced[p] ELSE committed[p]
       IN  /\ claim' = [p \in Partitions |-> [NoClaim EXCEPT !.pc = "idle", !.pos = Start(p)]]
           /\ from' = [p \in Partitions |-> IF committed[p] = None THEN Start(p) ELSE from[p]]
    /\ UNCHANGED <<produced, committed, up, rows, docs, faults, handled, counted>>

Stored(p) == IF claim[p].marked = None THEN committed[p] ELSE claim[p].marked

AutoCommit(p) ==
    /\ up /\ session # "none" /\ claim[p].marked # None /\ committed[p] # claim[p].marked
    /\ committed' = [committed EXCEPT ![p] = Stored(p)]
    /\ UNCHANGED <<produced, up, session, claim, rows, docs, faults, history>>

Rebalance ==
    /\ up /\ session = "open" /\ faults < MaxFaults
    /\ session' = "ending" /\ faults' = faults + 1
    /\ UNCHANGED <<produced, committed, up, claim, rows, docs, history>>

(* The session is done once every claim has returned.                       *)
SessionEnds ==
    /\ up /\ session = "ending"
    /\ \A p \in Partitions : claim[p].pc = "returned"
    /\ session' = "none"
    /\ committed' = [p \in Partitions |-> Stored(p)]
    /\ claim' = [p \in Partitions |-> NoClaim]
    /\ UNCHANGED <<produced, up, rows, docs, faults, history>>

-----------------------------------------------------------------------------
(* ConsumeClaim and the handler of a message.                               *)

(* The message a claim takes, with the session still open or already        *)
(* ending: the select prefers neither.                                      *)
Taking(p, m) ==
    /\ up /\ claim[p].pc = "idle" /\ claim[p].pos < produced[p]
    /\ m = MessageAt(p, claim[p].pos)

(* Variant: goes on with the next message after an error.                   *)
FailsAndContinues(p) ==
    /\ claim' = [claim EXCEPT ![p].pc = "idle", ![p].pos = @ + 1, ![p].seen = None]
    /\ UNCHANGED session

Fails(p) ==
    /\ claim' = [claim EXCEPT ![p].pc = "returned"]
    /\ session' = "ending"

(* CommitLogs has no place for a message of unknown type.                   *)
HandlerFails(p) ==
    /\ \E m \in Message :
          /\ Taking(p, m)
          /\ \/ m.type = "UNSPECIFIED"
             \/ m.type = "Trace" /\ m.body = "garbled"
             \/ m.type = "Service" /\ m.body = "garbled" /\ EsClient
    /\ Fails(p)
    /\ UNCHANGED <<produced, committed, up, rows, docs, faults, history>>

Succeeds(p) ==
    /\ claim' = [claim EXCEPT ![p].pc = "mark"]
    /\ handled' = [handled EXCEPT ![p] = @ \cup {claim[p].pos}]

(* Not a forwarded request, no service in its labels, a path of another     *)
(* form, or nowhere to put it.                                              *)
HandlerIgnores(p) ==
    /\ \E m \in Message :
          /\ Taking(p, m) /\ m.type # "UNSPECIFIED"
          /\ \/ m.body = "ignored"
             \/ m.type \in {"POD", "Service"} /\ ~EsClient
    /\ Succeeds(p)
    /\ UNCHANGED <<produced, committed, up, session, rows, docs, faults, counted, from>>

(* IndexDocument: Elasticsearch may have the document although the call     *)
(* fails.                                                                   *)
IndexDocument(p) ==
    /\ \E m \in Message :
          /\ Taking(p, m) /\ m.type \in {"POD", "Service"} /\ EsClient
          /\ m.body # "ignored" /\ (m.type = "Service" => m.body # "garbled")
    /\ \E arrived, ok \in BOOLEAN :
          /\ ok => arrived
          /\ ok \/ faults < MaxFaults
          /\ docs' = IF arrived THEN [docs EXCEPT ![p][claim[p].pos] = @ + 1] ELSE docs
          /\ IF ok THEN Succeeds(p) /\ UNCHANGED <<session, faults>>
             ELSE Fails(p) /\ faults' = faults + 1 /\ UNCHANGED handled
    /\ UNCHANGED <<produced, committed, up, rows, counted, from>>

(* Variant: marks the message when it is taken.                             *)
ReadCountMarks(p) ==
    /\ \E m \in Message :
          /\ Taking(p, m) /\ m.type = "Trace" /\ m.body \in Routes
          /\ claim' = [claim EXCEPT ![p].pc = "write", ![p].marked = claim[p].pos + 1,
                                    ![p].seen = IF rows[m.body] = <<>> THEN None
                                                ELSE Head(rows[m.body])]
    /\ UNCHANGED <<produced, committed, up, session, rows, docs, faults, history>>

(* commitTraceLogs reads the count of the first row of the two services ... *)
ReadCount(p) ==
    /\ \E m \in Message :
          /\ Taking(p, m) /\ m.type = "Trace" /\ m.body \in Routes
          /\ claim' = [claim EXCEPT ![p].pc = "write",
                                    ![p].seen = IF rows[m.body] = <<>> THEN None
                                                ELSE Head(rows[m.body])]
    /\ UNCHANGED <<produced, committed, up, session, rows, docs, faults, history>>

RouteOf(p) == MessageAt(p, claim[p].pos).body

(* Variant: adds the new total in the database.                             *)
WriteCountAdds(p) ==
    /\ up /\ claim[p].pc = "write"
    /\ LET r == RouteOf(p)
           seen == claim[p].seen
       IN  /\ rows' = [rows EXCEPT ![r] = IF seen = None THEN Append(@, 1)
                                          ELSE [i \in DOMAIN @ |-> @[i] + seen + 1]]
           /\ counted' = [counted EXCEPT ![r] = @ + 1]
    /\ claim' = [claim EXCEPT ![p].pc = "mark", ![p].seen = None]
    /\ handled' = [handled EXCEPT ![p] = @ \cup {claim[p].pos}]
    /\ UNCHANGED <<produced, committed, up, session, docs, faults, from>>

(* ... and inserts a row, or stores the sum in all the rows of the two.     *)
WriteCount(p) ==
    /\ up /\ claim[p].pc = "write"
    /\ LET r == RouteOf(p)
           seen == claim[p].seen
       IN  /\ rows' = [rows EXCEPT ![r] = IF seen = None THEN Append(@, 1)
                                          ELSE [i \in DOMAIN @ |-> seen + 1]]
           /\ counted' = [counted EXCEPT ![r] = @ + 1]
    /\ claim' = [claim EXCEPT ![p].pc = "mark", ![p].seen = None]
    /\ handled' = [handled EXCEPT ![p] = @ \cup {claim[p].pos}]
    /\ UNCHANGED <<produced, committed, up, session, docs, faults, from>>

(* Either statement of commitTraceLogs fails.                               *)
CountFails(p) ==
    /\ up /\ faults < MaxFaults
    /\ \/ claim[p].pc = "write"
       \/ \E m \in Message : Taking(p, m) /\ m.type = "Trace" /\ m.body \in Routes
    /\ Fails(p)
    /\ faults' = faults + 1
    /\ UNCHANGED <<produced, committed, up, rows, docs, history>>

MarkMessage(p) ==
    /\ up /\ claim[p].pc = "mark"
    /\ claim' = [claim EXCEPT ![p].pc = "idle", ![p].pos = @ + 1, ![p].marked = claim[p].pos + 1]
    /\ UNCHANGED <<produced, committed, up, session, rows, docs, faults, history>>

ClaimReturns(p) ==
    /\ up /\ session = "ending" /\ claim[p].pc = "idle"
    /\ claim' = [claim EXCEPT ![p].pc = "returned"]
    /\ UNCHANGED <<produced, committed, up, session, rows, docs, faults, history>>

-----------------------------------------------------------------------------
Crash ==
    /\ up /\ faults < MaxFaults
    /\ up' = FALSE /\ session' = "none" /\ faults' = faults + 1
    /\ claim' = [p \in Partitions |-> NoClaim]
    /\ UNCHANGED <<produced, committed, rows, docs, history>>

Restart ==
    /\ ~up /\ up' = TRUE
    /\ UNCHANGED <<produced, committed, session, claim, rows, docs, faults, history>>

ConsumeClaim(p) ==
    \/ HandlerFails(p) \/ HandlerIgnores(p) \/ IndexDocument(p)
    \/ ReadCount(p) \/ WriteCount(p) \/ CountFails(p) \/ MarkMessage(p) \/ ClaimReturns(p)

Next ==
    \/ \E p \in Partitions : Produce(p) \/ AutoCommit(p) \/ ConsumeClaim(p)
    \/ Consume \/ Rebalance \/ SessionEnds
    \/ Crash \/ Restart

Spec == Init /\ [][Next]_vars

(* The goroutines run and a crashed process is started again; nobody has to *)
(* write logs, and no call has to succeed while there are faults left.      *)
Fairness ==
    /\ WF_vars(Consume) /\ WF_vars(SessionEnds) /\ WF_vars(Restart)
    /\ \A p \in Partitions : WF_vars(ConsumeClaim(p)) /\ WF_vars(AutoCommit(p))

FairSpec == Spec /\ Fairness

-----------------------------------------------------------------------------
TypeOK ==
    /\ \A p \in Partitions :
          /\ produced[p] \in 0 .. Len(Log[p])
          /\ committed[p] \in {None} \cup 0 .. produced[p]
          /\ claim[p].pc \in {"none", "idle", "write", "mark", "returned"}
          /\ claim[p].pos \in 0 .. produced[p]
          /\ claim[p].marked \in {None} \cup 0 .. produced[p]
          /\ claim[p].seen \in {None} \cup Nat
          /\ handled[p] \subseteq Offsets(p)
          /\ docs[p] \in [Offsets(p) -> Nat]
          /\ from[p] \in 0 .. produced[p]
    /\ \A r \in Routes : rows[r] \in Seq(Nat) /\ counted[r] \in Nat
    /\ up \in BOOLEAN /\ session \in {"none", "open", "ending"} /\ faults \in 0 .. MaxFaults

(* An offset is committed only past messages that were handled, whatever    *)
(* fails, crashes or moves: no log is lost once the partition has an        *)
(* offset.                                                                  *)
NothingSkipped ==
    \A p \in Partitions :
        committed[p] # None => \A o \in from[p] .. committed[p] - 1 : o \in handled[p]

(* A handled log is in Elasticsearch, and at most once for each time it was *)
(* taken: one try and one retry for each fault.                             *)
LogsAreIndexed ==
    \A p \in Partitions : \A o \in Offsets(p) :
        MessageAt(p, o).body = "log" /\ EsClient /\ o \in handled[p]
            => docs[p][o] \in 1 .. 1 + MaxFaults

(* Races lose counts and redelivery repeats them, but a row never shows     *)
(* more requests than were counted.                                         *)
CountsAreNotInvented ==
    \A r \in Routes : \A i \in DOMAIN rows[r] : rows[r][i] \in 1 .. counted[r]

(* Two services have at most one row for each claim that can race for it.   *)
RowsAreBounded == \A r \in Routes : Len(rows[r]) <= Cardinality(Partitions)

(* With one partition there is no race: the one row holds exactly the       *)
(* number of traces that were counted.                                      *)
CountIsExact ==
    Cardinality(Partitions) = 1 =>
        \A r \in Routes : rows[r] = IF counted[r] = 0 THEN <<>> ELSE <<counted[r]>>

(* A message that is written to a partition that has an offset, and one     *)
(* that is handled and committed.                                           *)
Written(p, o) == committed[p] # None /\ produced[p] > o
Committed(p, o) == committed[p] # None /\ committed[p] > o

=============================================================================
