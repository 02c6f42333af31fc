--------------------------- MODULE RunnersProofs ---------------------------
(***************************************************************************)
(* Theorems about Runners, for every set of requests and every capacity of *)
(* the event channel: the types, that a closed channel is met only during  *)
(* a stop, and that the queue implements EventDelivery.                    *)
(***************************************************************************)
EXTENDS Runners, TLAPS

Channels == Starter \/ Stopper \/ Signal \/ KafkaFails

(* Emptying, filling and closing a channel.                                 *)
LEMMA ChanType ==
    ASSUME NEW c \in Chan
    PROVE  /\ [c EXCEPT !.full = FALSE] \in Chan /\ [c EXCEPT !.full = TRUE] \in Chan
           /\ [c EXCEPT !.open = FALSE] \in Chan
BY DEF Chan

(* Starting and stopping keep the types.                                    *)
LEMMA ChannelsType == ASSUME TypeOK, Channels PROVE TypeOK'
<1>1. CASE StartRunner
  BY <1>1, ChanType DEF StartRunner, TypeOK
<1>2. CASE KeepRunner \/ StarterSeesClosed
  <2>1. UNCHANGED <<phase, serving, stopper, worker, kafka, request, runnerChan, errChan,
                    eventChan, accepted, handled>>
    BY <1>2 DEF KeepRunner, StarterSeesClosed, chans
  <2>2. starter' \in {"loop", "launched", "returned"} /\ registered' \in BOOLEAN
    BY <1>2 DEF KeepRunner, StarterSeesClosed, TypeOK
  <2>3. QED
    BY <2>1, <2>2 DEF TypeOK
<1>3. CASE StarterFails
  <2>1. errChan' \in Chan
    BY <1>3, ChanType DEF StarterFails, TypeOK
  <2>2. QED
    BY <1>3, <2>1 DEF StarterFails, TypeOK
<1>4. CASE StopServing \/ RunReturns \/ Clean \/ Signal
  <2>1. UNCHANGED <<registered, starter, stopper, worker, kafka, request, runnerChan, errChan,
                    eventChan, accepted, handled>>
    BY <1>4 DEF StopServing, RunReturns, Clean, Signal, procs, chans
  <2>2. /\ phase' \in {"running", "stopping", "returned", "exited", "panicked", "closedSend"}
        /\ serving' \in BOOLEAN
    BY <1>4 DEF StopServing, RunReturns, Clean, Signal, TypeOK
  <2>3. QED
    BY <2>1, <2>2 DEF TypeOK
<1>5. CASE StopRunners
  BY <1>5 DEF StopRunners, TypeOK
<1>6. CASE CloseRunnerChan
  <2>1. runnerChan' \in Chan
    BY <1>6, ChanType DEF CloseRunnerChan, TypeOK
  <2>2. QED
    BY <1>6, <2>1 DEF CloseRunnerChan, TypeOK
<1>7. CASE CloseErrChan
  <2>1. errChan' \in Chan
    BY <1>7, ChanType DEF CloseErrChan, TypeOK
  <2>2. QED
    BY <1>7, <2>1 DEF CloseErrChan, TypeOK
<1>8. CASE KafkaFails
  BY <1>8 DEF KafkaFails, TypeOK, chans
<1>9. QED
  BY <1>1, <1>2, <1>3, <1>4, <1>5, <1>6, <1>7, <1>8 DEF Channels, Starter, Stopper

(* Whoever reports an error keeps the types of the channel and the process. *)
LEMMA AddRunnerErrorType ==
    ASSUME TypeOK, AddRunnerError
    PROVE  /\ errChan' \in Chan
           /\ phase' \in {"running", "stopping", "returned", "exited", "panicked", "closedSend"}
BY ChanType DEF AddRunnerError, TypeOK

(* The worker and the Kafka consumer keep the types.                        *)
LEMMA WorkerType == ASSUME TypeOK, Worker \/ KafkaReports PROVE TypeOK'
<1>1. CASE Take
  <2>1. eventChan.buf \in Seq(Events) /\ eventChan.buf # <<>>
    BY <1>1 DEF Take, TypeOK
  <2>2. /\ Tail(eventChan.buf) \in Seq(Events) /\ Head(eventChan.buf) \in Events
        /\ Len(Tail(eventChan.buf)) <= Len(eventChan.buf)
    BY <2>1
  <2>3. handled' \in Seq(Events)
    BY <1>1, <2>2 DEF Take, TypeOK
  <2>4. /\ eventChan'.buf = Tail(eventChan.buf) /\ eventChan'.open = eventChan.open
        /\ Len(eventChan'.buf) <= QueueCap
    <3>1. Len(eventChan.buf) \in Nat /\ Len(Tail(eventChan.buf)) \in Nat
      BY <2>1, <2>2
    <3>2. QED
      BY <1>1, <2>2, <3>1, RunnersAssumption DEF Take, TypeOK
  <2>5. QED
    BY <1>1, <2>2, <2>3, <2>4 DEF Take, TypeOK
<1>2. CASE Handled \/ WorkerSeesClosed
  BY <1>2 DEF Handled, WorkerSeesClosed, TypeOK, chans
<1>3. CASE WorkerReports \/ KafkaReports
  BY <1>3, AddRunnerErrorType DEF WorkerReports, KafkaReports, TypeOK
<1>4. QED
  BY <1>1, <1>2, <1>3 DEF Worker

(* The request that sends its event keeps the types and the capacity.       *)
LEMMA ApplyType ==
    ASSUME TypeOK, NEW r \in Requests, Apply(r)
    PROVE  TypeOK'
<1>1. r \in Events
  BY DEF Events
<1>2. /\ accepted' \in Seq(Events)
      /\ eventChan' \in [buf : Seq(Events), open : BOOLEAN]
      /\ Len(eventChan'.buf) <= QueueCap
  <2>1. CASE eventChan.open /\ Len(eventChan.buf) < QueueCap
    <3>1. /\ eventChan.buf \in Seq(Events) /\ accepted \in Seq(Events)
          /\ eventChan' = [eventChan EXCEPT !.buf = Append(eventChan.buf, r)]
          /\ accepted' = Append(accepted, r)
      BY <2>1 DEF Apply, TypeOK
    <3>2. /\ Append(eventChan.buf, r) \in Seq(Events) /\ Append(accepted, r) \in Seq(Events)
          /\ Len(Append(eventChan.buf, r)) = Len(eventChan.buf) + 1
          /\ Len(eventChan.buf) \in Nat
      BY <1>1, <3>1
    <3>3. /\ eventChan'.buf = Append(eventChan.buf, r) /\ eventChan'.open = eventChan.open
          /\ eventChan' \in [buf : Seq(Events), open : BOOLEAN]
      BY <3>1, <3>2 DEF TypeOK
    <3>4. QED
      BY <2>1, <3>1, <3>2, <3>3, RunnersAssumption
  <2>2. CASE ~(eventChan.open /\ Len(eventChan.buf) < QueueCap)
    BY <2>2 DEF Apply, TypeOK
  <2>3. QED
    BY <2>1, <2>2
<1>3. request' \in [Requests -> {"idle", "apply", "accepted", "refused", "panicked"}]
  BY DEF Apply, TypeOK
<1>4. QED
  BY <1>2, <1>3 DEF Apply, TypeOK

(* Every step keeps the types.                                              *)
LEMMA NextType == TypeOK /\ [Next]_vars => TypeOK'
<1> SUFFICES ASSUME TypeOK, [Next]_vars PROVE TypeOK'
  OBVIOUS
<1>1. ASSUME NEW r \in Requests, Arrive(r) PROVE TypeOK'
  BY <1>1 DEF Arrive, TypeOK, chans
<1>2. CASE UNCHANGED vars
  BY <1>2 DEF vars, procs, chans, TypeOK
<1>3. QED
  BY <1>1, <1>2, ApplyType, ChannelsType, WorkerType DEF Next, Channels

(* The event channel never holds more than its capacity and every variable  *)
(* has its type, for any number of requests.                                *)
THEOREM RunnersTypeCorrect == Spec => []TypeOK
<1>1. Init => TypeOK
  <2> SUFFICES ASSUME Init PROVE TypeOK
    OBVIOUS
  <2>1. PICK b \in {<<>>, <<BootEvent>>} : eventChan = [buf |-> b, open |-> TRUE] /\ accepted = b
    BY DEF Init
  <2>2. b \in Seq(Events) /\ Len(b) <= 1 /\ <<>> \in Seq(Events)
    <3>1. BootEvent \in Events
      BY DEF Events
    <3>2. CASE b = <<>>
      BY <3>2
    <3>3. CASE b = <<BootEvent>>
      <4>1. <<BootEvent>> \in Seq(Events) /\ Len(<<BootEvent>>) = 1
        BY <3>1
      <4>2. QED
        BY <3>3, <4>1
    <3>4. QED
      BY <2>1, <3>2, <3>3
  <2>3. Len(b) <= QueueCap
    BY <2>1, <2>2, RunnersAssumption
  <2>4. /\ eventChan \in [buf : Seq(Events), open : BOOLEAN]
        /\ Len(eventChan.buf) <= QueueCap /\ accepted \in Seq(Events)
    BY <2>1, <2>2, <2>3
  <2>5. QED
    BY <2>2, <2>4 DEF Init, TypeOK, Chan
<1>2. QED
  BY <1>1, NextType, PTL DEF Spec

-----------------------------------------------------------------------------
(* A closed channel.  Only the steps of Stopper close one.                  *)

OpenUntilStop == stopper = "waiting" => eventChan.open /\ errChan.open

(* Whatever happens before Data.Stop begins leaves both channels open.      *)
LEMMA StepOpen ==
    ASSUME TypeOK, OpenUntilStop, [Next]_vars
    PROVE  OpenUntilStop'
<1>1. CASE Starter
  BY <1>1 DEF Starter, StartRunner, KeepRunner, StarterFails, StarterSeesClosed, OpenUntilStop,
              TypeOK, Chan, chans
<1>2. CASE Worker \/ KafkaFails \/ KafkaReports
  BY <1>2 DEF Worker, Take, Handled, WorkerSeesClosed, WorkerReports, KafkaFails, KafkaReports,
              AddRunnerError, OpenUntilStop, TypeOK, Chan, chans
<1>3. CASE Stopper
  BY <1>3 DEF Stopper, StopServing, StopRunners, CloseRunnerChan, CloseErrChan, RunReturns,
              Clean, OpenUntilStop, procs, chans
<1>4. ASSUME NEW r \in Requests, Arrive(r) \/ Apply(r) PROVE OpenUntilStop'
  BY <1>4 DEF Arrive, Apply, OpenUntilStop, TypeOK, chans
<1>5. CASE Signal \/ UNCHANGED vars
  BY <1>5 DEF Signal, vars, OpenUntilStop, procs, chans
<1>6. QED
  BY <1>1, <1>2, <1>3, <1>4, <1>5 DEF Next

(* A send that meets a closed channel finds that Data.Stop has begun.       *)
LEMMA StepClosed ==
    ASSUME TypeOK, OpenUntilStop, ClosedOnlyByStop, [Next]_vars
    PROVE  ClosedOnlyByStop'
<1>1. CASE Starter
  BY <1>1 DEF Starter, StartRunner, KeepRunner, StarterFails, StarterSeesClosed,
              ClosedOnlyByStop, Alive, chans
<1>2. CASE Worker \/ KafkaFails \/ KafkaReports
  BY <1>2 DEF Worker, Take, Handled, WorkerSeesClosed, WorkerReports, KafkaFails, KafkaReports,
              AddRunnerError, OpenUntilStop, ClosedOnlyByStop, chans
<1>3. CASE Stopper
  BY <1>3 DEF Stopper, StopServing, StopRunners, CloseRunnerChan, CloseErrChan, RunReturns,
              Clean, ClosedOnlyByStop, TypeOK, procs, chans
<1>4. ASSUME NEW r \in Requests, Arrive(r) \/ Apply(r) PROVE ClosedOnlyByStop'
  BY <1>4 DEF Arrive, Apply, OpenUntilStop, ClosedOnlyByStop, TypeOK, chans
<1>5. CASE Signal \/ UNCHANGED vars
  BY <1>5 DEF Signal, vars, ClosedOnlyByStop, procs, chans
<1>6. QED
  BY <1>1, <1>2, <1>3, <1>4, <1>5 DEF Next

(* No failure of a runner closes a channel under a request: a send meets a  *)
(* closed channel only once Data.Stop has begun.                            *)
THEOREM ClosedOnlyWhenStopping == Spec => []ClosedOnlyByStop
<1>1. Init => OpenUntilStop /\ ClosedOnlyByStop
  BY DEF Init, OpenUntilStop, ClosedOnlyByStop
<1>2. TypeOK /\ OpenUntilStop /\ ClosedOnlyByStop /\ [Next]_vars
        => OpenUntilStop' /\ ClosedOnlyByStop'
  BY StepOpen, StepClosed
<1>3. QED
  BY <1>1, <1>2, RunnersTypeCorrect, PTL DEF Spec

-----------------------------------------------------------------------------
(* The queue implements EventDelivery.  The channel holds exactly the       *)
(* accepted events that are not handled yet, and no request that still has  *)
(* to send its event has it among the accepted ones.                        *)

Waiting ==
    /\ Len(accepted) = Len(handled) + Len(eventChan.buf)
    /\ \A i \in 1..Len(eventChan.buf) : eventChan.buf[i] = accepted[Len(handled) + i]

SentOnce ==
    \A r \in Requests : request[r] \in {"idle", "apply"} => ~Delivery!Occurs(r, accepted)

QueueInv == Waiting /\ SentOnce

(* Neither side of the queue moves.                                         *)
LEMMA QueueUnchanged ==
    ASSUME QueueInv, eventChan'.buf = eventChan.buf, UNCHANGED <<accepted, handled>>,
           \A r \in Requests : request'[r] \in {"idle", "apply"} => request[r] \in {"idle", "apply"}
    PROVE  QueueInv'
BY DEF QueueInv, Waiting, SentOnce, Delivery!Occurs

(* The worker takes the oldest event that is not handled yet.               *)
LEMMA TakeStep ==
    ASSUME TypeOK, QueueInv, Take
    PROVE  QueueInv' /\ Delivery!Handle
<1> DEFINE q == eventChan.buf
<1>1. q \in Seq(Events) /\ q # <<>> /\ accepted \in Seq(Events) /\ handled \in Seq(Events)
  BY DEF Take, TypeOK
<1>2. /\ eventChan'.buf = Tail(q) /\ eventChan'.open = eventChan.open
      /\ handled' = Append(handled, Head(q)) /\ accepted' = accepted
      /\ request' = request
  BY DEF Take, TypeOK
<1>3. /\ Len(q) = Len(accepted) - Len(handled)
      /\ \A i \in 1..Len(q) : q[i] = accepted[Len(handled) + i]
  BY <1>1 DEF QueueInv, Waiting
<1> HIDE DEF q
<1>4. /\ Len(q) \in Nat \ {0} /\ Len(Tail(q)) = Len(q) - 1 /\ Head(q) = q[1]
      /\ \A i \in 1..Len(Tail(q)) : Tail(q)[i] = q[i + 1]
      /\ Len(handled) \in Nat /\ Len(accepted) \in Nat
      /\ Len(Append(handled, Head(q))) = Len(handled) + 1
  BY <1>1
<1>5. Waiting'
  <2>1. Len(accepted') = Len(handled') + Len(eventChan'.buf)
    <3>1. Len(eventChan'.buf) = Len(q) - 1
      BY <1>2, <1>4
    <3>2. Len(handled') = Len(handled) + 1
      BY <1>2, <1>4
    <3>3. Len(accepted') = Len(accepted)
      BY <1>2
    <3>4. QED
      BY <1>3, <1>4, <3>1, <3>2, <3>3
  <2>2. ASSUME NEW i \in 1..Len(eventChan'.buf)
        PROVE  eventChan'.buf[i] = accepted'[Len(handled') + i]
    <3>1. i + 1 \in 1..Len(q) /\ eventChan'.buf[i] = q[i + 1]
      BY <1>2, <1>4
    <3>2. Len(handled') + i = Len(handled) + (i + 1)
      BY <1>2, <1>4
    <3>3. QED
      BY <1>2, <1>3, <3>1, <3>2
  <2>3. QED
    BY <2>1, <2>2 DEF Waiting
<1>6. SentOnce'
  BY <1>2 DEF QueueInv, SentOnce, Delivery!Occurs
<1>7. Delivery!Handle
  BY <1>2, <1>3, <1>4 DEF Delivery!Handle
<1>8. QED
  BY <1>5, <1>6, <1>7 DEF QueueInv

(* A request puts its event at the end, or leaves the queue alone.          *)
LEMMA ApplyStep ==
    ASSUME TypeOK, QueueInv, NEW r \in Requests, Apply(r)
    PROVE  QueueInv' /\ (Delivery!Accept(r) \/ UNCHANGED Delivery!vars)
<1>1. /\ request[r] = "apply"
      /\ \A s \in Requests \ {r} : request'[s] = request[s]
      /\ request'[r] \notin {"idle", "apply"}
  BY DEF Apply, TypeOK
<1>2. CASE ~(eventChan.open /\ Len(eventChan.buf) < QueueCap)
  BY <1>1, <1>2, QueueUnchanged DEF Apply, Delivery!vars
<1>3. CASE eventChan.open /\ Len(eventChan.buf) < QueueCap
  <2> DEFINE q == eventChan.buf
  <2>1. q \in Seq(Events) /\ accepted \in Seq(Events) /\ handled \in Seq(Events) /\ r \in Events
    BY DEF TypeOK, Events
  <2>2. /\ eventChan'.buf = Append(q, r) /\ eventChan'.open = eventChan.open
        /\ accepted' = Append(accepted, r) /\ handled' = handled
    BY <1>3 DEF Apply, TypeOK
  <2>3. /\ Len(accepted) = Len(handled) + Len(q)
        /\ \A i \in 1..Len(q) : q[i] = accepted[Len(handled) + i]
    BY DEF QueueInv, Waiting
  <2> HIDE DEF q
  <2>4. /\ Len(q) \in Nat /\ Len(accepted) \in Nat /\ Len(handled) \in Nat
        /\ Len(Append(q, r)) = Len(q) + 1 /\ Len(Append(accepted, r)) = Len(accepted) + 1
        /\ Append(q, r)[Len(q) + 1] = r /\ Append(accepted, r)[Len(accepted) + 1] = r
        /\ \A i \in 1..Len(q) : Append(q, r)[i] = q[i]
        /\ \A i \in 1..Len(accepted) : Append(accepted, r)[i] = accepted[i]
        /\ DOMAIN Append(accepted, r) = 1..(Len(accepted) + 1)
        /\ DOMAIN accepted = 1..Len(accepted)
    BY <2>1
  <2>5. Waiting'
    <3>1. Len(accepted') = Len(handled') + Len(eventChan'.buf)
      BY <2>2, <2>3, <2>4
    <3>2. ASSUME NEW i \in 1..Len(eventChan'.buf)
          PROVE  eventChan'.buf[i] = accepted'[Len(handled') + i]
      <4>1. CASE i = Len(q) + 1
        BY <2>2, <2>3, <2>4, <4>1
      <4>2. CASE i # Len(q) + 1
        <5>1. i \in 1..Len(q) /\ Len(handled) + i \in 1..Len(accepted)
          BY <2>2, <2>3, <2>4, <3>2, <4>2
        <5>2. QED
          BY <2>2, <2>3, <2>4, <5>1
      <4>3. QED
        BY <4>1, <4>2
    <3>3. QED
      BY <3>1, <3>2 DEF Waiting
  <2>6. SentOnce'
    <3> SUFFICES ASSUME NEW s \in Requests, request'[s] \in {"idle", "apply"},
                        NEW i \in DOMAIN accepted'
                 PROVE  accepted'[i] # s
      BY DEF SentOnce, Delivery!Occurs
    <3>1. s # r /\ request[s] \in {"idle", "apply"}
      BY <1>1
    <3>2. \A j \in DOMAIN accepted : accepted[j] # s
      BY <3>1 DEF QueueInv, SentOnce, Delivery!Occurs
    <3>3. QED
      BY <2>2, <2>4, <3>1, <3>2
  <2>7. Delivery!Accept(r)
    BY <1>1, <1>3, <2>2 DEF QueueInv, SentOnce, Delivery!Accept
  <2>8. QED
    BY <2>5, <2>6, <2>7 DEF QueueInv
<1>4. QED
  BY <1>2, <1>3

(* All other steps leave the events alone; one of them closes the queue.    *)
LEMMA OtherSteps ==
    ASSUME TypeOK, QueueInv, [Next]_vars, ~Take, \A r \in Requests : ~Apply(r)
    PROVE  QueueInv' /\ [Delivery!Next]_(Delivery!vars)
<1>1. CASE StopRunners
  <2>1. /\ eventChan'.buf = eventChan.buf /\ UNCHANGED <<accepted, handled, request>>
        /\ eventChan'.open = eventChan.open \/ eventChan'.open = FALSE
    BY <1>1 DEF StopRunners, TypeOK
  <2>2. Delivery!Close \/ UNCHANGED Delivery!vars
    <3>1. eventChan.open \in BOOLEAN
      BY DEF TypeOK
    <3>2. CASE eventChan'.open = eventChan.open
      BY <2>1, <3>2 DEF Delivery!vars
    <3>3. CASE eventChan'.open # eventChan.open
      BY <2>1, <3>1, <3>3 DEF Delivery!Close
    <3>4. QED
      BY <3>2, <3>3
  <2>3. QED
    BY <2>1, <2>2, QueueUnchanged DEF Delivery!Next
<1>2. CASE ~StopRunners
  <2>1. /\ UNCHANGED <<eventChan, accepted, handled>>
        /\ \A r \in Requests :
             request'[r] \in {"idle", "apply"} => request[r] \in {"idle", "apply"}
    <3>1. CASE Starter
      BY <3>1 DEF Starter, StartRunner, KeepRunner, StarterFails, StarterSeesClosed, chans
    <3>2. CASE Worker \/ KafkaFails \/ KafkaReports
      BY <3>2 DEF Worker, Handled, WorkerSeesClosed, WorkerReports, KafkaFails, KafkaReports,
                  chans
    <3>3. CASE Stopper
      BY <1>2, <3>3 DEF Stopper, StopServing, CloseRunnerChan, CloseErrChan, RunReturns, Clean,
                        procs, chans
    <3>4. ASSUME NEW r \in Requests, Arrive(r)
          PROVE  /\ UNCHANGED <<eventChan, accepted, handled>>
                 /\ \A s \in Requests :
                      request'[s] \in {"idle", "apply"} => request[s] \in {"idle", "apply"}
      BY <3>4 DEF Arrive, TypeOK, chans
    <3>5. CASE Signal \/ UNCHANGED vars
      BY <3>5 DEF Signal, vars, procs, chans
    <3>6. QED
      BY <3>1, <3>2, <3>3, <3>4, <3>5 DEF Next
  <2>2. QED
    BY <2>1, QueueUnchanged DEF Delivery!vars
<1>3. QED
  BY <1>1, <1>2

(* The event queue hands each accepted event to the worker at most once and *)
(* in the order of acceptance, and accepts nothing after it was closed,     *)
(* however many requests send to it and whatever fails.                     *)
THEOREM QueueImplementsDelivery == Spec => DeliveryHolds
<1>1. Init => QueueInv /\ Delivery!Init
  <2> SUFFICES ASSUME Init PROVE QueueInv /\ Delivery!Init
    OBVIOUS
  <2>1. PICK b \in {<<>>, <<BootEvent>>} : eventChan = [buf |-> b, open |-> TRUE] /\ accepted = b
    BY DEF Init
  <2>2. handled = <<>> /\ Len(handled) = 0
    BY DEF Init
  <2>3. Waiting
    BY <2>1, <2>2 DEF Waiting
  <2>4. \A i \in DOMAIN accepted : accepted[i] = BootEvent
    <3>1. CASE b = <<>>
      BY <2>1, <3>1
    <3>2. CASE b = <<BootEvent>>
      <4>1. DOMAIN <<BootEvent>> = 1..1 /\ <<BootEvent>>[1] = BootEvent
        OBVIOUS
      <4>2. QED
        BY <2>1, <3>2, <4>1
    <3>3. QED
      BY <2>1, <3>1, <3>2
  <2>5. SentOnce
    BY <2>4, RunnersAssumption DEF SentOnce, Delivery!Occurs
  <2>6. Delivery!Init
    BY <2>1, <2>2 DEF Delivery!Init, Events
  <2>7. QED
    BY <2>3, <2>5, <2>6 DEF QueueInv
<1>2. TypeOK /\ QueueInv /\ [Next]_vars => QueueInv' /\ [Delivery!Next]_(Delivery!vars)
  <2> SUFFICES ASSUME TypeOK, QueueInv, [Next]_vars
               PROVE  QueueInv' /\ [Delivery!Next]_(Delivery!vars)
    OBVIOUS
  <2>1. CASE Take
    BY <2>1, TakeStep DEF Delivery!Next
  <2>2. ASSUME NEW r \in Requests, Apply(r)
        PROVE  QueueInv' /\ [Delivery!Next]_(Delivery!vars)
    BY <2>2, ApplyStep DEF Delivery!Next, Events
  <2>3. QED
    BY <2>1, <2>2, OtherSteps
<1>3. QED
  BY <1>1, <1>2, RunnersTypeCorrect, PTL DEF Spec, DeliveryHolds, Delivery!Spec

=============================================================================
