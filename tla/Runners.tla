------------------------------ MODULE Runners ------------------------------
(***************************************************************************)
(* The process around the event queue: Data, which the application runs as *)
(* one of its servers and which starts the registered runners; ClusterRepo,*)
(* the only runner, whose Start is the worker that takes the events; the   *)
(* Kafka consumer it starts; the API requests that put events in; and the  *)
(* application that stops everything on a signal or on an error.           *)
(*                                                                         *)
(* ClusterLifecycle looks inside the handler and takes the process as one  *)
(* step that ends everything; here an event is a name and the steps of     *)
(* starting, failing and stopping are apart.                               *)
(*                                                                         *)
(* External: the application calls Start and Stop of each server in        *)
(* goroutines of its own, Stop once the first Start returned an error or a *)
(* signal arrived, and returns when all of them have; the context it gives *)
(* to Start is the one of newApp, which nothing cancels.                   *)
(***************************************************************************)
EXTENDS Naturals, Sequences, FiniteSets

CONSTANTS
    Requests,   \* the API requests, each with one event
    BootEvent,  \* the event of the cluster that the configuration names
    QueueCap,   \* capacity of the event channel
    Kafka       \* whether the configuration has a Kafka consumer

ASSUME RunnersAssumption ==
    /\ QueueCap \in Nat \ {0}
    /\ Kafka \in BOOLEAN
    /\ BootEvent \notin Requests

VARIABLES
    phase,      \* the process
    serving,    \* whether the API servers still take requests
    starter,    \* Data.Start
    registered, \* whether ClusterRepo is in Data.runner
    stopper,    \* Data.Stop
    worker,     \* ClusterRepo.Start and the event it handles
    kafka,      \* the goroutine of ConsumeMessages
    request,    \* the API requests
    runnerChan, errChan,    \* channels of one runner and one error
    eventChan,              \* the channel of events
    accepted, handled       \* history: the events accepted and taken so far

procs == <<starter, stopper, worker, kafka, request>>
chans == <<runnerChan, errChan, eventChan>>
vars == <<phase, serving, registered, procs, chans, accepted, handled>>

Events == Requests \cup {BootEvent}
Alive == phase \in {"running", "stopping", "returned"}

Init ==
    /\ phase = "running" /\ serving = TRUE
    /\ starter = "loop" /\ registered = FALSE /\ stopper = "waiting"
    /\ worker = "absent" /\ kafka = "absent"
    /\ request = [r \in Requests |-> "idle"]
    /\ runnerChan = [full |-> TRUE, open |-> TRUE]
    /\ errChan = [full |-> FALSE, open |-> TRUE]
    /\ \E b \in {<<>>, <<BootEvent>>} : eventChan = [buf |-> b, open |-> TRUE] /\ accepted = b
    /\ handled = <<>>

-----------------------------------------------------------------------------
(* Data.Start: a select over its two channels.  A closed channel still      *)
(* delivers what it holds.                                                  *)

(* Variant: the runner is kept for Stop but not started.                    *)
StartRunnerKept ==
    /\ Alive /\ starter = "loop" /\ runnerChan.full
    /\ runnerChan' = [runnerChan EXCEPT !.full = FALSE]
    /\ starter' = "launched"
    /\ UNCHANGED <<phase, serving, registered, stopper, worker, kafka, request, errChan,
                   eventChan, accepted, handled>>

(* The goroutine of the runner: ClusterRepo.Start starts the consumer and   *)
(* waits for events.                                                        *)
StartRunner ==
    /\ Alive /\ starter = "loop" /\ runnerChan.full
    /\ runnerChan' = [runnerChan EXCEPT !.full = FALSE]
    /\ starter' = "launched"
    /\ worker' = "idle"
    /\ kafka' = IF Kafka THEN "consuming" ELSE "absent"
    /\ UNCHANGED <<phase, serving, registered, stopper, request, errChan, eventChan,
                   accepted, handled>>

(* The append to Data.runner, which Stop reads without a lock.              *)
KeepRunner ==
    /\ Alive /\ starter = "launched"
    /\ registered' = TRUE
    /\ starter' = "loop"
    /\ UNCHANGED <<phase, serving, stopper, worker, kafka, request, chans, accepted, handled>>

(* An error makes the application stop its servers.                         *)
StarterFails ==
    /\ Alive /\ starter = "loop" /\ errChan.full
    /\ errChan' = [errChan EXCEPT !.full = FALSE]
    /\ starter' = "returned"
    /\ phase' = IF phase = "running" THEN "stopping" ELSE phase
    /\ UNCHANGED <<serving, registered, stopper, worker, kafka, request, runnerChan,
                   eventChan, accepted, handled>>

StarterSeesClosed ==
    /\ Alive /\ starter = "loop"
    /\ \/ ~runnerChan.full /\ ~runnerChan.open
       \/ ~errChan.full /\ ~errChan.open
    /\ starter' = "returned"
    /\ UNCHANGED <<phase, serving, registered, stopper, worker, kafka, request, chans,
                   accepted, handled>>

-----------------------------------------------------------------------------
(* ClusterRepo.Start and the goroutine of the Kafka consumer.               *)

(* Variant: the event stays in the queue until it is handled.               *)
TakePeeks ==
    /\ Alive /\ worker = "idle" /\ eventChan.buf # <<>>
    /\ handled' = Append(handled, Head(eventChan.buf))
    /\ worker' = "handling"
    /\ UNCHANGED <<phase, serving, registered, starter, stopper, kafka, request, chans, accepted>>

Take ==
    /\ Alive /\ worker = "idle" /\ eventChan.buf # <<>>
    /\ eventChan' = [eventChan EXCEPT !.buf = Tail(@)]
    /\ handled' = Append(handled, Head(eventChan.buf))
    /\ worker' = "handling"
    /\ UNCHANGED <<phase, serving, registered, starter, stopper, kafka, request, runnerChan,
                   errChan, accepted>>

(* The handler returns, fails, or panics and takes the process with it.     *)
Handled ==
    /\ Alive /\ worker = "handling"
    /\ \/ worker' = "idle" /\ UNCHANGED phase
       \/ worker' = "report" /\ UNCHANGED phase
       \/ phase' = "panicked" /\ UNCHANGED worker
    /\ UNCHANGED <<serving, registered, starter, stopper, kafka, request, chans, accepted, handled>>

WorkerSeesClosed ==
    /\ Alive /\ worker = "idle"
    /\ eventChan.buf = <<>> /\ ~eventChan.open
    /\ worker' = "returned"
    /\ UNCHANGED <<phase, serving, registered, starter, stopper, kafka, request, chans,
                   accepted, handled>>

(* Variant: an error is dropped unless Data.Start waits for it right then.  *)
AddRunnerErrorUnbuffered ==
    /\ Alive
    /\ IF ~errChan.open THEN phase' = "closedSend" /\ UNCHANGED errChan
       ELSE /\ errChan' = IF starter = "loop" THEN [errChan EXCEPT !.full = TRUE] ELSE errChan
            /\ UNCHANGED phase

(* A send that does not block: dropped when an error is waiting already, a  *)
(* panic when the channel is closed.                                        *)
AddRunnerError ==
    /\ Alive
    /\ IF ~errChan.open THEN phase' = "closedSend" /\ UNCHANGED errChan
       ELSE errChan' = [errChan EXCEPT !.full = TRUE] /\ UNCHANGED phase

(* Variant: the worker closes its channel when it fails.                    *)
WorkerReportsAndCloses ==
    /\ worker = "report" /\ AddRunnerError
    /\ worker' = "returned"
    /\ eventChan' = [eventChan EXCEPT !.open = FALSE]
    /\ UNCHANGED <<serving, registered, starter, stopper, kafka, request, runnerChan,
                   accepted, handled>>

WorkerReports ==
    /\ worker = "report" /\ AddRunnerError
    /\ worker' = "returned"
    /\ UNCHANGED <<serving, registered, starter, stopper, kafka, request, runnerChan,
                   eventChan, accepted, handled>>

(* ConsumeMessages ends on an error only, and gives its mutex back then.    *)
KafkaFails ==
    /\ Alive /\ kafka = "consuming"
    /\ kafka' = "report"
    /\ UNCHANGED <<phase, serving, registered, starter, stopper, worker, request, chans,
                   accepted, handled>>

KafkaReports ==
    /\ kafka = "report" /\ AddRunnerError
    /\ kafka' = "returned"
    /\ UNCHANGED <<serving, registered, starter, stopper, worker, request, runnerChan,
                   eventChan, accepted, handled>>

-----------------------------------------------------------------------------
(* The API requests.                                                        *)

Arrive(r) ==
    /\ Alive /\ serving /\ request[r] = "idle"
    /\ request' = [request EXCEPT ![r] = "apply"]
    /\ UNCHANGED <<phase, serving, registered, starter, stopper, worker, kafka, chans,
                   accepted, handled>>

(* Variant: the channel takes one event too many.                           *)
ApplyOverflows(r) ==
    /\ Alive /\ request[r] = "apply" /\ eventChan.open
    /\ Len(eventChan.buf) <= QueueCap
    /\ eventChan' = [eventChan EXCEPT !.buf = Append(@, r)]
    /\ accepted' = Append(accepted, r)
    /\ request' = [request EXCEPT ![r] = "accepted"]
    /\ UNCHANGED <<phase, serving, registered, starter, stopper, worker, kafka, runnerChan,
                   errChan, handled>>

(* ClusterRepo.Apply: full refuses; closed panics, which the recovery of    *)
(* the servers turns into an error of the request.                          *)
Apply(r) ==
    /\ Alive /\ request[r] = "apply"
    /\ IF eventChan.open /\ Len(eventChan.buf) < QueueCap
       THEN /\ eventChan' = [eventChan EXCEPT !.buf = Append(@, r)]
            /\ accepted' = Append(accepted, r)
       ELSE UNCHANGED <<eventChan, accepted>>
    /\ request' = [request EXCEPT ![r] =
         IF ~eventChan.open THEN "panicked"
         ELSE IF Len(eventChan.buf) < QueueCap THEN "accepted" ELSE "refused"]
    /\ UNCHANGED <<phase, serving, registered, starter, stopper, worker, kafka, runnerChan,
                   errChan, handled>>

-----------------------------------------------------------------------------
(* Stopping.                                                                *)

Signal ==
    /\ phase = "running"
    /\ phase' = "stopping"
    /\ UNCHANGED <<serving, registered, procs, chans, accepted, handled>>

(* The API servers stop by themselves, at any time after the signal.        *)
StopServing ==
    /\ phase = "stopping" /\ serving
    /\ serving' = FALSE
    /\ UNCHANGED <<phase, registered, procs, chans, accepted, handled>>

(* Variant: Stop closes its own channels only after it stopped a runner.    *)
StopRegistered ==
    /\ phase = "stopping" /\ stopper = "waiting"
    /\ eventChan' = IF registered THEN [eventChan EXCEPT !.open = FALSE] ELSE eventChan
    /\ stopper' = IF registered THEN "closeRunner" ELSE "done"
    /\ UNCHANGED <<phase, serving, registered, starter, worker, kafka, request, runnerChan,
                   errChan, accepted, handled>>

(* Data.Stop: ClusterRepo.Stop for the runners it finds, which closes the   *)
(* event channel, then its own channels one after the other.                *)
StopRunners ==
    /\ phase = "stopping" /\ stopper = "waiting"
    /\ eventChan' = IF registered THEN [eventChan EXCEPT !.open = FALSE] ELSE eventChan
    /\ stopper' = "closeRunner"
    /\ UNCHANGED <<phase, serving, registered, starter, worker, kafka, request, runnerChan,
                   errChan, accepted, handled>>

CloseRunnerChan ==
    /\ Alive /\ stopper = "closeRunner"
    /\ runnerChan' = [runnerChan EXCEPT !.open = FALSE]
    /\ stopper' = "closeErr"
    /\ UNCHANGED <<phase, serving, registered, starter, worker, kafka, request, errChan,
                   eventChan, accepted, handled>>

CloseErrChan ==
    /\ Alive /\ stopper = "closeErr"
    /\ errChan' = [errChan EXCEPT !.open = FALSE]
    /\ stopper' = "done"
    /\ UNCHANGED <<phase, serving, registered, starter, worker, kafka, request, runnerChan,
                   eventChan, accepted, handled>>

(* app.Run returns; neither the worker nor the consumer is waited for.      *)
RunReturns ==
    /\ phase = "stopping"
    /\ ~serving /\ starter = "returned" /\ stopper = "done"
    /\ phase' = "returned"
    /\ UNCHANGED <<serving, registered, procs, chans, accepted, handled>>

(* The deferred cleanup: KafkaConsumer.Close wants the mutex that           *)
(* ConsumeMessages holds while it consumes.                                 *)
Clean ==
    /\ phase = "returned" /\ kafka # "consuming"
    /\ phase' = "exited"
    /\ UNCHANGED <<serving, registered, procs, chans, accepted, handled>>

Starter == StartRunner \/ KeepRunner \/ StarterFails \/ StarterSeesClosed
Worker == Take \/ Handled \/ WorkerSeesClosed \/ WorkerReports
Stopper == StopServing \/ StopRunners \/ CloseRunnerChan \/ CloseErrChan \/ RunReturns \/ Clean

Next ==
    \/ Starter \/ Worker \/ Stopper
    \/ KafkaFails \/ KafkaReports
    \/ \E r \in Requests : Arrive(r) \/ Apply(r)
    \/ Signal

Spec == Init /\ [][Next]_vars

(* Goroutines are scheduled and a handler returns; nobody has to send a     *)
(* request or a signal, and Kafka need not fail.                            *)
Fairness ==
    /\ WF_vars(Starter) /\ WF_vars(Worker) /\ WF_vars(Stopper) /\ WF_vars(KafkaReports)
    /\ \A r \in Requests : WF_vars(Apply(r))

FairSpec == Spec /\ Fairness

-----------------------------------------------------------------------------
(* Properties.                                                              *)

Chan == [full : BOOLEAN, open : BOOLEAN]

(* Every variable holds a value of its kind and the event channel keeps     *)
(* within its capacity.                                                     *)
TypeOK ==
    /\ phase \in {"running", "stopping", "returned", "exited", "panicked", "closedSend"}
    /\ serving \in BOOLEAN /\ registered \in BOOLEAN
    /\ starter \in {"loop", "launched", "returned"}
    /\ stopper \in {"waiting", "closeRunner", "closeErr", "done"}
    /\ worker \in {"absent", "idle", "handling", "report", "returned"}
    /\ kafka \in {"absent", "consuming", "report", "returned"}
    /\ request \in [Requests -> {"idle", "apply", "accepted", "refused", "panicked"}]
    /\ runnerChan \in Chan /\ errChan \in Chan
    /\ eventChan \in [buf : Seq(Events), open : BOOLEAN]
    /\ Len(eventChan.buf) <= QueueCap
    /\ accepted \in Seq(Events) /\ handled \in Seq(Events)

(* The queue is at most once and in order however starts, failures and the  *)
(* stop interleave: the abstract specification of EventDelivery.            *)
Delivery == INSTANCE EventDelivery WITH open <- eventChan.open
DeliveryHolds == Delivery!Spec

(* A send meets a closed channel only once Data.Stop has begun: no error of *)
(* a runner closes a channel under a request that is still being served.    *)
ClosedOnlyByStop ==
    (phase = "closedSend" \/ \E r \in Requests : request[r] = "panicked")
      => stopper # "waiting"

(* An error of a runner is not lost: it ends the application, so that a     *)
(* process whose worker is gone does not go on accepting events.            *)
FailureStopsApp == (worker = "report" \/ kafka = "report") ~> phase # "running"

(* While the application runs, an accepted event is taken in the end.       *)
AcceptedIsTaken == (eventChan.buf # <<>>) ~> (eventChan.buf = <<>> \/ phase # "running")

(* A stop comes to its end, unless the cleanup waits for the mutex of a     *)
(* Kafka consumer that goes on consuming.                                   *)
StopEnds ==
    (phase # "running")
      ~> (~Alive \/ (phase = "returned" /\ kafka = "consuming"))

(* The error of Apply says "cluster event channel is either full or closed" *)
(* (data/cluster.go:159): a closed channel is an error, not a panic.        *)
ClosedIsRefused == \A r \in Requests : request[r] # "panicked"

=============================================================================
