------------------------------- MODULE JobSystem -------------------------------
(***************************************************************************)
(* The server process of cmd/server with everything that runs in it (the   *)
(* outbox relay, the promoter, the Work handlers, the reaper, the HTTP     *)
(* handlers) on one Postgres database and one Redis queue, with the        *)
(* workers, and with crashes and restarts of the server.  A job is         *)
(* submitted by itself here; WorkflowSystem has the steps of a workflow.   *)
(***************************************************************************)
EXTENDS OutboxRelay, JobService, WorkServer

VARIABLE server  \* "up", "down", or "reset": booting, ResetRunningJobs done

vars == <<faults, queueVars, storeVars, relayVars, serviceVars, serverVars, server>>

Init ==
    /\ faults = 0
    /\ QueueInit
    /\ StoreInit
    /\ RelayInit
    /\ ServiceInit
    /\ ServerInit
    /\ server = "up"

TypeOK ==
    /\ faults \in 0..MaxFaults
    /\ QueueTypeOK
    /\ StoreTypeOK
    /\ RelayTypeOK
    /\ ServiceTypeOK
    /\ ServerTypeOK
    /\ server \in {"up", "down", "reset"}
--------------------------------------------------------------------------------
Submit(j) ==
    /\ SubmitJob(j)
    /\ UNCHANGED <<due, relayVars, serverVars>>

CancelJob(j) ==
    /\ CancelStep(j)
    /\ UNCHANGED <<due, relayVars, serverVars>>

Relay ==
    /\ RelayStep
    /\ UNCHANGED <<due, serviceVars, serverVars>>

Promote ==
    /\ \/ PromoteRead /\ NoFault
       \/ PromoteExec /\ NoFault
       \/ PromoteError /\ Fault("redis")
    /\ UNCHANGED <<storeVars, relayVars, serviceVars, serverVars>>

Handler(s) ==
    /\ HandlerStep(s)
    /\ UNCHANGED <<due, relayVars, serviceVars>>

Worker(s) ==
    /\ Connect(s) \/ Finish(s)
    /\ UNCHANGED <<due, relayVars, serviceVars>>

Trouble ==
    /\ \/ \E s \in Sessions : Disconnect(s)
       \/ \E j \in Jobs : HeartbeatTimeout(j)
    /\ UNCHANGED <<due, relayVars, serviceVars>>

Reaper ==
    /\ ReaperStep
    /\ UNCHANGED <<due, relayVars, serviceVars>>
--------------------------------------------------------------------------------
\* The process dies: memory, streams and the relay's transaction are gone,
\* Postgres and Redis keep what they hold.
Crash ==
    /\ server # "down"
    /\ Fault("crash")
    /\ server' = "down"
    /\ locked' = {}
    /\ relay' = RelayIdle
    /\ due' = {}
    /\ cancelPc' = [j \in Jobs |-> "idle"]
    /\ cancelRc' = [j \in Jobs |-> 0]
    /\ owner' = [j \in Jobs |-> Nil]
    /\ lastSeen' = [j \in Jobs |-> "none"]
    /\ pc' = [s \in Sessions |-> IF worker[s] = "new" THEN "new" ELSE "done"]
    /\ worker' = [s \in Sessions |-> IF worker[s] = "new" THEN "new" ELSE "gone"]
    /\ job' = [s \in Sessions |-> Nil]
    /\ rc' = [s \in Sessions |-> 0]
    /\ inFlight' = {}
    /\ outcome' = [s \in Sessions |-> "none"]
    /\ reaper' = ReaperIdle
    /\ UNCHANGED <<redisVars, status, retryCount, outbox, fails, succ>>

\* cmd/server main: ResetRunningJobs, then Recover, then everything starts.
BootReset ==
    /\ server = "down"
    /\ ResetRunningJobs
    /\ server' = "reset"
    /\ UNCHANGED <<queueVars, relayVars, serviceVars, serverVars>>
    /\ NoFault

BootRecover ==
    /\ server = "reset"
    /\ Recover
    /\ server' = "up"
    /\ UNCHANGED <<due, storeVars, relayVars, serviceVars, serverVars>>
    /\ NoFault

Boot == BootReset \/ BootRecover

\* A goroutine of the server takes a step.
Up(Step) == server = "up" /\ Step /\ UNCHANGED server

Next ==
    \/ \E j \in Jobs : Up(Submit(j)) \/ Up(CancelJob(j))
    \/ \E s \in Sessions : Up(Worker(s)) \/ Up(Handler(s))
    \/ Up(Relay)
    \/ Up(Promote)
    \/ Up(Reaper)
    \/ Up(Trouble)
    \/ Boot
    \/ Crash

Spec == Init /\ [][Next]_vars

(***************************************************************************)
(* Goroutines are scheduled, tickers fire, commands end, workers connect,  *)
(* and a server that is down is started again.  Nobody has to submit or to *)
(* cancel a job, and no failure has to happen.                             *)
(***************************************************************************)
Fairness ==
    /\ WF_vars(Up(Relay))
    /\ WF_vars(Up(Promote))
    /\ WF_vars(Up(Reaper))
    /\ \A s \in Sessions : WF_vars(Up(Worker(s))) /\ WF_vars(Up(Handler(s)))
    /\ \A j \in Jobs : WF_vars(Up(CancelJob(j) /\ cancelPc[j] # "idle"))
    /\ WF_vars(Boot)

FairSpec == Spec /\ Fairness

\* Without the assumption that commands end, and without heartbeats that have
\* to come: a worker may hang in silence for ever.
HungSpec ==
    /\ Spec
    /\ WF_vars(Up(Reaper)) /\ WF_vars(Up(Relay)) /\ WF_vars(Up(Promote))
    /\ \A s \in Sessions : WF_vars(Up(Handler(s) /\ pc'[s] # "heartbeat"))
================================================================================
