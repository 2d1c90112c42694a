------------------------------- MODULE Server -------------------------------
(***************************************************************************)
(* The server (server.rs, server/handlers.rs): requests that are counted,  *)
(* updates of the configuration, logins, saves of the statistics, and the  *)
(* life of the process: it stops gracefully or is killed, and starts again *)
(* from what is on disk.  A load says what comes to one instance of it.    *)
(***************************************************************************)
EXTENDS HotReload, Statistics, LoginLimiter

CONSTANTS
  Loads,      \* what may come: requests, updates and what they say, operators, kills
  Starts      \* bound: how often the process is started

ASSUME TimerOfEachRequest == Timers = Requests
ASSUME LoadsAssumption ==
  \A l \in Loads : l.config \in Configs /\ l.bodies \subseteq Configs

VARIABLES
  phase,      \* of the process
  starts,
  load

vars == <<reloadVars, statVars, limVars, phase, starts, load>>
life == <<phase, starts, load>>

Init ==
  /\ load \in Loads
  /\ ReloadInit(load.config) /\ StatInit /\ LimiterInit
  /\ phase = "up" /\ starts = 1

Runs == phase \in {"up", "stopping"}

-----------------------------------------------------------------------------
(* The handlers chat_completions and anthropic_messages.                   *)
Arrive(r) ==
  /\ phase = "up" /\ r \in load.requests
  /\ at[r] = "none"
  /\ Goto(r, "registry") /\ UNCHANGED <<updateVars, pool, made, locks, active, guard, detours>>
  /\ StartTimer(r)
  /\ UNCHANGED <<limVars, life>>

(* A body that does not parse: the timer is dropped unmarked.              *)
Refuse(r) ==
  /\ phase = "up" /\ r \in load.requests
  /\ at[r] = "none"
  /\ Goto(r, "failed") /\ UNCHANGED <<updateVars, pool, made, locks, active, guard, detours>>
  /\ StartTimer(r)
  /\ UNCHANGED <<limVars, life>>

GoOn(r) == RequestGoesOn(r) /\ UNCHANGED <<statVars, limVars, life>>

Answer(r) ==
  /\ \E stream \in BOOLEAN : Answers(r, stream)
  /\ RecordRequest(r, TRUE)
  /\ UNCHANGED <<limVars, life>>

End(r) == Ends(r) /\ RecordDetails(r) /\ UNCHANGED <<limVars, life>>

Fail(r) == Fails(r) /\ RecordRequest(r, FALSE) /\ UNCHANGED <<limVars, life>>

Disconnect(r) == Runs /\ Disconnects(r) /\ UNCHANGED <<statVars, limVars, life>>

(* The handler is over, or the timer has been given to mark_success.       *)
TimerDrops(r) ==
  /\ at[r] \in {"streaming", "details", "failed"}
  /\ DropTimer(r)
  /\ UNCHANGED <<reloadVars, limVars, life>>

RequestStep(r) == Runs /\ (GoOn(r) \/ Answer(r) \/ Fail(r))

Records(r) ==
  /\ phase # "down"
  /\ Record(r) \/ Save(r)
  /\ UNCHANGED <<reloadVars, limVars, life>>

-----------------------------------------------------------------------------
Update(u) ==
  /\ phase = "up" /\ u \in load.updates
  /\ \E body \in load.bodies : PutConfig(u, body)
  /\ UNCHANGED <<statVars, limVars, life>>

UpdateStep(u) == Runs /\ UpdateGoesOn(u) /\ UNCHANGED <<statVars, limVars, life>>

Cancel(u) == Runs /\ CancelUpdate(u) /\ UNCHANGED <<statVars, limVars, life>>

Login(o) ==
  /\ o \in load.operators
  /\ phase = "up" \/ (phase = "stopping" /\ ~Stands(o, "away"))
  /\ LoginStep(o)
  /\ UNCHANGED <<reloadVars, statVars, life>>

Tick ==
  /\ load.operators # {}
  /\ TimePasses
  /\ UNCHANGED <<reloadVars, statVars, life>>

-----------------------------------------------------------------------------
(* run: the graceful shutdown waits for every connection, the last save is *)
(* spawned and not waited for, but one that runs gets to its end.          *)
Signal ==
  /\ load.ends /\ phase = "up"
  /\ phase' = "stopping"
  /\ UNCHANGED <<reloadVars, statVars, limVars, starts, load>>

Quiet == /\ \A w \in Requests \cup Updates : at[w] \in Ended
         /\ \A r \in Requests : rec[r].step \in {"none", "lost", "done"}
         /\ \A o \in Operators : Stands(o, "away")

Stopped ==
  /\ phase = "stopping" /\ Quiet
  /\ PersistAtExit
  /\ phase' = "saving"
  /\ UNCHANGED <<reloadVars, limVars, starts, load>>

Down == /\ phase' = "down"
        /\ StatEnds /\ ReloadEnds /\ LimiterEnds
        /\ UNCHANGED <<starts, load>>

Exit == phase = "saving" /\ At(Shutdown, "done") /\ Running = {} /\ Down

Kill == load.ends /\ phase # "down" /\ Down

Start ==
  /\ phase = "down" /\ starts < Starts
  /\ phase' = "up" /\ starts' = starts + 1
  /\ StatLoads /\ ReloadStarts
  /\ UNCHANGED <<limVars, load>>

Next ==
  \/ \E r \in Requests : \/ Arrive(r) \/ Refuse(r) \/ RequestStep(r) \/ End(r)
                         \/ Disconnect(r) \/ TimerDrops(r)
  \/ \E r \in Recorders : Records(r)
  \/ \E u \in Updates : Update(u) \/ UpdateStep(u) \/ Cancel(u)
  \/ \E o \in Operators : Login(o)
  \/ Tick \/ Signal \/ Stopped \/ Exit \/ Kill \/ Start

Spec == Init /\ [][Next]_vars

(* Upstream calls, logins and downloads end, with an answer or an error,   *)
(* and tasks that do not wait are scheduled.  Nothing is assumed of those  *)
(* who ask: whether they come, read a stream to its end, or go.            *)
FairSpec == /\ Spec
            /\ \A r \in Requests : WF_vars(RequestStep(r))
            /\ \A u \in Updates : WF_vars(UpdateStep(u))
=============================================================================
