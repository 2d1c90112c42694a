----------------------------- MODULE ChatSession -----------------------------
(***************************************************************************)
(* The life of a chat request in ds_core/completions.rs: claim an account, *)
(* create an upstream session, upload, solve a proof of work, send the     *)
(* completion, read its first two events, register the session, stream,    *)
(* and clean the session up when the stream is dropped.                    *)
(*                                                                         *)
(* A request is of one of three kinds: "direct" (v0_chat), "file" (an      *)
(* oversized prompt whose history is uploaded) and "chunk" (an oversized   *)
(* expert prompt, fed to the session in several completions).  Several     *)
(* actors touch its session: the request's own future, which a client      *)
(* that disconnects cancels at any await; the task the dropped stream      *)
(* spawns; the stop each fed chunk spawns; and shutdown.                   *)
(*                                                                         *)
(* The upstream service is external: each call to it is one step, takes    *)
(* any time, and may fail, before or after it took effect.  The pool is    *)
(* the claims of AccountPool, each taken and returned in one step.         *)
(***************************************************************************)
EXTENDS Naturals, FiniteSets

CONSTANTS
  Requests,      \* calls of v0_chat
  Detached,      \* those made by a spawned task, not by an open connection
  Accounts,
  NoAccount,     \* "no guard is held"
  Limit,         \* max_concurrent_per_account
  MAX_ATTEMPTS,  \* 3 in the code
  Feeds          \* chunks fed before the last one

ASSUME DetachedAssumption == Detached \subseteq Requests
ASSUME NoAccountAssumption == NoAccount \notin Accounts
ASSUME BoundsAssumption == /\ Limit \in Nat \ {0}
                           /\ MAX_ATTEMPTS \in Nat \ {0}
                           /\ Feeds \in Nat \ {0}

VARIABLES
  health,      \* an account's state, Idle and Busy being "usable"
  pc,          \* where a request's future is
  kind,        \* how its prompt is sent
  attempt,     \* the attempt of v0_chat it is in
  acct,        \* the account its guard holds
  fed,         \* chunks its session has taken
  finished,    \* GuardedStream.finished
  registered,  \* the keys of active_sessions
  session,     \* upstream: a session's existence
  generating,  \* upstream: the message a session is generating, or 0
  cleanup,     \* the task spawned by the drop of a stream
  feedStops,   \* the stop tasks spawned for fed chunks
  sweep,       \* the futures of shutdown
  phase        \* of the process

requestVars  == <<pc, kind, attempt, acct, fed, finished>>
upstreamVars == <<session, generating>>
taskVars     == <<cleanup, feedStops, sweep>>
vars == <<health, requestVars, registered, upstreamVars, taskVars, phase>>

Sessions == Requests \X (1..MAX_ATTEMPTS)     \* an attempt creates at most one
Sid(r)   == <<r, attempt[r]>>

(* A session exists upstream when it is "unheardOf" (its creation was      *)
(* never answered), "open" or "undeleted" (a delete of it failed).         *)
Upstream == {"none", "unheardOf", "open", "undeleted", "gone"}

Kinds     == {"direct", "file", "chunk"}
Calling   == {"claim", "create", "history", "files", "pow", "completion",
              "feedReady", "feedClose", "events", "deleting", "retry"}
Places    == Calling \cup {"new", "streaming", "done"}
Health    == {"usable", "error", "invalid"}
TaskSteps == {"none", "stop", "delete"}

Holders(a)     == {r \in Requests : acct[r] = a}
IsFeeding(r)   == kind[r] = "chunk" /\ fed[r] < Feeds
Message(r)     == fed[r] + 1
DeleteSent(s)  == session[s] \in {"undeleted", "gone"}
Goto(r, place) == pc' = [pc EXCEPT ![r] = place]

-----------------------------------------------------------------------------
Init ==
  /\ health = [a \in Accounts |-> "usable"]
  /\ pc = [r \in Requests |-> "new"]
  /\ kind \in [Requests -> Kinds]
  /\ attempt = [r \in Requests |-> 1]
  /\ acct = [r \in Requests |-> NoAccount]
  /\ fed = [r \in Requests |-> 0]
  /\ finished = [r \in Requests |-> FALSE]
  /\ registered = {}
  /\ session = [s \in Sessions |-> "none"]
  /\ generating = [s \in Sessions |-> 0]
  /\ cleanup = [s \in Sessions |-> "none"]
  /\ feedStops = {}
  /\ sweep = [s \in Sessions |-> "none"]
  /\ phase = "up"

-----------------------------------------------------------------------------
(* What the calls do. *)

MarkError(r) ==
  health' = [health EXCEPT ![acct[r]] = IF @ = "invalid" THEN @ ELSE "error"]

SameAttempt(r)  == attempt[r] > MAX_ATTEMPTS                         \* mutant
LastAttempt(r)  == attempt[r] = MAX_ATTEMPTS

(* The attempt returns an error: its guard is dropped; v0_chat retries     *)
(* whatever the error was, v0_chat_oversized_chunk does not.               *)
AttemptFails(r) ==
  /\ Goto(r, IF kind[r] = "chunk" \/ LastAttempt(r) THEN "done" ELSE "retry")
  /\ acct' = [acct EXCEPT ![r] = NoAccount]

(* Its session is deleted first, where the code does so.                   *)
FailsAfterDelete(r) ==
  /\ Goto(r, "deleting")
  /\ UNCHANGED acct

Created(r, as) == session' = [session EXCEPT ![Sid(r)] = as]
Generates(r)   == generating' = [generating EXCEPT ![Sid(r)] = Message(r)]

(* A delete that fails is only logged.                                     *)
SendDelete(s) ==
  \E outcome \in {"gone", "undeleted"} :
    /\ session' = [session EXCEPT ![s] = IF @ = "gone" THEN @ ELSE outcome]
    /\ generating' = [generating EXCEPT ![s] = IF outcome = "gone" THEN 0 ELSE @]

(* A stop names the message to be stopped; it too may fail.                *)
SendStop(s, message) ==
  /\ \/ /\ generating[s] = message
        /\ generating' = [generating EXCEPT ![s] = 0]
     \/ UNCHANGED generating
  /\ UNCHANGED session

-----------------------------------------------------------------------------
(* v0_chat_once and v0_chat_oversized_chunk *)

(* A connection is accepted while the server is up; a spawned task may     *)
(* start its request while the server drains.                              *)
Start(r) ==
  /\ pc[r] = "new"
  /\ phase = "up" \/ (r \in Detached /\ phase = "draining")
  /\ Goto(r, "claim")
  /\ UNCHANGED <<health, kind, attempt, acct, fed, finished, registered,
                 upstreamVars, taskVars, phase>>

Claim(r) ==
  /\ pc[r] = "claim"
  /\ \E a \in Accounts :
       /\ health[a] = "usable"
       /\ Cardinality(Holders(a)) < Limit
       /\ acct' = [acct EXCEPT ![r] = a]
  /\ Goto(r, "create")
  /\ UNCHANGED <<health, kind, attempt, fed, finished, registered,
                 upstreamVars, taskVars, phase>>

(* The first attempt polled for 30 seconds, a retry once.  A poll comes    *)
(* back empty-handed also when it loses its races for a free account.      *)
ClaimNone(r) ==
  /\ pc[r] = "claim"
  /\ AttemptFails(r)
  /\ UNCHANGED <<health, kind, attempt, fed, finished, registered,
                 upstreamVars, taskVars, phase>>

RegisterEarly(r, place) == registered \cup {Sid(r)}                  \* mutant
RegisterAt(r, place) ==
  IF place = "streaming" THEN registered \cup {Sid(r)} ELSE registered

CreateOk(r) ==
  LET next == CASE kind[r] = "file" -> "history" [] kind[r] = "chunk" -> "pow"
                [] OTHER -> "files"
  IN
  /\ pc[r] = "create"
  /\ Created(r, "open")
  /\ Goto(r, next)
  /\ registered' = RegisterAt(r, next)
  /\ UNCHANGED <<health, kind, attempt, acct, fed, finished, generating,
                 taskVars, phase>>

CreateFails(r) ==
  /\ pc[r] = "create"
  /\ Created(r, "unheardOf") \/ UNCHANGED session
  /\ MarkError(r)
  /\ AttemptFails(r)
  /\ UNCHANGED <<kind, attempt, fed, finished, registered, generating,
                 taskVars, phase>>

(* A history that cannot be uploaded is sent inline instead.               *)
UploadHistory(r) ==
  /\ pc[r] = "history"
  /\ Goto(r, "files")
  /\ UNCHANGED <<health, kind, attempt, acct, fed, finished, registered,
                 upstreamVars, taskVars, phase>>

(* The request's own files: one that fails ends the attempt, and neither   *)
(* marks the account nor deletes the session.                              *)
UploadFiles(r) ==
  /\ pc[r] = "files"
  /\ \/ Goto(r, "pow") /\ UNCHANGED acct
     \/ AttemptFails(r)
  /\ UNCHANGED <<health, kind, attempt, fed, finished, registered,
                 upstreamVars, taskVars, phase>>

PowOk(r) ==
  /\ pc[r] = "pow"
  /\ Goto(r, "completion")
  /\ UNCHANGED <<health, kind, attempt, acct, fed, finished, registered,
                 upstreamVars, taskVars, phase>>

(* The proof of work or the completion fails: the account is marked; only  *)
(* the chunked request deletes its session.                                *)
CallFails(r) ==
  /\ pc[r] \in {"pow", "completion"}
  /\ MarkError(r)
  /\ IF kind[r] = "chunk" THEN FailsAfterDelete(r) ELSE AttemptFails(r)
  /\ \/ pc[r] = "completion" /\ Generates(r)
     \/ UNCHANGED generating
  /\ UNCHANGED <<kind, attempt, fed, finished, registered, session, taskVars, phase>>

CompletionOk(r) ==
  /\ pc[r] = "completion"
  /\ Generates(r)
  /\ Goto(r, IF IsFeeding(r) THEN "feedReady" ELSE "events")
  /\ UNCHANGED <<health, kind, attempt, acct, fed, finished, registered,
                 session, taskVars, phase>>

-----------------------------------------------------------------------------
(* The chunks before the last: wait_ready_and_update, stop, wait_close.    *)

FeedReady(r) ==
  /\ pc[r] = "feedReady"
  /\ feedStops' = feedStops \cup {<<r, Message(r)>>}
  /\ Goto(r, "feedClose")
  /\ UNCHANGED <<health, kind, attempt, acct, fed, finished, registered,
                 upstreamVars, cleanup, sweep, phase>>

FeedClosed(r) ==
  /\ pc[r] = "feedClose"
  /\ generating[Sid(r)] = 0
  /\ fed' = [fed EXCEPT ![r] = @ + 1]
  /\ Goto(r, "pow")
  /\ UNCHANGED <<health, kind, attempt, acct, finished, registered,
                 upstreamVars, taskVars, phase>>

(* A hint, or a stream that breaks off: the error is returned at once.     *)
FeedFails(r) ==
  /\ pc[r] \in {"feedReady", "feedClose"}
  /\ AttemptFails(r)
  /\ UNCHANGED <<health, kind, attempt, fed, finished, registered,
                 upstreamVars, taskVars, phase>>

StopCurrent(r, message) == Message(r)                                \* mutant
StopTarget(r, message)  == message

FeedStop ==
  \E stop \in feedStops :
    /\ feedStops' = feedStops \ {stop}
    /\ SendStop(Sid(stop[1]), StopTarget(stop[1], stop[2]))
    /\ UNCHANGED <<health, requestVars, registered, cleanup, sweep, phase>>

-----------------------------------------------------------------------------
(* The first two events of the answer. *)

Accepted(r) ==
  /\ pc[r] = "events"
  /\ registered' = RegisterAt(r, "streaming")
  /\ Goto(r, "streaming")
  /\ UNCHANGED <<health, kind, attempt, acct, fed, finished,
                 upstreamVars, taskVars, phase>>

(* A hint says that nothing is generated: rate_limit, which marks the      *)
(* account, or input_exceeds_limit.                                        *)
Hint(r) ==
  /\ pc[r] = "events"
  /\ MarkError(r) \/ UNCHANGED health
  /\ generating' = [generating EXCEPT ![Sid(r)] = 0]
  /\ FailsAfterDelete(r)
  /\ UNCHANGED <<kind, attempt, fed, finished, registered, session, taskVars, phase>>

(* The stream breaks off, or ends with a business error, which marks the   *)
(* account: the session stays.                                             *)
EventsFail(r) ==
  /\ pc[r] = "events"
  /\ MarkError(r) \/ UNCHANGED health
  /\ AttemptFails(r)
  /\ UNCHANGED <<kind, attempt, fed, finished, registered, upstreamVars,
                 taskVars, phase>>

DeleteAndFail(r) ==
  /\ pc[r] = "deleting"
  /\ SendDelete(Sid(r))
  /\ AttemptFails(r)
  /\ UNCHANGED <<health, kind, attempt, fed, finished, registered, taskVars, phase>>

StuckAttempt(r) == attempt[r]                                        \* mutant
NextAttempt(r)  == attempt[r] + 1

(* After 500 ms. *)
Retry(r) ==
  /\ pc[r] = "retry"
  /\ Goto(r, "claim")
  /\ attempt' = [attempt EXCEPT ![r] = NextAttempt(r)]
  /\ UNCHANGED <<health, kind, acct, fed, finished, registered, upstreamVars,
                 taskVars, phase>>

(* The client disconnects: the future is dropped where it awaits, and the  *)
(* guard with it.  The call it was in may still reach the upstream.        *)
Cancel(r) ==
  /\ r \notin Detached
  /\ pc[r] \in Calling
  /\ Goto(r, "done")
  /\ acct' = [acct EXCEPT ![r] = NoAccount]
  /\ \/ UNCHANGED upstreamVars
     \/ pc[r] = "create" /\ Created(r, "unheardOf") /\ UNCHANGED generating
     \/ pc[r] = "completion" /\ Generates(r) /\ UNCHANGED session
     \/ pc[r] = "deleting" /\ SendDelete(Sid(r))
  /\ UNCHANGED <<health, kind, attempt, fed, finished, registered, taskVars, phase>>

-----------------------------------------------------------------------------
(* GuardedStream *)

StreamEnds(r) ==
  /\ pc[r] = "streaming"
  /\ ~finished[r]
  /\ generating[Sid(r)] = 0
  /\ finished' = [finished EXCEPT ![r] = TRUE]
  /\ UNCHANGED <<health, pc, kind, attempt, acct, fed, registered,
                 upstreamVars, taskVars, phase>>

StopOnly(r)   == IF finished[r] THEN "none" ELSE "stop"              \* mutant
KeepEntry(r)  == registered                                          \* mutant
CleanUp(r)    == IF finished[r] THEN "delete" ELSE "stop"
Unregister(r) == registered \ {Sid(r)}

(* The stream is dropped, read to its end or not: the cleanup is spawned,  *)
(* and the guard is released before it has run.                            *)
DropStream(r) ==
  /\ pc[r] = "streaming"
  /\ registered' = Unregister(r)
  /\ cleanup' = [cleanup EXCEPT ![Sid(r)] = CleanUp(r)]
  /\ acct' = [acct EXCEPT ![r] = NoAccount]
  /\ Goto(r, "done")
  /\ UNCHANGED <<health, kind, attempt, fed, finished, upstreamVars,
                 feedStops, sweep, phase>>

AfterStep(step) == IF step = "stop" THEN "delete" ELSE "none"

WaitToDelete(s, step) ==                                             \* mutant
  \/ step = "stop" /\ SendStop(s, Message(s[1]))
  \/ step = "delete" /\ generating[s] = 0 /\ SendDelete(s)

(* One call of a cleanup: the stop, then the delete, whatever the stop     *)
(* returned.                                                               *)
CleanupCall(s, step) ==
  \/ step = "stop" /\ SendStop(s, Message(s[1]))
  \/ step = "delete" /\ SendDelete(s)

Cleanup(s) ==
  /\ CleanupCall(s, cleanup[s])
  /\ cleanup' = [cleanup EXCEPT ![s] = AfterStep(@)]
  /\ UNCHANGED <<health, requestVars, registered, feedStops, sweep, phase>>

-----------------------------------------------------------------------------
(* Shutdown: the server stops accepting and waits for its connections,     *)
(* then the registered sessions are taken and cleaned up together, then    *)
(* the process exits and the tasks it still has are gone.                  *)

BeginShutdown ==
  /\ phase = "up"
  /\ phase' = "draining"
  /\ UNCHANGED <<health, requestVars, registered, upstreamVars, taskVars>>

TakeSessions ==
  /\ phase = "draining"
  /\ \A r \in Requests \ Detached : pc[r] \in {"new", "done"}
  /\ sweep' = [s \in Sessions |-> IF s \in registered THEN "stop" ELSE "none"]
  /\ registered' = {}
  /\ phase' = "sweeping"
  /\ UNCHANGED <<health, requestVars, upstreamVars, cleanup, feedStops>>

Sweep(s) ==
  /\ CleanupCall(s, sweep[s])
  /\ sweep' = [sweep EXCEPT ![s] = AfterStep(@)]
  /\ UNCHANGED <<health, requestVars, registered, cleanup, feedStops, phase>>

Exit ==
  /\ phase = "sweeping"
  /\ \A s \in Sessions : sweep[s] = "none"
  /\ phase' = "down"
  /\ UNCHANGED <<health, requestVars, registered, upstreamVars, taskVars>>

-----------------------------------------------------------------------------
(* The environment *)

UpstreamFinishes(s) ==
  /\ generating[s] # 0
  /\ generating' = [generating EXCEPT ![s] = 0]
  /\ UNCHANGED <<health, requestVars, registered, session, taskVars, phase>>

(* An account that is not in use is logged in again: by the recovery task  *)
(* after an error, by an operator also when it is invalid.                 *)
Recover(a) ==
  /\ health[a] # "usable"
  /\ Holders(a) = {}
  /\ \E outcome \in {"usable", "invalid"} : health' = [health EXCEPT ![a] = outcome]
  /\ UNCHANGED <<requestVars, registered, upstreamVars, taskVars, phase>>

(* The steps of a request once its upstream calls return.                  *)
Proceed(r) ==
  \/ Claim(r) \/ ClaimNone(r) \/ CreateOk(r) \/ CreateFails(r)
  \/ UploadHistory(r) \/ UploadFiles(r) \/ PowOk(r) \/ CallFails(r) \/ CompletionOk(r)
  \/ FeedReady(r) \/ FeedClosed(r) \/ FeedFails(r)
  \/ Accepted(r) \/ Hint(r) \/ EventsFail(r) \/ DeleteAndFail(r) \/ Retry(r)

RequestStep(r) == Start(r) \/ Proceed(r) \/ Cancel(r) \/ StreamEnds(r) \/ DropStream(r)

Shutdown == BeginShutdown \/ TakeSessions \/ Exit

Stopped == phase = "down" /\ UNCHANGED vars

Next ==
  \/ /\ phase # "down"
     /\ \/ \E r \in Requests : RequestStep(r)
        \/ \E s \in Sessions : Cleanup(s) \/ Sweep(s) \/ UpstreamFinishes(s)
        \/ FeedStop
        \/ \E a \in Accounts : Recover(a)
        \/ Shutdown
  \/ Stopped

Spec == Init /\ [][Next]_vars

(* Every upstream call returns, and every ready task is run.  Nothing is   *)
(* assumed of clients, of logins, of the length of a generation or of a    *)
(* shutdown that waits for clients.                                        *)
FairSpec ==
  /\ Spec
  /\ \A r \in Requests : WF_vars(phase # "down" /\ Proceed(r))
  /\ \A s \in Sessions : /\ WF_vars(phase # "down" /\ Cleanup(s))
                         /\ WF_vars(Sweep(s))
  /\ WF_vars(Exit)

-----------------------------------------------------------------------------
TypeOK ==
  /\ health \in [Accounts -> Health]
  /\ pc \in [Requests -> Places]
  /\ kind \in [Requests -> Kinds]
  /\ attempt \in [Requests -> 1..MAX_ATTEMPTS]
  /\ acct \in [Requests -> Accounts \cup {NoAccount}]
  /\ fed \in [Requests -> 0..Feeds]
  /\ finished \in [Requests -> BOOLEAN]
  /\ registered \subseteq Sessions
  /\ session \in [Sessions -> Upstream]
  /\ generating \in [Sessions -> 0..(Feeds + 1)]
  /\ cleanup \in [Sessions -> TaskSteps]
  /\ feedStops \subseteq Requests \X (1..Feeds)
  /\ sweep \in [Sessions -> TaskSteps]
  /\ phase \in {"up", "draining", "sweeping", "down"}
  /\ \A r \in Requests :
       acct[r] = NoAccount <=> pc[r] \in {"new", "claim", "retry", "done"}

(* Until shutdown takes them, the registered sessions are exactly those of *)
(* the open streams, and nobody has deleted one of them under its reader.  *)
StreamsAreTracked ==
  phase \in {"up", "draining"} =>
    /\ registered = {Sid(r) : r \in {q \in Requests : pc[q] = "streaming"}}
    /\ \A s \in registered : session[s] = "open"

(* No completion is sent to a session that somebody sent a delete for.     *)
NoCompletionOnDeleted ==
  [][\A s \in Sessions :
       generating[s] = 0 /\ generating'[s] # 0 => ~DeleteSent(s)]_vars

(* The stop of a fed chunk, however late it arrives, does not cut off the  *)
(* answer: the answer goes on until the upstream ends it, its reader has   *)
(* gone or shutdown has taken it.                                          *)
AnswerIsNotCutOff ==
  [][\A r \in Requests :
       /\ pc[r] = "streaming" /\ sweep[Sid(r)] = "none"
       /\ generating[Sid(r)] # 0 /\ generating'[Sid(r)] = 0
       => UpstreamFinishes(Sid(r))]_vars

(* A session that was streamed is deleted, unless its reader keeps the     *)
(* stream for ever or the process exits first.                             *)
StreamedIsDeleted ==
  \A s \in Sessions :
    s \in registered ~> (DeleteSent(s) \/ phase = "down" \/ [](s \in registered))

(* A request that waits for an account gets an answer or an error, however *)
(* many accounts fail under it.                                            *)
EveryRequestEnds ==
  \A r \in Requests :
    pc[r] = "claim" ~> (pc[r] \in {"streaming", "done"} \/ phase = "down")

(* Once shutdown has taken the sessions it ends.                           *)
ShutdownEnds == phase = "sweeping" ~> phase = "down"

(* "Every request creates a new session and cleans it up as soon as it     *)
(* ends" (completions.rs:3): a session that was handed to a request which  *)
(* has left it is deleted or about to be.                                  *)
SessionsAreCleanedUp ==
  \A r \in Requests : \A n \in 1..MAX_ATTEMPTS :
    session[<<r, n>>] = "open" =>
      \/ attempt[r] = n /\ pc[r] \notin {"retry", "done"}
      \/ cleanup[<<r, n>>] # "none"
      \/ sweep[<<r, n>>] # "none"
=============================================================================
