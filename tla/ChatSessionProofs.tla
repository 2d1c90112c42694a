-------------------------- MODULE ChatSessionProofs --------------------------
(***************************************************************************)
(* What holds of ChatSession for all requests, accounts, attempts and      *)
(* chunks: its type invariant, that the registered sessions are those of   *)
(* the open streams, that no completion is sent to a deleted session, and  *)
(* that no answer is cut off.                                              *)
(***************************************************************************)
EXTENDS ChatSession, TLAPS

(* The places in which a request works on a session it was handed.         *)
InFlight == {"history", "files", "pow", "completion", "feedReady",
             "feedClose", "events", "deleting"}

(* A retry has an attempt left, and a chunk that is being fed is not the   *)
(* last one.                                                               *)
Counters ==
  \A r \in Requests :
    /\ pc[r] = "retry" => attempt[r] # MAX_ATTEMPTS
    /\ pc[r] \in {"feedReady", "feedClose"} => fed[r] < Feeds

(* Who may delete a session: the task of a dropped stream only that of a   *)
(* request that is over, shutdown only one that had become a stream.       *)
Deleters ==
  \A r \in Requests : \A n \in 1..MAX_ATTEMPTS :
    /\ cleanup[<<r, n>>] # "none" => attempt[r] = n /\ pc[r] = "done"
    /\ sweep[<<r, n>>] # "none" =>
         attempt[r] = n /\ pc[r] \in {"streaming", "done"} /\ phase \in {"sweeping", "down"}

(* So a request never loses its session while it works on it, nor a reader *)
(* before shutdown.                                                        *)
SessionIsThere ==
  \A r \in Requests :
    pc[r] \in InFlight \/ (pc[r] = "streaming" /\ phase \in {"up", "draining"})
      => session[Sid(r)] = "open"

Tracked ==
  phase \in {"up", "draining"} =>
    registered = {Sid(r) : r \in {q \in Requests : pc[q] = "streaming"}}

TypeInv == TypeOK /\ Counters
IInv == TypeInv /\ Deleters /\ SessionIsThere /\ Tracked

-----------------------------------------------------------------------------
LEMMA SidIsSession == TypeOK => \A r \in Requests : Sid(r) \in Sessions
  BY DEF TypeOK, Sid, Sessions

LEMMA InitIInv == Init => IInv
<1> SUFFICES ASSUME Init PROVE IInv
  OBVIOUS
<1> USE DEF Init
<1>1. TypeOK
  BY BoundsAssumption
  DEF TypeOK, Health, Places, Calling, Upstream, TaskSteps
<1>2. Counters
  BY DEF Counters
<1>3. Deleters
  BY DEF Deleters, Sessions
<1>4. SessionIsThere
  BY DEF SessionIsThere, InFlight
<1>5. Tracked
  BY DEF Tracked
<1> QED
  BY <1>1, <1>2, <1>3, <1>4, <1>5 DEF IInv, TypeInv

UpstreamTypes == /\ session \in [Sessions -> Upstream]
                 /\ generating \in [Sessions -> 0..(Feeds + 1)]

(* Whatever session and message they name, the calls keep the types.       *)
LEMMA SendStopTypes ==
  ASSUME UpstreamTypes, NEW s, NEW message, SendStop(s, message)
  PROVE  UpstreamTypes'
  BY BoundsAssumption DEF UpstreamTypes, SendStop

LEMMA SendDeleteTypes ==
  ASSUME UpstreamTypes, NEW s, SendDelete(s)
  PROVE  UpstreamTypes'
<1>1. PICK outcome \in {"gone", "undeleted"} :
        /\ session' = [session EXCEPT ![s] = IF @ = "gone" THEN @ ELSE outcome]
        /\ generating' = [generating EXCEPT ![s] = IF outcome = "gone" THEN 0 ELSE @]
  BY DEF SendDelete
<1>2. session' \in [Sessions -> Upstream]
  BY <1>1 DEF UpstreamTypes, Upstream
<1>3. generating' \in [Sessions -> 0..(Feeds + 1)]
  <2>1. 0 \in 0..(Feeds + 1)
    BY BoundsAssumption
  <2> QED
    BY <1>1, <2>1 DEF UpstreamTypes
<1> QED
  BY <1>2, <1>3 DEF UpstreamTypes

-----------------------------------------------------------------------------
(* The type invariant, one action at a time. *)

LEMMA TypeInvStep == TypeInv /\ [Next]_vars => TypeInv'
<1> SUFFICES ASSUME TypeInv, [Next]_vars PROVE TypeInv'
  OBVIOUS
<1> USE BoundsAssumption, NoAccountAssumption
    DEF TypeInv, TypeOK, Counters, Health, Places, Calling, Kinds, Upstream,
        TaskSteps, Goto, Sid, Sessions, AttemptFails, LastAttempt
<1>1. CASE UNCHANGED vars
  BY <1>1 DEF vars, requestVars, upstreamVars, taskVars
<1>2. ASSUME NEW r \in Requests, RequestStep(r) PROVE TypeInv'
  <2>1. CASE Start(r)
    BY <2>1 DEF Start, upstreamVars, taskVars
  <2>2. CASE Claim(r)
    BY <2>2 DEF Claim, upstreamVars, taskVars
  <2>3. CASE ClaimNone(r)
    BY <2>3 DEF ClaimNone, upstreamVars, taskVars
  <2>4. CASE CreateOk(r)
    BY <2>4 DEF CreateOk, upstreamVars, taskVars, Created, RegisterAt
  <2>5. CASE CreateFails(r)
    BY <2>5 DEF CreateFails, upstreamVars, taskVars, Created, MarkError
  <2>6. CASE UploadHistory(r)
    BY <2>6 DEF UploadHistory, upstreamVars, taskVars
  <2>7. CASE UploadFiles(r)
    BY <2>7 DEF UploadFiles, upstreamVars, taskVars
  <2>8. CASE PowOk(r)
    BY <2>8 DEF PowOk, upstreamVars, taskVars
  <2>9. CASE CallFails(r)
    <3>1. health' \in [Accounts -> Health]
      BY <2>9 DEF CallFails, MarkError
    <3>2. generating' \in [Sessions -> 0..(Feeds + 1)]
      <4>1. Message(r) \in 0..(Feeds + 1)
        BY DEF Message
      <4>2. generating \in [Sessions -> 0..(Feeds + 1)]
        OBVIOUS
      <4>3. \/ UNCHANGED generating
            \/ generating' = [generating EXCEPT ![Sid(r)] = Message(r)]
        BY <2>9 DEF CallFails, Generates
      <4> HIDE DEF TypeInv, Sid, Sessions
      <4> QED
        BY <4>1, <4>2, <4>3
    <3>3. pc[r] \in {"pow", "completion"} /\ acct[r] \in Accounts
      BY <2>9 DEF CallFails
    <3>4. \E place \in {"deleting", "done", "retry"} :
            /\ pc' = [pc EXCEPT ![r] = place]
            /\ acct' = IF place = "deleting" THEN acct ELSE [acct EXCEPT ![r] = NoAccount]
            /\ place = "retry" => attempt[r] # MAX_ATTEMPTS
      BY <2>9 DEF CallFails, FailsAfterDelete
    <3> QED
      BY <2>9, <3>1, <3>2, <3>3, <3>4 DEF CallFails, taskVars
  <2>10. CASE CompletionOk(r)
    BY <2>10 DEF CompletionOk, upstreamVars, taskVars, Generates, Message, IsFeeding
  <2>11. CASE FeedReady(r)
    BY <2>11 DEF FeedReady, upstreamVars, taskVars, Message
  <2>12. CASE FeedClosed(r)
    BY <2>12 DEF FeedClosed, upstreamVars, taskVars
  <2>13. CASE FeedFails(r)
    BY <2>13 DEF FeedFails, upstreamVars, taskVars
  <2>14. CASE Accepted(r)
    BY <2>14 DEF Accepted, upstreamVars, taskVars, RegisterAt
  <2>15. CASE Hint(r)
    BY <2>15 DEF Hint, upstreamVars, taskVars, MarkError, FailsAfterDelete
  <2>16. CASE EventsFail(r)
    BY <2>16 DEF EventsFail, upstreamVars, taskVars, MarkError
  <2>17. CASE DeleteAndFail(r)
    BY <2>17 DEF DeleteAndFail, upstreamVars, taskVars, SendDelete
  <2>18. CASE Retry(r)
    <3>1. attempt[r] + 1 \in 1..MAX_ATTEMPTS
      <4>1. attempt[r] \in 1..MAX_ATTEMPTS /\ attempt[r] # MAX_ATTEMPTS
        BY <2>18 DEF Retry, NextAttempt
      <4> HIDE DEF TypeInv
      <4> QED
        BY <4>1
    <3> QED
      <4>1. attempt' \in [Requests -> 1..MAX_ATTEMPTS]
        BY <2>18, <3>1 DEF Retry, NextAttempt
      <4>2. pc' \in [Requests -> Places]
        BY <2>18 DEF Retry
      <4>3. \A q \in Requests : acct'[q] = NoAccount <=> pc'[q] \in {"new", "claim", "retry", "done"}
        BY <2>18 DEF Retry
      <4>4. Counters'
        BY <2>18 DEF Retry
      <4> QED
        BY <2>18, <4>1, <4>2, <4>3, <4>4 DEF Retry, upstreamVars, taskVars
  <2>19. CASE Cancel(r)
    <3>1. Message(r) \in 0..(Feeds + 1)
      BY DEF Message
    <3>2. UpstreamTypes'
      <4>1. CASE UNCHANGED upstreamVars
        BY <4>1 DEF UpstreamTypes, upstreamVars
      <4>2. CASE Created(r, "unheardOf") /\ UNCHANGED generating
        BY <4>2 DEF UpstreamTypes, Created
      <4>3. CASE Generates(r) /\ UNCHANGED session
        BY <3>1, <4>3 DEF UpstreamTypes, Generates
      <4>4. CASE SendDelete(Sid(r))
        BY <4>4, SendDeleteTypes DEF UpstreamTypes
      <4> QED
        BY <2>19, <4>1, <4>2, <4>3, <4>4 DEF Cancel
    <3> QED
      <4>1. acct' \in [Requests -> Accounts \cup {NoAccount}]
        BY <2>19 DEF Cancel
      <4>2. pc' \in [Requests -> Places]
        BY <2>19 DEF Cancel
      <4>3. \A q \in Requests : acct'[q] = NoAccount <=> pc'[q] \in {"new", "claim", "retry", "done"}
        BY <2>19 DEF Cancel
      <4>4. Counters'
        BY <2>19 DEF Cancel
      <4> QED
        BY <2>19, <3>2, <4>1, <4>2, <4>3, <4>4 DEF Cancel, taskVars, UpstreamTypes
  <2>20. CASE StreamEnds(r)
    BY <2>20 DEF StreamEnds, upstreamVars, taskVars
  <2>21. CASE DropStream(r)
    BY <2>21 DEF DropStream, upstreamVars, taskVars, Unregister, CleanUp
  <2> QED
    BY <1>2, <2>1, <2>2, <2>3, <2>4, <2>5, <2>6, <2>7, <2>8, <2>9, <2>10, <2>11, <2>12, <2>13, <2>14, <2>15, <2>16, <2>17, <2>18, <2>19, <2>20, <2>21
    DEF RequestStep, Proceed
<1>3. ASSUME NEW s \in Sessions, Cleanup(s) PROVE TypeInv'
  BY <1>3 DEF Cleanup, CleanupCall, SendStop, SendDelete, AfterStep, requestVars
<1>4. ASSUME NEW s \in Sessions, Sweep(s) PROVE TypeInv'
  BY <1>4 DEF Sweep, CleanupCall, SendStop, SendDelete, AfterStep, requestVars
<1>5. ASSUME NEW s \in Sessions, UpstreamFinishes(s) PROVE TypeInv'
  BY <1>5 DEF UpstreamFinishes, requestVars, taskVars
<1>6. CASE FeedStop
  <2>1. PICK stop \in feedStops :
          /\ feedStops' = feedStops \ {stop}
          /\ SendStop(Sid(stop[1]), StopTarget(stop[1], stop[2]))
          /\ UNCHANGED <<health, requestVars, registered, cleanup, sweep, phase>>
    BY <1>6 DEF FeedStop
  <2>2. UpstreamTypes'
    BY <2>1, SendStopTypes DEF UpstreamTypes
  <2>3. /\ feedStops' \subseteq Requests \X (1..Feeds)
        /\ session' = session
    BY <2>1 DEF SendStop
  <2> QED
    BY <2>1, <2>2, <2>3 DEF requestVars, UpstreamTypes
<1>7. ASSUME NEW a \in Accounts, Recover(a) PROVE TypeInv'
  BY <1>7 DEF Recover, requestVars, upstreamVars, taskVars
<1>8. CASE Shutdown
  BY <1>8 DEF Shutdown, BeginShutdown, TakeSessions, Exit, requestVars, upstreamVars, taskVars
<1> QED
  BY <1>1, <1>2, <1>3, <1>4, <1>5, <1>6, <1>7, <1>8 DEF Next, Stopped

LEMMA TypeInvariant == Spec => []TypeInv
<1>1. Init => TypeInv
  BY InitIInv DEF IInv
<1> QED
  BY <1>1, TypeInvStep, PTL DEF Spec

(* Type correctness, for any requests, accounts, attempts and chunks: a    *)
(* request holds a guard exactly while an attempt of it runs or streams.   *)
THEOREM TypeCorrect == Spec => []TypeOK
  BY TypeInvariant, PTL DEF TypeInv

-----------------------------------------------------------------------------
(* The rest of the invariant.  Most steps of a request only move it on,    *)
(* and touch no session but its own.                                       *)
Moves(r) ==
  /\ UNCHANGED <<attempt, cleanup, sweep, phase, registered>>
  /\ \E place \in Places \ {"streaming"} : pc' = [pc EXCEPT ![r] = place]
  /\ pc[r] \notin {"streaming", "done"}
  /\ \A s \in Sessions : s # Sid(r) => session'[s] = session[s]
  /\ pc'[r] \in InFlight => session'[Sid(r)] = "open"

MovingStep(r) ==
  \/ Start(r) \/ Claim(r) \/ ClaimNone(r) \/ CreateOk(r) \/ CreateFails(r)
  \/ UploadHistory(r) \/ UploadFiles(r) \/ PowOk(r) \/ CallFails(r) \/ CompletionOk(r)
  \/ FeedReady(r) \/ FeedClosed(r) \/ FeedFails(r)
  \/ Hint(r) \/ EventsFail(r) \/ DeleteAndFail(r) \/ Cancel(r)

Structure == Deleters /\ SessionIsThere /\ Tracked

LEMMA MovingStepsMove ==
  ASSUME TypeInv, SessionIsThere, NEW r \in Requests, MovingStep(r)
  PROVE  Moves(r)
<1> USE DEF TypeInv, TypeOK, SessionIsThere, Moves, InFlight, Places, Calling,
            Goto, upstreamVars, taskVars
<1> Sid(r) \in Sessions
  BY SidIsSession
<1>1. CASE Start(r)
  BY <1>1 DEF Start
<1>2. CASE Claim(r)
  BY <1>2 DEF Claim
<1>3. CASE ClaimNone(r)
  BY <1>3 DEF ClaimNone, AttemptFails
<1>4. CASE CreateOk(r)
  BY <1>4 DEF CreateOk, Created, RegisterAt
<1>5. CASE CreateFails(r)
  BY <1>5 DEF CreateFails, AttemptFails, Created
<1>6. CASE UploadHistory(r)
  BY <1>6 DEF UploadHistory
<1>7. CASE UploadFiles(r)
  BY <1>7 DEF UploadFiles, AttemptFails
<1>8. CASE PowOk(r)
  BY <1>8 DEF PowOk
<1>9. CASE CallFails(r)
  BY <1>9 DEF CallFails, AttemptFails, FailsAfterDelete
<1>10. CASE CompletionOk(r)
  BY <1>10 DEF CompletionOk
<1>11. CASE FeedReady(r)
  BY <1>11 DEF FeedReady
<1>12. CASE FeedClosed(r)
  BY <1>12 DEF FeedClosed
<1>13. CASE FeedFails(r)
  BY <1>13 DEF FeedFails, AttemptFails
<1>14. CASE Hint(r)
  BY <1>14 DEF Hint, FailsAfterDelete
<1>15. CASE EventsFail(r)
  BY <1>15 DEF EventsFail, AttemptFails
<1>16. CASE DeleteAndFail(r)
  BY <1>16 DEF DeleteAndFail, AttemptFails, SendDelete
<1>17. CASE Cancel(r)
  BY <1>17 DEF Cancel, Created, SendDelete
<1> QED
  BY <1>1, <1>2, <1>3, <1>4, <1>5, <1>6, <1>7, <1>8, <1>9, <1>10, <1>11, <1>12, <1>13, <1>14, <1>15, <1>16, <1>17 DEF MovingStep

LEMMA MovesKeep ==
  ASSUME TypeInv, Structure, NEW r \in Requests, Moves(r)
  PROVE  Structure'
<1> USE DEF TypeInv, TypeOK, Structure, Moves
<1>1. Deleters'
  <2>1. \A n \in 1..MAX_ATTEMPTS : cleanup[<<r, n>>] = "none" /\ sweep[<<r, n>>] = "none"
    BY DEF Deleters
  <2>2. \A q \in Requests : q # r => pc'[q] = pc[q]
    OBVIOUS
  <2> HIDE DEF TypeInv, TypeOK
  <2> QED
    BY <2>1, <2>2 DEF Deleters
<1>2. SessionIsThere'
  <2>1. \A q \in Requests : q # r => Sid(q) \in Sessions /\ Sid(q) # Sid(r) /\ Sid(q)' = Sid(q)
    BY SidIsSession DEF Sid
  <2>2. Sid(r)' = Sid(r)
    BY DEF Sid
  <2> QED
    BY <2>1, <2>2 DEF SessionIsThere
<1>3. Tracked'
  <2>1. \A q \in Requests : pc'[q] = "streaming" <=> pc[q] = "streaming"
    OBVIOUS
  <2>2. \A q \in Requests : Sid(q)' = Sid(q)
    BY DEF Sid
  <2> QED
    BY <2>1, <2>2 DEF Tracked
<1> QED
  BY <1>1, <1>2, <1>3

(* Steps that change none of what the structure speaks of.                 *)
LEMMA QuietSteps ==
  ASSUME Structure, UNCHANGED <<pc, attempt, cleanup, sweep, phase, registered, session>>
  PROVE  Structure'
<1>1. \A r \in Requests : Sid(r)' = Sid(r)
  BY DEF Sid
<1> QED
  BY <1>1 DEF Structure, Deleters, SessionIsThere, Tracked

(* The steps by which a session becomes a stream, and stops being one.     *)
LEMMA AcceptedKeeps ==
  ASSUME TypeInv, Structure, NEW r \in Requests, Accepted(r)
  PROVE  Structure'
<1> USE DEF Structure, Accepted, Goto, upstreamVars, taskVars
<1>1. \A q \in Requests : Sid(q)' = Sid(q)
  BY DEF Sid
<1>2. /\ pc[r] = "events"
      /\ pc' = [pc EXCEPT ![r] = "streaming"]
      /\ pc \in [Requests -> Places]
  BY DEF TypeInv, TypeOK
<1>3. Deleters'
  <2>1. \A n \in 1..MAX_ATTEMPTS : cleanup[<<r, n>>] = "none" /\ sweep[<<r, n>>] = "none"
    BY <1>2 DEF Deleters
  <2>2. \A q \in Requests : q # r => pc'[q] = pc[q]
    BY <1>2
  <2> QED
    BY <2>1, <2>2 DEF Deleters
<1>4. SessionIsThere'
  BY <1>1, <1>2 DEF SessionIsThere, InFlight
<1>5. Tracked'
  BY <1>1, <1>2 DEF Tracked, RegisterAt
<1> QED
  BY <1>3, <1>4, <1>5

LEMMA DropKeeps ==
  ASSUME TypeInv, Structure, NEW r \in Requests, DropStream(r)
  PROVE  Structure'
<1> USE DEF Structure, DropStream, Goto, upstreamVars
<1>1. \A q \in Requests : Sid(q)' = Sid(q) /\ (q # r => Sid(q) # Sid(r))
  BY DEF Sid
<1>2. /\ pc[r] = "streaming"
      /\ pc' = [pc EXCEPT ![r] = "done"]
      /\ pc \in [Requests -> Places]
      /\ cleanup \in [Sessions -> TaskSteps]
  BY DEF TypeInv, TypeOK
<1>3. Deleters'
  <2>1. \A q \in Requests : \A n \in 1..MAX_ATTEMPTS :
          /\ <<q, n>> # Sid(r) => cleanup'[<<q, n>>] = cleanup[<<q, n>>]
          /\ <<q, n>> = Sid(r) <=> q = r /\ n = attempt[r]
    BY <1>2 DEF Sessions, Sid
  <2>2. UNCHANGED <<attempt, sweep, phase>>
    OBVIOUS
  <2>3. pc'[r] = "done" /\ \A q \in Requests : q # r => pc'[q] = pc[q]
    BY <1>2
  <2> HIDE DEF DropStream, Structure
  <2> SUFFICES ASSUME NEW p \in Requests, NEW m \in 1..MAX_ATTEMPTS
               PROVE  (/\ cleanup[<<p, m>>] # "none" => attempt[p] = m /\ pc[p] = "done"
                       /\ sweep[<<p, m>>] # "none" =>
                            attempt[p] = m /\ pc[p] \in {"streaming", "done"}
                              /\ phase \in {"sweeping", "down"})'
    BY DEF Deleters
  <2> QED
    BY <1>2, <2>1, <2>2, <2>3 DEF Deleters, Structure
<1>4. SessionIsThere'
  BY <1>1, <1>2 DEF SessionIsThere, InFlight
<1>5. Tracked'
  BY <1>1, <1>2 DEF Tracked, Unregister
<1> QED
  BY <1>3, <1>4, <1>5

LEMMA RetryKeeps ==
  ASSUME TypeInv, Structure, NEW r \in Requests, Retry(r)
  PROVE  Structure'
<1> USE DEF Structure, Retry, NextAttempt, Goto, upstreamVars, taskVars
<1>1. \A q \in Requests : q # r => Sid(q)' = Sid(q)
  BY DEF Sid, TypeInv, TypeOK
<1>2. /\ pc[r] = "retry"
      /\ pc' = [pc EXCEPT ![r] = "claim"]
      /\ attempt' = [attempt EXCEPT ![r] = @ + 1]
      /\ pc \in [Requests -> Places]
      /\ attempt \in [Requests -> 1..MAX_ATTEMPTS]
  BY DEF TypeInv, TypeOK
<1>3. Deleters'
  <2>1. \A n \in 1..MAX_ATTEMPTS : cleanup[<<r, n>>] = "none" /\ sweep[<<r, n>>] = "none"
    BY <1>2 DEF Deleters
  <2>2. \A q \in Requests : q # r => pc'[q] = pc[q] /\ attempt'[q] = attempt[q]
    BY <1>2
  <2> QED
    BY <2>1, <2>2 DEF Deleters
<1>4. SessionIsThere'
  BY <1>1, <1>2 DEF SessionIsThere, InFlight
<1>5. Tracked'
  BY <1>1, <1>2 DEF Tracked
<1> QED
  BY <1>3, <1>4, <1>5

(* The tasks that delete sessions: only sessions of requests that are over *)
(* or, while shutdown sweeps, are streams.                                 *)
LEMMA CallsKeep ==
  ASSUME TypeInv, Structure, NEW s \in Sessions, Cleanup(s) \/ Sweep(s)
  PROVE  Structure'
<1> USE DEF Structure, requestVars
<1>1. PICK q \in Requests, n \in 1..MAX_ATTEMPTS : s = <<q, n>>
  BY DEF Sessions
<1>2. \A t \in Sessions : t # s => /\ session'[t] = session[t]
                                  /\ cleanup'[t] = cleanup[t]
                                  /\ sweep'[t] = sweep[t]
  BY DEF Cleanup, Sweep, CleanupCall, SendStop, SendDelete, TypeInv, TypeOK
<1>3. /\ UNCHANGED <<pc, attempt, registered, phase>>
      /\ cleanup[s] # "none" \/ sweep[s] # "none"
      /\ cleanup'[s] # "none" => cleanup[s] # "none"
      /\ sweep'[s] # "none" => sweep[s] # "none"
  BY DEF Cleanup, Sweep, CleanupCall, AfterStep, TypeInv, TypeOK
<1>4. \A r \in Requests : Sid(r) \in Sessions /\ Sid(r)' = Sid(r)
  BY <1>3, SidIsSession DEF Sid, TypeInv
<1>5. Deleters'
  <2>1. \A r \in Requests : \A m \in 1..MAX_ATTEMPTS :
          /\ cleanup'[<<r, m>>] # "none" => cleanup[<<r, m>>] # "none"
          /\ sweep'[<<r, m>>] # "none" => sweep[<<r, m>>] # "none"
    BY <1>2, <1>3 DEF Sessions
  <2> SUFFICES ASSUME NEW p \in Requests, NEW m \in 1..MAX_ATTEMPTS
               PROVE  (/\ cleanup[<<p, m>>] # "none" => attempt[p] = m /\ pc[p] = "done"
                       /\ sweep[<<p, m>>] # "none" =>
                            attempt[p] = m /\ pc[p] \in {"streaming", "done"}
                              /\ phase \in {"sweeping", "down"})'
    BY DEF Deleters
  <2> QED
    BY <1>3, <2>1 DEF Deleters, Structure
<1>6. SessionIsThere'
  <2> SUFFICES ASSUME NEW r \in Requests,
                      pc[r] \in InFlight \/ (pc[r] = "streaming" /\ phase \in {"up", "draining"})
               PROVE  session'[Sid(r)] = "open"
    BY <1>3, <1>4 DEF SessionIsThere
  <2>1. Sid(r) # s
    BY <1>1, <1>3 DEF Deleters, InFlight, Sid
  <2> QED
    BY <2>1, <1>2, <1>4 DEF SessionIsThere
<1>7. Tracked'
  BY <1>3, <1>4 DEF Tracked
<1> QED
  BY <1>5, <1>6, <1>7

LEMMA TakeKeeps ==
  ASSUME TypeInv, Structure, TakeSessions
  PROVE  Structure'
<1> USE DEF Structure, TakeSessions, requestVars, upstreamVars
<1>1. \A r \in Requests : Sid(r)' = Sid(r)
  BY DEF Sid
<1>2. Deleters'
  <2>1. \A r \in Requests : \A n \in 1..MAX_ATTEMPTS :
          sweep'[<<r, n>>] # "none" => attempt[r] = n /\ pc[r] = "streaming"
    BY DEF Tracked, Sessions, Sid
  <2>2. UNCHANGED <<pc, attempt, cleanup>> /\ phase' = "sweeping"
    OBVIOUS
  <2> HIDE DEF TakeSessions, Structure
  <2> SUFFICES ASSUME NEW p \in Requests, NEW m \in 1..MAX_ATTEMPTS
               PROVE  (/\ cleanup[<<p, m>>] # "none" => attempt[p] = m /\ pc[p] = "done"
                       /\ sweep[<<p, m>>] # "none" =>
                            attempt[p] = m /\ pc[p] \in {"streaming", "done"}
                              /\ phase \in {"sweeping", "down"})'
    BY DEF Deleters
  <2> QED
    BY <2>1, <2>2 DEF Deleters, Structure
<1>3. SessionIsThere'
  BY <1>1 DEF SessionIsThere
<1>4. Tracked'
  BY DEF Tracked
<1> QED
  BY <1>2, <1>3, <1>4

LEMMA PhaseKeeps ==
  ASSUME Structure, BeginShutdown \/ Exit
  PROVE  Structure'
<1> USE DEF BeginShutdown, Exit, requestVars, upstreamVars, taskVars
<1>1. \A r \in Requests : Sid(r)' = Sid(r)
  BY DEF Sid
<1> QED
  BY <1>1 DEF Structure, Deleters, SessionIsThere, Tracked

LEMMA StructureStep == TypeInv /\ Structure /\ [Next]_vars => Structure'
<1> SUFFICES ASSUME TypeInv, Structure, [Next]_vars PROVE Structure'
  OBVIOUS
<1>1. CASE UNCHANGED vars
  BY <1>1, QuietSteps DEF vars, requestVars, upstreamVars, taskVars
<1>2. ASSUME NEW r \in Requests, RequestStep(r) PROVE Structure'
  <2>1. CASE MovingStep(r)
    BY <2>1, MovingStepsMove, MovesKeep DEF Structure
  <2>2. CASE StreamEnds(r)
    BY <2>2, QuietSteps DEF StreamEnds, upstreamVars, taskVars
  <2> QED
    BY <1>2, <2>1, <2>2, AcceptedKeeps, DropKeeps, RetryKeeps
    DEF RequestStep, Proceed, MovingStep
<1>3. ASSUME NEW s \in Sessions, UpstreamFinishes(s) PROVE Structure'
  BY <1>3, QuietSteps DEF UpstreamFinishes, requestVars, taskVars
<1>4. CASE FeedStop
  BY <1>4, QuietSteps DEF FeedStop, SendStop, requestVars
<1>5. ASSUME NEW a \in Accounts, Recover(a) PROVE Structure'
  BY <1>5, QuietSteps DEF Recover, requestVars, upstreamVars, taskVars
<1> QED
  BY <1>1, <1>2, <1>3, <1>4, <1>5, CallsKeep, TakeKeeps, PhaseKeeps
  DEF Next, Stopped, Shutdown

LEMMA Inductive == Spec => []IInv
<1>1. IInv /\ [Next]_vars => IInv'
  BY TypeInvStep, StructureStep DEF IInv, Structure
<1> QED
  BY InitIInv, <1>1, PTL DEF Spec

(* Until shutdown takes them, the registered sessions are exactly those of *)
(* the open streams, and each still exists upstream.                       *)
THEOREM StreamsTracked == Spec => []StreamsAreTracked
<1>1. IInv => StreamsAreTracked
  BY DEF IInv, Tracked, SessionIsThere, StreamsAreTracked
<1> QED
  BY Inductive, <1>1, PTL

(* No completion is sent to a session that somebody sent a delete for.     *)
THEOREM CompletionsReachSessions == Spec => NoCompletionOnDeleted
<1>1. IInv /\ [Next]_vars =>
        \A s \in Sessions : generating[s] = 0 /\ generating'[s] # 0 => ~DeleteSent(s)
  <2> SUFFICES ASSUME IInv, [Next]_vars, NEW s \in Sessions,
                      generating[s] = 0, generating'[s] # 0
               PROVE  ~DeleteSent(s)
    OBVIOUS
  <2>1. PICK r \in Requests : Generates(r) /\ pc[r] = "completion"
    <3>1. CASE \E r \in Requests : RequestStep(r)
      <4>1. PICK r \in Requests : RequestStep(r)
        BY <3>1
      <4>2. generating' = generating \/ (Generates(r) /\ pc[r] = "completion")
              \/ generating' = [generating EXCEPT ![Sid(r)] = 0] \/ SendDelete(Sid(r))
        BY <4>1 DEF RequestStep, Proceed, Start, Claim, ClaimNone, CreateOk, CreateFails,
             UploadHistory, UploadFiles, PowOk, CallFails, CompletionOk, FeedReady,
             FeedClosed, FeedFails, Accepted, Hint, EventsFail, DeleteAndFail, Retry,
             Cancel, StreamEnds, DropStream, upstreamVars
      <4> QED
        BY <4>2 DEF SendDelete, IInv, TypeInv, TypeOK
    <3>2. CASE \E t \in Sessions : Cleanup(t) \/ Sweep(t) \/ UpstreamFinishes(t)
      BY <3>2 DEF Cleanup, Sweep, CleanupCall, SendStop, SendDelete, UpstreamFinishes,
                  IInv, TypeInv, TypeOK
    <3>3. CASE FeedStop
      BY <3>3 DEF FeedStop, SendStop, IInv, TypeInv, TypeOK
    <3>4. CASE UNCHANGED generating
      BY <3>4
    <3> QED
      BY <3>1, <3>2, <3>3, <3>4
      DEF Next, Stopped, Recover, Shutdown, BeginShutdown, TakeSessions, Exit,
          vars, upstreamVars
  <2>2. s = Sid(r)
    BY <2>1 DEF Generates, IInv, TypeInv, TypeOK
  <2> QED
    BY <2>1, <2>2 DEF IInv, SessionIsThere, InFlight, DeleteSent
<1> QED
  BY Inductive, <1>1, PTL DEF Spec, NoCompletionOnDeleted
-----------------------------------------------------------------------------
(* The stop of a fed chunk is sent by a task that nobody waits for.  For   *)
(* all requests, attempts and chunks it never stops the answer: it names a *)
(* message that is over before the answer's message begins.                *)

ChunksAreFed ==
  \A r \in Requests : pc[r] \in {"feedReady", "feedClose"} => kind[r] = "chunk"

(* A stop that is still to be sent names a chunk its session has taken, or *)
(* the one it is being fed, or its request is over.                        *)
LateStops ==
  \A stop \in feedStops :
    \/ stop[2] <= fed[stop[1]]
    \/ stop[2] = Message(stop[1]) /\ pc[stop[1]] \in {"feedClose", "done"}

(* A session generates nothing but the latest message it was sent.         *)
Generation ==
  \A r \in Requests :
    /\ generating[Sid(r)] \in {0, Message(r)}
    /\ \A n \in 1..MAX_ATTEMPTS : n > attempt[r] => generating[<<r, n>>] = 0

StopInv == ChunksAreFed /\ LateStops /\ Generation

-----------------------------------------------------------------------------
(* Most steps of a request move it on within one message of one session.   *)
Ordinary(r) ==
  /\ UNCHANGED <<kind, attempt, fed, feedStops>>
  /\ \E place \in Places \ {"feedClose"} :
       /\ pc' = [pc EXCEPT ![r] = place]
       /\ place = "feedReady" => kind[r] = "chunk"
       /\ pc[r] \in {"feedClose", "done"} => place = "done"
  /\ \A s \in Sessions :
       generating'[s] = generating[s] \/ (s = Sid(r) /\ generating'[s] \in {0, Message(r)})
  /\ pc[r] = "streaming" => UNCHANGED generating

OrdinaryStep(r) ==
  \/ Start(r) \/ Claim(r) \/ ClaimNone(r) \/ CreateOk(r) \/ CreateFails(r)
  \/ UploadHistory(r) \/ UploadFiles(r) \/ PowOk(r) \/ CallFails(r) \/ CompletionOk(r)
  \/ FeedFails(r) \/ Accepted(r) \/ Hint(r) \/ EventsFail(r) \/ DeleteAndFail(r)
  \/ Cancel(r) \/ StreamEnds(r) \/ DropStream(r)

LEMMA OrdinarySteps ==
  ASSUME TypeInv, ChunksAreFed, NEW r \in Requests, OrdinaryStep(r)
  PROVE  Ordinary(r)
<1> USE DEF TypeInv, TypeOK, Ordinary, Places, Calling, Goto, upstreamVars, taskVars
<1> Sid(r) \in Sessions
  BY SidIsSession
<1>1. CASE Start(r)
  BY <1>1 DEF Start
<1>2. CASE Claim(r)
  BY <1>2 DEF Claim
<1>3. CASE ClaimNone(r)
  BY <1>3 DEF ClaimNone, AttemptFails
<1>4. CASE CreateOk(r)
  BY <1>4 DEF CreateOk
<1>5. CASE CreateFails(r)
  BY <1>5 DEF CreateFails, AttemptFails
<1>6. CASE UploadHistory(r)
  BY <1>6 DEF UploadHistory
<1>7. CASE UploadFiles(r)
  BY <1>7 DEF UploadFiles, AttemptFails
<1>8. CASE PowOk(r)
  BY <1>8 DEF PowOk
<1>9. CASE CallFails(r)
  BY <1>9 DEF CallFails, AttemptFails, FailsAfterDelete, Generates
<1>10. CASE CompletionOk(r)
  BY <1>10 DEF CompletionOk, Generates, IsFeeding
<1>11. CASE FeedFails(r)
  BY <1>11 DEF FeedFails, AttemptFails, ChunksAreFed
<1>12. CASE Accepted(r)
  BY <1>12 DEF Accepted
<1>13. CASE Hint(r)
  BY <1>13 DEF Hint, FailsAfterDelete
<1>14. CASE EventsFail(r)
  BY <1>14 DEF EventsFail, AttemptFails
<1>15. CASE DeleteAndFail(r)
  BY <1>15 DEF DeleteAndFail, AttemptFails, SendDelete
<1>16. CASE Cancel(r)
  BY <1>16 DEF Cancel, Generates, SendDelete
<1>17. CASE StreamEnds(r)
  BY <1>17 DEF StreamEnds
<1>18. CASE DropStream(r)
  BY <1>18 DEF DropStream
<1> QED
  BY <1>1, <1>2, <1>3, <1>4, <1>5, <1>6, <1>7, <1>8, <1>9, <1>10, <1>11, <1>12, <1>13,
     <1>14, <1>15, <1>16, <1>17, <1>18 DEF OrdinaryStep

LEMMA OrdinaryKeeps ==
  ASSUME TypeInv, StopInv, NEW r \in Requests, Ordinary(r)
  PROVE  StopInv'
<1> USE DEF StopInv
<1>1. /\ UNCHANGED <<kind, attempt, fed, feedStops>>
      /\ \A q \in Requests : Sid(q)' = Sid(q) /\ Message(q)' = Message(q)
  BY DEF Ordinary, Sid, Message
<1>2. /\ \A q \in Requests : q # r => pc'[q] = pc[q]
      /\ pc'[r] # "feedClose" /\ (pc'[r] = "feedReady" => kind[r] = "chunk")
      /\ pc[r] \in {"feedClose", "done"} => pc'[r] = "done"
  BY DEF Ordinary, TypeInv, TypeOK
<1>3. ChunksAreFed'
  BY <1>1, <1>2 DEF ChunksAreFed
<1>4. LateStops'
  <2>1. \A stop \in feedStops : stop[1] \in Requests
    BY DEF TypeInv, TypeOK
  <2> QED
    BY <1>1, <1>2, <2>1 DEF LateStops
<1>5. Generation'
  <2> SUFFICES ASSUME NEW q \in Requests
               PROVE  /\ generating'[Sid(q)] \in {0, Message(q)}
                      /\ \A n \in 1..MAX_ATTEMPTS : n > attempt[q] => generating'[<<q, n>>] = 0
    BY <1>1 DEF Generation
  <2>1. Sid(q) \in Sessions /\ (q # r => Sid(q) # Sid(r))
    BY SidIsSession DEF TypeInv, Sid
  <2>2. generating'[Sid(q)] \in {0, Message(q)}
    BY <2>1 DEF Ordinary, Generation
  <2>3. ASSUME NEW n \in 1..MAX_ATTEMPTS, n > attempt[q]
        PROVE  generating'[<<q, n>>] = 0
    <3>1. <<q, n>> \in Sessions /\ <<q, n>> # Sid(r)
      BY <2>3 DEF Sessions, Sid, TypeInv, TypeOK
    <3> QED
      BY <2>3, <3>1 DEF Ordinary, Generation
  <2> QED
    BY <2>2, <2>3
<1> QED
  BY <1>3, <1>4, <1>5

(* The steps that take a request from one message to the next.             *)
LEMMA FeedReadyKeeps ==
  ASSUME TypeInv, StopInv, NEW r \in Requests, FeedReady(r)
  PROVE  StopInv'
<1> USE DEF StopInv, FeedReady, Goto, upstreamVars
<1>1. \A q \in Requests : Sid(q)' = Sid(q) /\ Message(q)' = Message(q)
  BY DEF Sid, Message
<1>2. /\ pc[r] = "feedReady" /\ pc'[r] = "feedClose"
      /\ \A q \in Requests : q # r => pc'[q] = pc[q]
  BY DEF TypeInv, TypeOK
<1>3. ChunksAreFed'
  BY <1>2 DEF ChunksAreFed
<1>4. LateStops'
  <2>1. \A stop \in feedStops : stop[1] \in Requests
    BY DEF TypeInv, TypeOK
  <2>2. \A stop \in feedStops : pc[stop[1]] \in {"feedClose", "done"} => pc'[stop[1]] = pc[stop[1]]
    BY <1>2, <2>1
  <2> QED
    BY <1>1, <1>2, <2>1, <2>2 DEF LateStops
<1>5. Generation'
  BY <1>1 DEF Generation
<1> QED
  BY <1>3, <1>4, <1>5

LEMMA FeedClosedKeeps ==
  ASSUME TypeInv, StopInv, NEW r \in Requests, FeedClosed(r)
  PROVE  StopInv'
<1> USE DEF StopInv, FeedClosed, Goto, upstreamVars, taskVars
<1>1. /\ \A q \in Requests : Sid(q)' = Sid(q)
      /\ \A q \in Requests : q # r => fed'[q] = fed[q] /\ pc'[q] = pc[q]
      /\ fed'[r] = fed[r] + 1 /\ pc[r] = "feedClose" /\ pc'[r] = "pow"
      /\ UNCHANGED <<kind, attempt, feedStops, generating>>
  BY DEF Sid, TypeInv, TypeOK
<1>2. fed[r] \in Nat
  BY BoundsAssumption DEF TypeInv, TypeOK
<1>3. ChunksAreFed'
  BY <1>1 DEF ChunksAreFed
<1>4. LateStops'
  <2> SUFFICES ASSUME NEW stop \in feedStops
               PROVE  \/ stop[2] <= fed'[stop[1]]
                      \/ stop[2] = fed'[stop[1]] + 1 /\ pc'[stop[1]] \in {"feedClose", "done"}
    BY <1>1 DEF LateStops, Message
  <2>1. stop[1] \in Requests /\ stop[2] \in Nat
    BY BoundsAssumption DEF TypeInv, TypeOK
  <2>2. \/ stop[2] <= fed[stop[1]]
        \/ stop[2] = fed[stop[1]] + 1 /\ pc[stop[1]] \in {"feedClose", "done"}
    BY DEF LateStops, Message
  <2> HIDE DEF FeedClosed, StopInv
  <2> QED
    BY <1>1, <1>2, <2>1, <2>2
<1>5. Generation'
  <2>1. generating[Sid(r)] = 0
    OBVIOUS
  <2> QED
    BY <1>1, <2>1 DEF Generation, Message
<1> QED
  BY <1>3, <1>4, <1>5

LEMMA RetryKeepsStops ==
  ASSUME TypeInv, StopInv, NEW r \in Requests, Retry(r)
  PROVE  StopInv'
<1> USE DEF StopInv, Retry, NextAttempt, Goto, upstreamVars, taskVars
<1>1. /\ \A q \in Requests : q # r => pc'[q] = pc[q] /\ attempt'[q] = attempt[q]
      /\ pc[r] = "retry" /\ pc'[r] = "claim"
      /\ attempt'[r] = attempt[r] + 1 /\ attempt[r] \in 1..MAX_ATTEMPTS
      /\ attempt[r] # MAX_ATTEMPTS
      /\ UNCHANGED <<kind, fed, feedStops, generating>>
  BY DEF TypeInv, TypeOK, Counters
<1>2. \A q \in Requests : Message(q)' = Message(q)
  BY DEF Message
<1>3. ChunksAreFed'
  BY <1>1 DEF ChunksAreFed
<1>4. LateStops'
  <2>1. \A stop \in feedStops : stop[1] \in Requests
    BY DEF TypeInv, TypeOK
  <2> QED
    BY <1>1, <1>2, <2>1 DEF LateStops
<1>5. Generation'
  <2> SUFFICES ASSUME NEW q \in Requests
               PROVE  /\ generating[<<q, attempt'[q]>>] \in {0, Message(q)}
                      /\ \A n \in 1..MAX_ATTEMPTS : n > attempt'[q] => generating[<<q, n>>] = 0
    BY <1>1, <1>2 DEF Generation, Sid
  <2>1. CASE q # r
    BY <1>1, <2>1 DEF Generation, Sid
  <2>2. CASE q = r
    <3>1. attempt[r] + 1 \in 1..MAX_ATTEMPTS /\ attempt[r] + 1 > attempt[r]
      BY <1>1, BoundsAssumption
    <3>2. \A n \in 1..MAX_ATTEMPTS : n > attempt[r] + 1 => n > attempt[r]
      BY <1>1, BoundsAssumption
    <3> QED
      BY <1>1, <2>2, <3>1, <3>2 DEF Generation
  <2> QED
    BY <2>1, <2>2
<1> QED
  BY <1>3, <1>4, <1>5

(* The other steps end generations and send stops.                         *)
Quiet ==
  /\ UNCHANGED <<pc, kind, attempt, fed>>
  /\ feedStops' \subseteq feedStops
  /\ \A s \in Sessions : generating'[s] \in {0, generating[s]}

LEMMA QuietKeeps ==
  ASSUME TypeInv, StopInv, Quiet
  PROVE  StopInv'
<1>1. \A q \in Requests : Sid(q)' = Sid(q) /\ Message(q)' = Message(q) /\ Sid(q) \in Sessions
  BY SidIsSession DEF Quiet, Sid, Message, TypeInv
<1>2. \A q \in Requests : \A n \in 1..MAX_ATTEMPTS : <<q, n>> \in Sessions
  BY DEF Sessions
<1>3. ChunksAreFed'
  BY DEF Quiet, StopInv, ChunksAreFed
<1>4. LateStops'
  <2>1. \A stop \in feedStops : stop[1] \in Requests
    BY DEF TypeInv, TypeOK
  <2> QED
    BY <1>1, <2>1 DEF Quiet, StopInv, LateStops
<1>5. Generation'
  BY <1>1, <1>2 DEF Quiet, StopInv, Generation
<1> QED
  BY <1>3, <1>4, <1>5 DEF StopInv

LEMMA TaskStepsAreQuiet ==
  ASSUME TypeInv, NEW s \in Sessions, Cleanup(s) \/ Sweep(s) \/ UpstreamFinishes(s)
  PROVE  Quiet
<1>1. CASE UpstreamFinishes(s)
  BY <1>1 DEF UpstreamFinishes, Quiet, requestVars, taskVars, TypeInv, TypeOK
<1>2. CASE Cleanup(s)
  <2>1. \A t \in Sessions : generating'[t] \in {0, generating[t]}
    BY <1>2 DEF Cleanup, CleanupCall, SendStop, SendDelete, TypeInv, TypeOK
  <2> QED
    BY <1>2, <2>1 DEF Cleanup, Quiet, requestVars
<1>3. CASE Sweep(s)
  <2>1. \A t \in Sessions : generating'[t] \in {0, generating[t]}
    BY <1>3 DEF Sweep, CleanupCall, SendStop, SendDelete, TypeInv, TypeOK
  <2> QED
    BY <1>3, <2>1 DEF Sweep, Quiet, requestVars
<1> QED
  BY <1>1, <1>2, <1>3

LEMMA StopInvStep == TypeInv /\ StopInv /\ [Next]_vars => StopInv'
<1> SUFFICES ASSUME TypeInv, StopInv, [Next]_vars PROVE StopInv'
  OBVIOUS
<1>1. CASE \E r \in Requests : RequestStep(r)
  <2>1. PICK r \in Requests : RequestStep(r)
    BY <1>1
  <2>2. CASE OrdinaryStep(r)
    BY <2>2, OrdinarySteps, OrdinaryKeeps DEF StopInv
  <2> QED
    BY <2>1, <2>2, FeedReadyKeeps, FeedClosedKeeps, RetryKeepsStops
    DEF RequestStep, Proceed, OrdinaryStep
<1>2. CASE \E s \in Sessions : Cleanup(s) \/ Sweep(s) \/ UpstreamFinishes(s)
  BY <1>2, TaskStepsAreQuiet, QuietKeeps
<1>3. CASE FeedStop
  <2>1. Quiet
    BY <1>3 DEF FeedStop, SendStop, Quiet, requestVars, TypeInv, TypeOK
  <2> QED
    BY <2>1, QuietKeeps
<1>4. CASE UNCHANGED <<requestVars, generating, feedStops>>
  <2>1. Quiet
    BY <1>4 DEF Quiet, requestVars
  <2> QED
    BY <2>1, QuietKeeps
<1> QED
  BY <1>1, <1>2, <1>3, <1>4
  DEF Next, Stopped, Shutdown, BeginShutdown, TakeSessions, Exit, Recover,
      vars, upstreamVars, taskVars

LEMMA StopsAreLate == Spec => [](IInv /\ StopInv)
<1>1. Init => StopInv
  <2> SUFFICES ASSUME Init PROVE StopInv
    OBVIOUS
  <2>1. \A r \in Requests : Sid(r) \in Sessions
    BY InitIInv, SidIsSession DEF IInv, TypeInv
  <2> QED
    BY <2>1 DEF Init, StopInv, ChunksAreFed, LateStops, Generation, Sessions
<1>2. IInv /\ StopInv /\ [Next]_vars => StopInv'
  BY StopInvStep DEF IInv
<1> QED
  BY <1>1, <1>2, Inductive, PTL DEF Spec

-----------------------------------------------------------------------------
(* Nothing but the upstream ends an answer while it is read and shutdown   *)
(* has not taken it: a request works on its own session only, the tasks    *)
(* that clean up do so after the reader, and a late stop names a message   *)
(* that is over.                                                           *)
THEOREM AnswersAreNotCutOff == Spec => AnswerIsNotCutOff
<1>1. IInv /\ StopInv /\ [Next]_vars =>
        \A r \in Requests :
          /\ pc[r] = "streaming" /\ sweep[Sid(r)] = "none"
          /\ generating[Sid(r)] # 0 /\ generating'[Sid(r)] = 0
          => UpstreamFinishes(Sid(r))
  <2> SUFFICES ASSUME IInv, StopInv, [Next]_vars, NEW r \in Requests,
                      pc[r] = "streaming", sweep[Sid(r)] = "none",
                      generating[Sid(r)] # 0, generating'[Sid(r)] = 0
               PROVE  UpstreamFinishes(Sid(r))
    OBVIOUS
  <2>1. Sid(r) \in Sessions /\ cleanup[Sid(r)] = "none"
    BY SidIsSession DEF IInv, TypeInv, TypeOK, Deleters, Sid
  <2>2. ASSUME NEW q \in Requests, RequestStep(q) PROVE FALSE
    <3>1. CASE OrdinaryStep(q)
      <4>1. Ordinary(q)
        BY <3>1, OrdinarySteps DEF IInv, StopInv
      <4>2. q # r => Sid(r) # Sid(q)
        BY DEF Sid
      <4> QED
        BY <2>1, <4>1, <4>2 DEF Ordinary
    <3>2. CASE FeedReady(q) \/ FeedClosed(q) \/ Retry(q)
      BY <3>2 DEF FeedReady, FeedClosed, Retry, upstreamVars
    <3> QED
      BY <2>2, <3>1, <3>2 DEF RequestStep, Proceed, OrdinaryStep
  <2>3. ASSUME NEW s \in Sessions, Cleanup(s) \/ Sweep(s) \/ UpstreamFinishes(s)
        PROVE  s = Sid(r) /\ UpstreamFinishes(s)
    <3>1. s = Sid(r)
      BY <2>1, <2>3 DEF Cleanup, Sweep, CleanupCall, SendStop, SendDelete,
                        UpstreamFinishes, IInv, TypeInv, TypeOK
    <3> QED
      BY <2>1, <2>3, <3>1 DEF Cleanup, Sweep, CleanupCall
  <2>4. ~FeedStop
    <3> SUFFICES ASSUME FeedStop PROVE FALSE
      OBVIOUS
    <3>1. PICK stop \in feedStops : SendStop(Sid(stop[1]), stop[2])
      BY DEF FeedStop, StopTarget
    <3>2. stop[1] \in Requests /\ stop[2] \in Nat /\ fed[r] \in Nat
      BY BoundsAssumption DEF IInv, TypeInv, TypeOK
    <3>3. stop[1] = r /\ generating[Sid(r)] = stop[2]
      BY <2>1, <3>1, <3>2 DEF SendStop, Sid, IInv, TypeInv, TypeOK
    <3>4. stop[2] <= fed[r] /\ stop[2] = Message(r)
      BY <3>3 DEF StopInv, LateStops, Generation
    <3> QED
      BY <3>2, <3>4 DEF Message
  <2> QED
    BY <2>2, <2>3, <2>4
    DEF Next, Stopped, Shutdown, BeginShutdown, TakeSessions, Exit, Recover,
        vars, upstreamVars
<1> QED
  BY StopsAreLate, <1>1, PTL DEF Spec, AnswerIsNotCutOff
=============================================================================
