-------------------------- MODULE StatisticsProofs --------------------------
(***************************************************************************)
(* However many requests come, and whenever the process ends and starts:   *)
(* every request is counted once, none goes by unsaved, and the file is    *)
(* whole unless saves overlap.  First the steps of the server are reduced  *)
(* to those of Statistics, each with what the handlers make sure of; the   *)
(* rest of the argument is about the counts, the saves and the disk alone. *)
(***************************************************************************)
EXTENDS Server, FiniteSetTheorems, TLAPS

Files  == Recorders \cup {Initial, Leftover}
Counts == [total : Nat, success : Nat, failed : Nat, details : Nat]
Steps  == {"none", "unmarked", "answered", "check", "last", "cas", "persist", "totals",
           "done", "lost"}

Places   == [step : Steps, total : Nat, last : Nat, copy : Counts]
Saves    == [step : {"none", "spawned", "open", "written", "saved"},
             of : Counts, file : Files \cup {NoFile}]
Contents == [whole : BOOLEAN, size : Nat, is : Counts]

StatTypeOK ==
  /\ counts \in Counts /\ loaded \in Counts /\ lastPersisted \in Nat
  /\ rec \in [Recorders -> Places]
  /\ save \in [Recorders -> Saves]
  /\ disk \in [tmp : Files \cup {NoFile}, stats : Files, files : [Files -> Contents]]

(* A request is counted at the end of its way through the handler, not     *)
(* before; the last save is for the end; nothing is recorded while the     *)
(* process is down.                                                        *)
Forgotten == \A r \in Recorders : /\ rec[r].step \in {"none", "lost"}
                                   /\ save[r].step \in {"none", "saved"}

Early == {"registry", "claim", "client", "session", "pow", "challenge", "solver", "file",
          "filing", "calling"}

Linked ==
  /\ at = [w \in Requests \cup Updates |-> at[w]]
  /\ \A r \in Requests : at[r] = "none" => At(r, "none")
  /\ \A r \in Requests : at[r] \in Early => At(r, "unmarked")
  /\ phase \in {"up", "stopping"} => At(Shutdown, "none")
  /\ phase = "down" => Forgotten

(* What the server does to the counts.                                     *)
Counting(r) ==
  \/ At(r, "none") /\ StartTimer(r)
  \/ \E success \in BOOLEAN : At(r, "unmarked") /\ RecordRequest(r, success)
  \/ RecordDetails(r)

StatNext ==
  \/ \E r \in Timers : Counting(r)
  \/ \E r \in Recorders : Record(r) \/ Save(r)
  \/ At(Shutdown, "none") /\ PersistAtExit
  \/ StatEnds
  \/ Forgotten /\ StatLoads

(* The counts agree, in memory, in every snapshot and in every whole file. *)
Agree(c) == c.total = c.success + c.failed /\ c.details <= c.success
Answered == {r \in Timers : At(r, "answered")}

CountsAgree ==
  /\ counts.total = loaded.total + Cardinality(Counted)
  /\ counts.total = counts.success + counts.failed
  /\ counts.details + Cardinality(Answered) <= counts.success

CopiesAgree ==
  /\ Agree(loaded)
  /\ \A r \in Recorders : /\ Agree(save[r].of)
                          /\ At(r, "totals") => rec[r].copy.details <= counts.details
  /\ \A f \in Files : disk.files[f].whole => Agree(disk.files[f].is)

(* What is known to be saved.  Nobody has decided of more requests than    *)
(* there are; when nobody is on the way from a decision to its snapshot,   *)
(* the last decision is covered; and if a save is missing, somebody is on  *)
(* the way to see it.                                                      *)
Saved == {loaded.total} \cup Snapshots

Decided ==
  /\ lastPersisted <= counts.total
  /\ \A r \in Recorders : rec[r].step \in {"last", "cas"} => rec[r].total <= counts.total

Covered ==
  \/ \E r \in Recorders : rec[r].step \in {"persist", "totals"}
  \/ \E saved \in Saved : lastPersisted <= saved

Sees(r) ==
  \/ rec[r].step \in {"answered", "check", "persist", "totals"}
  \/ rec[r].step \in {"last", "cas"} /\ rec[r].total = counts.total
       /\ (rec[r].step = "cas" => rec[r].last = lastPersisted)

Noticed ==
  \/ \E saved \in Saved : counts.total - saved < PERSIST_INTERVAL
  \/ \E r \in Recorders : Sees(r)

(* The disk.  A file made for a save is new when the save opens it; one of *)
(* the saves that run writes the file that has the temporary name, and if  *)
(* it runs alone that file is empty until it is written, then whole.       *)
FilesAreNew ==
  /\ disk.stats # disk.tmp
  /\ \A r \in Recorders :
       /\ rec[r].step \notin {"done", "lost"} => save[r].step = "none"
       /\ save[r].step \in {"none", "spawned"} => r # disk.stats /\ r # disk.tmp

TmpIsOpen ==
  disk.tmp # NoFile /\ Running # {} => \E r \in Running : save[r].file = disk.tmp

AloneIsWhole ==
  \A r \in Recorders : Running = {r} /\ disk.tmp # NoFile =>
    /\ save[r].step = "open" => disk.files[disk.tmp] = Empty
    /\ save[r].step = "written" => disk.files[disk.tmp].whole

IInv == /\ StatTypeOK /\ Linked /\ CountsAgree /\ CopiesAgree
        /\ Decided /\ Covered /\ Noticed
        /\ FilesAreNew /\ TmpIsOpen /\ AloneIsWhole
-----------------------------------------------------------------------------
LEMMA PlacesOfFiles ==
  /\ Shutdown # NoFile /\ Initial # NoFile /\ Leftover # NoFile
  /\ Initial # Leftover /\ Shutdown # Initial /\ Shutdown # Leftover
  /\ NoFile \notin Files /\ NoFile \notin Recorders
  /\ Initial \notin Recorders /\ Leftover \notin Recorders /\ Shutdown \notin Timers
BY TimersAssumption DEF Shutdown, Initial, Leftover, NoFile, Files, Recorders

LEMMA WhatFilesHold ==
  ASSUME NEW c \in Counts
  PROVE  /\ Whole(c) \in Contents
         /\ Whole(c).whole /\ Whole(c).is = c
         /\ Empty \in Contents
         /\ ~Empty.whole /\ NoCounts \in Counts /\ Agree(NoCounts)
         /\ Written(Empty, c) = Whole(c)
BY DEF Contents, Whole, Empty, NoCounts, Counts, Written, Agree

LEMMA WrittenIs ==
  ASSUME NEW f \in Contents, NEW c \in Counts
  PROVE  /\ Written(f, c) \in Contents
         /\ Written(f, c).whole => Written(f, c).is = c
BY WhatFilesHold DEF Contents, Written, Counts, Whole

LEMMA NumbersAre ==
  /\ \A c \in Counts : /\ c.total \in Nat /\ c.success \in Nat
                       /\ c.failed \in Nat /\ c.details \in Nat
  /\ \A c \in Counts, n \in Nat : [c EXCEPT !.details = n] \in Counts
BY DEF Counts

LEMMA TypesHold == StatTypeOK /\ StatNext => StatTypeOK'
<1> SUFFICES ASSUME StatTypeOK, StatNext
             PROVE  StatTypeOK'
  OBVIOUS
<1> USE DEF StatTypeOK, Reaches, At
<1>1. ASSUME NEW r \in Timers, Counting(r)
      PROVE  StatTypeOK'
  <2> r \in Recorders
    BY DEF Recorders
  <2>1. rec' \in [Recorders -> Places]
    <3>1. \E s \in Steps : rec' = [rec EXCEPT ![r].step = s]
      BY <1>1 DEF Counting, StartTimer, RecordRequest, RecordDetails, Steps, Marked
    <3> QED
      BY <3>1 DEF Places
  <2>2. counts' \in Counts
    <3>1. \A success \in BOOLEAN : RecordRequest(r, success) => counts' \in Counts
      <4> SUFFICES ASSUME NEW success \in BOOLEAN, RecordRequest(r, success)
                   PROVE  counts' \in Counts
        OBVIOUS
      <4>1. counts' = [total |-> counts.total + 1,
                       success |-> counts.success + (IF success THEN 1 ELSE 0),
                       failed |-> counts.failed + (IF success THEN 0 ELSE 1),
                       details |-> counts.details]
        BY DEF RecordRequest, Counts
      <4> QED
        BY <4>1 DEF Counts
    <3>2. RecordDetails(r) => counts' \in Counts
      BY DEF RecordDetails, Counts
    <3> QED
      BY <1>1, <3>1, <3>2 DEF Counting, StartTimer
  <2> QED
    BY <1>1, <2>1, <2>2 DEF Counting, StartTimer, RecordRequest, RecordDetails
<1>2. ASSUME NEW r \in Recorders, Record(r)
      PROVE  StatTypeOK'
  <2>1. CASE LoadTotal(r)
    <3>1. counts.total \in Nat
      BY NumbersAre
    <3>2. rec' = [rec EXCEPT ![r] = [rec[r] EXCEPT !.total = counts.total, !.step = "last"]]
      BY <2>1 DEF LoadTotal
    <3>3. [rec[r] EXCEPT !.total = counts.total, !.step = "last"] \in Places
      BY <3>1 DEF Places, Steps
    <3> QED
      BY <2>1, <3>2, <3>3 DEF LoadTotal
  <2>2. CASE LoadLast(r)
    <3> DEFINE next == IF IsDue(rec[r].total, lastPersisted) THEN "cas" ELSE "done"
    <3>1. rec' = [rec EXCEPT ![r] = [rec[r] EXCEPT !.last = lastPersisted, !.step = next]]
      BY <2>2 DEF LoadLast
    <3>2. next \in Steps
      BY DEF Steps
    <3>3. [rec[r] EXCEPT !.last = lastPersisted, !.step = next] \in Places
      BY <3>2 DEF Places
    <3> QED
      BY <2>2, <3>1, <3>3 DEF LoadLast
  <2>3. CASE CasLast(r)
    <3>1. rec[r].total \in Nat
      BY DEF Places
    <3>2. \E s \in Steps : rec' = [rec EXCEPT ![r].step = s]
      BY <2>3 DEF CasLast, Steps
    <3>3. rec' \in [Recorders -> Places]
      BY <3>2 DEF Places
    <3> QED
      BY <2>3, <3>1, <3>3 DEF CasLast
  <2>4. CASE CopyDetails(r)
    <3>1. [rec[r].copy EXCEPT !.details = counts.details] \in Counts
      BY NumbersAre DEF Places
    <3>2. rec' = [rec EXCEPT ![r] =
                    [rec[r] EXCEPT !.copy = [rec[r].copy EXCEPT !.details = counts.details],
                                   !.step = "totals"]]
      BY <2>4 DEF CopyDetails
    <3>3. [rec[r] EXCEPT !.copy = [rec[r].copy EXCEPT !.details = counts.details],
                         !.step = "totals"] \in Places
      BY <3>1 DEF Places, Steps
    <3> QED
      BY <2>4, <3>2, <3>3 DEF CopyDetails
  <2>5. CASE CopyTotals(r)
    <3>1. [counts EXCEPT !.details = rec[r].copy.details] \in Counts
      BY NumbersAre DEF Places
    <3>2. rec' \in [Recorders -> Places]
      BY <2>5 DEF CopyTotals, Places, Steps
    <3>3. save' = [save EXCEPT ![r] =
                     [save[r] EXCEPT !.step = "spawned",
                                     !.of = [counts EXCEPT !.details = rec[r].copy.details]]]
      BY <2>5 DEF CopyTotals
    <3>4. [save[r] EXCEPT !.step = "spawned",
                          !.of = [counts EXCEPT !.details = rec[r].copy.details]] \in Saves
      BY <3>1 DEF Saves
    <3> QED
      BY <2>5, <3>2, <3>3, <3>4 DEF CopyTotals
  <2> QED
    BY <1>2, <2>1, <2>2, <2>3, <2>4, <2>5 DEF Record
<1>3. ASSUME NEW r \in Recorders, SaveOpens(r)
      PROVE  StatTypeOK'
  <2>1. OpenTmp(r) \in Files
    BY DEF OpenTmp, Files
  <2>2. Empty \in Contents
    BY WhatFilesHold
  <2> QED
    BY <1>3, <2>1, <2>2 DEF SaveOpens, memVars, Saves
<1>4. ASSUME NEW r \in Recorders, SaveWrites(r)
      PROVE  StatTypeOK'
  <2>1. disk' = [disk EXCEPT !.files = [disk.files EXCEPT ![save[r].file] =
                   Written(disk.files[save[r].file], save[r].of)]]
    BY <1>4 DEF SaveWrites
  <2>2. save[r].file \in Files =>
          Written(disk.files[save[r].file], save[r].of) \in
            Contents
    BY WrittenIs DEF Saves
  <2>3. [disk.files EXCEPT ![save[r].file] =
           Written(disk.files[save[r].file], save[r].of)] \in
             [Files -> Contents]
    BY <2>2
  <2>4. disk' \in [tmp : Files \cup {NoFile}, stats : Files, files : [Files -> Contents]]
    BY <2>1, <2>3
  <2>5. save' \in [Recorders -> Saves]
    BY <1>4 DEF SaveWrites, Saves
  <2> QED
    BY <1>4, <2>4, <2>5 DEF SaveWrites, memVars
<1>5. ASSUME NEW r \in Recorders, SaveRenames(r)
      PROVE  StatTypeOK'
  BY <1>5 DEF SaveRenames, memVars, Saves
<1>6. CASE PersistAtExit
  BY <1>6 DEF PersistAtExit, Recorders, Steps, Places
<1>7. CASE StatEnds
  <2>1. rec' \in [Recorders -> Places]
    BY <1>7 DEF StatEnds, Places, Steps
  <2>2. save' \in [Recorders -> Saves]
    BY <1>7 DEF StatEnds, Saves
  <2> QED
    BY <1>7, <2>1, <2>2, WhatFilesHold DEF StatEnds
<1>8. CASE StatLoads
  <2>1. /\ StatsFile \in Contents
        /\ loaded' \in Counts /\ loaded'.total \in Nat /\ counts' = loaded'
        /\ lastPersisted' = loaded'.total
    BY <1>8, WhatFilesHold, NumbersAre DEF StatLoads, StatsFile, Contents
  <2>2. rec' \in [Recorders -> Places]
    BY <1>8 DEF StatLoads, Steps, Places
  <2>3. save' \in [Recorders -> Saves]
    BY <1>8 DEF StatLoads, Saves
  <2>4. disk' \in [tmp : Files \cup {NoFile}, stats : Files, files : [Files -> Contents]]
    BY <1>8, <2>1 DEF StatLoads, Files
  <2> QED
    BY <2>1, <2>2, <2>3, <2>4
<1> QED
  BY <1>1, <1>2, <1>3, <1>4, <1>5, <1>6, <1>7, <1>8 DEF StatNext, Save
-----------------------------------------------------------------------------
(* The steps of the server, seen from the counts.                          *)
LEMMA UpdatesGo ==
  ASSUME at = [w \in Requests \cup Updates |-> at[w]],
         NEW u \in Updates, Update(u) \/ UpdateStep(u) \/ Cancel(u)
  PROVE  /\ UNCHANGED <<statVars, phase>>
         /\ at' = [w \in Requests \cup Updates |-> at'[w]]
         /\ \A r \in Requests : at'[r] = at[r]
<1>1. UNCHANGED <<statVars, phase>>
  BY DEF Update, UpdateStep, Cancel, life
<1>2. \E place : at' = [at EXCEPT ![u] = place]
  <2>1. CASE UNCHANGED at
    BY <2>1
  <2>2. CASE \E place : Goto(u, place)
    BY <2>2 DEF Goto
  <2>3. CASE AddAccount(u)
    BY <2>3 DEF AddAccount, Goto
  <2>4. CASE GetWasm(u)
    BY <2>4 DEF GetWasm
  <2>5. \/ UNCHANGED at \/ (\E place : Goto(u, place)) \/ AddAccount(u) \/ GetWasm(u)
    BY DEF Update, UpdateStep, Cancel, PutConfig, UpdateGoesOn, CancelUpdate, Persist,
       SyncAccounts, QueueToAdd, Insert, LoginFails, AllAdded, CheckBusy, RemoveAccount,
       QueueToWrite, ReplaceRegistry, ReplaceClient, ReplaceSolver, EnterToAdd
  <2> QED
    BY <2>1, <2>2, <2>3, <2>4, <2>5
<1>3. \A r \in Requests : r # u
  BY PartiesAssumption
<1> QED
  BY <1>1, <1>2, <1>3

LEMMA RequestsGo ==
  ASSUME Linked, NEW r \in Requests,
         Arrive(r) \/ Refuse(r) \/ RequestStep(r) \/ End(r) \/ Disconnect(r) \/ TimerDrops(r)
  PROVE  /\ phase # "down" /\ UNCHANGED phase
         /\ \E place :
              /\ at' = [at EXCEPT ![r] = place] /\ place # "none"
              /\ \/ UNCHANGED statVars /\ at[r] # "none" /\ (place \in Early => at[r] \in Early)
                 \/ At(r, "none") /\ StartTimer(r)
                 \/ Counting(r) /\ ~At(r, "none") /\ place \notin Early
<1> r \in Timers /\ r \in Recorders /\ r \in Requests \cup Updates
  BY TimerOfEachRequest DEF Recorders
<1> USE DEF Goto, Early, life
<1>1. CASE Arrive(r) \/ Refuse(r)
  <2>1. at[r] = "none" /\ At(r, "none") /\ StartTimer(r) /\ phase = "up" /\ UNCHANGED phase
    BY <1>1 DEF Arrive, Refuse, Linked
  <2>2. Goto(r, "registry") \/ Goto(r, "failed")
    BY <1>1 DEF Arrive, Refuse
  <2> QED
    BY <2>1, <2>2
<1>2. CASE Runs /\ (GoOn(r) \/ Disconnect(r))
  <2>1. at[r] \in Early /\ Runs /\ UNCHANGED statVars /\ UNCHANGED phase
    BY <1>2 DEF GoOn, Disconnect, RequestGoesOn, QueueForRegistry, Resolve, Claim,
       QueueForClient, ReadClient, CreateSession, AsksUpstream, Challenged, Solve, Filed, Fed,
       Retries, MayFail, Disconnects
  <2>2. \/ \E place \in Early : Goto(r, place)
        \/ Goto(r, "failed")
        \/ UNCHANGED at
    <3>1. CASE GoOn(r)
      BY <1>2, <3>1 DEF GoOn, RequestGoesOn, QueueForRegistry, Resolve, Claim, QueueForClient,
         ReadClient, CreateSession, AsksUpstream, Challenged, Solve, Filed, Fed, Retries,
         GoesOn, GoesBack
    <3>2. CASE Disconnect(r)
      BY <1>2, <3>2 DEF Disconnect, Disconnects, GoesOn
    <3> QED
      BY <1>2, <3>1, <3>2
  <2>3. UNCHANGED at => at' = [at EXCEPT ![r] = at[r]]
    BY DEF Linked
  <2>4. \A place \in Early : place # "none"
    OBVIOUS
  <2> QED
    BY <2>1, <2>2, <2>3, <2>4 DEF Runs
<1>3. CASE Runs /\ Answer(r)
  <2>1. at[r] = "calling" /\ At(r, "unmarked") /\ RecordRequest(r, TRUE) /\ UNCHANGED phase
    BY <1>3 DEF Answer, Answers, Linked
  <2>2. Goto(r, "streaming") \/ Goto(r, "details")
    BY <1>3 DEF Answer, Answers
  <2> QED
    BY <1>3, <2>1, <2>2 DEF Runs, Counting, At
<1>4. CASE Runs /\ Fail(r)
  <2>1. at[r] \in Early /\ At(r, "unmarked") /\ RecordRequest(r, FALSE) /\ UNCHANGED phase
    BY <1>4 DEF Fail, Fails, MayFail, Linked
  <2>2. Goto(r, "failed")
    BY <1>4 DEF Fail, Fails, GoesOn
  <2>3. Counting(r) /\ ~At(r, "none") /\ phase # "down"
    BY <1>4, <2>1 DEF Runs, Counting, At
  <2>4. at' = [at EXCEPT ![r] = "failed"] /\ "failed" # "none" /\ "failed" \notin Early
    BY <2>2
  <2> QED
    BY <2>1, <2>3, <2>4
<1>5. CASE End(r)
  <2>1. At(r, "answered") /\ RecordDetails(r) /\ Goto(r, "done") /\ UNCHANGED phase
    BY <1>5 DEF End, Ends, RecordDetails
  <2>2. Counting(r) /\ ~At(r, "none") /\ phase # "down"
    BY <2>1 DEF Linked, Forgotten, At, Counting
  <2>3. at' = [at EXCEPT ![r] = "done"] /\ "done" # "none" /\ "done" \notin Early
    BY <2>1
  <2> QED
    BY <2>1, <2>2, <2>3
<1>6. CASE TimerDrops(r)
  <2>1. /\ at[r] \in {"streaming", "details", "failed"} /\ UNCHANGED at /\ UNCHANGED phase
        /\ At(r, "unmarked") /\ RecordRequest(r, FALSE)
    BY <1>6 DEF TimerDrops, DropTimer, reloadVars, requestVars
  <2>2. at' = [at EXCEPT ![r] = at[r]]
    BY <2>1 DEF Linked
  <2> QED
    BY <2>1, <2>2 DEF Linked, Forgotten, At, Counting
<1> QED
  BY <1>1, <1>2, <1>3, <1>4, <1>5, <1>6 DEF RequestStep, Disconnect
LEMMA LinkHolds ==
  ASSUME StatTypeOK, Linked, [Next]_vars
  PROVE  Linked' /\ [StatNext]_statVars
<1> USE PlacesOfFiles, TimerOfEachRequest DEF At
<1>1. ASSUME UNCHANGED <<statVars, phase>>,
             at' = [w \in Requests \cup Updates |-> at'[w]],
             \A r \in Requests : at'[r] = at[r]
      PROVE  Linked'
  BY <1>1 DEF Linked, Forgotten, statVars
<1>2. CASE UNCHANGED vars
  <2>1. UNCHANGED <<statVars, phase, at>>
    BY <1>2 DEF vars, reloadVars, requestVars
  <2> QED
    BY <1>1, <2>1 DEF Linked
<1>3. ASSUME NEW u \in Updates, Update(u) \/ UpdateStep(u) \/ Cancel(u)
      PROVE  Linked' /\ UNCHANGED statVars
  BY <1>1, <1>3, UpdatesGo DEF Linked
<1>4. ASSUME NEW r \in Requests,
             \/ Arrive(r) \/ Refuse(r) \/ RequestStep(r) \/ End(r) \/ Disconnect(r)
             \/ TimerDrops(r)
      PROVE  Linked' /\ [StatNext]_statVars
  <2>1. PICK place :
              /\ at' = [at EXCEPT ![r] = place] /\ place # "none"
              /\ \/ UNCHANGED statVars /\ at[r] # "none" /\ (place \in Early => at[r] \in Early)
                 \/ At(r, "none") /\ StartTimer(r)
                 \/ Counting(r) /\ ~At(r, "none") /\ place \notin Early
    BY <1>4, RequestsGo
  <2>2. phase # "down" /\ phase' = phase /\ r \in Timers /\ r \in Recorders
        /\ r # Shutdown
    BY <1>4, RequestsGo DEF Recorders
  <2>3. \/ UNCHANGED rec
        \/ \E step \in Steps : rec' = [rec EXCEPT ![r].step = step]
    BY <2>1 DEF Counting, StartTimer, RecordRequest, RecordDetails, Reaches, Marked, Steps,
       statVars
  <2>4. /\ \A q \in Recorders \ {r} : rec'[q].step = rec[q].step
        /\ \A q \in Requests \ {r} : at'[q] = at[q]
        /\ at'[r] = place
        /\ at' = [w \in Requests \cup Updates |-> at'[w]]
    BY <2>1, <2>3 DEF Linked, StatTypeOK
  <2>5. place \in Early => rec'[r].step = "unmarked"
    <3>1. StartTimer(r) => rec'[r].step = "unmarked"
      BY <2>2 DEF StartTimer, Reaches, StatTypeOK, Places
    <3>2. UNCHANGED statVars /\ at[r] \in Early => rec'[r].step = "unmarked"
      BY DEF statVars, Linked
    <3> QED
      BY <2>1, <3>1, <3>2
  <2>6. Linked'
    BY <2>1, <2>2, <2>4, <2>5 DEF Linked, Recorders
  <2> QED
    BY <2>1, <2>2, <2>6 DEF StatNext, Counting
<1>5. ASSUME NEW r \in Recorders, Records(r)
      PROVE  Linked' /\ StatNext
  <2>1. UNCHANGED <<at, phase>> /\ phase # "down" /\ (Record(r) \/ Save(r))
    BY <1>5 DEF Records, reloadVars, requestVars, life
  <2>2. \/ UNCHANGED rec
        \/ /\ rec[r].step \in {"check", "last", "cas", "persist", "totals"}
           /\ rec'[r].step # "none"
           /\ \A q \in Recorders \ {r} : rec'[q].step = rec[q].step
    BY <2>1 DEF Record, Save, LoadTotal, LoadLast, CasLast, CopyDetails, CopyTotals,
       SaveOpens, SaveWrites, SaveRenames, memVars, Reaches, StatTypeOK, Places
  <2> QED
    BY <2>1, <2>2 DEF Linked, Recorders, StatNext
<1>6. CASE (\E o \in Operators : Login(o)) \/ Tick
  <2>1. UNCHANGED <<statVars, phase, at>>
    BY <1>6 DEF Login, Tick, reloadVars, requestVars, life
  <2> QED
    BY <1>1, <2>1 DEF Linked
<1>7. CASE Signal
  <2>1. UNCHANGED <<statVars, at>> /\ phase = "up" /\ phase' = "stopping"
    BY <1>7 DEF Signal, reloadVars, requestVars
  <2> QED
    BY <2>1 DEF Linked, statVars, Forgotten
<1>8. CASE Stopped
  <2>1. /\ UNCHANGED at /\ phase = "stopping" /\ phase' = "saving" /\ PersistAtExit
        /\ \A r \in Requests : rec'[r] = rec[r]
    BY <1>8 DEF Stopped, reloadVars, requestVars, PersistAtExit, Reaches, StatTypeOK,
       Recorders
  <2> QED
    BY <2>1 DEF Linked, StatNext
<1>9. CASE Exit \/ Kill
  <2>1. /\ phase' = "down" /\ StatEnds
        /\ at' = [w \in Requests \cup Updates |-> IF at[w] = "none" THEN "none" ELSE "failed"]
    BY <1>9 DEF Exit, Kill, Down, ReloadEnds
  <2>2. \A r \in Recorders :
          /\ rec'[r].step = IF rec[r].step = "none" THEN "none" ELSE "lost"
          /\ save'[r].step \in {"none", "saved"}
    BY <2>1 DEF StatEnds, StatTypeOK, Places, Saves
  <2> QED
    BY <2>1, <2>2 DEF Linked, StatNext, Forgotten, Recorders, Early
<1>10. CASE Start
  <2>1. /\ UNCHANGED at /\ phase = "down" /\ phase' = "up" /\ StatLoads /\ Forgotten
    BY <1>10 DEF Start, ReloadStarts, requestVars, Linked
  <2>2. /\ rec'[Shutdown].step = "none"
        /\ \A r \in Requests : rec'[r] = rec[r]
    BY <2>1 DEF StatLoads, StatTypeOK, Places, Recorders
  <2> QED
    BY <2>1, <2>2 DEF Linked, StatNext
<1> QED
  BY <1>2, <1>3, <1>4, <1>5, <1>6, <1>7, <1>8, <1>9, <1>10 DEF Next, vars
-----------------------------------------------------------------------------
(* The counts.                                                             *)
LEMMA TimersAreCounted ==
  /\ Cardinality(Counted) \in Nat /\ Cardinality(Answered) \in Nat
  /\ IsFiniteSet(Counted) /\ IsFiniteSet(Answered)
<1>1. Counted \in SUBSET Timers /\ Answered \in SUBSET Timers
  BY DEF Counted, Answered
<1> QED
  BY <1>1, TimersAssumption, FS_Subset, FS_CardinalityType

(* What a recorder has done since the last step does not change the counts *)
(* unless it is a request that is counted.                                 *)
LEMMA SameCounted ==
  ASSUME \A r \in Timers : /\ rec'[r].step \in {"none", "unmarked", "lost"} <=>
                                rec[r].step \in {"none", "unmarked", "lost"}
                           /\ rec'[r].step = "answered" <=> rec[r].step = "answered"
  PROVE  Counted' = Counted /\ Answered' = Answered
BY DEF Counted, Answered, At

LEMMA CountingSteps ==
  ASSUME StatTypeOK, CountsAgree, NEW r \in Timers, Counting(r)
  PROVE  CountsAgree'
<1> USE TimersAreCounted DEF At
<1>1. r \in Recorders
  BY DEF Recorders
<1>2. CASE At(r, "none") /\ StartTimer(r)
  <2>1. /\ rec'[r].step = "unmarked"
        /\ \A q \in Timers \ {r} : rec'[q].step = rec[q].step
    BY <1>1, <1>2 DEF StartTimer, Reaches, StatTypeOK, Places, Recorders
  <2>2. Counted' = Counted /\ Answered' = Answered
    BY <1>2, <2>1, SameCounted
  <2> QED
    BY <1>2, <2>2 DEF CountsAgree, StartTimer
<1>3. ASSUME NEW success \in BOOLEAN, At(r, "unmarked"), RecordRequest(r, success)
      PROVE  CountsAgree'
  <2>1. /\ rec'[r].step = IF success THEN "answered" ELSE "check"
        /\ \A q \in Timers \ {r} : rec'[q].step = rec[q].step
    BY <1>1, <1>3 DEF RecordRequest, Reaches, Marked, StatTypeOK, Places, Recorders
  <2>2. /\ Counted' = Counted \cup {r} /\ r \notin Counted
        /\ Answered' = (IF success THEN Answered \cup {r} ELSE Answered)
        /\ r \notin Answered
    BY <1>3, <2>1 DEF Counted, Answered
  <2>3. /\ Cardinality(Counted') = Cardinality(Counted) + 1
        /\ Cardinality(Answered')
             = Cardinality(Answered) + (IF success THEN 1 ELSE 0)
    <3>1. /\ Cardinality(Counted \cup {r}) = Cardinality(Counted) + 1
          /\ Cardinality(Answered \cup {r}) = Cardinality(Answered) + 1
      BY <2>2, FS_AddElement
    <3> QED
      BY <2>2, <3>1
  <2>4. /\ counts'.total = counts.total + 1
        /\ counts'.success = counts.success + (IF success THEN 1 ELSE 0)
        /\ counts'.failed = counts.failed + (IF success THEN 0 ELSE 1)
        /\ counts'.details = counts.details /\ loaded' = loaded
    <3>1. counts' = [total |-> counts.total + 1,
                     success |-> counts.success + (IF success THEN 1 ELSE 0),
                     failed |-> counts.failed + (IF success THEN 0 ELSE 1),
                     details |-> counts.details]
      BY <1>3 DEF RecordRequest, StatTypeOK, Counts
    <3> QED
      BY <1>3, <3>1 DEF RecordRequest
  <2> QED
    BY <2>3, <2>4, NumbersAre DEF CountsAgree, StatTypeOK
<1>4. CASE RecordDetails(r)
  <2>1. /\ rec[r].step = "answered" /\ rec'[r].step = "check"
        /\ \A q \in Timers \ {r} : rec'[q].step = rec[q].step
    BY <1>1, <1>4 DEF RecordDetails, Reaches, StatTypeOK, Places, Recorders
  <2>2. Counted' = Counted /\ Answered' = Answered \ {r} /\ r \in Answered
    BY <2>1 DEF Counted, Answered
  <2>3. Cardinality(Answered') = Cardinality(Answered) - 1
    BY <2>2, FS_RemoveElement
  <2>4. counts' = [counts EXCEPT !.details = @ + 1] /\ loaded' = loaded
    BY <1>4 DEF RecordDetails
  <2>5. /\ counts'.total = counts.total /\ counts'.success = counts.success
        /\ counts'.failed = counts.failed /\ counts'.details = counts.details + 1
    BY <2>4 DEF StatTypeOK, Counts
  <2> QED
    BY <2>2, <2>3, <2>4, <2>5, NumbersAre DEF CountsAgree, StatTypeOK
<1> QED
  BY <1>2, <1>3, <1>4 DEF Counting

LEMMA RecordMoves ==
  ASSUME StatTypeOK, NEW r \in Recorders, Record(r)
  PROVE  /\ rec[r].step \in {"check", "last", "cas", "persist", "totals"}
         /\ rec'[r].step \in {"last", "cas", "persist", "totals", "done"}
         /\ \A q \in Recorders \ {r} : rec'[q] = rec[q]
         /\ UNCHANGED <<counts, disk, loaded>>
         /\ \A q \in Recorders \ {r} : save'[q] = save[q]
         /\ CopyTotals(r) \/ UNCHANGED save
<1> USE DEF StatTypeOK, Places, At, Reaches
<1>1. CASE LoadTotal(r)
  BY <1>1 DEF LoadTotal
<1>2. CASE LoadLast(r)
  BY <1>2 DEF LoadLast
<1>3. CASE CasLast(r)
  BY <1>3 DEF CasLast
<1>4. CASE CopyDetails(r)
  BY <1>4 DEF CopyDetails
<1>5. CASE CopyTotals(r)
  BY <1>5 DEF CopyTotals
<1> QED
  BY <1>1, <1>2, <1>3, <1>4, <1>5 DEF Record

LEMMA CountsStayRight ==
  ASSUME StatTypeOK, CountsAgree, CopiesAgree, StatNext
  PROVE  CountsAgree'
<1> USE PlacesOfFiles DEF At
<1>1. ASSUME NEW r \in Recorders, Record(r)
      PROVE  CountsAgree'
  <2>1. /\ \A q \in Timers \ {r} : rec'[q] = rec[q]
        /\ UNCHANGED <<counts, loaded>>
    BY <1>1, RecordMoves DEF Recorders
  <2>2. /\ rec[r].step \in {"check", "last", "cas", "persist", "totals"}
        /\ rec'[r].step \in {"last", "cas", "persist", "totals", "done"}
    BY <1>1, RecordMoves
  <2>3. Counted' = Counted /\ Answered' = Answered
    BY <2>1, <2>2, SameCounted
  <2> QED
    BY <2>1, <2>3 DEF CountsAgree
<1>2. ASSUME NEW r \in Recorders, Save(r)
      PROVE  CountsAgree'
  <2>1. UNCHANGED <<counts, loaded, rec>>
    BY <1>2 DEF Save, SaveOpens, SaveWrites, SaveRenames, memVars
  <2> QED
    BY <2>1, SameCounted DEF CountsAgree
<1>3. CASE PersistAtExit
  <2>1. UNCHANGED <<counts, loaded>> /\ \A q \in Timers : rec'[q] = rec[q]
    BY <1>3 DEF PersistAtExit, Reaches, StatTypeOK, Recorders
  <2> QED
    BY <2>1, SameCounted DEF CountsAgree
<1>4. ASSUME \A q \in Timers : rec'[q].step \in {"none", "lost"},
             Agree(loaded'), loaded' \in Counts, counts' = loaded'
      PROVE  CountsAgree'
  <2>1. Counted' = {} /\ Answered' = {}
    BY <1>4 DEF Counted, Answered
  <2>2. Cardinality(Counted') = 0 /\ Cardinality(Answered') = 0
    BY <2>1, FS_EmptySet
  <2> QED
    BY <1>4, <2>2, NumbersAre DEF CountsAgree, Agree
<1>5. CASE StatEnds
  <2>1. \A q \in Timers : rec'[q].step \in {"none", "lost"}
    BY <1>5 DEF StatEnds, StatTypeOK, Places, Recorders
  <2> QED
    BY <1>4, <1>5, <2>1, WhatFilesHold DEF StatEnds, StatTypeOK
<1>6. CASE Forgotten /\ StatLoads
  <2>1. \A q \in Timers : rec'[q].step \in {"none", "lost"}
    BY <1>6 DEF StatLoads, Forgotten, StatTypeOK, Places, Recorders
  <2>2. StatsFile.whole => Agree(StatsFile.is)
    BY DEF CopiesAgree, StatsFile, StatTypeOK
  <2>3. loaded' \in Counts /\ counts' = loaded' /\ Agree(loaded')
    <3>1. StatsFile.is \in Counts /\ NoCounts \in Counts /\ Agree(NoCounts)
      BY WhatFilesHold DEF StatsFile, StatTypeOK, Contents
    <3>2. loaded' = (IF StatsFile.whole THEN StatsFile.is ELSE NoCounts) /\ counts' = loaded'
      BY <1>6 DEF StatLoads
    <3> QED
      BY <2>2, <3>1, <3>2
  <2> QED
    BY <1>4, <2>1, <2>3
<1> QED
  BY <1>1, <1>2, <1>3, <1>5, <1>6, CountingSteps DEF StatNext
LEMMA CountingMoves ==
  ASSUME StatTypeOK, NEW r \in Timers, Counting(r)
  PROVE  /\ r \in Recorders
         /\ rec[r].step \in {"none", "unmarked", "answered"}
         /\ rec'[r].step \in {"unmarked", "answered", "check"}
         /\ \A q \in Recorders \ {r} : rec'[q] = rec[q]
         /\ UNCHANGED <<lastPersisted, save, disk, loaded>>
         /\ counts'.total >= counts.total /\ counts'.details >= counts.details
         /\ \/ counts' = counts /\ rec[r].step = "none"
            \/ rec'[r].step \in {"answered", "check"}
<1> r \in Recorders
  BY DEF Recorders
<1> USE NumbersAre DEF StatTypeOK, Places, At, Reaches
<1>1. CASE At(r, "none") /\ StartTimer(r)
  BY <1>1 DEF StartTimer
<1>2. ASSUME NEW success \in BOOLEAN, At(r, "unmarked"), RecordRequest(r, success)
      PROVE  /\ rec[r].step = "unmarked" /\ rec'[r].step \in {"answered", "check"}
             /\ \A q \in Recorders \ {r} : rec'[q] = rec[q]
             /\ UNCHANGED <<lastPersisted, save, disk, loaded>>
             /\ counts'.total = counts.total + 1 /\ counts'.details = counts.details
  <2>1. counts' = [total |-> counts.total + 1,
                   success |-> counts.success + (IF success THEN 1 ELSE 0),
                   failed |-> counts.failed + (IF success THEN 0 ELSE 1),
                   details |-> counts.details]
    BY <1>2 DEF RecordRequest, Counts
  <2>2. counts'.total = counts.total + 1 /\ counts'.details = counts.details
    BY <2>1
  <2> QED
    BY <1>2, <2>2 DEF RecordRequest, Marked
<1>3. CASE RecordDetails(r)
  <2>1. counts'.total = counts.total /\ counts'.details = counts.details + 1
    BY <1>3 DEF RecordDetails, Counts
  <2> QED
    BY <1>3, <2>1 DEF RecordDetails
<1> QED
  BY <1>1, <1>2, <1>3 DEF Counting

LEMMA SavesMove ==
  ASSUME StatTypeOK, NEW r \in Recorders, Save(r)
  PROVE  /\ UNCHANGED <<counts, lastPersisted, rec, loaded>>
         /\ \A q \in Recorders : save'[q].of = save[q].of
         /\ \A q \in Recorders \ {r} : save'[q] = save[q]
BY DEF Save, SaveOpens, SaveWrites, SaveRenames, memVars, StatTypeOK, Saves

LEMMA CopiesStayRight ==
  ASSUME StatTypeOK, CountsAgree, CopiesAgree, StatNext
  PROVE  CopiesAgree'
<1> USE PlacesOfFiles, NumbersAre DEF At
<1>1. ASSUME NEW r \in Timers, Counting(r)
      PROVE  CopiesAgree'
  <2>1. \A q \in Recorders : At(q, "totals")' =>
          At(q, "totals") /\ rec'[q] = rec[q]
    BY <1>1, CountingMoves
  <2>2. counts'.details >= counts.details /\ counts' \in Counts
    BY <1>1, CountingMoves, TypesHold DEF StatNext, StatTypeOK
  <2>3. UNCHANGED <<save, disk, loaded>>
    BY <1>1, CountingMoves
  <2>4. \A q \in Recorders : rec[q].copy.details \in Nat
    BY DEF StatTypeOK, Places
  <2>5. \A q \in Recorders : At(q, "totals")' => rec'[q].copy.details <= counts'.details
    BY <2>1, <2>2, <2>4 DEF CopiesAgree, StatTypeOK
  <2> QED
    BY <2>3, <2>5 DEF CopiesAgree
<1>2. ASSUME NEW r \in Recorders, CopyTotals(r)
      PROVE  CopiesAgree'
  <2> DEFINE new == [counts EXCEPT !.details = rec[r].copy.details]
  <2>1. rec[r].copy.details <= counts.details /\ counts.details <= counts.success
        /\ rec[r].copy.details \in Nat
    BY <1>2, TimersAreCounted DEF CopyTotals, CopiesAgree, CountsAgree, StatTypeOK, Places
  <2>2. /\ new.total = counts.total /\ new.success = counts.success
        /\ new.failed = counts.failed /\ new.details = rec[r].copy.details
    BY DEF StatTypeOK, Counts
  <2>3. Agree(new)
    BY <2>1, <2>2 DEF Agree, CountsAgree, StatTypeOK
  <2>4. \A q \in Recorders : save'[q].of = IF q = r THEN new ELSE save[q].of
    BY <1>2 DEF CopyTotals, StatTypeOK, Saves
  <2>5. \A q \in Recorders : At(q, "totals")' => At(q, "totals") /\ rec'[q] = rec[q]
    BY <1>2 DEF CopyTotals, Reaches, StatTypeOK, Places
  <2>6. UNCHANGED <<counts, disk, loaded>>
    BY <1>2 DEF CopyTotals
  <2> QED
    BY <2>3, <2>4, <2>5, <2>6 DEF CopiesAgree
<1>3. ASSUME NEW r \in Recorders, Record(r), ~CopyTotals(r)
      PROVE  CopiesAgree'
  <2>1. UNCHANGED <<counts, disk, loaded, save>>
        /\ \A q \in Recorders \ {r} : rec'[q] = rec[q]
    BY <1>3, RecordMoves
  <2>2. rec'[r].step = "totals" => rec'[r].copy.details = counts.details
    BY <1>3 DEF Record, LoadTotal, LoadLast, CasLast, CopyDetails, Reaches, StatTypeOK,
       Places, Counts
  <2>3. rec'[r].step = "totals" => rec'[r].copy.details <= counts'.details
    BY <2>1, <2>2 DEF StatTypeOK
  <2> QED
    BY <2>1, <2>3 DEF CopiesAgree
<1>4. ASSUME NEW r \in Recorders, Save(r)
      PROVE  CopiesAgree'
  <2>1. \A f \in Files : disk'.files[f].whole =>
          \/ disk.files[f].whole /\ disk'.files[f].is = disk.files[f].is
          \/ disk'.files[f].is = save[r].of
    <3>1. CASE SaveOpens(r)
      <4>1. disk'.files = [disk.files EXCEPT ![OpenTmp(r)] = Empty] /\ ~Empty.whole
        BY <3>1, WhatFilesHold DEF SaveOpens, StatTypeOK
      <4> QED
        BY <4>1 DEF StatTypeOK
    <3>2. CASE SaveWrites(r)
      <4>1. disk'.files = [disk.files EXCEPT ![save[r].file] =
                             Written(disk.files[save[r].file], save[r].of)]
        BY <3>2 DEF SaveWrites, StatTypeOK
      <4>2. \A f \in Files : LET w == Written(disk.files[f], save[r].of)
                             IN  w.whole => w.is = save[r].of
        BY WrittenIs DEF StatTypeOK, Saves
      <4> QED
        BY <4>1, <4>2 DEF StatTypeOK
    <3>3. CASE SaveRenames(r)
      BY <3>3 DEF SaveRenames, StatTypeOK
    <3> QED
      BY <1>4, <3>1, <3>2, <3>3 DEF Save
  <2> QED
    BY <1>4, <2>1, SavesMove DEF CopiesAgree
<1>5. CASE PersistAtExit
  <2>1. \A q \in Recorders : At(q, "totals")' => At(q, "totals") /\ rec'[q] = rec[q]
    BY <1>5 DEF PersistAtExit, Reaches, StatTypeOK, Places
  <2> QED
    BY <1>5, <2>1 DEF PersistAtExit, CopiesAgree
<1>6. CASE StatEnds
  <2>1. /\ \A q \in Recorders : ~At(q, "totals")' /\ save'[q].of = save[q].of
        /\ loaded' = NoCounts /\ disk' = disk
    BY <1>6 DEF StatEnds, StatTypeOK, Places, Saves
  <2> QED
    BY <2>1, WhatFilesHold DEF CopiesAgree, StatTypeOK
<1>7. CASE Forgotten /\ StatLoads
  <2>1. \A q \in Recorders : ~At(q, "totals")' /\ save'[q].of = save[q].of
    BY <1>7 DEF StatLoads, Forgotten, StatTypeOK, Places, Saves
  <2>2. StatsFile.whole => Agree(StatsFile.is)
    BY DEF CopiesAgree, StatsFile, StatTypeOK
  <2>3. loaded' = (IF StatsFile.whole THEN StatsFile.is ELSE NoCounts)
    BY <1>7 DEF StatLoads
  <2>4. \A f \in Files : disk'.files[f] = IF f = Initial THEN StatsFile ELSE disk.files[f]
    BY <1>7 DEF StatLoads, StatTypeOK
  <2> QED
    BY <2>1, <2>2, <2>3, <2>4, WhatFilesHold DEF CopiesAgree, StatTypeOK
<1> QED
  BY <1>1, <1>2, <1>3, <1>4, <1>5, <1>6, <1>7 DEF StatNext
-----------------------------------------------------------------------------
(* The saves.  What is saved stays so while the process runs.              *)
SavesGoOn == Decided /\ Covered /\ Noticed

LEMMA SavedAreNumbers == StatTypeOK => Saved \subseteq Nat
BY NumbersAre DEF StatTypeOK, Saved, Snapshots, Saves

LEMMA SavedStays ==
  ASSUME loaded' = loaded,
         \A r \in Recorders : rec[r].step = "done" =>
           rec'[r].step = "done" /\ save'[r].of = save[r].of
  PROVE  Saved \subseteq Saved'
BY DEF Saved, Snapshots

(* A recorder that sees what is missing when it gets there.                *)
LEMMA CountingIsNoticed ==
  ASSUME StatTypeOK, SavesGoOn, NEW r \in Timers, Counting(r)
  PROVE  SavesGoOn'
<1>1. /\ r \in Recorders
      /\ rec[r].step \in {"none", "unmarked", "answered"}
      /\ rec'[r].step \in {"unmarked", "answered", "check"}
      /\ \A q \in Recorders \ {r} : rec'[q] = rec[q]
      /\ UNCHANGED <<lastPersisted, save, disk, loaded>>
      /\ counts'.total >= counts.total
      /\ \/ counts' = counts /\ rec[r].step = "none"
         \/ rec'[r].step \in {"answered", "check"}
  BY CountingMoves
<1>2. counts'.total \in Nat /\ counts.total \in Nat /\ lastPersisted \in Nat
      /\ \A q \in Recorders : rec[q].total \in Nat
  BY TypesHold, NumbersAre DEF StatNext, StatTypeOK, Places
<1>3. Saved \subseteq Saved'
  BY <1>1, SavedStays
<1>4. Decided'
  BY <1>1, <1>2 DEF SavesGoOn, Decided
<1>5. Covered'
  BY <1>1, <1>3 DEF SavesGoOn, Covered
<1>6. Noticed'
  <2>1. CASE rec'[r].step \in {"answered", "check"}
    BY <1>1, <2>1 DEF Noticed, Sees
  <2>2. CASE counts' = counts /\ rec[r].step = "none"
    <3>1. \A q \in Recorders : Sees(q) => Sees(q)'
      BY <1>1, <2>2 DEF Sees
    <3> QED
      BY <1>3, <2>2, <3>1 DEF SavesGoOn, Noticed
  <2> QED
    BY <1>1, <2>1, <2>2
<1> QED
  BY <1>4, <1>5, <1>6 DEF SavesGoOn

LEMMA RecordingIsNoticed ==
  ASSUME StatTypeOK, SavesGoOn, NEW r \in Recorders, Record(r)
  PROVE  SavesGoOn'
<1> USE IntervalAssumption DEF At, Reaches
<1>1. /\ rec[r].step \in {"check", "last", "cas", "persist", "totals"}
      /\ rec'[r].step \in {"last", "cas", "persist", "totals", "done"}
      /\ \A q \in Recorders \ {r} : rec'[q] = rec[q] /\ save'[q] = save[q]
      /\ UNCHANGED <<counts, loaded>>
  BY RecordMoves
<1>2. /\ counts.total \in Nat /\ lastPersisted \in Nat
      /\ \A q \in Recorders : rec[q].total \in Nat /\ rec[q].last \in Nat
      /\ Saved \subseteq Nat
  BY TypesHold, NumbersAre, SavedAreNumbers DEF StatNext, StatTypeOK, Places
<1>3. Saved \subseteq Saved'
  BY <1>1, SavedStays
<1>4. ASSUME UNCHANGED lastPersisted
      PROVE  \A q \in Recorders \ {r} : Sees(q) => Sees(q)'
  BY <1>1, <1>4 DEF Sees
<1>5. CASE LoadTotal(r)
  <2>1. rec'[r].step = "last" /\ rec'[r].total = counts.total
        /\ UNCHANGED lastPersisted /\ rec[r].step = "check"
    BY <1>5 DEF LoadTotal, StatTypeOK, Places
  <2>2. Sees(r)'
    BY <1>1, <2>1 DEF Sees
  <2> QED
    BY <1>1, <1>2, <1>3, <2>1, <2>2 DEF SavesGoOn, Decided, Covered, Noticed
<1>6. CASE LoadLast(r)
  <2>1. /\ rec'[r].last = lastPersisted /\ rec'[r].total = rec[r].total
        /\ rec'[r].step = (IF IsDue(rec[r].total, lastPersisted) THEN "cas" ELSE "done")
        /\ UNCHANGED lastPersisted /\ rec[r].step = "last"
    BY <1>6 DEF LoadLast, StatTypeOK, Places
  <2>2. Decided'
    BY <1>1, <2>1 DEF SavesGoOn, Decided
  <2>3. Covered'
    BY <1>1, <1>3, <2>1 DEF SavesGoOn, Covered
  <2>4. Noticed'
    <3>1. CASE \E saved \in Saved : counts.total - saved < PERSIST_INTERVAL
      BY <1>1, <1>3, <3>1 DEF Noticed
    <3>2. CASE \E q \in Recorders \ {r} : Sees(q)
      BY <1>4, <2>1, <3>2 DEF Noticed
    <3>3. CASE rec[r].total = counts.total
      <4>1. CASE IsDue(rec[r].total, lastPersisted)
        BY <1>1, <2>1, <3>3, <4>1 DEF Noticed, Sees
      <4>2. CASE ~IsDue(rec[r].total, lastPersisted)
        <5>1. counts.total - lastPersisted < PERSIST_INTERVAL
          BY <1>2, <3>3, <4>2 DEF IsDue
        <5>2. CASE \E q \in Recorders : rec[q].step \in {"persist", "totals"}
          BY <1>4, <2>1, <5>2 DEF Noticed, Sees
        <5>3. CASE \E saved \in Saved : lastPersisted <= saved
          <6>1. PICK saved \in Saved : lastPersisted <= saved
            BY <5>3
          <6>2. saved \in Nat /\ saved \in Saved'
            BY <1>2, <1>3
          <6>3. counts.total - saved < PERSIST_INTERVAL
            BY <1>2, <5>1, <6>1, <6>2
          <6> QED
            BY <1>1, <6>2, <6>3 DEF Noticed
        <5> QED
          BY <5>2, <5>3 DEF SavesGoOn, Covered
      <4> QED
        BY <4>1, <4>2
    <3> QED
      BY <2>1, <3>1, <3>2, <3>3 DEF SavesGoOn, Noticed, Sees
  <2> QED
    BY <2>2, <2>3, <2>4 DEF SavesGoOn
<1>7. CASE CasLast(r) /\ lastPersisted = rec[r].last
  <2>1. rec'[r].step = "persist" /\ lastPersisted' = rec[r].total /\ rec[r].step = "cas"
    BY <1>7 DEF CasLast, StatTypeOK, Places
  <2>2. Decided'
    BY <1>1, <1>2, <2>1 DEF SavesGoOn, Decided
  <2> QED
    BY <2>1, <2>2 DEF SavesGoOn, Covered, Noticed, Sees
<1>8. CASE CasLast(r) /\ lastPersisted # rec[r].last
  <2>1. rec'[r].step = "done" /\ UNCHANGED lastPersisted /\ rec[r].step = "cas"
    BY <1>8 DEF CasLast, StatTypeOK, Places
  <2>2. ~Sees(r)
    BY <1>8, <2>1 DEF Sees
  <2> QED
    BY <1>1, <1>3, <1>4, <2>1, <2>2 DEF SavesGoOn, Decided, Covered, Noticed
<1>9. CASE CopyDetails(r)
  <2>1. rec'[r].step = "totals" /\ UNCHANGED lastPersisted
    BY <1>9 DEF CopyDetails, StatTypeOK, Places
  <2> QED
    BY <1>1, <2>1 DEF SavesGoOn, Decided, Covered, Noticed, Sees
<1>10. CASE CopyTotals(r)
  <2>1. rec'[r].step = "done" /\ save'[r].of.total = counts.total /\ UNCHANGED lastPersisted
    BY <1>10 DEF CopyTotals, StatTypeOK, Places, Saves, Counts
  <2>2. counts.total \in Saved'
    BY <2>1 DEF Saved, Snapshots
  <2>3. counts.total - counts.total < PERSIST_INTERVAL
    BY <1>2
  <2>4. Noticed'
    BY <1>1, <2>2, <2>3 DEF Noticed
  <2>5. Covered'
    BY <2>1, <2>2 DEF SavesGoOn, Decided, Covered
  <2>6. Decided'
    BY <1>1, <2>1 DEF SavesGoOn, Decided
  <2> QED
    BY <2>4, <2>5, <2>6 DEF SavesGoOn
<1> QED
  BY <1>5, <1>6, <1>7, <1>8, <1>9, <1>10 DEF Record, CasLast

LEMMA SavesStayNoticed ==
  ASSUME StatTypeOK, SavesGoOn, StatNext
  PROVE  SavesGoOn'
<1> USE NumbersAre, IntervalAssumption
<1>1. ASSUME NEW r \in Recorders, Save(r)
      PROVE  SavesGoOn'
  <2>1. /\ UNCHANGED <<counts, lastPersisted, rec, loaded>>
        /\ \A q \in Recorders : save'[q].of = save[q].of
    BY <1>1, SavesMove
  <2>2. Saved \subseteq Saved'
    BY <2>1, SavedStays
  <2> QED
    BY <2>1, <2>2 DEF SavesGoOn, Decided, Covered, Noticed, Sees
<1>2. CASE PersistAtExit
  <2>1. /\ rec'[Shutdown].step = "persist" /\ Shutdown \in Recorders
        /\ \A q \in Recorders \ {Shutdown} : rec'[q] = rec[q]
        /\ UNCHANGED <<counts, lastPersisted, loaded>>
    BY <1>2 DEF PersistAtExit, Reaches, StatTypeOK, Places, Recorders
  <2> QED
    BY <2>1 DEF SavesGoOn, Decided, Covered, Noticed, Sees
<1>3. ASSUME \A q \in Recorders : rec'[q].step \notin {"last", "cas"},
             loaded' \in Counts, counts' = loaded', lastPersisted' = loaded'.total
      PROVE  SavesGoOn'
  <2>1. loaded'.total \in Saved' /\ loaded'.total \in Nat
    BY <1>3 DEF Saved
  <2> QED
    BY <1>3, <2>1 DEF SavesGoOn, Decided, Covered, Noticed
<1>4. CASE StatEnds
  <2>1. \A q \in Recorders : rec'[q].step \in {"none", "lost"}
    BY <1>4 DEF StatEnds, StatTypeOK, Places, At
  <2>2. NoCounts.total = 0 /\ NoCounts \in Counts
    BY DEF NoCounts, Counts
  <2> QED
    BY <1>3, <1>4, <2>1, <2>2 DEF StatEnds
<1>5. CASE Forgotten /\ StatLoads
  <2>1. \A q \in Recorders : rec'[q].step \in {"none", "lost"}
    BY <1>5 DEF StatLoads, Forgotten, StatTypeOK, Places
  <2>2. loaded' \in Counts
    BY TypesHold DEF StatTypeOK
  <2> QED
    BY <1>3, <1>5, <2>1, <2>2 DEF StatLoads
<1> QED
  BY <1>1, <1>2, <1>4, <1>5, CountingIsNoticed, RecordingIsNoticed DEF StatNext
-----------------------------------------------------------------------------
(* The disk.                                                               *)
DiskIsSound == FilesAreNew /\ TmpIsOpen /\ AloneIsWhole

LEMMA FilesStayNew ==
  ASSUME StatTypeOK, FilesAreNew, StatNext
  PROVE  FilesAreNew'
<1> USE PlacesOfFiles DEF At
<1>1. ASSUME NEW r \in Timers, Counting(r)
      PROVE  FilesAreNew'
  BY <1>1, CountingMoves DEF FilesAreNew
<1>2. ASSUME NEW r \in Recorders, Record(r)
      PROVE  FilesAreNew'
  <2>1. save[r].step = "none" /\ r # disk.stats /\ r # disk.tmp
    BY <1>2, RecordMoves DEF FilesAreNew
  <2>2. CopyTotals(r) => rec'[r].step = "done" /\ save'[r].step = "spawned"
    BY DEF CopyTotals, Reaches, StatTypeOK, Places, Saves
  <2> QED
    BY <1>2, <2>1, <2>2, RecordMoves DEF FilesAreNew
<1>3. ASSUME NEW r \in Recorders, Save(r)
      PROVE  FilesAreNew'
  <2>1. /\ save[r].step # "none" /\ save'[r].step \in {"open", "written", "saved"}
        /\ \A q \in Recorders \ {r} : save'[q] = save[q]
        /\ UNCHANGED rec
    BY <1>3 DEF Save, SaveOpens, SaveWrites, SaveRenames, memVars, StatTypeOK, Saves
  <2>2. rec[r].step \in {"done", "lost"}
    BY <2>1 DEF FilesAreNew
  <2>3. CASE SaveOpens(r)
    <3>1. disk'.stats = disk.stats /\ disk'.tmp = OpenTmp(r)
      BY <2>3 DEF SaveOpens, StatTypeOK
    <3>2. save[r].step = "spawned"
      BY <2>3 DEF SaveOpens
    <3> QED
      BY <2>1, <2>2, <3>1, <3>2 DEF FilesAreNew, OpenTmp
  <2>4. CASE SaveWrites(r)
    <3>1. disk'.stats = disk.stats /\ disk'.tmp = disk.tmp
      BY <2>4 DEF SaveWrites, StatTypeOK
    <3> QED
      BY <2>1, <2>2, <3>1 DEF FilesAreNew
  <2>5. CASE SaveRenames(r)
    <3>1. \/ disk' = disk
          \/ disk'.stats = disk.tmp /\ disk'.tmp = NoFile /\ disk.tmp # NoFile
      BY <2>5 DEF SaveRenames, StatTypeOK
    <3> QED
      BY <2>1, <2>2, <3>1 DEF FilesAreNew
  <2> QED
    BY <1>3, <2>3, <2>4, <2>5 DEF Save
<1>4. CASE At(Shutdown, "none") /\ PersistAtExit
  <2>1. /\ Shutdown \in Recorders /\ UNCHANGED <<save, disk>>
        /\ \A q \in Recorders \ {Shutdown} : rec'[q] = rec[q]
    BY <1>4 DEF PersistAtExit, Reaches, StatTypeOK, Recorders
  <2> QED
    BY <1>4, <2>1 DEF FilesAreNew
<1>5. CASE StatEnds
  <2>1. \A q \in Recorders :
          /\ rec'[q].step = IF rec[q].step = "none" THEN "none" ELSE "lost"
          /\ save'[q].step = IF save[q].step = "none" THEN "none" ELSE "saved"
    BY <1>5 DEF StatEnds, StatTypeOK, Places, Saves
  <2>2. disk' = disk
    BY <1>5 DEF StatEnds
  <2> QED
    BY <2>1, <2>2 DEF FilesAreNew
<1>6. CASE Forgotten /\ StatLoads
  <2>1. \A q \in Recorders :
          /\ rec'[q].step = (IF q = Shutdown THEN "none" ELSE rec[q].step)
          /\ save'[q].step = IF q = Shutdown THEN "none" ELSE save[q].step
    BY <1>6 DEF StatLoads, StatTypeOK, Places, Saves
  <2>2. disk'.stats = Initial /\ disk'.tmp \in {NoFile, Leftover}
    BY <1>6 DEF StatLoads, StatTypeOK
  <2>3. disk'.stats # disk'.tmp /\ \A q \in Recorders : q # disk'.stats /\ q # disk'.tmp
    BY <2>2 DEF Initial, NoFile
  <2> QED
    BY <2>1, <2>3 DEF FilesAreNew
<1> QED
  BY <1>1, <1>2, <1>3, <1>4, <1>5, <1>6 DEF StatNext

LEMMA TmpStaysWhole ==
  ASSUME StatTypeOK, FilesAreNew, TmpIsOpen, AloneIsWhole, StatNext
  PROVE  TmpIsOpen' /\ AloneIsWhole'
<1> USE PlacesOfFiles
<1>1. ASSUME UNCHANGED disk,
             \A q \in Recorders : \/ save'[q] = save[q]
                                  \/ save[q].step \notin {"open", "written"} /\
                                     save'[q].step \notin {"open", "written"}
      PROVE  TmpIsOpen' /\ AloneIsWhole'
  <2>1. Running' = Running
    BY <1>1 DEF Running
  <2>2. \A q \in Running : save'[q] = save[q] /\ q \in Recorders
    BY <1>1 DEF Running
  <2> QED
    BY <1>1, <2>1, <2>2 DEF TmpIsOpen, AloneIsWhole
<1>2. ASSUME Running' = {}
      PROVE  TmpIsOpen' /\ AloneIsWhole'
  BY <1>2 DEF TmpIsOpen, AloneIsWhole
<1>3. ASSUME NEW r \in Timers, Counting(r)
      PROVE  TmpIsOpen' /\ AloneIsWhole'
  BY <1>1, <1>3, CountingMoves
<1>4. ASSUME NEW r \in Recorders, Record(r)
      PROVE  TmpIsOpen' /\ AloneIsWhole'
  <2>1. save[r].step = "none"
    BY <1>4, RecordMoves DEF FilesAreNew
  <2>2. save'[r].step \in {"none", "spawned"}
    <3>1. CopyTotals(r) => save'[r].step = "spawned"
      BY DEF CopyTotals, StatTypeOK, Saves
    <3> QED
      BY <1>4, <2>1, <3>1, RecordMoves
  <2> QED
    BY <1>1, <1>4, <2>1, <2>2, RecordMoves
<1>5. ASSUME NEW r \in Recorders, SaveOpens(r)
      PROVE  TmpIsOpen' /\ AloneIsWhole'
  <2>1. /\ save'[r].step = "open" /\ save'[r].file = OpenTmp(r)
        /\ disk'.tmp = OpenTmp(r)
    BY <1>5 DEF SaveOpens, StatTypeOK, Saves
  <2>2. disk'.files[OpenTmp(r)] = Empty
    BY <1>5 DEF SaveOpens, StatTypeOK, OpenTmp, Files
  <2>3. r \in Running'
    BY <2>1 DEF Running
  <2>4. \A q \in Recorders : Running' = {q} => q = r
    BY <2>3
  <2> QED
    BY <2>1, <2>2, <2>3, <2>4 DEF TmpIsOpen, AloneIsWhole
<1>6. ASSUME NEW r \in Recorders, SaveWrites(r)
      PROVE  TmpIsOpen' /\ AloneIsWhole'
  <2>1. /\ save[r].step = "open" /\ save'[r].step = "written"
        /\ \A q \in Recorders : save'[q].file = save[q].file
        /\ \A q \in Recorders \ {r} : save'[q] = save[q]
        /\ disk'.tmp = disk.tmp
        /\ disk'.files = [disk.files EXCEPT ![save[r].file] =
                            Written(disk.files[save[r].file], save[r].of)]
    BY <1>6 DEF SaveWrites, StatTypeOK, Saves
  <2>2. Running' = Running /\ r \in Running
    BY <2>1 DEF Running
  <2>3. TmpIsOpen'
    BY <2>1, <2>2 DEF TmpIsOpen, Running
  <2>4. ASSUME Running = {r}, disk.tmp # NoFile
        PROVE  disk'.files[disk.tmp].whole
    <3>1. save[r].file = disk.tmp
      BY <2>4 DEF TmpIsOpen
    <3>2. disk.files[disk.tmp] = Empty /\ disk.tmp \in Files /\ save[r].of \in Counts
      BY <2>1, <2>4 DEF AloneIsWhole, StatTypeOK, Saves
    <3>3. disk'.files[disk.tmp] = Whole(save[r].of)
      BY <2>1, <3>1, <3>2, WhatFilesHold DEF StatTypeOK
    <3> QED
      BY <3>2, <3>3, WhatFilesHold
  <2>5. \A q \in Recorders : Running' = {q} => q = r
    BY <2>2
  <2> QED
    BY <2>1, <2>2, <2>3, <2>4, <2>5 DEF AloneIsWhole
<1>7. ASSUME NEW r \in Recorders, SaveRenames(r)
      PROVE  TmpIsOpen' /\ AloneIsWhole'
  <2>1. disk'.tmp = NoFile
    BY <1>7 DEF SaveRenames, StatTypeOK
  <2> QED
    BY <2>1 DEF TmpIsOpen, AloneIsWhole
<1>8. CASE PersistAtExit
  BY <1>1, <1>8 DEF PersistAtExit
<1>9. CASE StatEnds
  <2>1. \A q \in Recorders : save'[q].step \in {"none", "saved"}
    BY <1>9 DEF StatEnds, StatTypeOK, Saves
  <2> QED
    BY <1>2, <2>1 DEF Running
<1>10. CASE Forgotten /\ StatLoads
  <2>1. \A q \in Recorders : save'[q].step \in {"none", "saved"}
    BY <1>10 DEF StatLoads, Forgotten, StatTypeOK, Saves
  <2> QED
    BY <1>2, <2>1 DEF Running
<1> QED
  BY <1>3, <1>4, <1>5, <1>6, <1>7, <1>8, <1>9, <1>10 DEF StatNext, Save
-----------------------------------------------------------------------------
LEMMA StartsRight == Init => IInv
<1> SUFFICES ASSUME Init
             PROVE  IInv
  OBVIOUS
<1> USE PlacesOfFiles, TimerOfEachRequest DEF Init, StatInit
<1>1. NoCounts \in Counts /\ Agree(NoCounts) /\ NoCounts.total = 0 /\ NoCounts.success = 0
      /\ NoCounts.failed = 0 /\ NoCounts.details = 0
  BY DEF NoCounts, Counts, Agree
<1>2. StatTypeOK
  <2>1. \A f \in Files : disk.files[f] \in Contents
    BY <1>1, WhatFilesHold DEF Files
  <2> QED
    BY <1>1, <2>1 DEF StatTypeOK, Places, Saves, Steps, Files
<1>3. Linked
  BY DEF ReloadInit, Linked, At, Recorders, Early
<1>4. Counted = {} /\ Answered = {} /\ Running = {}
  BY DEF Counted, Answered, At, Recorders, Running
<1>5. CountsAgree
  BY <1>1, <1>4, FS_EmptySet DEF CountsAgree
<1>6. CopiesAgree
  <2>1. \A f \in Files : disk.files[f].whole => Agree(disk.files[f].is)
    BY <1>1, WhatFilesHold DEF Files
  <2> QED
    BY <1>1, <2>1 DEF CopiesAgree, At
<1>7. Decided /\ Covered /\ Noticed
  <2>1. 0 \in Saved
    BY <1>1 DEF Saved
  <2> QED
    BY <1>1, <2>1, IntervalAssumption DEF Decided, Covered, Noticed
<1>8. FilesAreNew
  BY DEF FilesAreNew, Initial, NoFile
<1> QED
  BY <1>2, <1>3, <1>4, <1>5, <1>6, <1>7, <1>8 DEF IInv, TmpIsOpen, AloneIsWhole

LEMMA Inductive == Spec => []IInv
<1>1. IInv /\ [Next]_vars => IInv'
  <2> SUFFICES ASSUME IInv, [Next]_vars
               PROVE  IInv'
    OBVIOUS
  <2>1. Linked' /\ [StatNext]_statVars
    BY LinkHolds DEF IInv
  <2>2. CASE StatNext
    BY <2>1, <2>2, TypesHold, CountsStayRight, CopiesStayRight, SavesStayNoticed,
       FilesStayNew, TmpStaysWhole DEF IInv, SavesGoOn
  <2>3. CASE UNCHANGED statVars
    BY <2>1, <2>3 DEF IInv, statVars, StatTypeOK, CountsAgree, Counted, Answered, At,
       CopiesAgree, Decided, Covered, Noticed, Saved, Snapshots, Sees, FilesAreNew,
       TmpIsOpen, AloneIsWhole, Running
  <2> QED
    BY <2>1, <2>2, <2>3
<1> QED
  BY <1>1, StartsRight, PTL DEF Spec

(* CountedOnce, for any number of requests: whatever record_request, the   *)
(* timers, the guards and the start of the process do, the counts are the  *)
(* loaded ones and one for each request of this life.                      *)
THEOREM EveryRequestIsCountedOnce == Spec => []CountedOnce
<1>1. IInv => CountedOnce
  BY TimersAreCounted, NumbersAre DEF IInv, CountsAgree, CountedOnce, StatTypeOK
<1> QED
  BY <1>1, Inductive, PTL

(* NoSaveIsMissed, for any number of requests and any PERSIST_INTERVAL,    *)
(* though maybe_persist reads, compares and swaps in three steps.          *)
THEOREM SavesAreNotMissed == Spec => []NoSaveIsMissed
<1>1. IInv => NoSaveIsMissed
  BY DEF IInv, Noticed, Sees, NoSaveIsMissed, Recording, Saved
<1> QED
  BY <1>1, Inductive, PTL

(* TearsOnlyByOverlap, for any number of saves: write_json_file replaces   *)
(* stats.json by a whole snapshot that agrees, unless saves overlap.       *)
THEOREM StatisticsTearOnlyByOverlap == Spec => TearsOnlyByOverlap
<1>1. ASSUME IInv, [Next]_vars, Sound(StatsFile), ~Overlapping
      PROVE  Sound(StatsFile')
  <2> USE PlacesOfFiles
  <2>1. StatTypeOK /\ FilesAreNew /\ [StatNext]_statVars
    BY <1>1, LinkHolds DEF IInv
  <2>2. CASE UNCHANGED disk
    BY <1>1, <2>2 DEF StatsFile
  <2>3. ASSUME NEW r \in Recorders, SaveOpens(r)
        PROVE  Sound(StatsFile')
    <3>1. OpenTmp(r) # disk.stats
      BY <2>1, <2>3 DEF FilesAreNew, OpenTmp, SaveOpens
    <3>2. StatsFile' = StatsFile
      BY <2>1, <2>3, <3>1 DEF StatsFile, SaveOpens, StatTypeOK
    <3> QED
      BY <1>1, <3>2
  <2>4. ASSUME NEW r \in Recorders, SaveWrites(r)
        PROVE  Sound(StatsFile')
    <3>1. save[r].file # disk.stats
      BY <1>1, <2>4 DEF Overlapping, Running, SaveWrites
    <3>2. StatsFile' = StatsFile
      BY <2>1, <2>4, <3>1 DEF StatsFile, SaveWrites, StatTypeOK
    <3> QED
      BY <1>1, <3>2
  <2>5. ASSUME NEW r \in Recorders, SaveRenames(r), disk.tmp # NoFile
        PROVE  Sound(StatsFile')
    <3>1. r \in Running /\ save[r].step = "written"
      BY <2>5 DEF Running, SaveRenames
    <3>2. Running = {r}
      <4>1. IsFiniteSet(Running) /\ Cardinality(Running) \in Nat
        <5>1. IsFiniteSet(Recorders) /\ Running \subseteq Recorders
          BY TimersAssumption, FS_AddElement DEF Recorders, Running
        <5> QED
          BY <5>1, FS_Subset, FS_CardinalityType
      <4>2. ASSUME NEW q \in Running, q # r
            PROVE  FALSE
        <5>1. {q, r} \subseteq Running /\ Cardinality({q, r}) = 2 /\ IsFiniteSet({q, r})
          <6>1. Cardinality({q}) = 1 /\ IsFiniteSet({q})
            BY FS_Singleton
          <6>2. {q, r} = {q} \cup {r} /\ r \notin {q}
            BY <4>2
          <6>3. {q} \cup {r} \subseteq Running
            BY <3>1, <4>2
          <6>4. IsFiniteSet({q} \cup {r}) /\ Cardinality({q} \cup {r}) = Cardinality({q}) + 1
            BY <6>1, <6>2, FS_AddElement
          <6> QED
            BY <6>1, <6>2, <6>3, <6>4
        <5>2. Cardinality({q, r}) <= Cardinality(Running)
          BY <4>1, <5>1, FS_Subset
        <5> QED
          BY <1>1, <4>1, <5>1, <5>2 DEF Overlapping
      <4> QED
        BY <3>1, <4>2
    <3>3. disk.files[disk.tmp].whole /\ disk.tmp \in Files
      BY <1>1, <2>1, <2>5, <3>1, <3>2 DEF IInv, AloneIsWhole, StatTypeOK
    <3>4. StatsFile' = disk.files[disk.tmp]
      BY <2>1, <2>5 DEF StatsFile, SaveRenames, StatTypeOK
    <3>5. Agree(disk.files[disk.tmp].is)
      BY <1>1, <3>3 DEF IInv, CopiesAgree
    <3> QED
      BY <3>3, <3>4, <3>5 DEF Sound, Agree
  <2>6. CASE StatLoads
    <3>1. StatsFile' = StatsFile
      BY <2>1, <2>6 DEF StatLoads, StatsFile, StatTypeOK, Files
    <3> QED
      BY <1>1, <3>1
  <2>7. \/ UNCHANGED disk \/ StatLoads
        \/ \E r \in Recorders : \/ SaveOpens(r) \/ SaveWrites(r)
                                \/ SaveRenames(r) /\ disk.tmp # NoFile
    <3>1. \A r \in Recorders : Record(r) => UNCHANGED disk
      BY <2>1, RecordMoves
    <3>2. \A r \in Timers : Counting(r) => UNCHANGED disk
      BY <2>1, CountingMoves
    <3>3. PersistAtExit \/ StatEnds => UNCHANGED disk
      BY DEF PersistAtExit, StatEnds
    <3>4. UNCHANGED statVars => UNCHANGED disk
      BY DEF statVars
    <3>5. \A r \in Recorders : SaveRenames(r) /\ disk.tmp = NoFile => UNCHANGED disk
      BY DEF SaveRenames
    <3> QED
      BY <2>1, <3>1, <3>2, <3>3, <3>4, <3>5 DEF StatNext, Save
  <2> QED
    BY <2>2, <2>3, <2>4, <2>5, <2>6, <2>7
<1>2. IInv /\ [Next]_vars => [Sound(StatsFile) => Sound(StatsFile') \/ Overlapping]_statVars
  BY <1>1
<1> QED
  BY <1>2, Inductive, PTL DEF Spec, TearsOnlyByOverlap
=============================================================================
