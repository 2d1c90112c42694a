----------------------------- MODULE Statistics -----------------------------
(***************************************************************************)
(* Counting requests and saving the counts (server/stats.rs, server/       *)
(* store.rs, the guards of server/handlers.rs).  A request is counted when *)
(* its handler has an answer or gives up, its details (tokens, log) when   *)
(* the answer has been read.  Whoever brings the count PERSIST_INTERVAL    *)
(* above that of the last save spawns the next.  Saves run on any thread,  *)
(* in any order, and all write one temporary file that they then rename.   *)
(* Server says when these actions happen.                                  *)
(***************************************************************************)
EXTENDS Integers, FiniteSets

CONSTANTS
  Timers,            \* the RequestTimer of each request, made once
  PERSIST_INTERVAL

ASSUME IntervalAssumption == PERSIST_INTERVAL \in Nat \ {0}

Shutdown   == "shutdown"                     \* the persist_now at the end
Recorders  == Timers \cup {Shutdown}
NoFile     == "no file"
Initial    == "initial file"                 \* stats.json and, if the last life left it,
Leftover   == "leftover file"                \* stats.tmp when the process starts

ASSUME TimersAssumption ==
  IsFiniteSet(Timers) /\ Timers \cap {Shutdown, Initial, Leftover, NoFile} = {}

VARIABLES
  counts,            \* total, success, failed, and requests with details
  lastPersisted,     \* the total of which the last save was decided
  rec,               \* per recorder: its place in record_request, and what it has read
  save,              \* per recorder: the save it spawned
  disk,              \* what the two names mean, and what is in each file
  loaded             \* the counts of the last start

statVars == <<counts, lastPersisted, rec, save, disk, loaded>>
memVars  == <<counts, lastPersisted, rec>>

NoCounts == [total |-> 0, success |-> 0, failed |-> 0, details |-> 0]
Empty    == [whole |-> FALSE, size |-> 0, is |-> NoCounts]
Whole(c) == [whole |-> TRUE, size |-> c.total + 1, is |-> c]

StatInit ==
  /\ counts = NoCounts /\ lastPersisted = 0 /\ loaded = NoCounts
  /\ rec  = [r \in Recorders |-> [step |-> "none", total |-> 0, last |-> 0, copy |-> NoCounts]]
  /\ save = [r \in Recorders |-> [step |-> "none", of |-> NoCounts, file |-> NoFile]]
  /\ disk = [tmp |-> NoFile, stats |-> Initial,
             files |-> [f \in Recorders \cup {Initial, Leftover} |->
                          IF f = Initial THEN Whole(NoCounts) ELSE Empty]]

At(r, s) == rec[r].step = s
Reaches(r, s) == rec' = [rec EXCEPT ![r].step = s]

-----------------------------------------------------------------------------
(* record_request, through a RequestTimer that is marked or dropped, and   *)
(* the details, through TokenGuard or AppState::record_request.  Only      *)
(* failures save at once.  The counters of one call are added in one step. *)
NotMarked(success) == "unmarked"                                     \* mutant
Marked(success)    == IF success THEN "answered" ELSE "check"

RecordRequest(r, success) ==
  /\ counts' = [counts EXCEPT !.total = @ + 1,
                              !.success = @ + (IF success THEN 1 ELSE 0),
                              !.failed = @ + (IF success THEN 0 ELSE 1)]
  /\ Reaches(r, Marked(success))
  /\ UNCHANGED <<lastPersisted, save, disk, loaded>>

StartTimer(r) ==
  /\ Reaches(r, "unmarked")
  /\ UNCHANGED <<counts, lastPersisted, save, disk, loaded>>

DropTimer(r) ==
  /\ At(r, "unmarked")
  /\ RecordRequest(r, FALSE)

RecordDetails(r) ==
  /\ At(r, "answered")
  /\ counts' = [counts EXCEPT !.details = @ + 1]
  /\ Reaches(r, "check")
  /\ UNCHANGED <<lastPersisted, save, disk, loaded>>

-----------------------------------------------------------------------------
(* maybe_persist.  The counters are unsigned: if the last save has passed  *)
(* what was read, the difference is huge.                                  *)
IsPastDue(total, last) == total - last > PERSIST_INTERVAL \/ total < last   \* mutant
IsDue(total, last)     == total - last >= PERSIST_INTERVAL \/ total < last

LoadTotal(r) ==
  /\ At(r, "check")
  /\ rec' = [rec EXCEPT ![r].total = counts.total, ![r].step = "last"]
  /\ UNCHANGED <<counts, lastPersisted, save, disk, loaded>>

LoadLast(r) ==
  /\ At(r, "last")
  /\ rec' = [rec EXCEPT ![r].last = lastPersisted,
                        ![r].step = IF IsDue(rec[r].total, lastPersisted) THEN "cas" ELSE "done"]
  /\ UNCHANGED <<counts, lastPersisted, save, disk, loaded>>

CasLast(r) ==
  /\ At(r, "cas")
  /\ IF lastPersisted = rec[r].last
     THEN lastPersisted' = rec[r].total /\ Reaches(r, "persist")
     ELSE UNCHANGED lastPersisted /\ Reaches(r, "done")
  /\ UNCHANGED <<counts, save, disk, loaded>>

(* persist_now copies what models, keys and log have, then the totals, and *)
(* spawns the save.                                                        *)
CopyDetails(r) ==
  /\ At(r, "persist")
  /\ rec' = [rec EXCEPT ![r].copy.details = counts.details, ![r].step = "totals"]
  /\ UNCHANGED <<counts, lastPersisted, save, disk, loaded>>

CopyTotals(r) ==
  /\ At(r, "totals")
  /\ save' = [save EXCEPT ![r].step = "spawned",
                          ![r].of = [counts EXCEPT !.details = rec[r].copy.details]]
  /\ Reaches(r, "done")
  /\ UNCHANGED <<counts, lastPersisted, disk, loaded>>

-----------------------------------------------------------------------------
(* write_json_file.  Opening empties the temporary file, which another     *)
(* save may have open too; a name that is gone cannot be renamed, though   *)
(* the file written may by then be stats.json.  A later snapshot is longer.*)
OpenStats(r) == disk.stats                                           \* mutant
OpenTmp(r)   == IF disk.tmp = NoFile THEN r ELSE disk.tmp

SaveOpens(r) ==
  /\ save[r].step = "spawned"
  /\ save' = [save EXCEPT ![r].step = "open", ![r].file = OpenTmp(r)]
  /\ disk' = [disk EXCEPT !.tmp = OpenTmp(r), !.files[OpenTmp(r)] = Empty]
  /\ UNCHANGED <<memVars, loaded>>

Written(content, c) ==
  IF content.size <= Whole(c).size THEN Whole(c) ELSE [content EXCEPT !.whole = FALSE]

SaveWrites(r) ==
  /\ save[r].step = "open"
  /\ save' = [save EXCEPT ![r].step = "written"]
  /\ disk' = [disk EXCEPT !.files[save[r].file] = Written(@, save[r].of)]
  /\ UNCHANGED <<memVars, loaded>>

SaveRenames(r) ==
  /\ save[r].step = "written"
  /\ save' = [save EXCEPT ![r].step = "saved"]
  /\ disk' = IF disk.tmp = NoFile THEN disk ELSE [disk EXCEPT !.stats = disk.tmp, !.tmp = NoFile]
  /\ UNCHANGED <<memVars, loaded>>

-----------------------------------------------------------------------------
(* persist_now when the server stops.                                      *)
PersistAtExit ==
  /\ Reaches(Shutdown, "persist")
  /\ UNCHANGED <<counts, lastPersisted, save, disk, loaded>>

(* The process ends: what is in memory is gone, and with it the saves that *)
(* have not begun.  It starts: a file that does not parse counts as zeros. *)
Running == {r \in Recorders : save[r].step \in {"open", "written"}}

StatEnds ==
  /\ save' = [r \in Recorders |-> IF save[r].step = "none" THEN save[r]
                                  ELSE [save[r] EXCEPT !.step = "saved"]]
  /\ rec' = [r \in Recorders |-> IF At(r, "none") THEN rec[r]
                                 ELSE [rec[r] EXCEPT !.step = "lost"]]
  /\ counts' = NoCounts /\ lastPersisted' = 0 /\ loaded' = NoCounts
  /\ UNCHANGED disk

StatsFile == disk.files[disk.stats]

StatLoads ==
  /\ loaded' = IF StatsFile.whole THEN StatsFile.is ELSE NoCounts
  /\ counts' = loaded' /\ lastPersisted' = loaded'.total
  /\ rec' = [rec EXCEPT ![Shutdown].step = "none"]
  /\ save' = [save EXCEPT ![Shutdown].step = "none"]
  /\ disk' = [disk EXCEPT !.stats = Initial, !.files[Initial] = StatsFile,
                          !.tmp = IF @ = NoFile THEN NoFile ELSE Leftover]

Record(r) == LoadTotal(r) \/ LoadLast(r) \/ CasLast(r) \/ CopyDetails(r) \/ CopyTotals(r)
Save(r)   == SaveOpens(r) \/ SaveWrites(r) \/ SaveRenames(r)

-----------------------------------------------------------------------------
(* Every request of this life of the process is counted once, as a success *)
(* or a failure, and its details at most once and only with a success,     *)
(* whether it is answered, refused, breaks off or is dropped.              *)
Counted == {r \in Timers : rec[r].step \notin {"none", "unmarked", "lost"}}
CountedOnce ==
  /\ counts.total = loaded.total + Cardinality(Counted)
  /\ counts.total = counts.success + counts.failed
  /\ counts.details <= counts.success

(* Whatever is read and compared in between by others, requests do not go  *)
(* by unsaved: when nobody is recording, the newest snapshot spawned lacks *)
(* fewer than PERSIST_INTERVAL of the requests that were counted.          *)
Snapshots == {save[r].of.total : r \in {q \in Recorders : rec[q].step = "done"}}
Recording == {r \in Recorders : rec[r].step \notin {"none", "unmarked", "lost", "done"}}
NoSaveIsMissed ==
  Recording = {} =>
    \E saved \in {loaded.total} \cup Snapshots : counts.total - saved < PERSIST_INTERVAL

(* "Ghi file JSON nguyên tử" (written atomically), store.rs: stats.json is *)
(* a whole snapshot, of counts that agree, until two saves run at a time,  *)
(* or one still writes the file that another has renamed meanwhile.        *)
Sound(content) == content.whole /\ content.is.details <= content.is.success
Overlapping ==
  Cardinality(Running) > 1 \/ \E r \in Running : save[r].file = disk.stats
TearsOnlyByOverlap ==
  [][Sound(StatsFile) => Sound(StatsFile') \/ Overlapping]_statVars
=============================================================================
