----------------------------- MODULE FileStore ------------------------------
(***************************************************************************)
(* The task log of one shard (src/file_store.rs): an append-only file of   *)
(* JSON lines, replayed into an in-memory cache when it is opened and      *)
(* rewritten by compaction.                                                *)
(*                                                                         *)
(* The file is a sequence of lines, the last one still open.  A line is a  *)
(* sequence of fragments: whole records, pieces of records, bytes that are *)
(* not UTF-8.  Only a line that is exactly one record can be parsed.       *)
(* writeln! on an unbuffered file makes two writes, the record and then    *)
(* the line feed, so a stop in between leaves an open line behind, and the *)
(* next record is written on that line.                                    *)
(*                                                                         *)
(* disk holds the contents of the file since the last sync_all: a process  *)
(* that dies leaves the last of them, a power failure any of them.         *)
(***************************************************************************)
EXTENDS Naturals, FiniteSets, SequencesExt

CONSTANTS
    Ids,        \* task ids
    Threads,    \* engine tasks that write to the store
    None,       \* no record
    MaxVersion, \* bound: number of records ever appended by clients
    MaxAppend,  \* appends that trigger a compaction (10000 in the code)
    MaxErrors,  \* bound: number of failed operations and torn lines
    Faults      \* what may go wrong

\* torn: a stop or a failure leaves an open line; utf8: it cuts a character in
\* two; io: a write fails; sync: sync_all fails; power: the machine stops;
\* clock: the wall clock stands still or steps back while compaction parses.
ASSUME FaultAssumption ==
    Faults \subseteq {"torn", "utf8", "io", "sync", "power", "clock"}

ASSUME BoundAssumption == {MaxVersion, MaxAppend, MaxErrors} \subseteq Nat

\* A run meets finitely many ids.
ASSUME IdsAssumption == IsFiniteSet(Ids)

Versions == 1..MaxVersion

VARIABLES
    disk,       \* contents of the file since the last sync, oldest first
    cache,      \* tasks_cache: version of each live record
    totalTasks, deletedTasks, appendCount,
    spawned,    \* compaction tasks spawned and not started
    compacting,
    thread,     \* what each writer is doing
    nextVersion,
    lastOp,     \* history: the last record appended for each id
    tears,      \* history: how often an open line was left behind
    errors      \* history: how many operations failed or left an open line

counters == <<totalTasks, deletedTasks, appendCount>>
vars == <<disk, cache, counters, spawned, compacting, thread, nextVersion,
          lastOp, tears, errors>>

-----------------------------------------------------------------------------
(* Reading a file.                                                         *)

Record(id, version, deleted) ==
    [kind |-> "record", id |-> id, version |-> version, deleted |-> deleted]
Fragment(kind) == [kind |-> kind]

Empty == << <<>> >>

\* Bytes are appended to the open line; a line feed closes it.
Write(file, fragment) == [file EXCEPT ![Len(file)] = Append(@, fragment)]
LineFeed(file) == Append(file, <<>>)
OpenLine(file) == Last(file) # <<>>

Undecodable(line) == \E i \in 1..Len(line) : line[i].kind = "utf8"
Parsable(line) == Len(line) = 1 /\ line[1].kind = "record"

\* The positions of the records a reader finds.  lines().map_while(Result::ok):
\* reading ends at the first line that cannot be decoded; lines that do not
\* parse are skipped.
Read(file) ==
    {i \in 1..Len(file) : /\ Parsable(file[i])
                          /\ \A j \in 1..i : ~Undecodable(file[j])}

RecordAt(file, i) == file[i][1]

\* The positions of an id's records that no later tombstone of the id removes.
Surviving(file, id) ==
    {i \in Read(file) :
        /\ RecordAt(file, i).id = id
        /\ \A j \in Read(file) :
              j >= i /\ RecordAt(file, j).id = id => ~RecordAt(file, j).deleted}

\* rebuild_metadata: the last surviving record of each id.
Replay(file) ==
    [id \in Ids |-> LET live == Surviving(file, id)
                    IN  IF live = {} THEN None ELSE RecordAt(file, Max(live)).version]

Count(file, deleted) ==
    Cardinality({i \in Read(file) : RecordAt(file, i).deleted = deleted})

File == Last(disk)

-----------------------------------------------------------------------------
Resting == [pc |-> "idle", id |-> None, version |-> None, deleted |-> FALSE]

\* file_lock: some thread is between its first write and its return.
Locked == \E t \in Threads : thread[t].pc \in {"written", "ended"}

Init ==
    /\ disk = <<Empty>>
    /\ cache = [id \in Ids |-> None]
    /\ totalTasks = 0 /\ deletedTasks = 0 /\ appendCount = 0
    /\ spawned = 0 /\ compacting = FALSE
    /\ thread = [t \in Threads |-> Resting]
    /\ nextVersion = 1
    /\ lastOp = [id \in Ids |-> [version |-> None, confirmed |-> FALSE]]
    /\ tears = 0 /\ errors = 0

\* The file gets new content that is not synced yet.
Grow(file) == disk' = Append(disk, file)

\* An operation fails, or a stop comes, and leaves this file behind.
CountTear(file) == tears' = tears + (IF OpenLine(file) THEN 1 ELSE 0)
CountError == errors < MaxErrors /\ errors' = errors + 1
CountStop(file) ==
    /\ CountTear(file)
    /\ IF OpenLine(file) THEN CountError ELSE UNCHANGED errors

\* save_task_inner takes the lock and writes the record.  A tombstone carries
\* the version that delete_task read.
BeginWrite(t, id, version, deleted) ==
    /\ ~Locked
    /\ Grow(Write(File, Record(id, version, deleted)))
    /\ thread' = [thread EXCEPT ![t] =
           [pc |-> "written", id |-> id, version |-> version, deleted |-> deleted]]
    /\ lastOp' = [lastOp EXCEPT ![id] =
           [version |-> IF deleted THEN None ELSE version, confirmed |-> FALSE]]
    /\ UNCHANGED <<cache, counters, spawned, compacting, tears, errors>>

Save(t, id) ==
    /\ thread[t].pc = "idle"
    /\ nextVersion \in Versions
    /\ BeginWrite(t, id, nextVersion, FALSE)
    /\ nextVersion' = nextVersion + 1

\* Mutated: an id that is not in the cache is deleted too.
LookUpAnything(t, id) ==
    /\ thread[t].pc = "idle"
    /\ thread' = [thread EXCEPT ![t] =
           [pc |-> "delete", id |-> id, version |-> cache[id], deleted |-> TRUE]]
    /\ UNCHANGED <<disk, cache, counters, spawned, compacting, nextVersion,
                   lastOp, tears, errors>>

\* delete_task looks the record up in the cache, then saves a tombstone of it;
\* other writers may come in between.
LookUp(t, id) ==
    /\ thread[t].pc = "idle"
    /\ cache[id] # None
    /\ thread' = [thread EXCEPT ![t] =
           [pc |-> "delete", id |-> id, version |-> cache[id], deleted |-> TRUE]]
    /\ UNCHANGED <<disk, cache, counters, spawned, compacting, nextVersion,
                   lastOp, tears, errors>>

Tombstone(t) ==
    /\ thread[t].pc = "delete"
    /\ BeginWrite(t, thread[t].id, thread[t].version, TRUE)
    /\ UNCHANGED nextVersion

\* The second write of writeln!.
EndLine(t) ==
    /\ thread[t].pc = "written"
    /\ Grow(LineFeed(File))
    /\ thread' = [thread EXCEPT ![t].pc = "ended"]
    /\ UNCHANGED <<cache, counters, spawned, compacting, nextVersion, lastOp, tears, errors>>

\* The first write fails: with nothing written, the operation has not happened;
\* else a piece of the record is on the open line.
WriteFails(t) ==
    /\ "io" \in Faults
    /\ ~Locked
    /\ CountError
    /\ \/ thread[t].pc = "delete" /\ UNCHANGED nextVersion
       \/ /\ thread[t].pc = "idle" /\ nextVersion \in Versions
          /\ nextVersion' = nextVersion + 1
    /\ \/ UNCHANGED <<disk, tears>>
       \/ /\ "torn" \in Faults
          /\ \E kind \in {"piece"} \cup (Faults \cap {"utf8"}) :
                LET file == Write(File, Fragment(kind)) IN
                Grow(file) /\ CountTear(file)
    /\ thread' = [thread EXCEPT ![t] = Resting]
    /\ UNCHANGED <<cache, counters, spawned, compacting, lastOp>>

\* The second write fails: a whole record is on the open line.
LineFeedFails(t) ==
    /\ {"io", "torn"} \subseteq Faults
    /\ thread[t].pc = "written"
    /\ CountTear(File) /\ CountError
    /\ thread' = [thread EXCEPT ![t] = Resting]
    /\ UNCHANGED <<disk, cache, counters, spawned, compacting, nextVersion, lastOp>>

\* sync_all fails: the record is in the file, and not in the cache.
SyncFails(t) ==
    /\ "sync" \in Faults
    /\ thread[t].pc = "ended"
    /\ CountError
    /\ thread' = [thread EXCEPT ![t] = Resting]
    /\ UNCHANGED <<disk, cache, counters, spawned, compacting, nextVersion,
                   lastOp, tears>>

\* should_compact, without the size of the file.
ShouldCompact(total, deleted, appended) ==
    \/ total > 0 /\ 2 * deleted > total
    \/ appended >= MaxAppend

\* The rest of save_task_inner: sync, cache, counters, and a compaction task
\* when a save (not a delete) finds the log worth it.
Return(t, syncs) ==
    LET op == thread[t]
        total == totalTasks + (IF op.deleted THEN 0 ELSE 1)
        deleted == deletedTasks + (IF op.deleted THEN 1 ELSE 0)
    IN
    /\ op.pc = "ended"
    /\ disk' = IF syncs THEN <<File>> ELSE disk
    /\ cache' = [cache EXCEPT ![op.id] = IF op.deleted THEN None ELSE op.version]
    /\ totalTasks' = total
    /\ deletedTasks' = deleted
    /\ appendCount' = appendCount + 1
    /\ spawned' = IF ~op.deleted /\ ShouldCompact(total, deleted, appendCount + 1)
                  THEN spawned + 1 ELSE spawned
    /\ lastOp' = [lastOp EXCEPT ![op.id].confirmed = TRUE]
    /\ thread' = [thread EXCEPT ![t] = Resting]
    /\ UNCHANGED <<compacting, nextVersion, tears, errors>>

\* Mutated: the file is not synced before the save is confirmed.
FinishUnsynced(t) == Return(t, FALSE)

\* Mutated: a tombstone is counted and leaves its task in the cache.
FinishKeepingDeleted(t) ==
    LET op == thread[t] IN
    /\ op.pc = "ended"
    /\ disk' = <<File>>
    /\ cache' = [cache EXCEPT ![op.id] = op.version]
    /\ deletedTasks' = deletedTasks + (IF op.deleted THEN 1 ELSE 0)
    /\ totalTasks' = totalTasks + (IF op.deleted THEN 0 ELSE 1)
    /\ appendCount' = appendCount + 1
    /\ lastOp' = [lastOp EXCEPT ![op.id].confirmed = TRUE]
    /\ thread' = [thread EXCEPT ![t] = Resting]
    /\ UNCHANGED <<spawned, compacting, nextVersion, tears, errors>>

Finish(t) == Return(t, TRUE)

-----------------------------------------------------------------------------
(* Compaction.                                                             *)

\* A spawned compact_log starts unless one is under way.
StartCompaction ==
    /\ spawned > 0
    /\ spawned' = spawned - 1
    /\ compacting' = TRUE
    /\ UNCHANGED <<disk, cache, counters, thread, nextVersion, lastOp, tears, errors>>

\* The record compaction keeps for an id.  updated_at is not stored: it is
\* the time at which the line was parsed, so a later line replaces an earlier
\* one as long as the clock has moved on.
Keep(file, id) ==
    LET live == Surviving(file, id)
    IN  IF live = {} THEN {None}
        ELSE {RecordAt(file, i).version :
                 i \in IF "clock" \in Faults THEN live ELSE {Max(live)}}

\* The file a compaction writes: one line per kept record, in any order.
Rewritten(map) ==
    LET live == SetToSeq({id \in Ids : map[id] # None})
    IN  [i \in 1..Len(live) |-> <<Record(live[i], map[live[i]], FALSE)>>] \o Empty

\* Mutated: the counters are not reset.
CompactUncounted ==
    /\ compacting
    /\ ~Locked
    /\ \E map \in [Ids -> Versions \cup {None}] :
          /\ \A id \in Ids : map[id] \in Keep(File, id)
          /\ disk' = <<Rewritten(map)>>
          /\ cache' = map
          /\ totalTasks' = Cardinality({id \in Ids : map[id] # None})
    /\ compacting' = FALSE
    /\ UNCHANGED <<deletedTasks, appendCount, spawned, thread, nextVersion, lastOp, tears, errors>>

\* Under the file lock: rewrite into a temporary file, sync it, rename it over
\* the log, reset the counters, replace the cache.
Compact ==
    /\ compacting
    /\ ~Locked
    /\ \E map \in [Ids -> Versions \cup {None}] :
          /\ \A id \in Ids : map[id] \in Keep(File, id)
          /\ disk' = <<Rewritten(map)>>
          /\ cache' = map
          /\ totalTasks' = Cardinality({id \in Ids : map[id] # None})
    /\ deletedTasks' = 0
    /\ appendCount' = 0
    /\ compacting' = FALSE
    /\ UNCHANGED <<spawned, thread, nextVersion, lastOp, tears, errors>>

\* It fails before the rename: the log is untouched.
CompactFails ==
    /\ "io" \in Faults
    /\ compacting
    /\ ~Locked
    /\ compacting' = FALSE
    /\ UNCHANGED <<disk, cache, counters, spawned, thread, nextVersion, lastOp, tears, errors>>

-----------------------------------------------------------------------------
(* Stops.                                                                  *)

\* FileStore::new on the file a stop left: threads, lock and pending
\* compactions are gone; cache and counters are rebuilt from the log.
Reopen(files) ==
    LET file == Last(files) IN
    /\ disk' = files
    /\ cache' = Replay(file)
    /\ totalTasks' = Count(file, FALSE)
    /\ deletedTasks' = Count(file, TRUE)
    /\ appendCount' = Cardinality(Read(file))
    /\ thread' = [t \in Threads |-> Resting]
    /\ spawned' = 0 /\ compacting' = FALSE
    /\ UNCHANGED <<nextVersion, lastOp>>

\* The process dies: what it wrote stays.
Kill ==
    /\ OpenLine(File) => "torn" \in Faults
    /\ Reopen(disk)
    /\ IF Locked THEN CountStop(File) ELSE UNCHANGED <<tears, errors>>

\* The machine stops: what was written since the last sync is lost from some
\* point on, or cut inside a record.
PowerFails ==
    /\ "power" \in Faults
    /\ \E k \in 1..Len(disk) :
          \E file \in {disk[k]}
                 \cup (IF k < Len(disk) /\ disk[k + 1] # LineFeed(disk[k])
                       THEN {Write(disk[k], Fragment(kind)) :
                                kind \in {"piece"} \cup (Faults \cap {"utf8"})}
                       ELSE {}) :
             /\ OpenLine(file) => "torn" \in Faults
             /\ Reopen(<<file>>)
             /\ IF Len(disk) > 1 THEN CountStop(file) ELSE UNCHANGED <<tears, errors>>

Next ==
    \/ \E t \in Threads, id \in Ids : Save(t, id) \/ LookUp(t, id)
    \/ \E t \in Threads :
          \/ Tombstone(t) \/ EndLine(t) \/ Finish(t)
          \/ WriteFails(t) \/ LineFeedFails(t) \/ SyncFails(t)
    \/ StartCompaction \/ Compact \/ CompactFails
    \/ Kill \/ PowerFails

Spec == Init /\ [][Next]_vars

-----------------------------------------------------------------------------
Fragments ==
    [kind: {"record"}, id: Ids, version: Versions, deleted: BOOLEAN]
        \cup [kind: {"piece", "utf8"}]
Files == Seq(Seq(Fragments)) \ {<<>>}

\* Every variable has its type.
TypeOK ==
    /\ disk \in Seq(Files) \ {<<>>}
    /\ cache \in [Ids -> Versions \cup {None}]
    /\ {totalTasks, deletedTasks, appendCount, spawned, tears, errors} \subseteq Nat
    /\ compacting \in BOOLEAN
    /\ thread \in [Threads -> {Resting} \cup
           [pc: {"delete", "written", "ended"}, id: Ids, version: Versions, deleted: BOOLEAN]]
    /\ nextVersion \in 1..(MaxVersion + 1)
    /\ lastOp \in [Ids -> [version: Versions \cup {None}, confirmed: BOOLEAN]]

\* As long as no operation failed and no line was left open, the cache is what
\* a replay of the log would build whenever no writer is at work: a restart or
\* a compaction changes nothing.
CacheIsLog == errors = 0 /\ ~Locked => cache = Replay(File)

\* ... and the counters that trigger compaction are those of the log; only
\* appendCount falls behind it, by the records the last compaction kept.
CountersAreLog ==
    errors = 0 /\ ~Locked =>
        /\ totalTasks = Count(File, FALSE)
        /\ deletedTasks = Count(File, TRUE)
        /\ appendCount <= Cardinality(Read(File))
        /\ Cardinality(Read(File)) - appendCount <= Cardinality(Ids)

\* The ids whose last operation was confirmed and is not what a replay finds.
Damaged == {id \in Ids : lastOp[id].confirmed /\ lastOp[id].version # Replay(File)[id]}

\* One line left open costs at most one confirmed operation, the one written
\* next on the same line.  (Where the cut leaves valid UTF-8.)
OneTearOneLoss == Cardinality(Damaged) <= tears

\* The log is a durable map: a save or delete shows at its first write and is
\* answered only when no crash can undo it; line feeds, compaction and reopening
\* change nothing a reader finds, and a crash falls back over unanswered
\* operations only.
Durable == INSTANCE DurableMap
           WITH seen <- [i \in 1..Len(disk) |-> Replay(disk[i])], op <- lastOp

\* (DurableMap is implemented where neither lines tear nor clocks step.)
ImplementsDurableMap == Durable!Spec

-----------------------------------------------------------------------------
(* What comments, messages, tests or the README say of this code, and the  *)
(* code does not do.                                                       *)

\* "Corruption-free" (README): a confirmed save or delete survives every crash,
\* power failure and compaction, and is never overtaken by an older version.
ConfirmedSurvives == Damaged = {}
=============================================================================
