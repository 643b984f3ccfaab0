------------------------------ MODULE QueueDir ------------------------------
(***************************************************************************)
(* A queue directory and the processes that meet in it: daemons that boot  *)
(* (sharding.rs: detect_layout, resolve_layout and the migration of the    *)
(* layout of the previous version), a daemon of the previous version, and  *)
(* the commands add-shards, validate and replay of main.rs.                *)
(*                                                                         *)
(* A log is the last record it has of every task; of a record, only        *)
(* deleted_at and last_error_obj are kept.  Claims and leases are in       *)
(* Cluster: here a daemon serves any shards whose flocks it gets.          *)
(***************************************************************************)
EXTENDS Naturals, FiniteSets

CONSTANTS
    Daemons,      \* daemons of this version
    Legacy,       \* a daemon of the previous version, which knows no shards
    Tools,        \* processes that run a command
    Tasks,        \* task ids
    MaxRetries,   \* max_retries of each task: 1 or 2 attempts in all
    Hash,         \* the hash of each task id
    Requested,    \* SNERD_SHARDS of each daemon
    MaxServed,    \* SNERD_MAX_SHARDS of each daemon
    Added,        \* the number given to add-shards
    Width,        \* shard counts are integers modulo Width (u32)
    MaxBoots,     \* bound on the starts of daemons
    MaxCommands,  \* bound on the commands that are started
    Faults,       \* "crash": a process may die anywhere; "downgrade": the
                  \* previous version may be started at any time; "quiet": it
                  \* may run without having written a log yet; "failover": a
                  \* client resends to another daemon what it got no Ack for
    Root,         \* the place of the previous version's files
    Nobody, NoFile, NoRecord

ASSUME WidthAssumption == Width \in Nat \ {0, 1}
ASSUME InputAssumption ==
    /\ Requested \in [Daemons -> 0 .. Width - 1]
    /\ MaxServed \in [Daemons -> Nat]
    /\ MaxRetries \in [Tasks -> {1, 2}]
    /\ Hash \in [Tasks -> Nat]
    /\ Added \in 0 .. Width - 1
ASSUME BoundAssumption == MaxBoots \in Nat /\ MaxCommands \in Nat
ASSUME FaultsAssumption == Faults \subseteq {"crash", "downgrade", "quiet", "failover"}

VARIABLES
    membership,   \* the shard count in membership.json, or NoFile
    memLock,      \* who holds .membership.lock
    dirs,         \* the shard directories that exist
    log,          \* the task log at each place
    lockFile,     \* the .lock at each place, with the holder of its flock
    daemon,       \* what each daemon knows while it boots
    serves,       \* the places whose logs a process works on
    cache,        \* tasks_cache of the engine for each of them
    tool,         \* what each command knows
    used,         \* how many boots and commands have been started
    report,       \* what the last validate has said
    fate,         \* history: what has become of each task
    sender        \* history: the process, still alive, that accepted it

vars == <<membership, memLock, dirs, log, lockFile, daemon, serves, cache,
          tool, used, report, fate, sender>>

Shards    == 0 .. Width - 1
Places    == Shards \union {Root}
Engines   == Daemons \union {Legacy}
Processes == Engines \union Tools

Record == [deleted : BOOLEAN, error : BOOLEAN]
Log    == [Tasks -> Record \union {NoRecord}]

\* The names differ from one another and from what they stand beside.
ASSUME ProcessAssumption ==
    /\ Legacy \notin Daemons \union Tools
    /\ Daemons \intersect Tools = {}
    /\ Processes \intersect {Nobody, NoFile} = {}
    /\ Nobody # NoFile
ASSUME ValueAssumption ==
    /\ Shards \intersect {Root, NoFile} = {}
    /\ NoFile \notin Log
    /\ NoRecord \notin Record

\* A record without deleted_at, and one that was marked deleted.
Fresh == [deleted |-> FALSE, error |-> FALSE]
Tombstone(r) == [r EXCEPT !.deleted = TRUE]

EmptyLog == [t \in Tasks |-> NoRecord]
Live(l)  == IF l = NoFile THEN {}
            ELSE {t \in Tasks : l[t] # NoRecord /\ ~l[t].deleted}

\* Mutated: a replay of the log that keeps what was deleted.
RebuiltWithTombstones(l) == IF l = NoFile THEN EmptyLog ELSE l

\* What FileStore::new reads from a log.
Rebuilt(l) == [t \in Tasks |-> IF t \in Live(l) THEN l[t] ELSE NoRecord]

\* detect_layout
Layout == IF membership # NoFile THEN "sharded"
          ELSE IF log[Root] # NoFile THEN "legacy" ELSE "fresh"

Lockable(p) == lockFile[p] \in {NoFile, Nobody}

\* The lock files after process p has gone: its flock is free wherever the
\* file it holds has been moved to.
LocksWithout(p) == [x \in Places |-> IF lockFile[x] = p THEN Nobody ELSE lockFile[x]]
MemLockWithout(p) == IF memLock = p THEN Nobody ELSE memLock

Off  == [pc |-> "off", layout |-> "fresh"]
Idle == [step |-> "idle", at |-> 0, count |-> 0, found |-> {}]

Init ==
    /\ membership = NoFile /\ memLock = Nobody /\ dirs = {}
    /\ log \in [Places -> {NoFile, EmptyLog}]
    /\ \A s \in Shards : log[s] = NoFile
    /\ serves \in [Engines -> {{}, {Root}}]
    /\ \A d \in Daemons : serves[d] = {}
    /\ (serves[Legacy] = {Root} /\ log[Root] = NoFile) => "quiet" \in Faults
    /\ lockFile \in [Places -> {NoFile, Nobody, Legacy}]
    /\ \A s \in Shards : lockFile[s] = NoFile
    /\ (lockFile[Root] = Legacy) <=> (serves[Legacy] = {Root})
    /\ daemon = [d \in Daemons |-> Off]
    /\ cache = [e \in Engines |-> [p \in Places |-> EmptyLog]]
    /\ tool = [k \in Tools |-> Idle]
    /\ used = [boots |-> 0, commands |-> 0]
    /\ report = "none"
    /\ fate = [t \in Tasks |-> "none"]
    /\ sender = [t \in Tasks |-> Nobody]

-----------------------------------------------------------------------------
(* A daemon boots: resolve_layout.                                         *)

boot == <<membership, memLock, dirs, log, lockFile, daemon>>
work == <<serves, cache, fate, sender>>
cli  == <<tool, used, report>>

\* The layout is looked at before the lock is taken.
Boot(d) ==
    /\ daemon[d].pc = "off"
    /\ used.boots < MaxBoots
    /\ used' = [used EXCEPT !.boots = @ + 1]
    /\ daemon' = [daemon EXCEPT ![d] = [pc |-> "resolve", layout |-> Layout]]
    /\ UNCHANGED <<membership, memLock, dirs, log, lockFile, tool, report, work>>

Goes(d, pc) == daemon' = [daemon EXCEPT ![d].pc = pc]

\* membership.json is there, or has appeared since.
Join(d) ==
    /\ daemon[d].pc = "resolve"
    /\ memLock = Nobody
    /\ membership # NoFile
    /\ Goes(d, "up")
    /\ UNCHANGED <<membership, memLock, dirs, log, lockFile, work, cli>>

\* Mutated: no re-check under the lock.
InitFreshUnchecked(d) ==
    /\ daemon[d].pc = "resolve" /\ daemon[d].layout = "fresh"
    /\ memLock = Nobody
    /\ membership' = Requested[d]
    /\ Goes(d, "up")
    /\ UNCHANGED <<memLock, dirs, log, lockFile, work, cli>>

InitFresh(d) ==
    /\ daemon[d].pc = "resolve" /\ daemon[d].layout = "fresh"
    /\ memLock = Nobody
    /\ membership = NoFile
    /\ membership' = Requested[d]
    /\ Goes(d, "up")
    /\ UNCHANGED <<memLock, dirs, log, lockFile, work, cli>>

\* Mutated: the lock of the previous version is not probed.
ProbeNothing(d) ==
    /\ daemon[d].pc = "resolve" /\ daemon[d].layout = "legacy"
    /\ memLock = Nobody
    /\ membership = NoFile
    /\ memLock' = d
    /\ Goes(d, "adopt")
    /\ UNCHANGED <<membership, dirs, log, lockFile, work, cli>>

\* The re-check under the lock, and the probe of the previous version's lock,
\* which is released again at once.
Probe(d) ==
    /\ daemon[d].pc = "resolve" /\ daemon[d].layout = "legacy"
    /\ memLock = Nobody
    /\ membership = NoFile
    /\ \/ /\ Lockable(Root)
          /\ memLock' = d
          /\ Goes(d, "adopt")
       \/ /\ ~Lockable(Root)
          /\ Goes(d, "off")
          /\ UNCHANGED memLock
    /\ UNCHANGED <<membership, dirs, log, lockFile, work, cli>>

MoveLog(d) ==
    /\ daemon[d].pc = "adopt"
    /\ dirs' = dirs \union {0}
    /\ \/ /\ log[Root] # NoFile
          /\ log' = [log EXCEPT ![0] = log[Root], ![Root] = NoFile]
          /\ Goes(d, "moved")
          /\ UNCHANGED memLock
       \/ /\ log[Root] = NoFile
          /\ memLock' = Nobody
          /\ Goes(d, "off")
          /\ UNCHANGED log
    /\ UNCHANGED <<membership, lockFile, work, cli>>

MoveLock(d) ==
    /\ daemon[d].pc = "moved"
    /\ lockFile' = IF lockFile[Root] = NoFile THEN lockFile
                   ELSE [lockFile EXCEPT ![0] = lockFile[Root], ![Root] = NoFile]
    /\ Goes(d, "init")
    /\ UNCHANGED <<membership, memLock, dirs, log, work, cli>>

InitAdopted(d) ==
    /\ daemon[d].pc = "init"
    /\ membership' = 1
    /\ memLock' = Nobody
    /\ Goes(d, "up")
    /\ UNCHANGED <<dirs, log, lockFile, work, cli>>

\* The engines that a daemon opens on the shards in S.
Opened(e, S) ==
    /\ lockFile' = [p \in Places |-> IF p \in S THEN e ELSE lockFile[p]]
    /\ serves' = [serves EXCEPT ![e] = S]
    /\ cache' = [cache EXCEPT ![e] =
                    [p \in Places |-> IF p \in S THEN Rebuilt(log[p]) ELSE EmptyLog]]

\* Mutated: a standby loop that goes on when it has shards.
ServeMore(d) ==
    /\ daemon[d].pc = "up"
    /\ \E S \in SUBSET {s \in Shards : s < membership /\ Lockable(s)} :
           /\ S # {} /\ Cardinality(S \union serves[d]) <= MaxServed[d]
           /\ Opened(d, S \union serves[d])
           /\ dirs' = dirs \union S
    /\ UNCHANGED <<membership, memLock, log, daemon, fate, sender, cli>>

\* acquire_shards and start_engines: the shards taken, of those that the claims
\* allow, are published together, and only by a daemon that has none.
Serve(d) ==
    /\ daemon[d].pc = "up" /\ serves[d] = {}
    /\ \E S \in SUBSET {s \in Shards : s < membership /\ Lockable(s)} :
           /\ S # {} /\ Cardinality(S) <= MaxServed[d]
           /\ Opened(d, S)
           /\ dirs' = dirs \union S
    /\ UNCHANGED <<membership, memLock, log, daemon, fate, sender, cli>>

\* The previous version takes the root's lock and works on the root's log.
\* Without a downgrade it is started on its own layout only.
LegacyStart ==
    /\ \/ "downgrade" \in Faults
       \/ Layout = "legacy" /\ memLock = Nobody /\ dirs = {}
    /\ serves[Legacy] = {}
    /\ Lockable(Root)
    /\ Opened(Legacy, {Root})
    /\ UNCHANGED <<membership, memLock, dirs, log, daemon, fate, sender, cli>>

\* An engine's process ends; one that is still booting only dies.
Exit(e) ==
    /\ \/ serves[e] # {}
       \/ e \in Daemons /\ daemon[e].pc = "up"
       \/ e \in Daemons /\ daemon[e].pc # "off" /\ "crash" \in Faults
    /\ lockFile' = LocksWithout(e)
    /\ memLock' = MemLockWithout(e)
    /\ serves' = [serves EXCEPT ![e] = {}]
    /\ cache' = [cache EXCEPT ![e] = [p \in Places |-> EmptyLog]]
    /\ sender' = [t \in Tasks |-> IF sender[t] = e THEN Nobody ELSE sender[t]]
    /\ daemon' = IF e \in Daemons THEN [daemon EXCEPT ![e] = Off] ELSE daemon
    /\ UNCHANGED <<membership, dirs, log, fate, cli>>

-----------------------------------------------------------------------------
(* An engine at work: what enqueue and execute_task do to log and cache.    *)

\* save_task opens the log by its path, and creates it when it is not there.
Written(p, t, r) ==
    log' = [log EXCEPT ![p] = [IF @ = NoFile THEN EmptyLog ELSE @ EXCEPT ![t] = r]]

Save(e, p, t, r) ==
    /\ Written(p, t, r)
    /\ cache' = [cache EXCEPT ![e][p][t] = IF r.deleted THEN NoRecord ELSE r]
    /\ UNCHANGED <<membership, memLock, dirs, lockFile, daemon, serves, cli>>

\* route_shard over the shards of the daemon, in the order of their numbers.
Route(e, t) ==
    IF e = Legacy THEN Root
    ELSE CHOOSE s \in serves[e] :
             Cardinality({x \in serves[e] : x < s}) = Hash[t] % Cardinality(serves[e])

\* A job is sent, or sent again by a client without an Ack: to the same daemon,
\* or to any once that one has gone.
MaySend(e, t) ==
    \/ fate[t] = "none"
    \/ fate[t] = "pending" /\ sender[t] = e
    \/ fate[t] = "pending" /\ sender[t] = Nobody /\ "failover" \in Faults

Enqueue(e, t) ==
    /\ serves[e] # {}
    /\ MaySend(e, t)
    /\ Save(e, Route(e, t), t, Fresh)
    /\ fate' = [fate EXCEPT ![t] = "pending"]
    /\ sender' = [sender EXCEPT ![t] = e]

\* The tombstone is the record with deleted_at: an error of an earlier attempt
\* stays in it.
Succeed(e, p, t) ==
    LET r == cache[e][p][t] IN
    /\ r # NoRecord
    /\ Save(e, p, t, Tombstone(r))
    /\ fate' = [fate EXCEPT ![t] = IF r.error THEN "recovered" ELSE "done"]
    /\ UNCHANGED sender

\* With two attempts at most, a record with an error has failed once.
LastAttempt(r, t) == r.error \/ MaxRetries[t] = 1

Retry(e, p, t) ==
    LET r == cache[e][p][t] IN
    /\ r # NoRecord /\ ~LastAttempt(r, t)
    /\ Save(e, p, t, [r EXCEPT !.error = TRUE])
    /\ UNCHANGED <<fate, sender>>

\* The last error is not stored: the tombstone is made of what the log has.
GiveUp(e, p, t) ==
    LET r == cache[e][p][t] IN
    /\ r # NoRecord /\ LastAttempt(r, t)
    /\ Save(e, p, t, Tombstone(r))
    /\ fate' = [fate EXCEPT ![t] = "exhausted"]
    /\ UNCHANGED sender

\* compact_log keeps what is live, and reads the cache from that.
Compact(e, p) ==
    /\ log[p] # NoFile
    /\ log' = [log EXCEPT ![p] = Rebuilt(@)]
    /\ cache' = [cache EXCEPT ![e][p] = Rebuilt(log[p])]
    /\ UNCHANGED <<membership, memLock, dirs, lockFile, daemon, serves, fate, sender, cli>>

-----------------------------------------------------------------------------
(* The commands.                                                           *)

\* Each command reads membership.json under its lock.  add-shards keeps the
\* lock; its sum wraps as a u32 does in a release build.
Start(k, c, step, count) ==
    /\ tool[k].step = "idle"
    /\ used.commands < MaxCommands
    /\ memLock = Nobody
    /\ membership # NoFile
    /\ used' = [used EXCEPT !.commands = @ + 1]
    /\ tool' = [tool EXCEPT ![k] =
                  [step |-> step, at |-> IF c = "add-shards" THEN membership ELSE 0,
                   count |-> count, found |-> {}]]
    /\ UNCHANGED <<membership, dirs, log, lockFile, daemon, work, report>>

\* Mutated: the count is written before the directories are made.
AddShardsCountFirst(k) ==
    /\ tool[k].step = "idle" /\ used.commands < MaxCommands
    /\ memLock = Nobody /\ membership # NoFile
    /\ used' = [used EXCEPT !.commands = @ + 1]
    /\ tool' = [tool EXCEPT ![k] = [step |-> "dirs", at |-> membership,
                                   count |-> (membership + Added) % Width, found |-> {}]]
    /\ membership' = (membership + Added) % Width
    /\ memLock' = k
    /\ UNCHANGED <<dirs, log, lockFile, daemon, work, report>>

AddShards(k) ==
    /\ Start(k, "add-shards", "dirs", (membership + Added) % Width)
    /\ memLock' = k

CreateDir(k) ==
    /\ tool[k].step = "dirs" /\ tool[k].at < tool[k].count
    /\ dirs' = dirs \union {tool[k].at}
    /\ tool' = [tool EXCEPT ![k].at = @ + 1]
    /\ UNCHANGED <<membership, memLock, log, lockFile, daemon, work, used, report>>

WriteCount(k) ==
    /\ tool[k].step = "dirs" /\ tool[k].at >= tool[k].count
    /\ membership' = tool[k].count
    /\ memLock' = Nobody
    /\ tool' = [tool EXCEPT ![k] = Idle]
    /\ UNCHANGED <<dirs, log, lockFile, daemon, work, used, report>>

Validate(k) == Start(k, "validate", "look", membership) /\ UNCHANGED memLock

\* The directories are looked at after the lock has been released.
Look(k) ==
    /\ tool[k].step = "look"
    /\ report' = IF dirs = {s \in Shards : s < tool[k].count} THEN "ok" ELSE "degraded"
    /\ tool' = [tool EXCEPT ![k] = Idle]
    /\ UNCHANGED <<membership, memLock, dirs, log, lockFile, daemon, work, used>>

Replay(k) == Start(k, "replay", "lock", membership) /\ UNCHANGED memLock

\* Mutated: every deleted task is a failed one.
FailedOrDone(l) == {t \in Tasks : l[t] # NoRecord /\ l[t].deleted}

\* The tasks that cmd_replay takes for failed ones.
Failed(l) == {t \in Tasks : l[t] # NoRecord /\ l[t].deleted /\ l[t].error}

\* Mutated: a shard that is served is read and appended to all the same.
LockShardRegardless(k) ==
    LET s == tool[k].at IN
    /\ tool[k].step = "lock" /\ s < tool[k].count
    /\ tool' = IF log[s] = NoFile THEN [tool EXCEPT ![k].at = s + 1]
               ELSE [tool EXCEPT ![k].step = "append", ![k].found = Failed(log[s])]
    /\ dirs' = dirs \union {s}
    /\ UNCHANGED <<membership, memLock, log, lockFile, daemon, work, used, report>>

\* The next shard's lock: a shard that is served ends the command, one without
\* a log is passed over.
LockShard(k) ==
    LET s == tool[k].at IN
    /\ tool[k].step = "lock" /\ s < tool[k].count
    /\ \/ /\ ~Lockable(s)
          /\ tool' = [tool EXCEPT ![k] = Idle]
          /\ UNCHANGED <<dirs, lockFile>>
       \/ /\ Lockable(s) /\ log[s] = NoFile
          /\ tool' = [tool EXCEPT ![k].at = s + 1]
          /\ dirs' = dirs \union {s}
          /\ lockFile' = [lockFile EXCEPT ![s] = Nobody]
       \/ /\ Lockable(s) /\ log[s] # NoFile
          /\ tool' = [tool EXCEPT ![k].step = "append", ![k].found = Failed(log[s])]
          /\ dirs' = dirs \union {s}
          /\ lockFile' = [lockFile EXCEPT ![s] = k]
    /\ UNCHANGED <<membership, memLock, log, daemon, work, used, report>>

\* One line of the log for every task found.
Append(k, t) ==
    /\ tool[k].step = "append" /\ t \in tool[k].found
    /\ Written(tool[k].at, t, Fresh)
    /\ tool' = [tool EXCEPT ![k].found = @ \ {t}]
    /\ fate' = [fate EXCEPT ![t] = "pending"]
    /\ UNCHANGED <<membership, memLock, dirs, lockFile, daemon, serves, cache, sender, used,
                   report>>

NextShard(k) ==
    /\ tool[k].step = "append" /\ tool[k].found = {}
    /\ tool' = [tool EXCEPT ![k].step = "lock", ![k].at = @ + 1]
    /\ lockFile' = LocksWithout(k)
    /\ UNCHANGED <<membership, memLock, dirs, log, daemon, work, used, report>>

ReplayDone(k) ==
    /\ tool[k].step = "lock" /\ tool[k].at >= tool[k].count
    /\ tool' = [tool EXCEPT ![k] = Idle]
    /\ UNCHANGED <<membership, memLock, dirs, log, lockFile, daemon, work, used, report>>

ToolDies(k) ==
    /\ "crash" \in Faults
    /\ tool[k].step # "idle"
    /\ tool' = [tool EXCEPT ![k] = Idle]
    /\ lockFile' = LocksWithout(k)
    /\ memLock' = MemLockWithout(k)
    /\ UNCHANGED <<membership, dirs, log, daemon, work, used, report>>

Booting(d) == Join(d) \/ InitFresh(d) \/ Probe(d) \/ MoveLog(d) \/ MoveLock(d)
              \/ InitAdopted(d)

Commanding(k) ==
    \/ CreateDir(k) \/ WriteCount(k) \/ Look(k) \/ LockShard(k) \/ NextShard(k)
    \/ ReplayDone(k)
    \/ \E t \in Tasks : Append(k, t)

Next ==
    \/ \E d \in Daemons : Boot(d) \/ Booting(d) \/ Serve(d)
    \/ LegacyStart
    \/ \E e \in Engines :
           \/ Exit(e)
           \/ \E t \in Tasks : Enqueue(e, t)
           \/ \E p \in serves[e] :
                  \/ Compact(e, p)
                  \/ \E t \in Tasks : Succeed(e, p, t) \/ Retry(e, p, t) \/ GiveUp(e, p, t)
    \/ \E k \in Tools :
           AddShards(k) \/ Validate(k) \/ Replay(k) \/ Commanding(k) \/ ToolDies(k)

Spec == Init /\ [][Next]_vars

-----------------------------------------------------------------------------
(* Properties.                                                             *)

\* Type invariant of the state above.  A cache has no deleted records.
TypeOK ==
    /\ membership \in Shards \union {NoFile}
    /\ memLock \in Daemons \union Tools \union {Nobody}
    /\ dirs \subseteq Shards
    /\ log \in [Places -> Log \union {NoFile}]
    /\ lockFile \in [Places -> Processes \union {Nobody, NoFile}]
    /\ daemon \in [Daemons -> [pc : {"off", "resolve", "adopt", "moved", "init", "up"},
                               layout : {"sharded", "legacy", "fresh"}]]
    /\ serves \in [Engines -> SUBSET Places]
    /\ cache \in [Engines -> [Places ->
                     [Tasks -> [deleted : {FALSE}, error : BOOLEAN] \union {NoRecord}]]]
    /\ tool \in [Tools -> [step : {"idle", "dirs", "look", "lock", "append"},
                           at : 0 .. Width, count : Shards, found : SUBSET Tasks]]
    /\ used \in [boots : 0 .. MaxBoots, commands : 0 .. MaxCommands]
    /\ report \in {"none", "ok", "degraded"}
    /\ fate \in [Tasks -> {"none", "pending", "done", "recovered", "exhausted"}]
    /\ sender \in [Tasks -> Engines \union {Nobody}]

\* Where the next boot would look for tasks.
Served == IF membership # NoFile THEN {s \in Shards : s < membership}
          ELSE IF log[Root] # NoFile THEN {Root} ELSE {0}

\* A job that was accepted and has no verdict is in a log that the next boot
\* will serve, whatever step of a migration, an add-shards or a replay the
\* processes died in.
NeverLost ==
    \A t \in Tasks : fate[t] = "pending" => \E p \in Served : t \in Live(log[p])

\* Two containers cannot process the same queue concurrently: of the engines
\* that run, one at most has a task to execute, and one log at most; also when
\* a client sends a job twice to the daemon that accepted it.
OneEnginePerTask ==
    \A d, e \in Engines : \A p \in serves[d], q \in serves[e] :
        (\E t \in Tasks : cache[d][p][t] # NoRecord /\ cache[e][q][t] # NoRecord)
            => d = e /\ p = q

\* What an engine works with is what its log says: neither a migration nor a
\* replay writes the log of a shard while an engine serves it, so a record that
\* replay appends is not missed by an engine until its next start.
EngineSeesLog ==
    \A e \in Engines : \A p \in serves[e] :
        cache[e][p] = IF log[p] = NoFile THEN EmptyLog ELSE Rebuilt(log[p])

\* The shard count is decided once and only add-shards changes it, upwards: a
\* shard that has been served stays a shard of the queue.
ShardsOnlyGrow == [][membership # NoFile => membership' >= membership]_membership

\* Replay runs no job again that has never failed.
ReplayRevivesOnlyFailed ==
    [][\A k \in Tools, t \in Tasks :
           Append(k, t) => fate[t] \in {"recovered", "exhausted"}]_vars

\* validate reads the count before the directories, add-shards makes the
\* directories before the count: a queue found healthy has the directory of
\* every shard that it has by then.
OkIsCurrent ==
    [][(\E k \in Tools : Look(k)) /\ report' = "ok" =>
           {s \in Shards : s < membership} \subseteq dirs]_vars

-----------------------------------------------------------------------------
(* What comments and tests say, and the code does not do.                  *)

\* "recover failed tasks": replay runs again only what has exhausted its
\* attempts.
ReplayRevivesOnlyExhausted ==
    [][\A k \in Tools, t \in Tasks : Append(k, t) => fate[t] = "exhausted"]_vars

\* "recover failed tasks": when replay leaves a shard, no tombstone of a task
\* that has exhausted its attempts is left in its log.
ReplayFindsExhausted ==
    [][\A k \in Tools, t \in Tasks :
           (NextShard(k) /\ fate[t] = "exhausted") => log[tool[k].at][t] = NoRecord]_vars

\* "moved atomically (rename) so no data can be lost mid-boot": the rename of
\* the log replaces no log with tasks in it.
MoveLosesNothing == [][\A d \in Daemons : MoveLog(d) => Live(log[0]) \subseteq Live(log'[0])]_vars

\* "if we can take it here, no legacy daemon is active": none is while the log
\* is being moved.
NoLegacyWhileMoving ==
    \A d \in Daemons : daemon[d].pc \in {"adopt", "moved"} => serves[Legacy] = {}

=============================================================================
