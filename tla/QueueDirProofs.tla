--------------------------- MODULE QueueDirProofs ---------------------------
(***************************************************************************)
(* Machine-checked facts about a queue directory, for any daemons, tools   *)
(* and tasks, and any number of shards, boots and commands.                *)
(***************************************************************************)
EXTENDS QueueDir, FiniteSetTheorems, TLAPS

-----------------------------------------------------------------------------
(* Who holds .membership.lock, and what the others have seen.              *)

Adopting(d) == daemon[d].pc \in {"adopt", "moved", "init"}

\* The lock is held during an adoption, which finds no membership and makes
\* one; shards are served by daemons that have found or made it.
Booted(d) ==
    /\ Adopting(d) <=> memLock = d
    /\ Adopting(d) => membership = NoFile
    /\ daemon[d].pc = "up" => membership # NoFile
    /\ serves[d] # {} => daemon[d].pc = "up"
    /\ serves[d] \subseteq Shards

\* The lock is held during an add-shards; every command has seen a membership.
Commanded(k) ==
    /\ tool[k].step = "dirs" <=> memLock = k
    /\ tool[k].step # "idle" => membership # NoFile
    /\ tool[k].step = "append" => tool[k].at < tool[k].count

Basic ==
    /\ TypeOK
    /\ \A d \in Daemons : Booted(d)
    /\ \A k \in Tools : Commanded(k)

-----------------------------------------------------------------------------
(* What the operators on logs return.                                      *)

LEMMA Constants ==
    /\ Width \in Nat /\ Width > 1 /\ 0 \in Shards /\ 1 \in Shards /\ Shards \subseteq Nat
    /\ NoFile \notin Shards /\ Root \notin Shards
    /\ Added \in Nat /\ MaxBoots \in Nat /\ MaxCommands \in Nat
    /\ \A d \in Daemons : Requested[d] \in Shards /\ d # Nobody /\ d # NoFile /\ d # Legacy
    /\ \A d \in Daemons, k \in Tools : d # k
    /\ \A k \in Tools : k # Nobody /\ k # NoFile /\ k # Legacy
    /\ Legacy # Nobody /\ Legacy # NoFile
  BY WidthAssumption, InputAssumption, BoundAssumption, ProcessAssumption, ValueAssumption
  DEF Shards, Processes, Engines

LEMMA Records == Fresh \in Record /\ EmptyLog \in Log
  BY DEF Fresh, Record, EmptyLog, Log

CacheType == [Tasks -> [deleted : {FALSE}, error : BOOLEAN] \union {NoRecord}]

\* A log that is read has no deleted records.
LEMMA RebuiltType ==
    ASSUME NEW l \in Log \union {NoFile}
    PROVE  Rebuilt(l) \in Log /\ Rebuilt(l) \in CacheType
  BY DEF Rebuilt, Live, Log, Record, CacheType

LEMMA EmptyLogType == EmptyLog \in Log /\ EmptyLog \in CacheType
  BY DEF EmptyLog, Log, CacheType

LEMMA WrittenType ==
    ASSUME TypeOK, NEW p, NEW t \in Tasks, NEW r \in Record, Written(p, t, r)
    PROVE  log' \in [Places -> Log \union {NoFile}]
  <1> DEFINE base(l) == IF l = NoFile THEN EmptyLog ELSE l
  <1>1. \A x \in Places : base(log[x]) \in Log BY EmptyLogType DEF TypeOK
  <1>2. \A x \in Places : [base(log[x]) EXCEPT ![t] = r] \in Log BY <1>1 DEF Log
  <1>3. log' = [log EXCEPT ![p] = [base(log[p]) EXCEPT ![t] = r]] BY DEF Written
  <1> QED BY <1>2, <1>3 DEF TypeOK

LEMMA SaveType ==
    ASSUME TypeOK, NEW e, NEW p, NEW t \in Tasks, NEW r \in Record, Save(e, p, t, r)
    PROVE  /\ log' \in [Places -> Log \union {NoFile}]
           /\ cache' \in [Engines -> [Places -> CacheType]]
           /\ UNCHANGED <<membership, memLock, dirs, lockFile, daemon, serves, cli>>
  <1>1. log' \in [Places -> Log \union {NoFile}] BY WrittenType DEF Save
  <1>2. cache' \in [Engines -> [Places -> CacheType]]
    <2> DEFINE v == IF r.deleted THEN NoRecord ELSE r
    <2>1. v \in [deleted : {FALSE}, error : BOOLEAN] \union {NoRecord} BY DEF Record
    <2>2. cache' = [cache EXCEPT ![e][p][t] = v] BY DEF Save
    <2>3. cache \in [Engines -> [Places -> CacheType]] BY DEF TypeOK, CacheType
    <2> HIDE DEF v
    <2>4. \A x \in CacheType : [x EXCEPT ![t] = v] \in CacheType BY <2>1 DEF CacheType
    <2> QED BY <2>2, <2>3, <2>4
  <1> QED BY <1>1, <1>2 DEF Save

-----------------------------------------------------------------------------
(* The steps keep the types and what is known of the lock.                 *)

\* A process at work on its logs.
LEMMA WorkStep ==
    ASSUME Basic,
           UNCHANGED <<membership, memLock, dirs, lockFile, daemon, serves, cli>>,
           log' \in [Places -> Log \union {NoFile}],
           cache' \in [Engines -> [Places -> CacheType]],
           fate' \in [Tasks -> {"none", "pending", "done", "recovered", "exhausted"}],
           sender' \in [Tasks -> Engines \union {Nobody}]
    PROVE  Basic'
  <1>1. TypeOK' BY DEF Basic, TypeOK, CacheType, cli
  <1>2. \A d \in Daemons : Booted(d)' BY DEF Basic, Booted, Adopting
  <1>3. \A k \in Tools : Commanded(k)' BY DEF Basic, Commanded, cli
  <1> QED BY <1>1, <1>2, <1>3 DEF Basic

\* What an engine has in its cache is a record.
LEMMA Cached ==
    ASSUME TypeOK, NEW e \in Engines, NEW p \in serves[e], NEW t \in Tasks,
           cache[e][p][t] # NoRecord
    PROVE  /\ p \in Places
           /\ cache[e][p][t] \in Record /\ ~cache[e][p][t].deleted
           /\ Tombstone(cache[e][p][t]) \in Record /\ Tombstone(cache[e][p][t]).deleted
           /\ Tombstone(cache[e][p][t]).error = cache[e][p][t].error
           /\ [cache[e][p][t] EXCEPT !.error = TRUE] \in Record
           /\ ~[cache[e][p][t] EXCEPT !.error = TRUE].deleted
           /\ [cache[e][p][t] EXCEPT !.error = TRUE].error
  <1>1. p \in Places BY DEF TypeOK
  <1>2. cache[e][p] \in CacheType
    <2>1. cache \in [Engines -> [Places -> CacheType]] BY DEF TypeOK, CacheType
    <2> QED BY <1>1, <2>1
  <1>3. cache[e][p][t] \in [deleted : {FALSE}, error : BOOLEAN] BY <1>2 DEF CacheType
  <1> QED BY <1>1, <1>3 DEF Record, Tombstone

LEMMA EnqueueStep ==
    ASSUME Basic, NEW e \in Engines, NEW t \in Tasks, Enqueue(e, t)
    PROVE  Basic'
  <1>1. fate' \in [Tasks -> {"none", "pending", "done", "recovered", "exhausted"}]
        /\ sender' \in [Tasks -> Engines \union {Nobody}]
    BY DEF Enqueue, Basic, TypeOK
  <1> QED BY <1>1, SaveType, Records, WorkStep DEF Enqueue, Basic

LEMMA VerdictStep ==
    ASSUME Basic, NEW e \in Engines, NEW p \in serves[e], NEW t \in Tasks,
           Succeed(e, p, t) \/ Retry(e, p, t) \/ GiveUp(e, p, t)
    PROVE  Basic'
  <1>1. fate' \in [Tasks -> {"none", "pending", "done", "recovered", "exhausted"}]
        /\ sender' \in [Tasks -> Engines \union {Nobody}]
    BY DEF Succeed, Retry, GiveUp, Basic, TypeOK
  <1>2. TypeOK BY DEF Basic
  <1>3. \E r \in Record : Save(e, p, t, r)
    BY <1>2, Cached DEF Succeed, Retry, GiveUp
  <1> QED BY <1>1, <1>2, <1>3, SaveType, WorkStep

LEMMA CompactStep ==
    ASSUME Basic, NEW e \in Engines, NEW p \in serves[e], Compact(e, p)
    PROVE  Basic'
  <1>1. TypeOK /\ p \in Places BY DEF Basic, TypeOK
  <1>2. log[p] \in Log \union {NoFile} BY <1>1 DEF TypeOK
  <1>3. log' \in [Places -> Log \union {NoFile}]
    BY <1>1, <1>2, RebuiltType DEF Compact, TypeOK
  <1>4. cache' \in [Engines -> [Places -> CacheType]]
    BY <1>1, <1>2, RebuiltType DEF Compact, TypeOK, CacheType
  <1>5. UNCHANGED <<membership, memLock, dirs, lockFile, daemon, serves, fate, sender, cli>>
    BY DEF Compact
  <1> QED BY <1>1, <1>3, <1>4, <1>5, WorkStep DEF TypeOK

Pcs == {"off", "resolve", "adopt", "moved", "init", "up"}
BootType == [pc : Pcs, layout : {"sharded", "legacy", "fresh"}]

LEMMA GoesType ==
    ASSUME TypeOK, NEW d \in Daemons, NEW pc \in Pcs, Goes(d, pc)
    PROVE  /\ daemon' \in [Daemons -> BootType]
           /\ daemon'[d].pc = pc /\ daemon'[d].layout = daemon[d].layout
           /\ \A c \in Daemons \ {d} : daemon'[c] = daemon[c]
  <1>1. daemon \in [Daemons -> BootType] BY DEF TypeOK, BootType, Pcs
  <1>2. [daemon[d] EXCEPT !.pc = pc] \in BootType BY <1>1 DEF BootType
  <1>3. daemon' = [daemon EXCEPT ![d] = [daemon[d] EXCEPT !.pc = pc]] BY <1>1 DEF Goes
  <1> QED BY <1>1, <1>2, <1>3 DEF BootType

\* A boot up to the membership, and through an adoption.
LEMMA BootStep ==
    ASSUME Basic, NEW d \in Daemons, Boot(d) \/ Booting(d)
    PROVE  Basic'
  <1>1. TypeOK'
    <2>1. CASE Boot(d)
      <3>1. Layout \in {"sharded", "legacy", "fresh"} BY DEF Layout
      <3>2. daemon' \in [Daemons -> BootType] BY <2>1, <3>1 DEF Boot, Basic, TypeOK, BootType, Pcs
      <3>3. used' \in [boots : 0 .. MaxBoots, commands : 0 .. MaxCommands]
        BY <2>1, Constants DEF Boot, Basic, TypeOK
      <3> QED BY <2>1, <3>2, <3>3 DEF Boot, Basic, TypeOK, work, BootType, Pcs
    <2>2. CASE Join(d) \/ InitFresh(d) \/ Probe(d) \/ MoveLog(d) \/ MoveLock(d) \/ InitAdopted(d)
      <3>1. \E pc \in Pcs : Goes(d, pc)
        BY <2>2 DEF Pcs, Join, InitFresh, Probe, MoveLog, MoveLock, InitAdopted
      <3>2. daemon' \in [Daemons -> BootType] BY <3>1, GoesType DEF Basic
      <3>3. 0 \in Places /\ Root \in Places BY Constants DEF Places
      <3>4. log' \in [Places -> Log \union {NoFile}]
        BY <2>2, <3>3 DEF Join, InitFresh, Probe, MoveLog, MoveLock, InitAdopted, Basic, TypeOK
      <3>5. lockFile' \in [Places -> Processes \union {Nobody, NoFile}]
        BY <2>2, <3>3 DEF Join, InitFresh, Probe, MoveLog, MoveLock, InitAdopted, Basic, TypeOK
      <3>6. membership' \in Shards \union {NoFile} /\ dirs' \subseteq Shards
        BY <2>2, Constants
        DEF Join, InitFresh, Probe, MoveLog, MoveLock, InitAdopted, Basic, TypeOK
      <3>7. memLock' \in Daemons \union Tools \union {Nobody}
        BY <2>2 DEF Join, InitFresh, Probe, MoveLog, MoveLock, InitAdopted, Basic, TypeOK
      <3>8. UNCHANGED <<work, cli>>
        BY <2>2 DEF Join, InitFresh, Probe, MoveLog, MoveLock, InitAdopted
      <3> QED BY <3>2, <3>4, <3>5, <3>6, <3>7, <3>8 DEF Basic, TypeOK, work, cli, BootType, Pcs
    <2> QED BY <2>1, <2>2 DEF Booting
  <1>2. ASSUME NEW c \in Daemons PROVE Booted(c)'
    <2>1. CASE Boot(d)
      BY <2>1, Constants DEF Boot, Basic, TypeOK, work, Booted, Adopting
    <2>2. CASE Join(d) \/ InitFresh(d)
      <3>1. Goes(d, "up") /\ memLock = Nobody /\ membership' # NoFile /\ UNCHANGED <<memLock, work>>
        BY <2>2, Constants DEF Join, InitFresh
      <3>2. TypeOK /\ "up" \in Pcs /\ Booted(c) BY DEF Basic, Pcs
      <3>3. IF c = d THEN daemon'[c].pc = "up" ELSE daemon'[c] = daemon[c]
        BY <3>1, <3>2, GoesType
      <3>4. c # Nobody BY Constants
      <3> QED BY <3>1, <3>2, <3>3, <3>4 DEF Booted, Adopting, work
    <2>3. CASE Probe(d)
      BY <2>3, Constants DEF Probe, Goes, Basic, TypeOK, work, Booted, Adopting
    <2>4. CASE MoveLog(d) \/ MoveLock(d)
      BY <2>4, Constants DEF MoveLog, MoveLock, Goes, Basic, TypeOK, work, Booted, Adopting
    <2>5. CASE InitAdopted(d)
      BY <2>5, Constants DEF InitAdopted, Goes, Basic, TypeOK, work, Booted, Adopting
    <2> QED BY <2>1, <2>2, <2>3, <2>4, <2>5 DEF Booting
  <1>3. ASSUME NEW k \in Tools PROVE Commanded(k)'
    <2>1. CASE Boot(d) \/ Join(d) \/ InitFresh(d) \/ Probe(d)
      BY <2>1, Constants
      DEF Boot, Join, InitFresh, Probe, Goes, Basic, TypeOK, cli, Booted, Commanded, Adopting
    <2>2. CASE MoveLog(d) \/ MoveLock(d) \/ InitAdopted(d)
      BY <2>2, Constants
      DEF MoveLog, MoveLock, InitAdopted, Goes, Basic, TypeOK, cli, Booted, Commanded, Adopting
    <2> QED BY <2>1, <2>2 DEF Booting
  <1> QED BY <1>1, <1>2, <1>3 DEF Basic

\* An engine that opens shards, or the root, has read their logs.
LEMMA OpenedType ==
    ASSUME TypeOK, NEW e \in Engines, NEW S \in SUBSET Places, Opened(e, S)
    PROVE  /\ lockFile' \in [Places -> Processes \union {Nobody, NoFile}]
           /\ serves' \in [Engines -> SUBSET Places]
           /\ cache' \in [Engines -> [Places -> CacheType]]
  <1>1. \A p \in Places : log[p] \in Log \union {NoFile} BY DEF TypeOK
  <1>2. [p \in Places |-> IF p \in S THEN Rebuilt(log[p]) ELSE EmptyLog] \in [Places -> CacheType]
    BY <1>1, RebuiltType, EmptyLogType
  <1> QED BY <1>2 DEF Opened, TypeOK, Processes, CacheType

LEMMA OpenStep ==
    ASSUME Basic, (\E d \in Daemons : Serve(d)) \/ LegacyStart
    PROVE  Basic'
  <1>1. PICK e \in Engines, S \in SUBSET Places :
           /\ Opened(e, S)
           /\ \/ e \in Daemons /\ daemon[e].pc = "up" /\ S \subseteq Shards
              \/ e = Legacy
    <2>1. CASE LegacyStart BY <2>1 DEF LegacyStart, Engines, Places
    <2>2. CASE \E d \in Daemons : Serve(d) BY <2>2 DEF Serve, Engines, Places
    <2> QED BY <2>1, <2>2
  <1>2. /\ UNCHANGED <<membership, memLock, log, daemon, fate, sender, cli>>
        /\ dirs' \subseteq Shards
    BY DEF Serve, LegacyStart, Basic, TypeOK
  <1>3. TypeOK' BY <1>1, <1>2, OpenedType DEF Basic, TypeOK, CacheType, cli
  <1>4. \A d \in Daemons : Booted(d)'
    BY <1>1, <1>2, Constants DEF Basic, TypeOK, Booted, Adopting, Opened
  <1>5. \A k \in Tools : Commanded(k)' BY <1>2 DEF Basic, Commanded, cli
  <1> QED BY <1>3, <1>4, <1>5 DEF Basic

LEMMA ExitStep ==
    ASSUME Basic, NEW e \in Engines, Exit(e)
    PROVE  Basic'
  <1>1. /\ lockFile' \in [Places -> Processes \union {Nobody, NoFile}]
        /\ memLock' \in Daemons \union Tools \union {Nobody}
        /\ serves' \in [Engines -> SUBSET Places]
        /\ sender' \in [Tasks -> Engines \union {Nobody}]
        /\ daemon' \in [Daemons -> [pc : {"off", "resolve", "adopt", "moved", "init", "up"},
                                    layout : {"sharded", "legacy", "fresh"}]]
    BY DEF Exit, LocksWithout, MemLockWithout, Off, Basic, TypeOK
  <1>2. cache' \in [Engines -> [Places -> CacheType]]
    BY EmptyLogType DEF Exit, Basic, TypeOK, CacheType
  <1>3. TypeOK' BY <1>1, <1>2 DEF Exit, Basic, TypeOK, CacheType, cli
  <1>4. \A d \in Daemons : Booted(d)'
    BY Constants DEF Exit, MemLockWithout, Off, Basic, TypeOK, Booted, Adopting
  <1>5. \A k \in Tools : Commanded(k)'
    BY Constants DEF Exit, MemLockWithout, Basic, TypeOK, Commanded, cli, Engines
  <1> QED BY <1>3, <1>4, <1>5 DEF Basic


ToolType == [step : {"idle", "dirs", "look", "lock", "append"},
             at : 0 .. Width, count : Shards, found : SUBSET Tasks]

\* What a step of one command has to show.
LEMMA CommandStep ==
    ASSUME Basic, NEW k \in Tools, NEW r \in ToolType,
           tool' = [tool EXCEPT ![k] = r],
           UNCHANGED <<daemon, serves, cache, sender>>,
           membership' \in Shards \union {NoFile},
           membership # NoFile => membership' # NoFile,
           membership' # membership => memLock = k,
           \/ memLock' = memLock
           \/ memLock = Nobody /\ memLock' = k
           \/ memLock = k /\ memLock' = Nobody,
           r.step = "dirs" <=> memLock' = k,
           r.step # "idle" => membership' # NoFile,
           r.step = "append" => r.at < r.count,
           dirs' \subseteq Shards,
           log' \in [Places -> Log \union {NoFile}],
           lockFile' \in [Places -> Processes \union {Nobody, NoFile}],
           used' \in [boots : 0 .. MaxBoots, commands : 0 .. MaxCommands],
           report' \in {"none", "ok", "degraded"},
           fate' \in [Tasks -> {"none", "pending", "done", "recovered", "exhausted"}]
    PROVE  Basic'
  <1>1. tool \in [Tools -> ToolType] BY DEF Basic, TypeOK, ToolType
  <1>2. tool' \in [Tools -> ToolType] /\ tool'[k] = r
        /\ \A j \in Tools \ {k} : tool'[j] = tool[j]
    BY <1>1
  <1>3. TypeOK' BY <1>2 DEF Basic, TypeOK, ToolType
  <1>4. \A d \in Daemons : Booted(d)'
    BY Constants DEF Basic, TypeOK, Booted, Adopting
  <1>5. \A j \in Tools : Commanded(j)'
    BY <1>2, Constants DEF Basic, TypeOK, Commanded
  <1> QED BY <1>3, <1>4, <1>5 DEF Basic

\* A command that starts.
LEMMA Started ==
    ASSUME Basic, NEW k \in Tools, AddShards(k) \/ Validate(k) \/ Replay(k)
    PROVE  \E r \in ToolType :
              /\ tool' = [tool EXCEPT ![k] = r]
              /\ \/ r.step = "dirs" /\ memLock' = k /\ r.at = membership
                 \/ r.step \in {"look", "lock"} /\ memLock' = memLock /\ r.count = membership
              /\ r.found = {}
  <1>1. membership # NoFile /\ membership \in Shards
    BY DEF AddShards, Validate, Replay, Start, Basic, TypeOK
  <1>2. CASE AddShards(k)
    <2> DEFINE r == [step |-> "dirs", at |-> membership,
                     count |-> (membership + Added) % Width, found |-> {}]
    <2>1. Start(k, "add-shards", "dirs", (membership + Added) % Width) /\ memLock' = k
      BY <1>2 DEF AddShards
    <2>2. tool' = [tool EXCEPT ![k] = r] BY <2>1 DEF Start
    <2>3. r \in ToolType BY <1>1, Constants DEF ToolType, Shards
    <2> QED BY <2>1, <2>2, <2>3
  <1>3. CASE Validate(k) \/ Replay(k)
    <2>1. PICK step \in {"look", "lock"}, c \in {"validate", "replay"} :
             Start(k, c, step, membership) /\ memLock' = memLock
      BY <1>3 DEF Validate, Replay
    <2> DEFINE r == [step |-> step, at |-> 0, count |-> membership, found |-> {}]
    <2>2. tool' = [tool EXCEPT ![k] = r] BY <2>1 DEF Start
    <2>3. r \in ToolType BY <1>1, Constants DEF ToolType, Shards
    <2> QED BY <2>1, <2>2, <2>3
  <1> QED BY <1>2, <1>3

LEMMA StartFacts ==
    ASSUME NEW k \in Tools, AddShards(k) \/ Validate(k) \/ Replay(k)
    PROVE  /\ tool[k].step = "idle" /\ memLock = Nobody /\ membership # NoFile
           /\ used.commands < MaxCommands
           /\ used' = [used EXCEPT !.commands = @ + 1]
           /\ UNCHANGED <<membership, dirs, log, lockFile, daemon, serves, cache, fate, sender,
                          report>>
  BY DEF AddShards, Validate, Replay, Start, work

LEMMA StartStep ==
    ASSUME Basic, NEW k \in Tools, AddShards(k) \/ Validate(k) \/ Replay(k)
    PROVE  Basic'
  <1>1. PICK r \in ToolType :
           /\ tool' = [tool EXCEPT ![k] = r]
           /\ \/ r.step = "dirs" /\ memLock' = k
              \/ r.step \in {"look", "lock"} /\ memLock' = memLock
    BY Started
  <1>2. used' \in [boots : 0 .. MaxBoots, commands : 0 .. MaxCommands]
    BY StartFacts, Constants DEF Basic, TypeOK
  <1>3. r.step = "dirs" <=> memLock' = k BY <1>1, StartFacts, Constants
  <1>4. r.step # "append" BY <1>1
  <1> QED BY <1>1, <1>2, <1>3, <1>4, StartFacts, CommandStep DEF Basic, TypeOK

LEMMA ToolFacts ==
    ASSUME Basic, NEW k \in Tools
    PROVE  /\ tool[k] \in ToolType /\ Idle \in ToolType /\ Commanded(k)
           /\ membership \in Shards \union {NoFile} /\ dirs \subseteq Shards
           /\ log \in [Places -> Log \union {NoFile}]
           /\ lockFile \in [Places -> Processes \union {Nobody, NoFile}]
           /\ used \in [boots : 0 .. MaxBoots, commands : 0 .. MaxCommands]
           /\ report \in {"none", "ok", "degraded"}
           /\ fate \in [Tasks -> {"none", "pending", "done", "recovered", "exhausted"}]
           /\ LocksWithout(k) \in [Places -> Processes \union {Nobody, NoFile}]
  <1>1. Idle \in ToolType BY Constants DEF Idle, ToolType
  <1> QED BY <1>1 DEF Basic, TypeOK, ToolType, LocksWithout

LEMMA CommandingStep ==
    ASSUME Basic, NEW k \in Tools, Commanding(k) \/ ToolDies(k)
    PROVE  Basic'
  <1> DEFINE p == tool[k]
  <1>0. /\ p \in ToolType /\ Idle \in ToolType /\ Idle.step = "idle"
        /\ p.step = "dirs" <=> memLock = k
        /\ p.step # "idle" => membership # NoFile
        /\ k # Nobody
    BY ToolFacts, Constants DEF Commanded, Idle
  <1>1. CASE CreateDir(k)
    <2> DEFINE r == [p EXCEPT !.at = @ + 1]
    <2>1. tool' = [tool EXCEPT ![k] = r] BY <1>1, ToolFacts DEF CreateDir
    <2>2. p.at \in Shards /\ p.at + 1 \in 0 .. Width
      BY <1>0, <1>1, Constants DEF CreateDir, ToolType, Shards
    <2>3. r \in ToolType BY <1>0, <2>2 DEF ToolType
    <2>4. r.step = "dirs" BY <1>0, <1>1 DEF CreateDir, ToolType
    <2>5. dirs' \subseteq Shards BY <1>1, <2>2, ToolFacts DEF CreateDir
    <2> HIDE DEF r
    <2> QED BY <1>0, <1>1, <2>1, <2>3, <2>4, <2>5, ToolFacts, CommandStep DEF CreateDir, work
  <1>2. CASE WriteCount(k)
    <2>1. membership' \in Shards BY <1>0, <1>2 DEF WriteCount, ToolType
    <2> QED BY <1>0, <1>2, <2>1, ToolFacts, CommandStep, Constants DEF WriteCount, work
  <1>3. CASE Look(k)
    <2>1. report' \in {"none", "ok", "degraded"} BY <1>3 DEF Look
    <2>2. p.step = "look" /\ memLock # k BY <1>0, <1>3 DEF Look
    <2> QED BY <1>0, <1>3, <2>1, <2>2, ToolFacts, CommandStep DEF Look, work
  <1>4. CASE LockShard(k)
    <2> DEFINE s == p.at
    <2>1. s \in Shards /\ s < p.count /\ s + 1 \in 0 .. Width /\ s \in Places
      BY <1>0, <1>4, Constants DEF LockShard, ToolType, Shards, Places
    <2>2. dirs' \subseteq Shards BY <1>4, <2>1, ToolFacts DEF LockShard
    <2>3. log[s] = NoFile \/ log[s] \in Log BY <2>1, ToolFacts
    <2>4. lockFile' \in [Places -> Processes \union {Nobody, NoFile}]
      BY <1>4, <2>1, ToolFacts DEF LockShard, Processes
    <2>5. PICK r \in {Idle, [p EXCEPT !.at = s + 1],
                      [p EXCEPT !.step = "append", !.found = Failed(log[s])]} :
             tool' = [tool EXCEPT ![k] = r]
      <3>1. \/ tool' = [tool EXCEPT ![k] = Idle]
            \/ tool' = [tool EXCEPT ![k].at = s + 1]
            \/ tool' = [tool EXCEPT ![k].step = "append", ![k].found = Failed(log[s])]
        BY <1>4 DEF LockShard
      <3> QED BY <3>1, ToolFacts, ZenonT(30)
    <2>6. Failed(log[s]) \in SUBSET Tasks BY DEF Failed
    <2>7. r \in ToolType /\ r.step # "dirs" /\ (r.step = "append" => r.at < r.count)
      <3>1. CASE r = Idle BY <1>0, <3>1
      <3>2. CASE r = [p EXCEPT !.at = s + 1]
        BY <1>0, <1>4, <2>1, <3>2 DEF ToolType, LockShard
      <3>3. CASE r = [p EXCEPT !.step = "append", !.found = Failed(log[s])]
        BY <1>0, <2>1, <2>6, <3>3 DEF ToolType
      <3> QED BY <2>5, <3>1, <3>2, <3>3
    <2>8. p.step = "lock" /\ memLock # k /\ membership # NoFile
      BY <1>0, <1>4 DEF LockShard
    <2> QED BY <1>4, <2>2, <2>4, <2>5, <2>7, <2>8, ToolFacts, CommandStep DEF LockShard, work
  <1>5. CASE NextShard(k)
    <2> DEFINE r == [p EXCEPT !.step = "lock", !.at = @ + 1]
    <2>1. tool' = [tool EXCEPT ![k] = r] BY <1>5, ToolFacts DEF NextShard
    <2>2. p.at < p.count BY <1>5, ToolFacts DEF NextShard, Commanded
    <2>3. p.at + 1 \in 0 .. Width BY <1>0, <2>2, Constants DEF ToolType, Shards
    <2>4. r \in ToolType /\ r.step = "lock" BY <1>0, <2>3 DEF ToolType
    <2>5. memLock # k /\ membership # NoFile BY <1>0, <1>5 DEF NextShard
    <2> HIDE DEF r
    <2> QED BY <1>5, <2>1, <2>4, <2>5, ToolFacts, CommandStep DEF NextShard, work
  <1>6. CASE ReplayDone(k)
    <2>1. p.step = "lock" /\ memLock # k BY <1>0, <1>6 DEF ReplayDone
    <2> QED BY <1>0, <1>6, <2>1, ToolFacts, CommandStep DEF ReplayDone, work
  <1>7. CASE \E t \in Tasks : Append(k, t)
    <2>1. PICK t \in Tasks : Append(k, t) BY <1>7
    <2> DEFINE r == [p EXCEPT !.found = @ \ {t}]
    <2>2. tool' = [tool EXCEPT ![k] = r] BY <2>1, ToolFacts DEF Append
    <2>3. p.step = "append" /\ p.at < p.count /\ memLock # k /\ membership # NoFile
      BY <1>0, <2>1, ToolFacts DEF Append, Commanded
    <2>4. r \in ToolType /\ r.step = "append" /\ r.at < r.count BY <1>0, <2>3 DEF ToolType
    <2>5. log' \in [Places -> Log \union {NoFile}]
      BY <2>1, WrittenType, Records DEF Append, Basic
    <2>6. fate' \in [Tasks -> {"none", "pending", "done", "recovered", "exhausted"}]
      BY <2>1, ToolFacts DEF Append
    <2> HIDE DEF r
    <2> QED BY <2>1, <2>2, <2>3, <2>4, <2>5, <2>6, ToolFacts, CommandStep DEF Append
  <1>8. CASE ToolDies(k)
    <2>1. memLock' # k /\ (memLock' = memLock \/ (memLock = k /\ memLock' = Nobody))
      <3>1. memLock' = IF memLock = k THEN Nobody ELSE memLock
        BY <1>8 DEF ToolDies, MemLockWithout
      <3>2. k # Nobody BY Constants
      <3>3. CASE memLock = k BY <3>1, <3>2, <3>3
      <3>4. CASE memLock # k BY <3>1, <3>4
      <3> QED BY <3>3, <3>4
    <2> QED BY <1>0, <1>8, <2>1, ToolFacts, CommandStep DEF ToolDies, work
  <1> QED BY <1>1, <1>2, <1>3, <1>4, <1>5, <1>6, <1>7, <1>8 DEF Commanding

LEMMA BasicInit == Init => Basic
  <1> SUFFICES ASSUME Init PROVE Basic OBVIOUS
  <1>1. TypeOK
    <2>1. \A p \in Places : log[p] \in Log \union {NoFile} BY EmptyLogType DEF Init
    <2>2. log \in [Places -> Log \union {NoFile}] BY <2>1 DEF Init
    <2>3. lockFile \in [Places -> Processes \union {Nobody, NoFile}]
      BY DEF Init, Processes, Engines
    <2>4. serves \in [Engines -> SUBSET Places] BY DEF Init, Places
    <2>5. cache \in [Engines -> [Places -> CacheType]] BY EmptyLogType DEF Init
    <2>6. tool \in [Tools -> ToolType]
      <3>1. Idle \in ToolType BY Constants DEF Idle, ToolType
      <3> QED BY <3>1 DEF Init
    <2>7. used \in [boots : 0 .. MaxBoots, commands : 0 .. MaxCommands]
      BY Constants DEF Init
    <2>8. daemon \in [Daemons -> BootType] BY DEF Init, Off, BootType, Pcs
    <2>9. /\ membership \in Shards \union {NoFile} /\ dirs \subseteq Shards
          /\ memLock \in Daemons \union Tools \union {Nobody}
          /\ report \in {"none", "ok", "degraded"}
          /\ fate \in [Tasks -> {"none", "pending", "done", "recovered", "exhausted"}]
          /\ sender \in [Tasks -> Engines \union {Nobody}]
      BY DEF Init
    <2> QED BY <2>2, <2>3, <2>4, <2>5, <2>6, <2>7, <2>8, <2>9
            DEF TypeOK, CacheType, ToolType, BootType, Pcs
  <1>2. \A d \in Daemons : Booted(d) BY Constants DEF Init, Booted, Adopting, Off
  <1>3. \A k \in Tools : Commanded(k) BY Constants DEF Init, Commanded, Idle
  <1> QED BY <1>1, <1>2, <1>3 DEF Basic

LEMMA BasicStep == Basic /\ [Next]_vars => Basic'
  <1> SUFFICES ASSUME Basic, [Next]_vars PROVE Basic' OBVIOUS
  <1>1. CASE UNCHANGED vars
    BY <1>1 DEF vars, Basic, TypeOK, Booted, Commanded, Adopting
  <1>2. CASE Next
    BY <1>2, BootStep, OpenStep, ExitStep, EnqueueStep, CompactStep, VerdictStep, StartStep,
       CommandingStep DEF Next
  <1> QED BY <1>1, <1>2

LEMMA BasicCorrect == Spec => []Basic
  BY BasicInit, BasicStep, PTL DEF Spec

THEOREM TypeCorrect == Spec => []TypeOK
  <1>1. Basic => TypeOK BY DEF Basic
  <1> QED BY BasicCorrect, <1>1, PTL

-----------------------------------------------------------------------------
(* Locks and logs: no one writes a log while an engine serves it.  Where    *)
(* the previous version is not started again beside a migration, a place   *)
(* is held by the process that works on it.                                *)

NoDowngrade == "downgrade" \notin Faults

Flocks ==
    /\ \A e \in Engines, p \in Places : lockFile[p] = e <=> p \in serves[e]
    /\ \A k \in Tools, p \in Places :
          lockFile[p] = k <=> tool[k].step = "append" /\ tool[k].at = p
    /\ serves[Legacy] \subseteq {Root}
    /\ (\E d \in Daemons : Adopting(d)) => serves[Legacy] = {}

\* While no membership has been made, no shard is locked.
LEMMA NoneLocked ==
    ASSUME Basic, Flocks, membership = NoFile
    PROVE  /\ \A d \in Daemons : serves[d] = {}
           /\ \A k \in Tools : tool[k].step = "idle"
           /\ \A s \in Shards : Lockable(s)
  <1>1. \A d \in Daemons : serves[d] = {} BY DEF Basic, Booted
  <1>2. \A k \in Tools : tool[k].step = "idle" BY DEF Basic, Commanded
  <1>3. ASSUME NEW s \in Shards PROVE Lockable(s)
    <2>1. lockFile[s] \in Engines \union Tools \union {Nobody, NoFile}
      BY DEF Basic, TypeOK, Places, Processes
    <2>2. \A d \in Daemons : lockFile[s] # d BY <1>1 DEF Flocks, Places, Engines
    <2>3. lockFile[s] # Legacy BY Constants DEF Flocks, Places, Engines
    <2>4. \A k \in Tools : lockFile[s] # k BY <1>2 DEF Flocks, Places
    <2> QED BY <2>1, <2>2, <2>3, <2>4 DEF Lockable, Engines
  <1> QED BY <1>1, <1>2, <1>3

\* A place that can be locked is nobody's.
LEMMA LockableFacts ==
    ASSUME Basic, Flocks, NEW p \in Places, Lockable(p)
    PROVE  /\ \A e \in Engines : p \notin serves[e]
           /\ \A k \in Tools : ~(tool[k].step = "append" /\ tool[k].at = p)
  <1>1. \A e \in Engines : e # Nobody /\ e # NoFile BY Constants DEF Engines
  <1> QED BY <1>1, Constants DEF Flocks, Lockable

LEMMA FlocksInit == Init => Flocks
  <1> SUFFICES ASSUME Init PROVE Flocks OBVIOUS
  <1>1. ASSUME NEW e \in Engines, NEW p \in Places
        PROVE  lockFile[p] = e <=> p \in serves[e]
    <2>1. CASE e = Legacy
      BY <2>1, Constants DEF Init, Places, Engines
    <2>2. CASE e \in Daemons
      BY <2>2, Constants DEF Init, Places, Engines
    <2> QED BY <2>1, <2>2 DEF Engines
  <1>2. \A k \in Tools, p \in Places :
          lockFile[p] = k <=> tool[k].step = "append" /\ tool[k].at = p
    BY Constants DEF Init, Idle
  <1>3. serves[Legacy] \subseteq {Root} BY DEF Init, Engines
  <1>4. ~ \E d \in Daemons : Adopting(d) BY DEF Init, Adopting, Off
  <1> QED BY <1>1, <1>2, <1>3, <1>4 DEF Flocks

LEMMA FlocksBoot ==
    ASSUME Basic, Flocks, NEW d \in Daemons, Boot(d) \/ Booting(d)
    PROVE  Flocks'
  <1>1. UNCHANGED <<serves, tool>>
    BY DEF Boot, Booting, Join, InitFresh, Probe, MoveLog, MoveLock, InitAdopted, work, cli
  <1>2. (\E c \in Daemons : Adopting(c)') => serves[Legacy] = {}
    <2>1. CASE \E c \in Daemons : Adopting(c) BY <2>1 DEF Flocks
    <2>2. CASE ~ \E c \in Daemons : Adopting(c)
      <3> SUFFICES ASSUME NEW c \in Daemons, Adopting(c)' PROVE serves[Legacy] = {} OBVIOUS
      <3>1. daemon \in [Daemons -> BootType] BY DEF Basic, TypeOK, BootType, Pcs
      <3>2. ~Adopting(c) /\ ~Adopting(d) BY <2>2
      <3>3. Probe(d) /\ Lockable(Root)
        <4>1. ~MoveLog(d) /\ ~MoveLock(d) /\ ~InitAdopted(d)
          BY <3>2 DEF MoveLog, MoveLock, InitAdopted, Adopting
        <4>2. ASSUME Boot(d) \/ Goes(d, "up") \/ Goes(d, "off") PROVE FALSE
          <5>1. daemon'[d].pc \in {"resolve", "up", "off"}
            BY <3>1, <4>2 DEF Boot, Goes, BootType
          <5>2. c # d => daemon'[c] = daemon[c] BY <3>1, <4>2 DEF Boot, Goes
          <5> QED BY <3>2, <5>1, <5>2 DEF Adopting
        <4> QED BY <4>1, <4>2 DEF Booting, Join, InitFresh, Probe
      <3>4. Root \in Places /\ Legacy \in Engines BY DEF Places, Engines
      <3> QED BY <3>3, <3>4, LockableFacts DEF Flocks
    <2> QED BY <2>1, <2>2
  <1>3. CASE ~MoveLock(d)
    <2>1. UNCHANGED lockFile
      BY <1>3 DEF Boot, Booting, Join, InitFresh, Probe, MoveLog, InitAdopted
    <2> QED BY <1>1, <1>2, <2>1 DEF Flocks
  <1>4. CASE MoveLock(d)
    <2>1. membership = NoFile /\ Adopting(d)
      BY <1>4 DEF MoveLock, Adopting, Basic, Booted
    <2>2. 0 \in Places /\ Root \in Places /\ 0 # Root BY Constants DEF Places
    <2>3. /\ \A e \in Engines : serves[e] = {}
          /\ \A k \in Tools : tool[k].step = "idle"
      BY <2>1, NoneLocked DEF Flocks, Engines
    <2>4. \A x \in Engines \union Tools, p \in Places : lockFile[p] # x BY <2>3 DEF Flocks
    <2>5. \A p \in Places : lockFile'[p] \in {lockFile[p], lockFile[Root], NoFile}
      BY <1>4, <2>2 DEF MoveLock, Basic, TypeOK
    <2>6. \A x \in Engines \union Tools : x # NoFile BY Constants DEF Engines
    <2>7. \A x \in Engines \union Tools, p \in Places : lockFile'[p] # x
      BY <2>2, <2>4, <2>5, <2>6
    <2> QED BY <1>1, <1>2, <2>3, <2>7 DEF Flocks
  <1> QED BY <1>3, <1>4

LEMMA FlocksOpen ==
    ASSUME NoDowngrade, Basic, Flocks, (\E d \in Daemons : Serve(d)) \/ LegacyStart
    PROVE  Flocks'
  <1>1. PICK e \in Engines, S \in SUBSET Places :
           /\ Opened(e, S)
           /\ \A p \in S : Lockable(p)
           /\ serves[e] = {}
           /\ \/ e \in Daemons
              \/ e = Legacy /\ S = {Root} /\ memLock = Nobody
    <2>1. CASE LegacyStart BY <2>1 DEF LegacyStart, NoDowngrade, Engines, Places
    <2>2. CASE \E d \in Daemons : Serve(d) BY <2>2 DEF Serve, Engines, Places
    <2> QED BY <2>1, <2>2
  <1>2. UNCHANGED <<daemon, tool>> BY DEF Serve, LegacyStart, cli
  <1>3. /\ \A p \in Places : lockFile'[p] = IF p \in S THEN e ELSE lockFile[p]
        /\ serves'[e] = S
        /\ \A c \in Engines \ {e} : serves'[c] = serves[c]
    BY <1>1 DEF Opened, Basic, TypeOK
  <1>4. \A c \in Engines, p \in Places : lockFile'[p] = c <=> p \in serves'[c]
    BY <1>1, <1>3, LockableFacts DEF Flocks
  <1>5. \A k \in Tools, p \in Places :
          lockFile'[p] = k <=> tool[k].step = "append" /\ tool[k].at = p
    <2>1. \A k \in Tools : k # e BY Constants DEF Engines
    <2> QED BY <1>1, <1>3, <2>1, LockableFacts DEF Flocks
  <1>6. Legacy \in Engines BY DEF Engines
  <1>7. CASE e \in Daemons
    <2>1. serves'[Legacy] = serves[Legacy] BY <1>3, <1>6, <1>7, Constants
    <2> QED BY <1>2, <1>4, <1>5, <2>1 DEF Flocks, Adopting
  <1>8. CASE e = Legacy /\ S = {Root} /\ memLock = Nobody
    <2>1. ~ \E d \in Daemons : Adopting(d) BY <1>8, Constants DEF Basic, Booted
    <2> QED BY <1>2, <1>3, <1>4, <1>5, <1>8, <2>1 DEF Flocks, Adopting
  <1> QED BY <1>1, <1>7, <1>8

LEMMA FlocksExit ==
    ASSUME Basic, Flocks, NEW e \in Engines, Exit(e)
    PROVE  Flocks'
  <1>1. /\ \A p \in Places : lockFile'[p] = IF lockFile[p] = e THEN Nobody ELSE lockFile[p]
        /\ serves'[e] = {} /\ \A c \in Engines \ {e} : serves'[c] = serves[c]
        /\ UNCHANGED tool
    BY DEF Exit, LocksWithout, Basic, TypeOK, cli
  <1>2. \A c \in Engines : c # Nobody BY Constants DEF Engines
  <1>3. \A c \in Engines, p \in Places : lockFile'[p] = c <=> p \in serves'[c]
    BY <1>1, <1>2 DEF Flocks
  <1>4. \A k \in Tools : k # Nobody /\ k # e BY Constants DEF Engines
  <1>5. \A k \in Tools, p \in Places :
          lockFile'[p] = k <=> tool[k].step = "append" /\ tool[k].at = p
    BY <1>1, <1>4 DEF Flocks
  <1>6. Legacy \in Engines BY DEF Engines
  <1>7. \A d \in Daemons : Adopting(d)' => Adopting(d)
    BY DEF Exit, Off, Adopting, Basic, TypeOK
  <1> QED BY <1>1, <1>3, <1>5, <1>6, <1>7 DEF Flocks

\* A command that goes from one shard to the next, or ends.
LEMMA FlocksTool ==
    ASSUME Basic, Flocks, NEW k \in Tools, NEW r \in ToolType,
           tool' = [tool EXCEPT ![k] = r],
           UNCHANGED <<daemon, serves>>,
           \/ /\ UNCHANGED lockFile
              /\ r.step = "append" <=> tool[k].step = "append"
              /\ r.step = "append" => r.at = tool[k].at
           \/ lockFile' = LocksWithout(k) /\ r.step # "append"
           \/ /\ tool[k].step # "append" /\ tool[k].at \in Places
              /\ Lockable(tool[k].at) /\ r.at = tool[k].at
              /\ r.step = "append" /\ lockFile' = [lockFile EXCEPT ![tool[k].at] = k]
           \/ /\ tool[k].step # "append" /\ tool[k].at \in Places
              /\ Lockable(tool[k].at)
              /\ r.step # "append" /\ lockFile' = [lockFile EXCEPT ![tool[k].at] = Nobody]
    PROVE  Flocks'
  <1>1. tool'[k] = r /\ \A j \in Tools \ {k} : tool'[j] = tool[j]
    BY DEF Basic, TypeOK
  <1>2. \A c \in Engines : c # Nobody /\ c # k BY Constants DEF Engines
  <1>3. \A j \in Tools : j # Nobody BY Constants
  <1>4. lockFile \in [Places -> Processes \union {Nobody, NoFile}] BY DEF Basic, TypeOK
  <1>5. \A c \in Engines, p \in Places : lockFile'[p] = c <=> p \in serves[c]
    BY <1>2, <1>4, LockableFacts DEF Flocks, LocksWithout
  <1>6. ASSUME NEW j \in Tools, NEW p \in Places
        PROVE  lockFile'[p] = j <=> tool'[j].step = "append" /\ tool'[j].at = p
    <2>1. CASE j = k BY <1>1, <1>3, <1>4, <2>1, LockableFacts DEF Flocks, LocksWithout
    <2>2. CASE j # k BY <1>1, <1>3, <1>4, <2>2, LockableFacts DEF Flocks, LocksWithout
    <2> QED BY <2>1, <2>2
  <1> QED BY <1>5, <1>6 DEF Flocks, Adopting

LEMMA FlocksCommand ==
    ASSUME Basic, Flocks, NEW k \in Tools,
           AddShards(k) \/ Validate(k) \/ Replay(k) \/ Commanding(k) \/ ToolDies(k)
    PROVE  Flocks'
  <1> DEFINE p == tool[k]
             s == p.at
  <1>0. p \in ToolType /\ Idle \in ToolType /\ Idle.step = "idle" BY ToolFacts DEF Idle
  <1>1. tool' \in [Tools -> ToolType] /\ tool \in [Tools -> ToolType]
    BY BasicStep, StartStep, CommandingStep DEF Basic, TypeOK, ToolType
  <1>2. UNCHANGED <<daemon, serves>>
    BY DEF AddShards, Validate, Replay, Start, Commanding, CreateDir, WriteCount, Look, LockShard,
           NextShard, ReplayDone, Append, ToolDies, work
  <1>3. CASE AddShards(k) \/ Validate(k) \/ Replay(k)
    <2>1. PICK r \in ToolType : tool' = [tool EXCEPT ![k] = r] /\ r.step # "append"
      BY <1>3, Started
    <2>2. UNCHANGED lockFile /\ p.step = "idle" BY <1>3, StartFacts
    <2> QED BY <1>2, <2>1, <2>2, FlocksTool
  <1>4. CASE CreateDir(k)
    <2> DEFINE r == [p EXCEPT !.at = @ + 1]
    <2>1. tool' = [tool EXCEPT ![k] = r] BY <1>1, <1>4 DEF CreateDir
    <2>2. r \in ToolType BY <1>1, <2>1
    <2>3. r.step = p.step /\ p.step = "dirs" /\ UNCHANGED lockFile
      BY <1>0, <1>4 DEF CreateDir, ToolType
    <2> HIDE DEF r
    <2> QED BY <1>2, <2>1, <2>2, <2>3, FlocksTool
  <1>5. CASE WriteCount(k) \/ Look(k) \/ ReplayDone(k)
    <2>1. tool' = [tool EXCEPT ![k] = Idle] /\ p.step # "append" /\ UNCHANGED lockFile
      BY <1>5 DEF WriteCount, Look, ReplayDone
    <2> QED BY <1>0, <1>2, <2>1, FlocksTool
  <1>6. CASE LockShard(k)
    <2>1. s \in Places /\ p.step = "lock"
      BY <1>0, <1>6, Constants DEF LockShard, ToolType, Shards, Places
    <2>2. CASE ~Lockable(s)
      <3>1. tool' = [tool EXCEPT ![k] = Idle] /\ UNCHANGED lockFile
        BY <1>6, <2>2 DEF LockShard
      <3> QED BY <1>0, <1>2, <2>1, <3>1, FlocksTool
    <2>3. CASE Lockable(s) /\ log[s] = NoFile
      <3> DEFINE r == [p EXCEPT !.at = s + 1]
      <3>1. tool' = [tool EXCEPT ![k] = r] /\ lockFile' = [lockFile EXCEPT ![s] = Nobody]
        BY <1>1, <1>6, <2>3 DEF LockShard
      <3>2. r \in ToolType BY <1>1, <3>1
      <3>3. r.step # "append" BY <1>0, <2>1 DEF ToolType
      <3> HIDE DEF r
      <3> QED BY <1>2, <2>1, <2>3, <3>1, <3>2, <3>3, FlocksTool
    <2>4. CASE Lockable(s) /\ log[s] # NoFile
      <3> DEFINE r == [p EXCEPT !.step = "append", !.found = Failed(log[s])]
      <3>1. tool' = [tool EXCEPT ![k] = r] /\ lockFile' = [lockFile EXCEPT ![s] = k]
        BY <1>1, <1>6, <2>4 DEF LockShard
      <3>2. r \in ToolType BY <1>1, <3>1
      <3>3. r.step = "append" /\ r.at = s BY <1>0 DEF ToolType
      <3> HIDE DEF r
      <3> QED BY <1>2, <2>1, <2>4, <3>1, <3>2, <3>3, FlocksTool
    <2> QED BY <2>2, <2>3, <2>4
  <1>7. CASE NextShard(k)
    <2> DEFINE r == [p EXCEPT !.step = "lock", !.at = @ + 1]
    <2>1. tool' = [tool EXCEPT ![k] = r] /\ lockFile' = LocksWithout(k)
      BY <1>1, <1>7 DEF NextShard
    <2>2. r \in ToolType BY <1>1, <2>1
    <2>3. r.step # "append" BY <1>0 DEF ToolType
    <2> HIDE DEF r
    <2> QED BY <1>2, <2>1, <2>2, <2>3, FlocksTool
  <1>8. CASE \E t \in Tasks : Append(k, t)
    <2>1. PICK t \in Tasks : Append(k, t) BY <1>8
    <2> DEFINE r == [p EXCEPT !.found = @ \ {t}]
    <2>2. tool' = [tool EXCEPT ![k] = r] /\ UNCHANGED lockFile BY <1>1, <2>1 DEF Append
    <2>3. r \in ToolType BY <1>1, <2>2
    <2>4. r.step = p.step /\ r.at = p.at BY <1>0 DEF ToolType
    <2> HIDE DEF r
    <2> QED BY <1>2, <2>2, <2>3, <2>4, FlocksTool
  <1>9. CASE ToolDies(k)
    <2>1. tool' = [tool EXCEPT ![k] = Idle] /\ lockFile' = LocksWithout(k)
      BY <1>9 DEF ToolDies
    <2> QED BY <1>0, <1>2, <2>1, FlocksTool
  <1> QED BY <1>3, <1>4, <1>5, <1>6, <1>7, <1>8, <1>9 DEF Commanding

LEMMA FlocksStep == NoDowngrade /\ Basic /\ Flocks /\ [Next]_vars => Flocks'
  <1> SUFFICES ASSUME NoDowngrade, Basic, Flocks, [Next]_vars PROVE Flocks' OBVIOUS
  <1>1. ASSUME UNCHANGED <<lockFile, serves, daemon, tool>> PROVE Flocks'
    BY <1>1 DEF Flocks, Adopting
  <1>2. CASE UNCHANGED vars BY <1>1, <1>2 DEF vars
  <1>3. ASSUME NEW e \in Engines, NEW t \in Tasks, Enqueue(e, t) PROVE Flocks'
    BY <1>1, <1>3 DEF Enqueue, Save, cli
  <1>4. ASSUME NEW e \in Engines, NEW p \in serves[e],
               \/ Compact(e, p)
               \/ \E t \in Tasks : Succeed(e, p, t) \/ Retry(e, p, t) \/ GiveUp(e, p, t)
        PROVE  Flocks'
    BY <1>1, <1>4 DEF Compact, Succeed, Retry, GiveUp, Save, cli
  <1> QED BY <1>2, <1>3, <1>4, FlocksBoot, FlocksOpen, FlocksExit, FlocksCommand DEF Next

\* A log that is read twice says the same, and one that is not there is empty.
LEMMA RebuiltFacts ==
    /\ Rebuilt(NoFile) = EmptyLog
    /\ \A l \in Log : Rebuilt(l) \in Log /\ Rebuilt(Rebuilt(l)) = Rebuilt(l)
  <1>1. Rebuilt(NoFile) = EmptyLog BY DEF Rebuilt, Live, EmptyLog
  <1>2. ASSUME NEW l \in Log PROVE Rebuilt(l) \in Log /\ Rebuilt(Rebuilt(l)) = Rebuilt(l)
    <2>1. Rebuilt(l) \in Log BY RebuiltType
    <2>2. l # NoFile /\ Rebuilt(l) # NoFile BY <2>1, ValueAssumption
    <2>3. \A t \in Tasks : (t \in Live(Rebuilt(l))) <=> (t \in Live(l))
      BY <2>2 DEF Rebuilt, Live
    <2> QED BY <2>1, <2>3 DEF Rebuilt
  <1> QED BY <1>1, <1>2

\* One record of one log is written.
LEMMA LogWritten ==
    ASSUME TypeOK, NEW p \in Places, NEW t \in Tasks, NEW r \in Record, Written(p, t, r)
    PROVE  /\ \A q \in Places \ {p} : log'[q] = log[q]
           /\ log'[p] \in Log /\ log'[p][t] = r
           /\ \A u \in Tasks \ {t} :
                 log'[p][u] = IF log[p] = NoFile THEN NoRecord ELSE log[p][u]
  <1> DEFINE b == IF log[p] = NoFile THEN EmptyLog ELSE log[p]
  <1>1. b \in Log BY EmptyLogType DEF TypeOK
  <1>2. log' = [log EXCEPT ![p] = [b EXCEPT ![t] = r]] BY DEF Written
  <1>3. log'[p] = [b EXCEPT ![t] = r] /\ \A q \in Places \ {p} : log'[q] = log[q]
    BY <1>2 DEF TypeOK
  <1>4. log'[p] \in Log BY <1>1, <1>3 DEF Log
  <1>5. /\ log'[p][t] = r
        /\ \A u \in Tasks \ {t} : log'[p][u] = b[u]
    BY <1>1, <1>3 DEF Log
  <1>6. \A u \in Tasks : log[p] = NoFile => b[u] = NoRecord BY DEF EmptyLog
  <1> QED BY <1>3, <1>4, <1>5, <1>6

\* A record that is written is the one that is read afterwards, unless deleted.
LEMMA RebuiltWritten ==
    ASSUME TypeOK, NEW p \in Places, NEW t \in Tasks, NEW r \in Record, Written(p, t, r)
    PROVE  Rebuilt(log'[p]) =
              [Rebuilt(log[p]) EXCEPT ![t] = IF r.deleted THEN NoRecord ELSE r]
  <1> DEFINE b == IF log[p] = NoFile THEN EmptyLog ELSE log[p]
             v == IF r.deleted THEN NoRecord ELSE r
  <1>1. b \in Log BY EmptyLogType DEF TypeOK
  <1>2. log'[p] \in Log BY LogWritten
  <1>3. /\ log'[p][t] = r
        /\ \A u \in Tasks \ {t} : log'[p][u] = b[u]
    BY LogWritten DEF EmptyLog
  <1>4. Rebuilt(log[p]) = Rebuilt(b)
    <2>1. CASE log[p] = NoFile
      BY <1>1, <2>1, RebuiltFacts, ValueAssumption DEF Rebuilt, Live, EmptyLog
    <2>2. CASE log[p] # NoFile BY <2>2
    <2> QED BY <2>1, <2>2
  <1>5. Rebuilt(log'[p]) = [Rebuilt(b) EXCEPT ![t] = v]
    <2>1. log'[p] # NoFile /\ b # NoFile BY <1>1, <1>2, ValueAssumption
    <2>2. r # NoRecord BY ValueAssumption
    <2>3. \A u \in Tasks \ {t} : (u \in Live(log'[p])) <=> (u \in Live(b))
      BY <1>3, <2>1 DEF Live
    <2>4. (t \in Live(log'[p])) <=> ~r.deleted BY <1>3, <2>1, <2>2 DEF Live
    <2> HIDE DEF b
    <2> QED BY <1>3, <2>3, <2>4 DEF Rebuilt
  <1> QED BY <1>4, <1>5

-----------------------------------------------------------------------------
(* route_shard: the shards of a daemon, counted in order, give one for      *)
(* every hash.                                                              *)

LEMMA Ranked ==
    ASSUME NEW S \in SUBSET Nat, IsFiniteSet(S), S # {}, NEW h \in Nat
    PROVE  \E s \in S : Cardinality({x \in S : x < s}) = h % Cardinality(S)
  <1> DEFINE n == Cardinality(S)
             B(s) == {x \in S : x < s}
             r == h % n
  <1>1. n \in Nat /\ n # 0 BY FS_EmptySet, FS_CardinalityType
  <1>2. r \in 0 .. n - 1 BY <1>1
  <1>3. ASSUME NEW s \in S
        PROVE  IsFiniteSet(B(s)) /\ Cardinality(B(s)) \in 0 .. n - 1
    <2>1. IsFiniteSet(B(s)) /\ Cardinality(B(s)) <= n BY FS_Subset
    <2>2. s \notin B(s) OBVIOUS
    <2>3. B(s) \subseteq S /\ B(s) # S BY <2>2
    <2>4. Cardinality(B(s)) # n BY <2>3, FS_Subset
    <2>5. Cardinality(B(s)) \in Nat BY <2>1, FS_CardinalityType
    <2> HIDE DEF n, B
    <2> QED BY <1>1, <2>1, <2>4, <2>5
  <1>4. ASSUME NEW s \in S, NEW t \in S, s < t
        PROVE  Cardinality(B(s)) # Cardinality(B(t))
    <2>1. B(s) \subseteq B(t)
      <3>1. s \in Nat /\ t \in Nat /\ \A x \in S : x \in Nat OBVIOUS
      <3>2. \A x \in S : x < s => x < t BY <1>4, <3>1
      <3> QED BY <3>2
    <2>2. s \in B(t) /\ s \notin B(s) BY <1>4
    <2>3. B(s) # B(t) BY <2>2
    <2> HIDE DEF B
    <2> QED BY <1>3, <2>1, <2>3, FS_Subset
  <1> SUFFICES ASSUME \A s \in S : Cardinality(B(s)) # r PROVE FALSE OBVIOUS
  <1> DEFINE T == 0 .. n - 1
             f == [s \in S |-> Cardinality(B(s))]
  <1>5. IsFiniteSet(T) /\ Cardinality(T) = n BY <1>1, FS_Interval
  <1>6. IsFiniteSet(T \ {r}) /\ Cardinality(T \ {r}) = n - 1
    <2>1. r \in T BY <1>2
    <2> HIDE DEF T, r, n
    <2> QED BY <1>5, <2>1, FS_RemoveElement
  <1>7. \A s \in S : Cardinality(B(s)) \in T \ {r} BY <1>3
  <1>8. f \in [S -> T \ {r}] BY <1>7
  <1>9. Cardinality(T \ {r}) < Cardinality(S) BY <1>1, <1>6
  <1>10. \A s \in S : f[s] = Cardinality(B(s)) OBVIOUS
  <1> HIDE DEF B, f, T, r, n
  <1>11. \E s, t \in S : s # t /\ f[s] = f[t]
    <2>1. \A U : IsFiniteSet(U) /\ Cardinality(U) < Cardinality(S) /\ f \in [S -> U] =>
             \E s, t \in S : s # t /\ f[s] = f[t]
      BY FS_PigeonHole
    <2> QED BY <1>6, <1>8, <1>9, <2>1
  <1>12. PICK s \in S : \E t \in S : s # t /\ f[s] = f[t] BY <1>11
  <1>13. PICK t \in S : s # t /\ f[s] = f[t] BY <1>12
  <1>14. s < t \/ t < s BY <1>13
  <1>15. Cardinality(B(s)) = Cardinality(B(t)) BY <1>10, <1>13
  <1> QED BY <1>4, <1>14, <1>15

\* A job goes to a log that the process has opened.
LEMMA RouteServed ==
    ASSUME Basic, serves[Legacy] \subseteq {Root}, NEW e \in Engines, serves[e] # {},
           NEW t \in Tasks
    PROVE  Route(e, t) \in serves[e]
  <1>1. CASE e = Legacy BY <1>1 DEF Route
  <1>2. CASE e # Legacy
    <2>1. e \in Daemons /\ serves[e] \subseteq Shards BY <1>2 DEF Engines, Basic, Booted
    <2>2. serves[e] \in SUBSET Nat /\ IsFiniteSet(serves[e])
      <3>1. IsFiniteSet(Shards) BY Constants, FS_Interval DEF Shards
      <3> QED BY <2>1, <3>1, Constants, FS_Subset
    <2>3. Hash[t] \in Nat BY InputAssumption
    <2>4. \E s \in serves[e] :
             Cardinality({x \in serves[e] : x < s}) = Hash[t] % Cardinality(serves[e])
      BY <2>2, <2>3, Ranked
    <2> QED BY <1>2, <2>4 DEF Route
  <1> QED BY <1>1, <1>2

-----------------------------------------------------------------------------
(* What an engine works with is what its log says.                         *)

Seen == \A e \in Engines : \A p \in serves[e] : cache[e][p] = Rebuilt(log[p])

\* What the engine e writes at p, it has in its cache; nobody else serves p.
LEMMA SeenSave ==
    ASSUME Basic, Flocks, Seen, NEW e \in Engines, NEW p \in serves[e], NEW t \in Tasks,
           NEW r \in Record, Save(e, p, t, r)
    PROVE  Seen'
  <1>1. TypeOK /\ p \in Places BY DEF Basic, TypeOK
  <1>2. /\ \A q \in Places \ {p} : log'[q] = log[q]
        /\ Rebuilt(log'[p]) = [Rebuilt(log[p]) EXCEPT ![t] = IF r.deleted THEN NoRecord ELSE r]
    BY <1>1, LogWritten, RebuiltWritten DEF Save
  <1>3. serves' = serves /\ cache \in [Engines -> [Places -> CacheType]]
    BY <1>1 DEF Save, TypeOK, CacheType
  <1>4. cache' = [cache EXCEPT ![e][p][t] = IF r.deleted THEN NoRecord ELSE r] BY DEF Save
  <1>5. ASSUME NEW c \in Engines, NEW q \in serves[c] PROVE cache'[c][q] = Rebuilt(log'[q])
    <2>1. q \in Places BY <1>1 DEF TypeOK
    <2>2. CASE q = p
      <3>1. c = e
        <4>1. lockFile[p] = e /\ lockFile[p] = c BY <1>1, <2>2 DEF Flocks
        <4> QED BY <4>1
      <3>2. cache'[e][p] = [cache[e][p] EXCEPT ![t] = IF r.deleted THEN NoRecord ELSE r]
        BY <1>1, <1>3, <1>4
      <3> QED BY <1>2, <2>2, <3>1, <3>2 DEF Seen
    <2>3. CASE q # p
      <3>1. cache'[c][q] = cache[c][q] BY <1>3, <1>4, <2>3
      <3> QED BY <1>2, <2>1, <2>3, <3>1 DEF Seen
    <2> QED BY <2>2, <2>3
  <1> QED BY <1>3, <1>5 DEF Seen

LEMMA SeenInit == Init => Seen
  <1> SUFFICES ASSUME Init PROVE Seen OBVIOUS
  <1>1. \A p \in Places : log[p] \in {NoFile, EmptyLog} BY DEF Init
  <1>2. Rebuilt(EmptyLog) = EmptyLog BY DEF Rebuilt, Live, EmptyLog
  <1>3. \A e \in Engines : serves[e] \subseteq Places BY DEF Init, Places
  <1>4. \A e \in Engines, p \in Places : cache[e][p] = EmptyLog BY DEF Init
  <1> QED BY <1>1, <1>2, <1>3, <1>4, RebuiltFacts DEF Seen

LEMMA AppendsAtShard ==
    ASSUME Basic, NEW k \in Tools, tool[k].step = "append"
    PROVE  tool[k].at \in Places
  <1>1. tool[k].at \in 0 .. Width /\ tool[k].at < tool[k].count /\ tool[k].count \in Shards
    BY ToolFacts DEF Commanded, ToolType
  <1> QED BY <1>1, Constants DEF Places, Shards

LEMMA SeenStep == Basic /\ Flocks /\ Seen /\ [Next]_vars => Seen'
  <1> SUFFICES ASSUME Basic, Flocks, Seen, [Next]_vars PROVE Seen' OBVIOUS
  <1>1. ASSUME UNCHANGED <<log, serves, cache>> PROVE Seen' BY <1>1 DEF Seen
  <1>2. CASE UNCHANGED vars BY <1>1, <1>2 DEF vars
  <1>3. ASSUME NEW d \in Daemons, Boot(d) \/ Booting(d) PROVE Seen'
    <2>1. CASE ~MoveLog(d)
      BY <1>1, <1>3, <2>1
      DEF Boot, Booting, Join, InitFresh, Probe, MoveLock, InitAdopted, work
    <2>2. CASE MoveLog(d)
      <3>1. Adopting(d) /\ membership = NoFile BY <2>2 DEF MoveLog, Adopting, Basic, Booted
      <3>2. \A e \in Engines : serves[e] = {} BY <3>1, NoneLocked DEF Flocks, Engines
      <3>3. serves' = serves BY <2>2 DEF MoveLog, work
      <3> QED BY <3>2, <3>3 DEF Seen
    <2> QED BY <2>1, <2>2
  <1>4. ASSUME LegacyStart \/ \E c \in Daemons : Serve(c) PROVE Seen'
    <2>1. PICK e \in Engines, S \in SUBSET Places : Opened(e, S)
      BY <1>4 DEF Serve, LegacyStart, Engines, Places
    <2>2. log' = log BY <1>4 DEF Serve, LegacyStart
    <2>3. /\ serves'[e] = S /\ \A x \in Engines \ {e} : serves'[x] = serves[x]
          /\ \A p \in S : cache'[e][p] = Rebuilt(log[p])
          /\ \A x \in Engines \ {e} : cache'[x] = cache[x]
      BY <2>1 DEF Opened, Basic, TypeOK
    <2> QED BY <2>2, <2>3 DEF Seen
  <1>5. ASSUME NEW e \in Engines, Exit(e) PROVE Seen'
    <2>1. log' = log BY <1>5 DEF Exit
    <2>2. /\ serves'[e] = {}
          /\ \A x \in Engines \ {e} : serves'[x] = serves[x] /\ cache'[x] = cache[x]
      BY <1>5 DEF Exit, Basic, TypeOK
    <2> QED BY <2>1, <2>2 DEF Seen
  <1>6. ASSUME NEW e \in Engines, NEW t \in Tasks, Enqueue(e, t) PROVE Seen'
    <2>1. Route(e, t) \in serves[e] BY <1>6, RouteServed DEF Enqueue, Flocks
    <2> QED BY <1>6, <2>1, SeenSave, Records DEF Enqueue
  <1>7. ASSUME NEW e \in Engines, NEW p \in serves[e], NEW t \in Tasks,
               Succeed(e, p, t) \/ Retry(e, p, t) \/ GiveUp(e, p, t)
        PROVE  Seen'
    <2>1. TypeOK BY DEF Basic
    <2>2. \E r \in Record : Save(e, p, t, r)
      BY <1>7, <2>1, Cached DEF Succeed, Retry, GiveUp
    <2> QED BY <2>2, SeenSave
  <1>8. ASSUME NEW e \in Engines, NEW p \in serves[e], Compact(e, p) PROVE Seen'
    <2>1. p \in Places /\ log[p] \in Log BY <1>8 DEF Compact, Basic, TypeOK
    <2>2. log'[p] = Rebuilt(log[p]) /\ \A q \in Places \ {p} : log'[q] = log[q]
      BY <1>8, <2>1 DEF Compact, Basic, TypeOK
    <2>3. serves' = serves /\ cache \in [Engines -> [Places -> CacheType]]
      BY <1>8 DEF Compact, Basic, TypeOK, CacheType
    <2>4. cache' = [cache EXCEPT ![e][p] = Rebuilt(log[p])] BY <1>8 DEF Compact
    <2>5. ASSUME NEW c \in Engines, NEW q \in serves[c] PROVE cache'[c][q] = Rebuilt(log'[q])
      <3>1. q \in Places BY DEF Basic, TypeOK
      <3>2. CASE q = p
        <4>1. lockFile[p] = e /\ lockFile[p] = c BY <2>1, <3>2 DEF Flocks
        <4>2. cache'[e][p] = Rebuilt(log[p]) BY <2>1, <2>3, <2>4
        <4> QED BY <2>1, <2>2, <3>2, <4>1, <4>2, RebuiltFacts
      <3>3. CASE q # p
        <4>1. cache'[c][q] = cache[c][q] BY <2>3, <2>4, <3>3
        <4> QED BY <2>2, <3>1, <3>3, <4>1 DEF Seen
      <3> QED BY <3>2, <3>3
    <2> QED BY <2>3, <2>5 DEF Seen
  <1>9. ASSUME NEW k \in Tools,
               AddShards(k) \/ Validate(k) \/ Replay(k) \/ Commanding(k) \/ ToolDies(k)
        PROVE  Seen'
    <2>1. CASE ~ \E t \in Tasks : Append(k, t)
      BY <1>1, <1>9, <2>1, StartFacts
      DEF Commanding, CreateDir, WriteCount, Look, LockShard, NextShard, ReplayDone, ToolDies, work
    <2>2. ASSUME NEW t \in Tasks, Append(k, t) PROVE Seen'
      <3> DEFINE a == tool[k].at
      <3>1. a \in Places /\ TypeOK
        BY <2>2, AppendsAtShard DEF Append, Basic
      <3>2. \A q \in Places \ {a} : log'[q] = log[q]
        BY <2>2, <3>1, LogWritten, RebuiltWritten, Records DEF Append
      <3>3. \A e \in Engines : a \notin serves[e]
        <4>1. lockFile[a] = k BY <2>2, <3>1 DEF Append, Flocks
        <4>2. \A e \in Engines : e # k BY Constants DEF Engines
        <4> QED BY <3>1, <4>1, <4>2 DEF Flocks
      <3>4. UNCHANGED <<serves, cache>> BY <2>2 DEF Append
      <3> QED BY <3>1, <3>2, <3>3, <3>4 DEF Seen, TypeOK
    <2> QED BY <2>1, <2>2
  <1> QED BY <1>2, <1>3, <1>4, <1>5, <1>6, <1>7, <1>8, <1>9 DEF Next

LEMMA SeenCorrect == ASSUME NoDowngrade PROVE Spec => [](Basic /\ Flocks /\ Seen)
  <1>1. Init => Basic /\ Flocks /\ Seen BY BasicInit, FlocksInit, SeenInit
  <1>2. Basic /\ Flocks /\ Seen /\ [Next]_vars => (Basic /\ Flocks /\ Seen)'
    BY BasicStep, FlocksStep, SeenStep
  <1> QED BY <1>1, <1>2, PTL DEF Spec

\* Where the previous version is not started beside a migration, neither a
\* migration nor a replay writes the log of a shard while an engine serves it.
THEOREM EngineSeesLogCorrect == ASSUME NoDowngrade PROVE Spec => []EngineSeesLog
  <1>1. Seen => EngineSeesLog BY RebuiltFacts DEF Seen, EngineSeesLog
  <1> QED BY SeenCorrect, <1>1, PTL

-----------------------------------------------------------------------------
(* A queue that validate finds healthy has every shard it has by then.      *)

\* Beside an add-shards the directories from the old count on are made one by
\* one; beside a validate those of the shards that came since it read the count
\* are there.
Made(k) ==
    /\ tool[k].step = "dirs" =>
           \A s \in Shards : membership <= s /\ s < tool[k].at => s \in dirs
    /\ tool[k].step = "look" =>
           \A s \in Shards : tool[k].count <= s /\ s < membership => s \in dirs

AllMade == \A k \in Tools : Made(k)

LEMMA MadeKept ==
    ASSUME Basic, AllMade, dirs \subseteq dirs', tool' = tool,
           membership' = membership \/ membership = NoFile
    PROVE  AllMade'
  <1>1. CASE membership' = membership BY <1>1 DEF AllMade, Made
  <1>2. CASE membership = NoFile
    <2>1. \A k \in Tools : tool[k].step = "idle" BY <1>2 DEF Basic, Commanded
    <2> QED BY <2>1 DEF AllMade, Made
  <1> QED BY <1>1, <1>2

LEMMA MadeTool ==
    ASSUME Basic, AllMade, NEW k \in Tools, NEW r \in ToolType,
           tool' = [tool EXCEPT ![k] = r], dirs \subseteq dirs', membership' = membership,
           r.step = "dirs" =>
              \A s \in Shards : membership <= s /\ s < r.at => s \in dirs',
           r.step = "look" => r.count = membership
    PROVE  AllMade'
  <1>1. tool'[k] = r /\ \A j \in Tools \ {k} : tool'[j] = tool[j] BY DEF Basic, TypeOK
  <1>2. \A j \in Tools \ {k} : Made(j)' BY <1>1 DEF AllMade, Made
  <1>3. Made(k)'
    <2>1. r.step = "look" => membership \in Nat /\ \A s \in Shards : s \in Nat
      BY Constants DEF ToolType
    <2>2. r.step = "look" => \A s \in Shards : ~(r.count <= s /\ s < membership) BY <2>1
    <2> QED BY <1>1, <2>2 DEF Made
  <1> QED BY <1>2, <1>3 DEF AllMade

LEMMA MadeCommand ==
    ASSUME Basic, AllMade, NEW k \in Tools,
           AddShards(k) \/ Validate(k) \/ Replay(k) \/ Commanding(k) \/ ToolDies(k)
    PROVE  AllMade'
  <1> DEFINE p == tool[k]
  <1>0. /\ p \in ToolType /\ Idle \in ToolType /\ Idle.step = "idle"
        /\ tool \in [Tools -> ToolType] /\ membership \in Shards \union {NoFile}
        /\ \A s \in Shards : s \in Nat
    BY ToolFacts, Constants DEF Idle, Basic, TypeOK, ToolType
  <1>1. dirs \subseteq dirs'
    BY StartFacts
    DEF Commanding, CreateDir, WriteCount, Look, LockShard, NextShard, ReplayDone, Append, ToolDies
  <1>2. CASE AddShards(k) \/ Validate(k) \/ Replay(k)
    <2>1. PICK r \in ToolType :
             /\ tool' = [tool EXCEPT ![k] = r]
             /\ r.step = "dirs" => r.at = membership
             /\ r.step = "look" => r.count = membership
      BY <1>2, Started
    <2>2. membership \in Nat /\ membership' = membership BY <1>0, <1>2, StartFacts
    <2>3. r.step = "dirs" => \A s \in Shards : ~(membership <= s /\ s < r.at)
      BY <1>0, <2>1, <2>2
    <2> QED BY <1>1, <2>1, <2>2, <2>3, MadeTool
  <1>3. CASE CreateDir(k)
    <2> DEFINE r == [p EXCEPT !.at = @ + 1]
    <2>1. tool' = [tool EXCEPT ![k] = r] /\ membership' = membership BY <1>0, <1>3 DEF CreateDir
    <2>2. r.step = "dirs" /\ r.at = p.at + 1 /\ p.at \in Nat
      BY <1>0, <1>3, Constants DEF CreateDir, ToolType
    <2>3. r \in ToolType BY <2>1, BasicStep, <1>3 DEF Next, Commanding, Basic, TypeOK, ToolType
    <2>4. p.at \in dirs' /\ p.step = "dirs" BY <1>3 DEF CreateDir
    <2>5. ASSUME NEW s \in Shards, membership <= s, s < r.at PROVE s \in dirs'
      <3>1. s < p.at \/ s = p.at BY <1>0, <2>2, <2>5
      <3> QED BY <1>1, <2>4, <2>5, <3>1 DEF AllMade, Made
    <2>6. r.step # "look" BY <2>2
    <2> HIDE DEF r
    <2> QED BY <1>1, <2>1, <2>3, <2>5, <2>6, MadeTool
  <1>4. CASE WriteCount(k)
    <2>1. /\ membership' = p.count /\ p.step = "dirs" /\ p.at >= p.count
          /\ tool'[k] = Idle /\ \A j \in Tools \ {k} : tool'[j] = tool[j]
      BY <1>0, <1>4 DEF WriteCount
    <2>2. p.at \in Nat /\ p.count \in Nat /\ membership \in Nat
      <3>1. membership \in Shards BY <1>0, <2>1 DEF Basic, Commanded
      <3>2. p.at \in 0 .. Width /\ p.count \in Shards BY <1>0 DEF ToolType
      <3>3. Width \in Nat /\ Shards \subseteq Nat BY Constants
      <3>4. p.at \in Nat BY <3>2, <3>3
      <3> QED BY <3>1, <3>2, <3>3, <3>4
    <2>3. \A j \in Tools \ {k} : tool[j].step # "dirs" BY <2>1 DEF Basic, Commanded
    <2>4. ASSUME NEW j \in Tools \ {k} PROVE Made(j)'
      <3> SUFFICES ASSUME tool[j].step = "look", NEW s \in Shards,
                          tool[j].count <= s, s < p.count
                   PROVE  s \in dirs'
        BY <2>1, <2>3 DEF Made
      <3>1. s < membership => s \in dirs BY DEF AllMade, Made
      <3>2. membership <= s /\ s < p.at => s \in dirs BY <2>1 DEF AllMade, Made
      <3>3. s < membership \/ (membership <= s /\ s < p.at) BY <1>0, <2>1, <2>2
      <3> QED BY <1>1, <3>1, <3>2, <3>3
    <2>5. Made(k)' BY <1>0, <2>1 DEF Made
    <2> QED BY <2>4, <2>5 DEF AllMade
  <1>5. CASE Look(k) \/ ReplayDone(k) \/ ToolDies(k)
    <2>1. tool' = [tool EXCEPT ![k] = Idle] /\ membership' = membership
      BY <1>5 DEF Look, ReplayDone, ToolDies
    <2> QED BY <1>0, <1>1, <2>1, MadeTool
  <1>6. CASE LockShard(k) \/ NextShard(k) \/ \E t \in Tasks : Append(k, t)
    <2>1. p.step \in {"lock", "append"} /\ membership' = membership
      BY <1>6 DEF LockShard, NextShard, Append
    <2>2. PICK r : tool' = [tool EXCEPT ![k] = r] /\ (r = Idle \/ r.step \in {"lock", "append"})
      <3>1. CASE LockShard(k)
        <4>1. \/ tool' = [tool EXCEPT ![k] = Idle]
              \/ tool' = [tool EXCEPT ![k] = [p EXCEPT !.at = p.at + 1]]
              \/ tool' = [tool EXCEPT ![k] = [p EXCEPT !.step = "append",
                                                       !.found = Failed(log[p.at])]]
          BY <1>0, <3>1 DEF LockShard
        <4>2. [p EXCEPT !.at = p.at + 1].step \in {"lock", "append"}
          BY <1>0, <2>1 DEF ToolType
        <4>3. [p EXCEPT !.step = "append", !.found = Failed(log[p.at])].step = "append"
          BY <1>0 DEF ToolType
        <4> QED BY <4>1, <4>2, <4>3
      <3>2. CASE NextShard(k)
        <4>1. tool' = [tool EXCEPT ![k] = [p EXCEPT !.step = "lock", !.at = @ + 1]]
          BY <1>0, <3>2 DEF NextShard
        <4>2. [p EXCEPT !.step = "lock", !.at = @ + 1].step = "lock" BY <1>0 DEF ToolType
        <4> QED BY <4>1, <4>2
      <3>3. ASSUME NEW t \in Tasks, Append(k, t)
            PROVE  \E r : tool' = [tool EXCEPT ![k] = r] /\ (r = Idle \/ r.step \in {"lock", "append"})
        <4>1. tool' = [tool EXCEPT ![k] = [p EXCEPT !.found = @ \ {t}]]
          BY <1>0, <3>3 DEF Append
        <4>2. [p EXCEPT !.found = @ \ {t}].step \in {"lock", "append"}
          BY <1>0, <2>1 DEF ToolType
        <4> QED BY <4>1, <4>2
      <3> QED BY <1>6, <3>1, <3>2, <3>3
    <2>3. r \in ToolType
      <3>1. tool'[k] = r BY <1>0, <2>2
      <3>2. Basic' BY <1>6, CommandingStep DEF Commanding
      <3> QED BY <3>1, <3>2 DEF Basic, TypeOK, ToolType
    <2> QED BY <1>0, <1>1, <2>1, <2>2, <2>3, MadeTool
  <1> QED BY <1>2, <1>3, <1>4, <1>5, <1>6 DEF Commanding

LEMMA MadeStep == Basic /\ AllMade /\ [Next]_vars => AllMade'
  <1> SUFFICES ASSUME Basic, AllMade, [Next]_vars PROVE AllMade' OBVIOUS
  <1>1. CASE UNCHANGED vars BY <1>1, MadeKept DEF vars
  <1>2. ASSUME NEW d \in Daemons, Boot(d) \/ Booting(d) \/ Serve(d) PROVE AllMade'
    <2>1. tool' = tool /\ dirs \subseteq dirs' /\ (membership' = membership \/ membership = NoFile)
      BY <1>2
      DEF Boot, Booting, Join, InitFresh, Probe, MoveLog, MoveLock, InitAdopted, Serve, cli, Basic,
          Booted, Adopting
    <2> QED BY <2>1, MadeKept
  <1>3. CASE LegacyStart BY <1>3, MadeKept DEF LegacyStart, cli
  <1>4. ASSUME NEW e \in Engines,
               \/ Exit(e)
               \/ \E t \in Tasks : Enqueue(e, t)
               \/ \E p \in serves[e] : Compact(e, p)
               \/ \E p \in serves[e], t \in Tasks :
                     Succeed(e, p, t) \/ Retry(e, p, t) \/ GiveUp(e, p, t)
        PROVE  AllMade'
    BY <1>4, MadeKept DEF Exit, Enqueue, Compact, Succeed, Retry, GiveUp, Save, cli
  <1> QED BY <1>1, <1>2, <1>3, <1>4, MadeCommand DEF Next

LEMMA MadeCorrect == Spec => [](Basic /\ AllMade)
  <1>1. Init => Basic /\ AllMade BY BasicInit DEF Init, AllMade, Made, Idle
  <1>2. Basic /\ AllMade /\ [Next]_vars => (Basic /\ AllMade)' BY BasicStep, MadeStep
  <1> QED BY <1>1, <1>2, PTL DEF Spec

\* A validate that says "ok" finds the directory of every shard that the queue
\* has by then, whatever add-shards did since it read the count.
THEOREM OkIsCurrentCorrect == Spec => OkIsCurrent
  <1>1. ASSUME Basic, AllMade, NEW k \in Tools, Look(k), report' = "ok"
        PROVE  {s \in Shards : s < membership} \subseteq dirs
    <2>1. tool[k].step = "look" /\ dirs = {s \in Shards : s < tool[k].count}
      BY <1>1 DEF Look
    <2>2. membership \in Nat /\ tool[k].count \in Nat /\ \A s \in Shards : s \in Nat
      BY <1>1, <2>1, ToolFacts, Constants DEF Commanded, ToolType
    <2>3. ASSUME NEW s \in Shards, s < membership PROVE s \in dirs
      <3>1. s < tool[k].count \/ tool[k].count <= s BY <2>2
      <3> QED BY <1>1, <2>1, <2>3, <3>1 DEF AllMade, Made
    <2> QED BY <2>3
  <1>2. Basic /\ AllMade => [(\E k \in Tools : Look(k)) /\ report' = "ok" =>
                                {s \in Shards : s < membership} \subseteq dirs]_vars
    BY <1>1
  <1> QED BY MadeCorrect, <1>2, PTL DEF OkIsCurrent

-----------------------------------------------------------------------------
(* Every task is in one log, and its record agrees with what has become of  *)
(* it.  This needs clients that send a job again only to the daemon that    *)
(* accepted it, and no migration beside the previous version.               *)

NoFailover == "failover" \notin Faults

Has(p, t) == log[p] # NoFile /\ log[p][t] # NoRecord

\* What a record says of the fate of its task.
Consistent(r, f) ==
    IF ~r.deleted THEN f = "pending"
    ELSE IF r.error THEN f \in {"recovered", "exhausted"} ELSE f \in {"done", "exhausted"}

\* No two logs have the same task.
OnePlace == \A t \in Tasks, p, q \in Places : Has(p, t) /\ Has(q, t) => p = q

Agreeing == \A t \in Tasks, p \in Places : Has(p, t) => Consistent(log[p][t], fate[t])

\* A job that was accepted by a process still alive is where that one routes it.
AtSender ==
    \A t \in Tasks, e \in Engines : sender[t] = e =>
        /\ serves[e] # {}
        /\ \A p \in Places : Has(p, t) => p = Route(e, t)

\* What a replay is about to append are failed tasks, and still are when it does.
FoundFailed(k) ==
    tool[k].step = "append" =>
        log[tool[k].at] # NoFile /\ tool[k].found \subseteq Failed(log[tool[k].at])

Placed == OnePlace /\ Agreeing /\ AtSender /\ \A k \in Tools : FoundFailed(k)

LEMMA RouteSame ==
    ASSUME NEW e, NEW t, serves'[e] = serves[e]
    PROVE  Route(e, t)' = Route(e, t)
  BY DEF Route

\* Steps that write no new record.
LEMMA PlacedKept ==
    ASSUME Placed,
           fate' = fate,
           \A p \in Places, t \in Tasks : Has(p, t)' => Has(p, t) /\ log'[p][t] = log[p][t],
           \A t \in Tasks, e \in Engines : sender'[t] = e =>
              sender[t] = e /\ serves'[e] = serves[e],
           \A k \in Tools : FoundFailed(k)'
    PROVE  Placed'
  <1>1. OnePlace' BY DEF Placed, OnePlace
  <1>2. Agreeing' BY DEF Placed, Agreeing
  <1>3. ASSUME NEW t \in Tasks, NEW e \in Engines, sender'[t] = e
        PROVE  /\ serves'[e] # {}
               /\ \A p \in Places : Has(p, t)' => p = Route(e, t)'
    <2>1. sender[t] = e /\ serves'[e] = serves[e] BY <1>3
    <2>2. \A p \in Places : Has(p, t)' => p = Route(e, t) BY <2>1 DEF Placed, AtSender
    <2> QED BY <2>1, <2>2, RouteSame DEF Placed, AtSender
  <1>4. AtSender' BY <1>3 DEF AtSender
  <1> QED BY <1>1, <1>2, <1>4 DEF Placed

\* A record r of t is written at p, where t is or where its sender routes it.
LEMMA PlacedWritten ==
    ASSUME Basic, Placed, NEW p \in Places, NEW t \in Tasks, NEW r \in Record,
           Written(p, t, r),
           \A q \in Places : Has(q, t) => q = p,
           serves' = serves,
           Consistent(r, fate'[t]),
           \A u \in Tasks \ {t} : fate'[u] = fate[u] /\ sender'[u] = sender[u],
           \/ sender'[t] = sender[t] /\ Has(p, t)
           \/ serves[sender'[t]] # {} /\ p = Route(sender'[t], t),
           \A k \in Tools : FoundFailed(k)'
    PROVE  Placed'
  <1>1. /\ \A q \in Places \ {p} : log'[q] = log[q]
        /\ log'[p] \in Log /\ log'[p][t] = r
        /\ \A u \in Tasks \ {t} : log'[p][u] = IF log[p] = NoFile THEN NoRecord ELSE log[p][u]
    <2>1. TypeOK BY DEF Basic
    <2> QED BY <2>1, LogWritten
  <1>2. \A q \in Places, u \in Tasks \ {t} :
           Has(q, u)' => Has(q, u) /\ log'[q][u] = log[q][u]
    BY <1>1 DEF Has
  <1>3. \A q \in Places : Has(q, t)' => q = p BY <1>1 DEF Has
  <1>4. OnePlace' BY <1>2, <1>3 DEF Placed, OnePlace
  <1>5. Agreeing'
    <2>1. \A q \in Places : Has(q, t)' => Consistent(log'[q][t], fate'[t]) BY <1>1, <1>3
    <2>2. \A q \in Places, u \in Tasks \ {t} : Has(q, u)' => Consistent(log'[q][u], fate'[u])
      BY <1>2 DEF Placed, Agreeing
    <2> QED BY <2>1, <2>2 DEF Agreeing
  <1>6. ASSUME NEW u \in Tasks, NEW e \in Engines, sender'[u] = e
        PROVE  /\ serves'[e] # {}
               /\ \A q \in Places : Has(q, u)' => q = Route(e, u)'
    <2>1. Route(e, u)' = Route(e, u) BY RouteSame
    <2>2. CASE u # t
      <3>1. sender[u] = e BY <1>6, <2>2
      <3>2. serves[e] # {} /\ \A q \in Places : Has(q, u) => q = Route(e, u)
        BY <3>1 DEF Placed, AtSender
      <3> QED BY <1>2, <2>1, <2>2, <3>2
    <2>3. CASE u = t
      <3>1. serves[e] # {} /\ p = Route(e, t) BY <1>6, <2>3 DEF Placed, AtSender
      <3> QED BY <1>3, <2>1, <2>3, <3>1
    <2> QED BY <2>2, <2>3
  <1>7. AtSender' BY <1>6 DEF AtSender
  <1> QED BY <1>4, <1>5, <1>7 DEF Placed

\* A process at work leaves what a replay has found alone: it has the lock.
LEMMA FoundKept ==
    ASSUME Basic, Flocks, Placed, NEW e \in Engines, NEW p \in serves[e],
           tool' = tool, \A q \in Places \ {p} : log'[q] = log[q]
    PROVE  \A k \in Tools : FoundFailed(k)'
  <1> SUFFICES ASSUME NEW k \in Tools, tool[k].step = "append"
               PROVE  /\ log'[tool[k].at] # NoFile
                      /\ tool[k].found \subseteq Failed(log'[tool[k].at])
    BY DEF FoundFailed, Failed
  <1>1. p \in Places BY DEF Basic, TypeOK
  <1>2. tool[k].at \in Places BY AppendsAtShard
  <1>3. tool[k].at # p
    <2>1. lockFile[tool[k].at] = k /\ lockFile[p] = e BY <1>1, <1>2 DEF Flocks
    <2>2. e # k BY Constants DEF Engines
    <2> QED BY <2>1, <2>2
  <1> QED BY <1>2, <1>3 DEF Placed, FoundFailed

\* A live record in a cache is that of the log.
LEMMA CachedIsLogged ==
    ASSUME Basic, Seen, NEW e \in Engines, NEW p \in serves[e], NEW t \in Tasks,
           cache[e][p][t] # NoRecord
    PROVE  Has(p, t) /\ log[p][t] = cache[e][p][t] /\ ~log[p][t].deleted
  <1>1. cache[e][p] = Rebuilt(log[p]) BY DEF Seen
  <1>2. Rebuilt(log[p])[t] = IF t \in Live(log[p]) THEN log[p][t] ELSE NoRecord BY DEF Rebuilt
  <1>3. t \in Live(log[p]) /\ log[p][t] = cache[e][p][t] BY <1>1, <1>2
  <1>4. log[p] # NoFile BY <1>3 DEF Live
  <1> QED BY <1>3, <1>4 DEF Live, Has

LEMMA PlacedInit == Init => Placed
  <1> SUFFICES ASSUME Init PROVE Placed OBVIOUS
  <1>1. \A p \in Places, t \in Tasks : ~Has(p, t)
    <2>1. \A p \in Places : log[p] = NoFile \/ log[p] = EmptyLog BY DEF Init
    <2> QED BY <2>1 DEF Has, EmptyLog
  <1>2. \A t \in Tasks, e \in Engines : sender[t] # e BY Constants DEF Init, Engines
  <1>3. \A k \in Tools : FoundFailed(k) BY DEF Init, Idle, FoundFailed
  <1> QED BY <1>1, <1>2, <1>3 DEF Placed, OnePlace, Agreeing, AtSender

\* A boot: a migration moves a log that nobody works on to where none is served.
LEMMA PlacedBoot ==
    ASSUME Basic, Flocks, Placed, NEW d \in Daemons, Boot(d) \/ Booting(d)
    PROVE  Placed'
  <1>1. UNCHANGED <<serves, tool, fate, sender>>
    BY DEF Boot, Booting, Join, InitFresh, Probe, MoveLog, MoveLock, InitAdopted, work, cli
  <1>2. CASE ~MoveLog(d) \/ log' = log
    <2>1. log' = log
      BY <1>2 DEF Boot, Booting, Join, InitFresh, Probe, MoveLock, InitAdopted
    <2> QED BY <1>1, <2>1, PlacedKept DEF Placed, Has, FoundFailed, Failed
  <1>3. CASE MoveLog(d) /\ log' # log
    <2>1. Adopting(d) /\ membership = NoFile BY <1>3 DEF MoveLog, Adopting, Basic, Booted
    <2>2. \A e \in Engines : serves[e] = {} BY <2>1, NoneLocked DEF Flocks, Engines
    <2>3. \A t \in Tasks, e \in Engines : sender[t] # e BY <2>2 DEF Placed, AtSender
    <2>4. \A k \in Tools : tool[k].step = "idle" BY <2>1, NoneLocked
    <2>5. 0 \in Places /\ Root \in Places /\ 0 # Root BY Constants DEF Places
    <2>6. /\ log'[0] = log[Root] /\ log'[Root] = NoFile
          /\ \A p \in Places \ {0, Root} : log'[p] = log[p]
      BY <1>3, <2>5 DEF MoveLog, Basic, TypeOK
    <2>7. \A p \in Places, t \in Tasks : Has(p, t)' =>
             \/ p = 0 /\ Has(Root, t) /\ log'[p][t] = log[Root][t]
             \/ p \notin {0, Root} /\ Has(p, t) /\ log'[p][t] = log[p][t]
      BY <2>5, <2>6 DEF Has
    <2>8. OnePlace' BY <2>5, <2>7 DEF Placed, OnePlace
    <2>9. Agreeing' BY <1>1, <2>5, <2>7 DEF Placed, Agreeing
    <2>10. AtSender' BY <1>1, <2>3 DEF AtSender
    <2>11. \A k \in Tools : FoundFailed(k)' BY <1>1, <2>4 DEF FoundFailed
    <2> QED BY <2>8, <2>9, <2>10, <2>11 DEF Placed
  <1> QED BY <1>2, <1>3

\* A process that opens logs or ends: it is nobody's sender before or after.
LEMMA PlacedProcess ==
    ASSUME Basic, Placed,
           \/ \E d \in Daemons : Serve(d)
           \/ LegacyStart
           \/ \E e \in Engines : Exit(e)
    PROVE  Placed'
  <1>1. UNCHANGED <<log, tool, fate>> BY DEF Serve, LegacyStart, Exit, cli
  <1>2. ASSUME NEW t \in Tasks, NEW e \in Engines, sender'[t] = e
        PROVE  sender[t] = e /\ serves'[e] = serves[e]
    <2>1. CASE LegacyStart \/ \E d \in Daemons : Serve(d)
      <3>1. PICK c \in Engines, S \in SUBSET Places :
               serves[c] = {} /\ serves' = [serves EXCEPT ![c] = S] /\ sender' = sender
        BY <2>1 DEF Serve, LegacyStart, Opened, Engines, Places
      <3>2. sender[t] = e /\ e # c BY <1>2, <3>1 DEF Placed, AtSender
      <3> QED BY <3>1, <3>2 DEF Basic, TypeOK
    <2>2. ASSUME NEW c \in Engines, Exit(c) PROVE sender[t] = e /\ serves'[e] = serves[e]
      <3>1. /\ sender'[t] = IF sender[t] = c THEN Nobody ELSE sender[t]
            /\ serves' = [serves EXCEPT ![c] = {}]
        BY <2>2 DEF Exit
      <3>2. e # Nobody BY Constants DEF Engines
      <3>3. sender[t] = e /\ e # c BY <1>2, <3>1, <3>2
      <3> QED BY <3>1, <3>3 DEF Basic, TypeOK
    <2> QED BY <2>1, <2>2
  <1> QED BY <1>1, <1>2, PlacedKept DEF Placed, Has, FoundFailed, Failed

LEMMA PlacedEnqueue ==
    ASSUME NoFailover, Basic, Flocks, Placed, NEW e \in Engines, NEW t \in Tasks, Enqueue(e, t)
    PROVE  Placed'
  <1> DEFINE p == Route(e, t)
  <1>1. p \in serves[e] /\ p \in Places /\ serves[e] # {}
    BY RouteServed DEF Enqueue, Flocks, Basic, TypeOK
  <1>2. \A q \in Places : Has(q, t) => q = p
    <2>1. CASE fate[t] = "none"
      <3>1. \A q \in Places : ~Has(q, t) BY <2>1 DEF Placed, Agreeing, Consistent
      <3> QED BY <3>1
    <2>2. CASE sender[t] = e BY <2>2 DEF Placed, AtSender
    <2> QED BY <2>1, <2>2 DEF Enqueue, MaySend, NoFailover
  <1>3. /\ Written(p, t, Fresh) /\ serves' = serves /\ tool' = tool
        /\ fate' = [fate EXCEPT ![t] = "pending"] /\ sender' = [sender EXCEPT ![t] = e]
    BY DEF Enqueue, Save, cli
  <1>4. Consistent(Fresh, fate'[t]) BY <1>3 DEF Consistent, Fresh, Basic, TypeOK
  <1>5. sender'[t] = e BY <1>3 DEF Basic, TypeOK
  <1>6. \A u \in Tasks \ {t} : fate'[u] = fate[u] /\ sender'[u] = sender[u]
    BY <1>3 DEF Basic, TypeOK
  <1>7. \A q \in Places \ {p} : log'[q] = log[q] BY <1>1, <1>3, LogWritten, Records DEF Basic
  <1>8. \A k \in Tools : FoundFailed(k)' BY <1>1, <1>3, <1>7, FoundKept
  <1> HIDE DEF p
  <1>9. p = Route(e, t) BY DEF p
  <1> QED BY <1>1, <1>2, <1>3, <1>4, <1>5, <1>6, <1>8, <1>9, Records, PlacedWritten

LEMMA PlacedVerdict ==
    ASSUME Basic, Flocks, Seen, Placed, NEW e \in Engines, NEW p \in serves[e], NEW t \in Tasks,
           Succeed(e, p, t) \/ Retry(e, p, t) \/ GiveUp(e, p, t)
    PROVE  Placed'
  <1> DEFINE r == cache[e][p][t]
  <1>1. r # NoRecord /\ TypeOK /\ p \in Places
    BY DEF Succeed, Retry, GiveUp, Basic, TypeOK
  <1>2. Has(p, t) /\ log[p][t] = r /\ ~r.deleted BY <1>1, CachedIsLogged
  <1>3. \A q \in Places : Has(q, t) => q = p BY <1>1, <1>2 DEF Placed, OnePlace
  <1>4. fate[t] = "pending" BY <1>1, <1>2 DEF Placed, Agreeing, Consistent
  <1>5. PICK n \in Record :
           Save(e, p, t, n) /\ Consistent(n, fate'[t])
           /\ sender' = sender /\ \A u \in Tasks \ {t} : fate'[u] = fate[u]
    <2>1. CASE Succeed(e, p, t)
      <3>1. /\ Tombstone(r) \in Record /\ Tombstone(r).deleted /\ Tombstone(r).error = r.error
        BY <1>1, Cached
      <3>2. /\ Save(e, p, t, Tombstone(r)) /\ sender' = sender
            /\ fate' = [fate EXCEPT ![t] = IF r.error THEN "recovered" ELSE "done"]
        BY <2>1 DEF Succeed
      <3>3. fate'[t] = IF r.error THEN "recovered" ELSE "done" BY <3>2 DEF Basic, TypeOK
      <3>4. \A u \in Tasks \ {t} : fate'[u] = fate[u] BY <3>2 DEF Basic, TypeOK
      <3> HIDE DEF r
      <3>5. Consistent(Tombstone(r), fate'[t]) BY <3>1, <3>3 DEF Consistent
      <3> QED BY <3>1, <3>2, <3>4, <3>5
    <2>2. CASE Retry(e, p, t)
      <3> DEFINE n == [r EXCEPT !.error = TRUE]
      <3>1. n \in Record /\ ~n.deleted BY <1>1, Cached
      <3>2. Save(e, p, t, n) /\ sender' = sender /\ fate' = fate BY <2>2 DEF Retry
      <3> HIDE DEF n
      <3>3. Consistent(n, fate'[t]) BY <1>4, <3>1, <3>2 DEF Consistent
      <3> QED BY <3>1, <3>2, <3>3
    <2>3. CASE GiveUp(e, p, t)
      <3>1. /\ Tombstone(r) \in Record /\ Tombstone(r).deleted /\ Tombstone(r).error = r.error
        BY <1>1, Cached
      <3>2. /\ Save(e, p, t, Tombstone(r)) /\ sender' = sender
            /\ fate' = [fate EXCEPT ![t] = "exhausted"]
        BY <2>3 DEF GiveUp
      <3>3. fate'[t] = "exhausted" BY <3>2 DEF Basic, TypeOK
      <3>4. \A u \in Tasks \ {t} : fate'[u] = fate[u] BY <3>2 DEF Basic, TypeOK
      <3> HIDE DEF r
      <3>5. Consistent(Tombstone(r), fate'[t]) BY <3>1, <3>3 DEF Consistent
      <3> QED BY <3>1, <3>2, <3>4, <3>5
    <2> QED BY <2>1, <2>2, <2>3
  <1>6. Written(p, t, n) /\ serves' = serves /\ tool' = tool BY <1>5 DEF Save, cli
  <1>7. \A q \in Places \ {p} : log'[q] = log[q] BY <1>1, <1>5, <1>6, LogWritten
  <1>8. \A k \in Tools : FoundFailed(k)' BY <1>6, <1>7, FoundKept
  <1> QED BY <1>1, <1>2, <1>3, <1>5, <1>6, <1>8, PlacedWritten

LEMMA PlacedCompact ==
    ASSUME Basic, Flocks, Placed, NEW e \in Engines, NEW p \in serves[e], Compact(e, p)
    PROVE  Placed'
  <1>1. p \in Places /\ log[p] # NoFile BY DEF Compact, Basic, TypeOK
  <1>2. log'[p] = Rebuilt(log[p]) /\ \A q \in Places \ {p} : log'[q] = log[q]
    BY <1>1 DEF Compact, Basic, TypeOK
  <1>3. UNCHANGED <<serves, fate, sender, tool>> BY DEF Compact, cli
  <1>4. \A t \in Tasks : Has(p, t)' => Has(p, t) /\ log'[p][t] = log[p][t]
    BY <1>1, <1>2 DEF Has, Rebuilt
  <1>5. \A q \in Places, t \in Tasks : Has(q, t)' => Has(q, t) /\ log'[q][t] = log[q][t]
    <2>1. \A q \in Places \ {p}, t \in Tasks : Has(q, t)' => Has(q, t) /\ log'[q][t] = log[q][t]
      BY <1>2 DEF Has
    <2> QED BY <1>4, <2>1
  <1>6. \A k \in Tools : FoundFailed(k)' BY <1>2, <1>3, FoundKept
  <1> QED BY <1>3, <1>5, <1>6, PlacedKept

\* A replay appends where the tasks it has found are.
LEMMA PlacedAppend ==
    ASSUME Basic, Flocks, Placed, NEW k \in Tools, NEW t \in Tasks, Append(k, t)
    PROVE  /\ Has(tool[k].at, t) /\ fate[t] \in {"recovered", "exhausted"}
           /\ Placed'
  <1> DEFINE a == tool[k].at
  <1>1. tool[k].step = "append" /\ t \in tool[k].found /\ a \in Places /\ TypeOK
    BY AppendsAtShard DEF Append, Basic
  <1>2. t \in Failed(log[a]) BY <1>1 DEF Placed, FoundFailed
  <1>3. log[a] # NoFile BY <1>1 DEF Placed, FoundFailed
  <1>4. Has(a, t) /\ log[a][t].deleted /\ log[a][t].error BY <1>2, <1>3 DEF Failed, Has
  <1>5. fate[t] \in {"recovered", "exhausted"} BY <1>1, <1>4 DEF Placed, Agreeing, Consistent
  <1>6. /\ Written(a, t, Fresh) /\ serves' = serves /\ sender' = sender
        /\ fate' = [fate EXCEPT ![t] = "pending"]
        /\ tool' = [tool EXCEPT ![k].found = @ \ {t}]
    BY DEF Append
  <1>7. \A q \in Places : Has(q, t) => q = a BY <1>1, <1>4 DEF Placed, OnePlace
  <1>8. Consistent(Fresh, fate'[t]) /\ \A u \in Tasks \ {t} : fate'[u] = fate[u]
    BY <1>1, <1>6 DEF Consistent, Fresh, TypeOK
  <1>9. /\ \A q \in Places \ {a} : log'[q] = log[q]
        /\ log'[a] \in Log
        /\ \A u \in Tasks \ {t} : log'[a][u] = log[a][u]
    BY <1>1, <1>3, <1>6, LogWritten, Records
  <1>10. ASSUME NEW j \in Tools PROVE FoundFailed(j)'
    <2>1. /\ tool'[j].step = tool[j].step /\ tool'[j].at = tool[j].at
          /\ tool'[j].found = IF j = k THEN tool[j].found \ {t} ELSE tool[j].found
      <3>1. tool \in [Tools -> ToolType] BY <1>1 DEF TypeOK, ToolType
      <3>2. CASE j = k BY <1>6, <3>1, <3>2 DEF ToolType
      <3>3. CASE j # k BY <1>6, <3>1, <3>3
      <3> QED BY <3>2, <3>3
    <2> SUFFICES ASSUME tool[j].step = "append"
                 PROVE  /\ log'[tool[j].at] # NoFile
                        /\ tool'[j].found \subseteq Failed(log'[tool[j].at])
      BY <2>1 DEF FoundFailed, Failed
    <2>2. log[tool[j].at] # NoFile /\ tool[j].found \subseteq Failed(log[tool[j].at])
      BY DEF Placed, FoundFailed
    <2>3. CASE j = k
      <3>1. \A u \in Failed(log[a]) \ {t} : u \in Failed(log'[a]) BY <1>9 DEF Failed
      <3>2. log'[a] # NoFile BY <1>9, ValueAssumption
      <3> QED BY <2>1, <2>2, <2>3, <3>1, <3>2
    <2>4. CASE j # k
      <3>1. tool[j].at \in Places /\ tool[j].at # a
        <4>1. tool[j].at \in Places BY AppendsAtShard
        <4>2. lockFile[tool[j].at] = j /\ lockFile[a] = k BY <1>1, <4>1 DEF Flocks
        <4> QED BY <2>4, <4>1, <4>2
      <3> QED BY <1>9, <2>1, <2>2, <2>4, <3>1
    <2> QED BY <2>3, <2>4
  <1> HIDE DEF a
  <1>11. Placed'
    BY <1>1, <1>4, <1>6, <1>7, <1>8, <1>9, <1>10, Records, PlacedWritten
  <1> QED BY <1>4, <1>5, <1>11 DEF a

LEMMA PlacedCommand ==
    ASSUME Basic, Flocks, Placed, NEW k \in Tools,
           AddShards(k) \/ Validate(k) \/ Replay(k) \/ Commanding(k) \/ ToolDies(k)
    PROVE  Placed'
  <1> DEFINE p == tool[k]
  <1>0. p \in ToolType /\ Idle.step = "idle" /\ tool \in [Tools -> ToolType]
    BY ToolFacts DEF Idle, Basic, TypeOK, ToolType
  <1>1. ASSUME NEW r,
               tool' = [tool EXCEPT ![k] = r],
               r.step = "append" => log[r.at] # NoFile /\ r.found \subseteq Failed(log[r.at]),
               UNCHANGED <<log, serves, fate, sender>>
        PROVE  Placed'
    <2>1. tool'[k] = r /\ \A j \in Tools \ {k} : tool'[j] = tool[j] BY <1>0, <1>1
    <2>2. \A j \in Tools : FoundFailed(j)' BY <1>1, <2>1 DEF Placed, FoundFailed, Failed
    <2> QED BY <1>1, <2>2, PlacedKept DEF Has
  <1>2. CASE AddShards(k) \/ Validate(k) \/ Replay(k)
    <2>1. PICK r \in ToolType : tool' = [tool EXCEPT ![k] = r] /\ r.step \in {"dirs", "look", "lock"}
      BY <1>2, Started
    <2>2. r.step # "append" BY <2>1
    <2> QED BY <1>1, <1>2, <2>1, <2>2, StartFacts
  <1>3. CASE WriteCount(k) \/ Look(k) \/ ReplayDone(k) \/ ToolDies(k)
    <2>1. tool' = [tool EXCEPT ![k] = Idle] /\ UNCHANGED <<log, serves, fate, sender>>
      BY <1>3 DEF WriteCount, Look, ReplayDone, ToolDies, work
    <2> QED BY <1>0, <1>1, <2>1
  <1>4. CASE CreateDir(k) \/ NextShard(k)
    <2>1. PICK r : tool' = [tool EXCEPT ![k] = r] /\ r.step \in {"dirs", "lock"}
      <3>1. CASE CreateDir(k)
        <4>1. tool' = [tool EXCEPT ![k] = [p EXCEPT !.at = @ + 1]] BY <1>0, <3>1 DEF CreateDir
        <4>2. [p EXCEPT !.at = @ + 1].step = "dirs" BY <1>0, <3>1 DEF CreateDir, ToolType
        <4> QED BY <4>1, <4>2
      <3>2. CASE NextShard(k)
        <4>1. tool' = [tool EXCEPT ![k] = [p EXCEPT !.step = "lock", !.at = @ + 1]]
          BY <1>0, <3>2 DEF NextShard
        <4>2. [p EXCEPT !.step = "lock", !.at = @ + 1].step = "lock" BY <1>0 DEF ToolType
        <4> QED BY <4>1, <4>2
      <3> QED BY <1>4, <3>1, <3>2
    <2>2. UNCHANGED <<log, serves, fate, sender>> BY <1>4 DEF CreateDir, NextShard, work
    <2> QED BY <1>1, <2>1, <2>2
  <1>5. CASE LockShard(k)
    <2>1. UNCHANGED <<log, serves, fate, sender>> BY <1>5 DEF LockShard, work
    <2>2. PICK r \in {Idle, [p EXCEPT !.at = p.at + 1],
                      [p EXCEPT !.step = "append", !.found = Failed(log[p.at])]} :
             /\ tool' = [tool EXCEPT ![k] = r]
             /\ log[p.at] = NoFile => r \in {Idle, [p EXCEPT !.at = p.at + 1]}
      BY <1>0, <1>5 DEF LockShard
    <2>3. p.step = "lock" BY <1>5 DEF LockShard
    <2>4. r.step = "append" => log[r.at] # NoFile /\ r.found \subseteq Failed(log[r.at])
      <3>1. [p EXCEPT !.at = p.at + 1].step = "lock" BY <1>0, <2>3 DEF ToolType
      <3>2. [p EXCEPT !.step = "append", !.found = Failed(log[p.at])].found = Failed(log[p.at])
        BY <1>0 DEF ToolType
      <3>3. [p EXCEPT !.step = "append", !.found = Failed(log[p.at])].at = p.at
        BY <1>0 DEF ToolType
      <3> QED BY <1>0, <2>2, <3>1, <3>2, <3>3
    <2> QED BY <1>1, <2>1, <2>2, <2>4
  <1> QED BY <1>2, <1>3, <1>4, <1>5, PlacedAppend DEF Commanding

Inv == Basic /\ Flocks /\ Seen /\ Placed

LEMMA PlacedStep ==
    ASSUME NoFailover, Inv, [Next]_vars
    PROVE  Placed'
  <1>1. CASE UNCHANGED vars
    BY <1>1, PlacedKept DEF Inv, vars, Placed, AtSender, Has, FoundFailed, Failed
  <1>2. CASE Next
    BY <1>2, PlacedBoot, PlacedProcess, PlacedEnqueue, PlacedVerdict, PlacedCompact, PlacedCommand
    DEF Next, Inv
  <1> QED BY <1>1, <1>2

LEMMA PlacedCorrect == ASSUME NoDowngrade, NoFailover PROVE Spec => []Inv
  <1>1. Init => Inv BY BasicInit, FlocksInit, SeenInit, PlacedInit DEF Inv
  <1>2. Inv /\ [Next]_vars => Inv' BY BasicStep, FlocksStep, SeenStep, PlacedStep DEF Inv
  <1> QED BY <1>1, <1>2, PTL DEF Spec

\* Two containers cannot process the same queue concurrently: of the engines
\* that run, one at most has a task to execute.
THEOREM OneEnginePerTaskCorrect ==
    ASSUME NoDowngrade, NoFailover PROVE Spec => []OneEnginePerTask
  <1>1. ASSUME Inv, NEW d \in Engines, NEW e \in Engines, NEW p \in serves[d], NEW q \in serves[e],
               NEW t \in Tasks, cache[d][p][t] # NoRecord, cache[e][q][t] # NoRecord
        PROVE  d = e /\ p = q
    <2>1. Has(p, t) /\ Has(q, t) BY <1>1, CachedIsLogged DEF Inv
    <2>2. p \in Places /\ q \in Places BY <1>1 DEF Inv, Basic, TypeOK
    <2>3. p = q BY <1>1, <2>1, <2>2 DEF Inv, Placed, OnePlace
    <2>4. lockFile[p] = d /\ lockFile[q] = e BY <1>1, <2>2 DEF Inv, Flocks
    <2> QED BY <2>3, <2>4
  <1>2. Inv => OneEnginePerTask BY <1>1 DEF OneEnginePerTask
  <1> QED BY PlacedCorrect, <1>2, PTL

\* Replay runs no job again that has never failed: what it found under a shard's
\* lock is still so when it appends.
THEOREM ReplayRevivesOnlyFailedCorrect ==
    ASSUME NoDowngrade, NoFailover PROVE Spec => ReplayRevivesOnlyFailed
  <1>1. Inv => [\A k \in Tools, t \in Tasks :
                   Append(k, t) => fate[t] \in {"recovered", "exhausted"}]_vars
    BY PlacedAppend DEF Inv
  <1> QED BY PlacedCorrect, <1>1, PTL DEF ReplayRevivesOnlyFailed

-----------------------------------------------------------------------------
(* The shard count only grows, and what was accepted stays within it.  An   *)
(* add-shards whose sum passes the width of a u32 breaks both.              *)

NoWrap == \A k \in Tools : AddShards(k) => membership + Added < Width

\* A shard that is served, or that a replay is at, is one of the queue's; the
\* count that an add-shards is about to write is not below the one there is.
InRange ==
    /\ \A d \in Daemons : \A s \in serves[d] : s < membership
    /\ \A k \in Tools :
          /\ tool[k].step \in {"lock", "append"} => tool[k].count <= membership
          /\ tool[k].step = "dirs" => membership <= tool[k].count

LEMMA InRangeKept ==
    ASSUME Basic, InRange, tool' = tool,
           \/ membership' = membership /\ \A d \in Daemons : \A s \in serves'[d] : s < membership
           \/ membership = NoFile /\ serves' = serves
    PROVE  InRange'
  <1>1. CASE membership' = membership /\ \A d \in Daemons : \A s \in serves'[d] : s < membership
    BY <1>1 DEF InRange
  <1>2. CASE membership = NoFile /\ serves' = serves
    <2>1. /\ \A d \in Daemons : serves[d] = {}
          /\ \A k \in Tools : tool[k].step = "idle"
      BY <1>2 DEF Basic, Booted, Commanded
    <2> QED BY <1>2, <2>1 DEF InRange
  <1> QED BY <1>1, <1>2

LEMMA InRangeTool ==
    ASSUME Basic, InRange, NEW k \in Tools, NEW r,
           tool' = [tool EXCEPT ![k] = r], UNCHANGED <<membership, serves>>,
           r.step \in {"lock", "append"} => r.count <= membership,
           r.step = "dirs" => membership <= r.count
    PROVE  InRange'
  <1>1. tool'[k] = r /\ \A j \in Tools \ {k} : tool'[j] = tool[j] BY DEF Basic, TypeOK
  <1> QED BY <1>1 DEF InRange

\* What a command goes on with is of the count that it has read.
LEMMA CommandGoesOn ==
    ASSUME Basic, NEW k \in Tools,
           \/ CreateDir(k) \/ LockShard(k) \/ NextShard(k)
           \/ \E t \in Tasks : Append(k, t)
    PROVE  \E r : /\ tool' = [tool EXCEPT ![k] = r]
                  /\ \/ r = Idle
                     \/ /\ r.count = tool[k].count
                        /\ \/ r.step = "dirs" /\ tool[k].step = "dirs"
                           \/ r.step \in {"lock", "append"} /\ tool[k].step \in {"lock", "append"}
  <1> DEFINE p == tool[k]
  <1>0. p \in ToolType /\ tool \in [Tools -> ToolType]
    BY ToolFacts DEF Basic, TypeOK, ToolType
  <1>1. CASE CreateDir(k)
    <2> DEFINE r == [p EXCEPT !.at = @ + 1]
    <2>1. tool' = [tool EXCEPT ![k] = r] /\ p.step = "dirs" BY <1>0, <1>1 DEF CreateDir
    <2>2. r.step = p.step /\ r.count = p.count BY <1>0 DEF ToolType
    <2> QED BY <2>1, <2>2
  <1>2. CASE LockShard(k)
    <2> DEFINE n == [p EXCEPT !.at = p.at + 1]
               a == [p EXCEPT !.step = "append", !.found = Failed(log[p.at])]
    <2>1. p.step = "lock" /\ \E r \in {Idle, n, a} : tool' = [tool EXCEPT ![k] = r]
      BY <1>0, <1>2 DEF LockShard
    <2>2. n.step = p.step /\ n.count = p.count /\ a.step = "append" /\ a.count = p.count
      BY <1>0 DEF ToolType
    <2> HIDE DEF n, a
    <2> QED BY <2>1, <2>2
  <1>3. CASE NextShard(k)
    <2> DEFINE r == [p EXCEPT !.step = "lock", !.at = @ + 1]
    <2>1. tool' = [tool EXCEPT ![k] = r] /\ p.step = "append" BY <1>0, <1>3 DEF NextShard
    <2>2. r.step = "lock" /\ r.count = p.count BY <1>0 DEF ToolType
    <2> QED BY <2>1, <2>2
  <1>4. ASSUME NEW t \in Tasks, Append(k, t)
        PROVE  \E r : /\ tool' = [tool EXCEPT ![k] = r] /\ p.step = "append"
                      /\ r.step = "append" /\ r.count = p.count
    <2> DEFINE r == [p EXCEPT !.found = @ \ {t}]
    <2>1. tool' = [tool EXCEPT ![k] = r] /\ p.step = "append" BY <1>0, <1>4 DEF Append
    <2>2. r.step = p.step /\ r.count = p.count BY <1>0 DEF ToolType
    <2> QED BY <2>1, <2>2
  <1> QED BY <1>1, <1>2, <1>3, <1>4

LEMMA InRangeCommand ==
    ASSUME Basic, InRange, NoWrap, NEW k \in Tools,
           AddShards(k) \/ Validate(k) \/ Replay(k) \/ Commanding(k) \/ ToolDies(k)
    PROVE  InRange' /\ (membership # NoFile => membership' >= membership)
  <1> DEFINE p == tool[k]
  <1>0. serves' = serves
    BY StartFacts
    DEF Commanding, CreateDir, WriteCount, Look, LockShard, NextShard, ReplayDone, Append, ToolDies,
        work
  <1>1. p \in ToolType /\ Idle.step = "idle" /\ membership \in Shards \union {NoFile}
        /\ Shards \subseteq Nat
    BY ToolFacts, Constants DEF Idle
  <1>2. CASE WriteCount(k)
    <2>1. /\ p.step = "dirs" /\ membership' = p.count
          /\ tool'[k] = Idle /\ \A j \in Tools \ {k} : tool'[j] = tool[j]
      BY <1>2 DEF WriteCount, Basic, TypeOK
    <2>2. membership \in Nat /\ p.count \in Nat /\ membership <= p.count
      BY <1>1, <2>1 DEF Basic, Commanded, ToolType, InRange
    <2>3. ASSUME NEW d \in Daemons, NEW s \in serves[d] PROVE s < p.count
      <3>1. s \in Nat /\ s < membership BY <1>1 DEF Basic, Booted, InRange
      <3> QED BY <2>2, <3>1
    <2>4. ASSUME NEW j \in Tools \ {k}
          PROVE  /\ tool[j].step # "dirs"
                 /\ tool[j].step \in {"lock", "append"} => tool[j].count <= p.count
      <3>1. tool[j].step # "dirs" BY <2>1 DEF Basic, Commanded
      <3>2. tool[j].count \in Nat BY <1>1, ToolFacts DEF ToolType
      <3>3. tool[j].step \in {"lock", "append"} => tool[j].count <= membership BY DEF InRange
      <3> QED BY <2>2, <3>1, <3>2, <3>3
    <2> QED BY <1>0, <1>1, <2>1, <2>2, <2>3, <2>4 DEF InRange
  <1>3. CASE ~WriteCount(k)
    <2>1. membership' = membership
      BY <1>3, StartFacts
      DEF Commanding, CreateDir, Look, LockShard, NextShard, ReplayDone, Append, ToolDies
    <2>2. membership # NoFile => membership' >= membership BY <1>1, <2>1
    <2>3. CASE AddShards(k) \/ Validate(k) \/ Replay(k)
      <3>1. membership \in Nat BY <1>1, <2>3, StartFacts
      <3>2. PICK r :
               /\ tool' = [tool EXCEPT ![k] = r]
               /\ \/ r.step = "dirs" /\ r.count >= membership
                  \/ r.step \in {"look", "lock"} /\ r.count = membership
        <4>1. CASE AddShards(k)
          <5> DEFINE r == [step |-> "dirs", at |-> membership,
                           count |-> (membership + Added) % Width, found |-> {}]
          <5>1. tool' = [tool EXCEPT ![k] = r] BY <4>1 DEF AddShards, Start
          <5>2. (membership + Added) % Width = membership + Added
            BY <3>1, <4>1, Constants DEF NoWrap
          <5>3. r.count >= membership BY <3>1, <5>2, Constants
          <5> QED BY <5>1, <5>3
        <4>2. CASE ~AddShards(k)
          <5>1. PICK step \in {"look", "lock"} :
                   tool' = [tool EXCEPT ![k] = [step |-> step, at |-> 0, count |-> membership,
                                                found |-> {}]]
            BY <2>3, <4>2 DEF Validate, Replay, Start
          <5> DEFINE r == [step |-> step, at |-> 0, count |-> membership, found |-> {}]
          <5>2. r.step \in {"look", "lock"} /\ r.count = membership OBVIOUS
          <5>3. tool' = [tool EXCEPT ![k] = r] BY <5>1
          <5> HIDE DEF r
          <5> QED BY <5>2, <5>3
        <4> QED BY <4>1, <4>2
      <3>3. r.step \in {"lock", "append"} => r.count <= membership BY <3>1, <3>2
      <3>4. r.step = "dirs" => membership <= r.count BY <3>1, <3>2
      <3> QED BY <1>0, <2>1, <2>2, <3>2, <3>3, <3>4, InRangeTool
    <2>4. CASE Look(k) \/ ReplayDone(k) \/ ToolDies(k)
      <3>1. tool' = [tool EXCEPT ![k] = Idle] BY <2>4 DEF Look, ReplayDone, ToolDies
      <3> QED BY <1>0, <1>1, <2>1, <2>2, <3>1, InRangeTool
    <2>5. CASE CreateDir(k) \/ LockShard(k) \/ NextShard(k) \/ \E t \in Tasks : Append(k, t)
      <3>1. PICK r :
               /\ tool' = [tool EXCEPT ![k] = r]
               /\ \/ r = Idle
                  \/ /\ r.count = p.count
                     /\ \/ r.step = "dirs" /\ p.step = "dirs"
                        \/ r.step \in {"lock", "append"} /\ p.step \in {"lock", "append"}
        BY <2>5, CommandGoesOn
      <3>2. r.step \in {"lock", "append"} => r.count <= membership BY <1>1, <3>1 DEF InRange
      <3>3. r.step = "dirs" => membership <= r.count BY <1>1, <3>1 DEF InRange
      <3> QED BY <1>0, <2>1, <2>2, <3>1, <3>2, <3>3, InRangeTool
    <2> QED BY <1>3, <2>3, <2>4, <2>5 DEF Commanding
  <1> QED BY <1>2, <1>3

LEMMA InRangeStep ==
    ASSUME Basic, InRange, [Next]_vars, [NoWrap]_vars
    PROVE  InRange' /\ [membership # NoFile => membership' >= membership]_membership
  <1>1. CASE UNCHANGED vars BY <1>1, InRangeKept DEF vars, InRange
  <1>2. ASSUME UNCHANGED <<tool, membership>>,
               \A d \in Daemons : \A s \in serves'[d] : s < membership
        PROVE  InRange' /\ membership' = membership
    BY <1>2, InRangeKept
  <1>3. ASSUME NEW d \in Daemons, Boot(d) \/ Booting(d)
        PROVE  InRange' /\ (membership # NoFile => membership' = membership)
    <2>1. tool' = tool /\ serves' = serves /\ (membership' = membership \/ membership = NoFile)
      BY <1>3
      DEF Boot, Booting, Join, InitFresh, Probe, MoveLog, MoveLock, InitAdopted, cli, work, Basic,
          Booted, Adopting
    <2> QED BY <2>1, InRangeKept DEF InRange
  <1>4. ASSUME NEW d \in Daemons, Serve(d) PROVE InRange' /\ membership' = membership
    <2>1. UNCHANGED <<tool, membership>> BY <1>4 DEF Serve, cli
    <2>2. \A c \in Daemons : c \in Engines BY DEF Engines
    <2>3. \A c \in Daemons : \A s \in serves'[c] : s < membership
      BY <1>4, <2>2 DEF Serve, Opened, Basic, TypeOK, InRange
    <2> QED BY <1>2, <2>1, <2>3
  <1>5. CASE LegacyStart
    <2>1. UNCHANGED <<tool, membership>> BY <1>5 DEF LegacyStart, cli
    <2>2. \A c \in Daemons : serves'[c] = serves[c]
      BY <1>5, Constants DEF LegacyStart, Opened, Basic, TypeOK, Engines
    <2> QED BY <1>2, <2>1, <2>2 DEF InRange
  <1>6. ASSUME NEW e \in Engines, Exit(e) PROVE InRange' /\ membership' = membership
    <2>1. UNCHANGED <<tool, membership>> BY <1>6 DEF Exit, cli
    <2>2. \A c \in Daemons : serves'[c] \subseteq serves[c]
      BY <1>6 DEF Exit, Basic, TypeOK, Engines
    <2> QED BY <1>2, <2>1, <2>2 DEF InRange
  <1>7. ASSUME NEW e \in Engines,
               \/ \E t \in Tasks : Enqueue(e, t)
               \/ \E p \in serves[e] : Compact(e, p)
               \/ \E p \in serves[e], t \in Tasks :
                     Succeed(e, p, t) \/ Retry(e, p, t) \/ GiveUp(e, p, t)
        PROVE  InRange' /\ membership' = membership
    <2>1. UNCHANGED <<tool, membership, serves>>
      BY <1>7 DEF Enqueue, Compact, Succeed, Retry, GiveUp, Save, cli
    <2> QED BY <1>2, <2>1 DEF InRange
  <1>8. ASSUME NEW k \in Tools,
               AddShards(k) \/ Validate(k) \/ Replay(k) \/ Commanding(k) \/ ToolDies(k)
        PROVE  InRange' /\ (membership # NoFile => membership' >= membership)
    <2>1. CASE UNCHANGED vars
      <3>1. InRange' /\ membership' = membership BY <1>1, <2>1 DEF vars
      <3> QED BY <3>1, Constants DEF Basic, TypeOK
    <2>2. CASE NoWrap BY <1>8, <2>2, InRangeCommand
    <2> QED BY <2>1, <2>2
  <1> QED BY <1>1, <1>3, <1>4, <1>5, <1>6, <1>7, <1>8 DEF Next, vars

\* The shard count is decided once and only add-shards changes it, upwards, as
\* long as no sum wraps.
THEOREM ShardsOnlyGrowCorrect == Spec /\ [][NoWrap]_vars => ShardsOnlyGrow
  <1>1. Init => Basic /\ InRange
    BY BasicInit DEF Init, InRange, Idle
  <1>2. Basic /\ InRange /\ [Next]_vars /\ [NoWrap]_vars
           => /\ (Basic /\ InRange)'
              /\ [membership # NoFile => membership' >= membership]_membership
    BY BasicStep, InRangeStep
  <1> QED BY <1>1, <1>2, PTL DEF Spec, ShardsOnlyGrow

-----------------------------------------------------------------------------
(* No accepted job is lost.                                                *)

\* A previous version that runs has a log, and nobody asks for no shards.
NoQuiet    == "quiet" \notin Faults
AsksShards == \A d \in Daemons : Requested[d] > 0

\* The log of the previous version is there until a migration moves it, and
\* is never made again.
RootKept ==
    /\ log[Root] # NoFile => membership = NoFile
    /\ \A d \in Daemons :
          /\ daemon[d].pc \in {"moved", "init"} => log[Root] = NoFile
          /\ daemon[d].pc = "resolve" /\ daemon[d].layout = "fresh" => log[Root] = NoFile
    /\ serves[Legacy] # {} => log[Root] # NoFile

\* What any process writes at is in what the next boot serves.
LEMMA WorksWhereServed ==
    ASSUME Basic, Flocks, RootKept, InRange
    PROVE  /\ Served \subseteq Places
           /\ \A e \in Engines : serves[e] \subseteq Served
           /\ \A k \in Tools : tool[k].step = "append" => tool[k].at \in Served
  <1>1. Served \subseteq Places BY Constants DEF Served, Places
  <1>2. \A d \in Daemons : serves[d] \subseteq Served
    BY DEF Basic, Booted, InRange, Served
  <1>3. serves[Legacy] \subseteq Served BY DEF Flocks, RootKept, Served
  <1>4. ASSUME NEW k \in Tools, tool[k].step = "append" PROVE tool[k].at \in Served
    <2>1. /\ tool[k].at \in 0 .. Width /\ tool[k].count \in Shards
          /\ tool[k].at < tool[k].count /\ tool[k].count <= membership /\ membership \in Shards
      BY <1>4, ToolFacts DEF Commanded, ToolType, InRange
    <2>2. tool[k].at \in Shards /\ tool[k].at < membership BY <2>1, Constants DEF Shards
    <2> QED BY <2>1, <2>2, Constants DEF Served
  <1> QED BY <1>1, <1>2, <1>3, <1>4 DEF Engines

\* Steps that leave every log live where it was served.
LEMMA NeverLostKept ==
    ASSUME NeverLost, Served \subseteq Served',
           \A t \in Tasks : fate'[t] = "pending" => fate[t] = "pending",
           \A p \in Served, t \in Tasks :
              fate'[t] = "pending" /\ t \in Live(log[p]) => t \in Live(log'[p])
    PROVE  NeverLost'
  <1> SUFFICES ASSUME NEW t \in Tasks, fate'[t] = "pending"
               PROVE  \E p \in Served' : t \in Live(log'[p])
    BY DEF NeverLost
  <1>1. PICK p \in Served : t \in Live(log[p]) BY DEF NeverLost
  <1>2. p \in Served' /\ t \in Live(log'[p]) BY <1>1
  <1> QED BY <1>2

LEMMA WrittenIsLive ==
    ASSUME TypeOK, NEW p \in Places, NEW t \in Tasks, NEW r \in Record, Written(p, t, r)
    PROVE  /\ \A q \in Places, u \in Tasks \ {t} : u \in Live(log[q]) => u \in Live(log'[q])
           /\ ~r.deleted => t \in Live(log'[p])
           /\ \A q \in Places \ {p} : log'[q] = log[q]
           /\ log'[p] # NoFile
  <1>1. \A q \in Places \ {p} : log'[q] = log[q] BY LogWritten
  <1>2. log'[p] \in Log /\ log'[p][t] = r
    <2>1. log'[p] \in Log BY LogWritten
    <2>2. log'[p][t] = r
      <3> DEFINE b == IF log[p] = NoFile THEN EmptyLog ELSE log[p]
      <3>1. b \in Log BY EmptyLogType DEF TypeOK
      <3>2. log'[p] = [b EXCEPT ![t] = r] BY DEF Written, TypeOK
      <3> HIDE DEF b
      <3> QED BY <3>1, <3>2 DEF Log
    <2> QED BY <2>1, <2>2
  <1>3. ASSUME NEW u \in Tasks \ {t}, log[p] # NoFile PROVE log'[p][u] = log[p][u]
    BY <1>3, LogWritten, RebuiltWritten
  <1>4. log'[p] # NoFile /\ r # NoRecord BY <1>2, ValueAssumption
  <1> QED BY <1>1, <1>2, <1>3, <1>4 DEF Live

\* A record that is written where it is served.
LEMMA NeverLostWritten ==
    ASSUME Basic, NeverLost, NEW p \in Places, NEW t \in Tasks, NEW r \in Record,
           Written(p, t, r), p \in Served, Served' = Served,
           \A u \in Tasks \ {t} : fate'[u] = fate[u],
           r.deleted => fate'[t] # "pending"
    PROVE  NeverLost'
  <1>1. TypeOK BY DEF Basic
  <1>2. /\ \A q \in Places, u \in Tasks \ {t} : u \in Live(log[q]) => u \in Live(log'[q])
        /\ ~r.deleted => t \in Live(log'[p])
    BY <1>1, WrittenIsLive
  <1>3. Served \subseteq Places BY Constants DEF Served, Places
  <1> SUFFICES ASSUME NEW u \in Tasks, fate'[u] = "pending"
               PROVE  \E q \in Served' : u \in Live(log'[q])
    BY DEF NeverLost
  <1>4. CASE u = t BY <1>2, <1>4
  <1>5. CASE u # t
    <2>1. PICK q \in Served : u \in Live(log[q]) BY <1>5 DEF NeverLost
    <2>2. u \in Live(log'[q]) BY <1>2, <1>3, <1>5, <2>1
    <2> QED BY <2>1, <2>2
  <1> QED BY <1>4, <1>5

\* A log that is written at a place that is served stays: no root appears.
LEMMA ServedSame ==
    ASSUME membership' = membership, (log'[Root] = NoFile) <=> (log[Root] = NoFile)
    PROVE  Served' = Served
  BY DEF Served

\* Steps that neither make nor move the previous version's log.
LEMMA RootKeptSame ==
    ASSUME RootKept, (log'[Root] = NoFile) <=> (log[Root] = NoFile),
           membership' = membership,
           serves'[Legacy] # {} => log[Root] # NoFile,
           \A d \in Daemons :
              \/ daemon'[d] = daemon[d]
              \/ daemon'[d].pc \notin {"moved", "init", "resolve"}
    PROVE  RootKept'
  BY DEF RootKept

LEMMA RootKeptBoot ==
    ASSUME Basic, Flocks, RootKept, NEW d \in Daemons, Boot(d) \/ Booting(d)
    PROVE  RootKept'
  <1>0. daemon \in [Daemons -> BootType] /\ 0 \in Places /\ Root \in Places /\ Root # 0
        /\ log \in [Places -> Log \union {NoFile}]
    BY Constants DEF Basic, TypeOK, BootType, Pcs, Places
  <1>1. serves' = serves
    BY DEF Boot, Booting, Join, InitFresh, Probe, MoveLog, MoveLock, InitAdopted, work
  <1>2. CASE Boot(d)
    <2>1. UNCHANGED <<membership, log, serves>> BY <1>2 DEF Boot, work
    <2>2. /\ daemon'[d] = [pc |-> "resolve", layout |-> Layout]
          /\ \A c \in Daemons \ {d} : daemon'[c] = daemon[c]
      BY <1>0, <1>2 DEF Boot
    <2>3. Layout = "fresh" => log[Root] = NoFile BY DEF Layout
    <2>4. /\ daemon'[d].pc = "resolve" /\ daemon'[d].layout = Layout BY <2>2
    <2> QED BY <2>1, <2>2, <2>3, <2>4 DEF RootKept
  <1>3. CASE Join(d) \/ Probe(d)
    <2>1. UNCHANGED <<membership, log>> BY <1>3 DEF Join, Probe
    <2>2. \E pc \in {"up", "adopt", "off"} : Goes(d, pc) BY <1>3 DEF Join, Probe
    <2>3. /\ daemon'[d].pc \in {"up", "adopt", "off"}
          /\ \A c \in Daemons \ {d} : daemon'[c] = daemon[c]
      BY <1>0, <2>2 DEF Goes, BootType
    <2> QED BY <1>1, <2>1, <2>3, RootKeptSame DEF RootKept
  <1>4. CASE InitFresh(d) \/ InitAdopted(d)
    <2>1. log' = log /\ Goes(d, "up") /\ log[Root] = NoFile
      BY <1>4 DEF InitFresh, InitAdopted, RootKept
    <2>2. log'[Root] = NoFile /\ serves'[Legacy] = {} BY <1>1, <2>1 DEF RootKept
    <2> QED BY <2>2 DEF RootKept
  <1>5. CASE MoveLog(d)
    <2>1. Adopting(d) BY <1>5 DEF MoveLog, Adopting
    <2>2. serves'[Legacy] = {} BY <1>1, <2>1 DEF Flocks
    <2>3. log'[Root] = NoFile BY <1>0, <1>5 DEF MoveLog
    <2> QED BY <2>2, <2>3 DEF RootKept
  <1>6. CASE MoveLock(d)
    <2>1. log'[Root] = NoFile /\ serves'[Legacy] = {}
      BY <1>1, <1>6 DEF MoveLock, RootKept
    <2> QED BY <2>1 DEF RootKept
  <1> QED BY <1>2, <1>3, <1>4, <1>5, <1>6 DEF Booting

\* A boot: the root's log is served until it is moved, then shard 0.
LEMMA NeverLostBoot ==
    ASSUME AsksShards, Basic, RootKept, NeverLost, NEW d \in Daemons, Boot(d) \/ Booting(d)
    PROVE  NeverLost'
  <1>0. 0 \in Places /\ 0 \in Shards /\ Root \in Places /\ Root # 0 /\ Shards \subseteq Nat
        /\ 1 \in Shards /\ NoFile \notin Shards
    BY Constants DEF Places
  <1>1. fate' = fate
    BY DEF Boot, Booting, Join, InitFresh, Probe, MoveLog, MoveLock, InitAdopted, work
  <1>2. CASE Boot(d) \/ Join(d) \/ Probe(d) \/ MoveLock(d)
    <2>1. membership' = membership /\ log' = log BY <1>2 DEF Boot, Join, Probe, MoveLock
    <2>2. Served' = Served BY <2>1 DEF Served
    <2> QED BY <1>1, <2>1, <2>2, NeverLostKept
  <1>3. CASE InitFresh(d) \/ InitAdopted(d)
    <2>1. log' = log BY <1>3 DEF InitFresh, InitAdopted
    <2>2. membership = NoFile /\ log[Root] = NoFile
      BY <1>3 DEF InitFresh, InitAdopted, RootKept, Basic, Booted, Adopting
    <2>3. membership' \in Shards /\ membership' > 0
      BY <1>0, <1>3, Constants DEF InitFresh, InitAdopted, AsksShards
    <2>4. Served = {0} BY <2>2 DEF Served
    <2>5. membership' # NoFile BY <1>0, <2>3
    <2>6. 0 \in Served' BY <1>0, <2>3, <2>5 DEF Served
    <2> QED BY <1>1, <2>1, <2>4, <2>6, NeverLostKept
  <1>4. CASE MoveLog(d) /\ log' = log
    <2>1. membership' = membership BY <1>4 DEF MoveLog
    <2>2. Served' = Served BY <1>4, <2>1 DEF Served
    <2> QED BY <1>1, <1>4, <2>2, NeverLostKept
  <1>5. CASE MoveLog(d) /\ log' # log
    <2>1. /\ membership = NoFile /\ membership' = NoFile
          /\ log[Root] # NoFile /\ log'[0] = log[Root] /\ log'[Root] = NoFile
      BY <1>0, <1>5 DEF MoveLog, Basic, TypeOK, Booted, Adopting
    <2>2. Served = {Root} /\ Served' = {0} BY <2>1 DEF Served
    <2>3. ASSUME NEW t \in Tasks, fate'[t] = "pending"
          PROVE  \E p \in Served' : t \in Live(log'[p])
      <3>1. t \in Live(log[Root]) BY <1>1, <2>2, <2>3 DEF NeverLost
      <3>2. 0 \in Served' /\ t \in Live(log'[0]) BY <2>1, <2>2, <3>1
      <3> QED BY <3>2
    <2> QED BY <2>3 DEF NeverLost
  <1> QED BY <1>2, <1>3, <1>4, <1>5 DEF Booting

\* Processes at work and commands write where it is served, and keep the root.
LEMMA LostWritten ==
    ASSUME Basic, RootKept, NeverLost, NEW p \in Places, NEW t \in Tasks, NEW r \in Record,
           Written(p, t, r), p \in Served,
           p = Root => log[Root] # NoFile,
           UNCHANGED <<membership, daemon, serves>>,
           \A u \in Tasks \ {t} : fate'[u] = fate[u],
           r.deleted => fate'[t] # "pending"
    PROVE  RootKept' /\ NeverLost'
  <1>1. TypeOK /\ Root \in Places BY DEF Basic, Places
  <1>2. (log'[Root] = NoFile) <=> (log[Root] = NoFile)
    <2>1. /\ \A q \in Places \ {p} : log'[q] = log[q]
          /\ log'[p] # NoFile
      BY <1>1, WrittenIsLive
    <2> QED BY <1>1, <2>1
  <1>3. RootKept' BY <1>2, RootKeptSame DEF RootKept
  <1>4. Served' = Served BY <1>2, ServedSame
  <1> QED BY <1>3, <1>4, NeverLostWritten

LEMMA LostWork ==
    ASSUME Basic, Flocks, RootKept, InRange, NeverLost, NEW e \in Engines,
           \/ \E t \in Tasks : Enqueue(e, t)
           \/ \E p \in serves[e] : Compact(e, p)
           \/ \E p \in serves[e], t \in Tasks :
                 Succeed(e, p, t) \/ Retry(e, p, t) \/ GiveUp(e, p, t)
    PROVE  RootKept' /\ NeverLost'
  <1>0. TypeOK /\ Root \in Places /\ Root \notin Shards BY Constants DEF Basic, Places
  <1>1. \A p \in serves[e] : p \in Served /\ p \in Places /\ (p = Root => log[Root] # NoFile)
    BY <1>0, WorksWhereServed DEF Engines, Basic, Booted, RootKept
  <1>2. ASSUME NEW t \in Tasks, Enqueue(e, t) PROVE RootKept' /\ NeverLost'
    <2>1. Route(e, t) \in serves[e] BY <1>2, RouteServed DEF Enqueue, Flocks
    <2>2. /\ Written(Route(e, t), t, Fresh) /\ UNCHANGED <<membership, daemon, serves>>
          /\ \A u \in Tasks \ {t} : fate'[u] = fate[u]
      BY <1>0, <1>2 DEF Enqueue, Save, TypeOK
    <2>3. ~Fresh.deleted BY DEF Fresh
    <2> HIDE DEF Served
    <2> QED BY <1>1, <2>1, <2>2, <2>3, Records, LostWritten
  <1>3. ASSUME NEW p \in serves[e], NEW t \in Tasks,
               Succeed(e, p, t) \/ Retry(e, p, t) \/ GiveUp(e, p, t)
        PROVE  RootKept' /\ NeverLost'
    <2>1. cache[e][p][t] # NoRecord BY <1>3 DEF Succeed, Retry, GiveUp
    <2>2. PICK r \in Record :
             /\ Save(e, p, t, r) /\ \A u \in Tasks \ {t} : fate'[u] = fate[u]
             /\ r.deleted => fate'[t] # "pending"
      <3> DEFINE c == cache[e][p][t]
      <3>1. CASE Succeed(e, p, t) \/ GiveUp(e, p, t)
        <4>1. PICK f \in {"done", "recovered", "exhausted"} :
                 Save(e, p, t, Tombstone(c)) /\ fate' = [fate EXCEPT ![t] = f]
          BY <3>1 DEF Succeed, GiveUp
        <4>2. Tombstone(c) \in Record BY <1>0, <2>1, Cached
        <4>3. fate'[t] # "pending" /\ \A u \in Tasks \ {t} : fate'[u] = fate[u]
          BY <1>0, <4>1 DEF TypeOK
        <4> HIDE DEF c
        <4> QED BY <4>1, <4>2, <4>3
      <3>2. CASE Retry(e, p, t)
        <4> DEFINE n == [c EXCEPT !.error = TRUE]
        <4>1. Save(e, p, t, n) /\ fate' = fate BY <3>2 DEF Retry
        <4>2. n \in Record /\ ~n.deleted BY <1>0, <2>1, Cached
        <4> HIDE DEF n
        <4> QED BY <4>1, <4>2
      <3> QED BY <1>3, <3>1, <3>2
    <2>3. Written(p, t, r) /\ UNCHANGED <<membership, daemon, serves>> BY <2>2 DEF Save
    <2> QED BY <1>1, <2>2, <2>3, LostWritten
  <1>4. ASSUME NEW p \in serves[e], Compact(e, p) PROVE RootKept' /\ NeverLost'
    <2>1. p \in Places /\ log[p] \in Log /\ log[p] # NoFile BY <1>0, <1>1, <1>4 DEF Compact, TypeOK
    <2>2. log'[p] = Rebuilt(log[p]) /\ \A q \in Places \ {p} : log'[q] = log[q]
      BY <1>0, <1>4, <2>1 DEF Compact, TypeOK
    <2>3. UNCHANGED <<membership, daemon, serves, fate>> BY <1>4 DEF Compact
    <2>4. log'[p] # NoFile BY <2>1, <2>2, RebuiltFacts, ValueAssumption
    <2>5. (log'[Root] = NoFile) <=> (log[Root] = NoFile) BY <1>0, <2>1, <2>2, <2>4
    <2>6. Live(log'[p]) = Live(log[p]) BY <2>1, <2>2, <2>4 DEF Rebuilt, Live
    <2>7. RootKept' BY <2>3, <2>5, RootKeptSame DEF RootKept
    <2>8. Served' = Served BY <2>3, <2>5, ServedSame
    <2>9. Served \subseteq Places BY WorksWhereServed
    <2>10. \A q \in Served : Live(log'[q]) = Live(log[q]) BY <2>2, <2>6, <2>9
    <2>11. NeverLost' BY <2>3, <2>8, <2>10, NeverLostKept
    <2> QED BY <2>7, <2>11
  <1> QED BY <1>2, <1>3, <1>4

LEMMA LostProcess ==
    ASSUME NoDowngrade, Basic, RootKept, NeverLost,
           \/ \E d \in Daemons : Serve(d)
           \/ LegacyStart
           \/ \E e \in Engines : Exit(e)
    PROVE  RootKept' /\ NeverLost'
  <1>1. UNCHANGED <<membership, log, fate>> BY DEF Serve, LegacyStart, Exit
  <1>2. Served' = Served BY <1>1 DEF Served
  <1>3. NeverLost' BY <1>1, <1>2, NeverLostKept
  <1>4. serves'[Legacy] # {} => log[Root] # NoFile
    <2>1. CASE LegacyStart
      <3>1. Layout = "legacy" BY <2>1 DEF LegacyStart, NoDowngrade
      <3>2. log[Root] # NoFile BY <3>1 DEF Layout
      <3> QED BY <3>2
    <2>2. ASSUME NEW d \in Daemons, Serve(d) PROVE serves'[Legacy] = serves[Legacy]
      BY <2>2, Constants DEF Serve, Opened, Basic, TypeOK, Engines
    <2>3. ASSUME NEW e \in Engines, Exit(e) PROVE serves'[Legacy] \subseteq serves[Legacy]
      BY <2>3 DEF Exit, Basic, TypeOK, Engines
    <2> QED BY <2>1, <2>2, <2>3 DEF RootKept
  <1>5. \A d \in Daemons :
           daemon'[d] = daemon[d] \/ daemon'[d].pc \notin {"moved", "init", "resolve"}
    BY DEF Serve, LegacyStart, Exit, Off, Basic, TypeOK
  <1> QED BY <1>1, <1>3, <1>4, <1>5, RootKeptSame

LEMMA LostCommand ==
    ASSUME Basic, Flocks, RootKept, InRange, InRange', NeverLost, NEW k \in Tools,
           AddShards(k) \/ Validate(k) \/ Replay(k) \/ Commanding(k) \/ ToolDies(k)
    PROVE  RootKept' /\ NeverLost'
  <1>1. CASE ~WriteCount(k) /\ ~ \E t \in Tasks : Append(k, t)
    <2>1. UNCHANGED <<membership, log, fate, serves, daemon>>
      BY <1>1, StartFacts
      DEF Commanding, CreateDir, Look, LockShard, NextShard, ReplayDone, ToolDies, work
    <2>2. RootKept' BY <2>1, RootKeptSame DEF RootKept
    <2>3. Served' = Served BY <2>1, ServedSame
    <2> QED BY <2>1, <2>2, <2>3, NeverLostKept
  <1>2. CASE WriteCount(k)
    <2>1. /\ membership # NoFile /\ tool[k].step = "dirs" /\ membership' = tool[k].count
          /\ UNCHANGED <<log, fate, serves, daemon>>
      BY <1>2 DEF WriteCount, work, Basic, Commanded
    <2>2. /\ membership \in Nat /\ membership' \in Nat /\ membership' # NoFile
          /\ membership <= membership'
      <3>1. membership \in Shards /\ membership' \in Shards
        BY <2>1, ToolFacts DEF ToolType
      <3>2. membership <= membership' BY <2>1 DEF InRange
      <3> QED BY <3>1, <3>2, Constants
    <2>3. log'[Root] = NoFile /\ serves'[Legacy] = {} BY <2>1 DEF RootKept
    <2>4. RootKept' BY <2>3 DEF RootKept
    <2>5. Served \subseteq Served'
      <3>1. \A s \in Shards : s \in Nat BY Constants
      <3>2. Served = {s \in Shards : s < membership} BY <2>1 DEF Served
      <3>3. Served' = {s \in Shards : s < membership'} BY <2>2 DEF Served
      <3> QED BY <2>2, <3>1, <3>2, <3>3
    <2> QED BY <2>1, <2>4, <2>5, NeverLostKept
  <1>3. ASSUME NEW t \in Tasks, Append(k, t) PROVE RootKept' /\ NeverLost'
    <2> DEFINE a == tool[k].at
    <2>1. tool[k].step = "append" /\ a \in Served /\ a \in Places
      BY <1>3, WorksWhereServed DEF Append
    <2>2. a # Root
      <3>1. membership # NoFile BY <2>1 DEF Basic, Commanded
      <3> QED BY <2>1, <3>1, Constants DEF Served
    <2>3. /\ Written(a, t, Fresh) /\ UNCHANGED <<membership, daemon, serves>>
          /\ \A u \in Tasks \ {t} : fate'[u] = fate[u]
      BY <1>3 DEF Append, Basic, TypeOK
    <2>4. ~Fresh.deleted BY DEF Fresh
    <2> HIDE DEF a
    <2> QED BY <2>1, <2>2, <2>3, <2>4, Records, LostWritten
  <1> QED BY <1>1, <1>2, <1>3

LostInv == Basic /\ Flocks /\ InRange /\ RootKept /\ NeverLost

LEMMA LostInit == ASSUME NoQuiet PROVE Init => LostInv
  <1> SUFFICES ASSUME Init PROVE LostInv OBVIOUS
  <1>1. InRange BY DEF Init, InRange, Idle
  <1>2. RootKept
    <2>1. membership = NoFile /\ \A d \in Daemons : daemon[d].pc = "off" BY DEF Init, Off
    <2>2. serves[Legacy] # {} => log[Root] # NoFile
      <3>1. serves[Legacy] \in {{}, {Root}} BY DEF Init, Engines
      <3> QED BY <3>1 DEF Init, NoQuiet
    <2> QED BY <2>1, <2>2 DEF RootKept
  <1>3. NeverLost BY DEF Init, NeverLost
  <1> QED BY <1>1, <1>2, <1>3, BasicInit, FlocksInit DEF LostInv

LEMMA LostStep ==
    ASSUME NoDowngrade, AsksShards, LostInv, [Next]_vars, [NoWrap]_vars
    PROVE  LostInv'
  <1>1. Basic' /\ Flocks' /\ InRange' BY BasicStep, FlocksStep, InRangeStep DEF LostInv
  <1>2. CASE UNCHANGED vars
    BY <1>1, <1>2 DEF LostInv, vars, RootKept, NeverLost, Served, Live
  <1>3. CASE Next
    <2>1. RootKept' /\ NeverLost'
      BY <1>1, <1>3, RootKeptBoot, NeverLostBoot, LostProcess, LostWork, LostCommand
      DEF Next, LostInv
    <2> QED BY <1>1, <2>1 DEF LostInv
  <1> QED BY <1>2, <1>3

\* A job that was accepted and has no verdict is in a log that the next boot
\* serves, at whatever step of a migration, an add-shards or a replay any of the
\* processes die.
THEOREM NeverLostCorrect ==
    ASSUME NoDowngrade, NoQuiet, AsksShards
    PROVE  Spec /\ [][NoWrap]_vars => []NeverLost
  <1>1. Init => LostInv BY LostInit
  <1>2. LostInv /\ [Next]_vars /\ [NoWrap]_vars => LostInv' BY LostStep
  <1>3. LostInv => NeverLost BY DEF LostInv
  <1> QED BY <1>1, <1>2, <1>3, PTL DEF Spec
=============================================================================
