------------------------------ MODULE Cluster -------------------------------
(***************************************************************************)
(* Which daemon runs which shard (src/membership.rs, the Runtime of        *)
(* src/main.rs and try_lock_shard of src/sharding.rs).                     *)
(*                                                                         *)
(* The daemons share a queue directory.  membership.json holds the claims, *)
(* each with a lease; every change of it is made under .membership.lock    *)
(* and is one step here.  Each shard directory has a lock file, held by    *)
(* flock for as long as a daemon runs the shard's engine, and freed by the *)
(* operating system when its process ends.                                 *)
(*                                                                         *)
(* Inside a daemon the boot, the heartbeat, the standby loop, the shutdown *)
(* and the message loop are tasks that interleave.                         *)
(*                                                                         *)
(* Time is what is left of timers, counted in Ticks; a claim keeps what is *)
(* left of its lease on the true clock, and a daemon's clock is ahead of   *)
(* the true one by its offset.                                             *)
(***************************************************************************)
EXTENDS Integers, FiniteSets

CONSTANTS
    Daemons,    \* a daemon that restarts has its owner id, and its claims, again
    Nobody,
    MaxOwned,   \* SNERD_MAX_SHARDS, the most shards a daemon claims
    InitShards, \* shards of the queue when its first daemon starts
    MaxShards,  \* bound: add-shards grows the queue up to this
    MaxBoots,   \* bound: how often a daemon process starts
    Types,      \* task types that the SDKs register
    Lease,      \* LEASE_DURATION_SECS
    Renew,      \* RENEW_INTERVAL_SECS
    Retry,      \* STANDBY_RETRY_SECS
    Margin,     \* clock skew margin
    Delay,      \* how late a timer is served if nothing stalls the daemon
    Offsets,    \* what daemons' clocks may be ahead by
    Faults      \* what may go wrong

\* kill: a process is killed; stall: it is stopped for any time; io: a shard's
\* files fail; line: the SDK writes a line, or closes its end, during a drain;
\* twins: several daemons have the same owner id.
ASSUME FaultAssumption == Faults \subseteq {"kill", "stall", "io", "line", "twins"}

ASSUME TimeAssumption ==
    /\ {Lease, Renew, Retry, Margin, Delay} \cup Offsets \subseteq Nat
    /\ Renew > 0 /\ Retry > 0
    /\ \E o \in Offsets : \A p \in Offsets : p <= o

ASSUME ShardAssumption ==
    /\ MaxShards \in Nat /\ InitShards \in 1..MaxShards
    /\ {MaxOwned, MaxBoots} \subseteq Nat

ASSUME NobodyAssumption == \A D \in SUBSET Daemons : Nobody \notin Daemons \cup {D}

AllShards == 0..(MaxShards - 1)

VARIABLES
    shards,     \* membership.json: number of shards
    claims,     \* membership.json: owner of each shard and what is left of the lease
    flock,      \* who holds the lock of each shard directory
    ownerId,    \* the owner id of each daemon, as the set of those that have it
    offset,     \* how far each clock is ahead
    daemon,     \* the state of each process
    handlers,   \* the types each daemon has registered on each of its engines
    boots       \* bound

vars == <<shards, claims, flock, ownerId, offset, daemon, handlers, boots>>

-----------------------------------------------------------------------------
Free == [owner |-> Nobody, left |-> 0]

\* owner_id is the host's name and the pid: containers without HOSTNAME, each
\* with the pid 1, have the same one.
OwnerIds ==
    {[d \in Daemons |-> IF d \in twins THEN twins ELSE {d}] :
        twins \in IF "twins" \in Faults THEN SUBSET Daemons ELSE {{}}}

\* A lease that has lapsed for every clock.
Expired == -(Margin + 1)

MaxLeft == Lease + CHOOSE o \in Offsets : \A p \in Offsets : p <= o

Down == [phase |-> "down",
         acq |-> "none",      \* where acquire_shards or start_engines is
         todo |-> {},         \* candidates not tried yet
         shard |-> Nobody,    \* the shard claimed and not locked yet
         got |-> {},          \* claimed and locked, engine not built yet
         built |-> {},        \* engines built and not published
         engines |-> {},      \* published engines
         paused |-> {},
         orphans |-> {},      \* processors that run without an engine
         due |-> 0,           \* time to the next heartbeat or standby retry
         round |-> {},        \* engines the heartbeat has still to look at
         stop |-> "no",       \* where shutdown is
         unreleased |-> {},   \* engines whose claim shutdown has still to release
         registered |-> {},
         registering |-> {}]  \* a type stored and not yet on the engines

First(s, S) == s \in S /\ \A t \in S : s <= t

Up(d) == daemon[d].phase = "up"
Held(d) == {s \in AllShards : flock[s] = d}
Running(d) == daemon[d].built \cup daemon[d].engines \cup daemon[d].orphans

\* Mutated: the skew margin is forgotten.
IsLapsedWithoutMargin(claim, d) == offset[d] > claim.left

\* Membership operations, each under .membership.lock, by d's clock.
IsLapsed(claim, d) == offset[d] > claim.left + Margin
Owns(d, s) == claims[s].owner = ownerId[d]

\* Mutated: claims of others are never taken over.
ClaimableIfFree(d, s) == claims[s].owner \in {Nobody, ownerId[d]}

Claimable(d, s) == \/ claims[s].owner \in {Nobody, ownerId[d]}
                   \/ IsLapsed(claims[s], d)

\* Mutated: the lease is added to what is left of the old one.
SetLeaseLater(d, s) == claims' = [claims EXCEPT ![s] =
                                     [owner |-> ownerId[d], left |-> @.left + Lease]]

\* claim and renew.
SetLease(d, s) == claims' = [claims EXCEPT ![s] =
                                [owner |-> ownerId[d], left |-> Lease + offset[d]]]
Remove(s) == claims' = [claims EXCEPT ![s] = Free]

Init ==
    /\ shards = InitShards
    /\ claims = [s \in AllShards |-> Free]
    /\ flock = [s \in AllShards |-> Nobody]
    /\ ownerId \in OwnerIds
    /\ offset \in [Daemons -> Offsets]
    /\ daemon = [d \in Daemons |-> Down]
    /\ handlers = [d \in Daemons |-> [s \in AllShards |-> {}]]
    /\ boots = 0

\* The process ends: its memory and its flocks are gone, its claims stay.
Exit(d) ==
    /\ daemon' = [daemon EXCEPT ![d] = Down]
    /\ flock' = [s \in AllShards |-> IF flock[s] = d THEN Nobody ELSE flock[s]]
    /\ handlers' = [handlers EXCEPT ![d] = [s \in AllShards |-> {}]]

-----------------------------------------------------------------------------
(* acquire_shards and start_engines, at boot and by the standby loop.      *)

Boot(d) ==
    /\ daemon[d].phase = "down"
    /\ boots < MaxBoots
    /\ boots' = boots + 1
    /\ daemon' = [daemon EXCEPT ![d].phase = "boot", ![d].acq = "load"]
    /\ UNCHANGED <<shards, claims, flock, ownerId, offset, handlers>>

\* The loop looks at both conditions, then acquires without looking again.
StandbyRetry(d) ==
    /\ Up(d)
    /\ daemon[d].acq = "none"
    /\ daemon[d].stop = "no"
    /\ daemon[d].engines = {}
    /\ daemon[d].due <= 0
    /\ daemon' = [daemon EXCEPT ![d].acq = "load", ![d].due = @ + Retry]
    /\ UNCHANGED <<shards, claims, flock, ownerId, offset, handlers, boots>>

Load(d) ==
    /\ daemon[d].acq = "load"
    /\ daemon' = [daemon EXCEPT
           ![d].acq = "claim",
           ![d].todo = {s \in 0..(shards - 1) : Claimable(d, s)}]
    /\ UNCHANGED <<shards, claims, flock, ownerId, offset, handlers, boots>>

\* An error ends the acquisition: the locks taken are dropped, the claims stay,
\* and so do the processors of engines already built.  At boot it ends the
\* process, the standby loop tries again.
Abort(d) ==
    IF daemon[d].phase = "boot" THEN Exit(d)
    ELSE /\ daemon' = [daemon EXCEPT
                ![d].acq = "none", ![d].todo = {}, ![d].shard = Nobody,
                ![d].got = {}, ![d].built = {},
                ![d].orphans = @ \cup daemon[d].built]
         /\ flock' = [s \in AllShards |->
                          IF s \in daemon[d].got \cup daemon[d].built THEN Nobody
                          ELSE flock[s]]
         /\ UNCHANGED handlers

MayClaim(d) == daemon[d].todo # {} /\ Cardinality(daemon[d].got) < MaxOwned

\* The next candidate is claimed, or is no longer claimable, which is an error.
Claim(d) ==
    /\ daemon[d].acq = "claim"
    /\ MayClaim(d)
    /\ \E s \in AllShards :
          /\ First(s, daemon[d].todo)
          /\ IF Claimable(d, s)
             THEN /\ SetLease(d, s)
                  /\ daemon' = [daemon EXCEPT ![d].acq = "lock", ![d].shard = s,
                                              ![d].todo = @ \ {s}]
                  /\ UNCHANGED <<flock, handlers>>
             ELSE Abort(d) /\ UNCHANGED claims
    /\ UNCHANGED <<shards, ownerId, offset, boots>>

\* Mutated: the lock is taken whoever holds it.
TryLockAlways(d) ==
    /\ daemon[d].acq = "lock"
    /\ LET s == daemon[d].shard IN
       /\ flock' = [flock EXCEPT ![s] = d]
       /\ daemon' = [daemon EXCEPT ![d].acq = "claim", ![d].shard = Nobody,
                                   ![d].got = @ \cup {s}]
    /\ UNCHANGED <<shards, claims, ownerId, offset, handlers, boots>>

TryLock(d) ==
    /\ daemon[d].acq = "lock"
    /\ LET s == daemon[d].shard IN
       IF flock[s] = Nobody
       THEN /\ flock' = [flock EXCEPT ![s] = d]
            /\ daemon' = [daemon EXCEPT ![d].acq = "claim", ![d].shard = Nobody,
                                        ![d].got = @ \cup {s}]
       ELSE /\ daemon' = [daemon EXCEPT ![d].acq = "revert"]
            /\ UNCHANGED flock
    /\ UNCHANGED <<shards, claims, ownerId, offset, handlers, boots>>

\* Mutated: the claim is removed whoever owns it by now.
RevertAlways(d) ==
    /\ daemon[d].acq = "revert"
    /\ Remove(daemon[d].shard)
    /\ daemon' = [daemon EXCEPT ![d].acq = "claim", ![d].shard = Nobody]
    /\ UNCHANGED <<shards, flock, ownerId, offset, handlers, boots>>

Revert(d) ==
    /\ daemon[d].acq = "revert"
    /\ IF Owns(d, daemon[d].shard) THEN Remove(daemon[d].shard) ELSE UNCHANGED claims
    /\ daemon' = [daemon EXCEPT ![d].acq = "claim", ![d].shard = Nobody]
    /\ UNCHANGED <<shards, flock, ownerId, offset, handlers, boots>>

Acquired(d) ==
    /\ daemon[d].acq = "claim"
    /\ ~MayClaim(d)
    /\ daemon' = [daemon EXCEPT ![d].acq = "build", ![d].todo = {}]
    /\ UNCHANGED <<shards, claims, flock, ownerId, offset, handlers, boots>>

\* build_engine: the processor runs from here on, with the handlers that are
\* registered by now.
BuildEngine(d) ==
    /\ daemon[d].acq = "build"
    /\ \E s \in AllShards :
          /\ First(s, daemon[d].got)
          /\ daemon' = [daemon EXCEPT ![d].got = @ \ {s}, ![d].built = @ \cup {s}]
          /\ handlers' = [handlers EXCEPT ![d][s] = daemon[d].registered]
    /\ UNCHANGED <<shards, claims, flock, ownerId, offset, boots>>

\* Reading the membership, a shard directory or its log fails.
AcquireFails(d) ==
    /\ "io" \in Faults
    /\ \/ daemon[d].acq \in {"load", "lock", "revert"}
       \/ daemon[d].acq = "claim" /\ MayClaim(d)
       \/ daemon[d].acq = "build" /\ daemon[d].got # {}
    /\ Abort(d)
    /\ UNCHANGED <<shards, claims, ownerId, offset, boots>>

\* The engines are published under the write lock that the heartbeat and the
\* release loop hold for reading.  A boot then starts the other tasks; in a
\* standby daemon the heartbeat's timer has been running already.
Publish(d) ==
    /\ daemon[d].acq = "build"
    /\ daemon[d].got = {}
    /\ daemon[d].round = {}
    /\ daemon[d].stop # "releasing"
    /\ \E due \in IF daemon[d].built = {} THEN {IF Up(d) THEN daemon[d].due ELSE Retry}
                 ELSE IF Up(d) THEN 0..Renew ELSE {Renew} :
          daemon' = [daemon EXCEPT ![d].phase = "up", ![d].acq = "none",
                                   ![d].built = {}, ![d].due = due,
                                   ![d].engines = @ \cup daemon[d].built]
    /\ UNCHANGED <<shards, claims, flock, ownerId, offset, handlers, boots>>

-----------------------------------------------------------------------------
(* Registration of handlers.                                               *)

Register(d, type) ==
    /\ Up(d) /\ daemon[d].stop = "no"
    /\ daemon[d].registering = {}
    /\ type \notin daemon[d].registered
    /\ daemon' = [daemon EXCEPT ![d].registered = @ \cup {type},
                                ![d].registering = {type}]
    /\ UNCHANGED <<shards, claims, flock, ownerId, offset, handlers, boots>>

RegisterOnEngines(d) ==
    /\ daemon[d].registering # {}
    /\ handlers' = [handlers EXCEPT ![d] =
           [s \in AllShards |-> IF s \in daemon[d].engines
                                THEN @[s] \cup daemon[d].registering ELSE @[s]]]
    /\ daemon' = [daemon EXCEPT ![d].registering = {}]
    /\ UNCHANGED <<shards, claims, flock, ownerId, offset, boots>>

-----------------------------------------------------------------------------
(* The heartbeat.                                                          *)

StartRound(d) ==
    /\ Up(d)
    /\ daemon[d].engines # {}
    /\ daemon[d].round = {}
    /\ daemon[d].due <= 0
    /\ daemon[d].stop = "no"
    /\ daemon' = [daemon EXCEPT ![d].due = @ + Renew,
                                ![d].round = daemon[d].engines]
    /\ UNCHANGED <<shards, claims, flock, ownerId, offset, handlers, boots>>

\* A paused engine is skipped, a lost lease pauses its engine for good.
RenewLease(d) ==
    /\ \E s \in AllShards :
          /\ First(s, daemon[d].round)
          /\ IF s \in daemon[d].paused \/ ~Owns(d, s) THEN UNCHANGED claims
             ELSE SetLease(d, s)
          /\ daemon' = [daemon EXCEPT
                 ![d].round = @ \ {s},
                 ![d].paused = IF Owns(d, s) THEN @ ELSE @ \cup {s}]
    /\ UNCHANGED <<shards, flock, ownerId, offset, handlers, boots>>

\* The write of the renewal fails: a warning, and the next heartbeat.
RenewFails(d) ==
    /\ "io" \in Faults
    /\ \E s \in AllShards :
          /\ First(s, daemon[d].round \ daemon[d].paused)
          /\ daemon' = [daemon EXCEPT ![d].round = @ \ {s}]
    /\ UNCHANGED <<shards, claims, flock, ownerId, offset, handlers, boots>>

-----------------------------------------------------------------------------
(* Shutdown.                                                               *)

Sigterm(d) ==
    /\ Up(d)
    /\ daemon[d].stop = "no"
    /\ daemon' = [daemon EXCEPT ![d].stop = "flagged"]
    /\ UNCHANGED <<shards, claims, flock, ownerId, offset, handlers, boots>>

PauseAll(d) ==
    /\ daemon[d].stop = "flagged"
    /\ daemon' = [daemon EXCEPT ![d].stop = "draining", ![d].paused = daemon[d].engines]
    /\ UNCHANGED <<shards, claims, flock, ownerId, offset, handlers, boots>>

\* The drain ends, at the latest with its timeout.
Drained(d) ==
    /\ daemon[d].stop = "draining"
    /\ daemon' = [daemon EXCEPT ![d].stop = "releasing",
                                ![d].unreleased = daemon[d].engines]
    /\ UNCHANGED <<shards, claims, flock, ownerId, offset, handlers, boots>>

\* A claim that is no longer the daemon's is left alone, with a warning.
Release(d) ==
    /\ \E s \in AllShards :
          /\ First(s, daemon[d].unreleased)
          /\ IF Owns(d, s) THEN Remove(s) ELSE UNCHANGED claims
          /\ daemon' = [daemon EXCEPT ![d].unreleased = @ \ {s}]
    /\ UNCHANGED <<shards, flock, ownerId, offset, handlers, boots>>

ShutdownComplete(d) ==
    /\ daemon[d].stop = "releasing"
    /\ daemon[d].unreleased = {}
    /\ Exit(d)
    /\ UNCHANGED <<shards, claims, ownerId, offset, boots>>

\* The message loop reads a line, or the end of its input, during the drain:
\* main returns and the process ends.
LineDuringDrain(d) ==
    /\ "line" \in Faults
    /\ daemon[d].stop # "no"
    /\ Exit(d)
    /\ UNCHANGED <<shards, claims, ownerId, offset, boots>>

\* A kill, or the end of the input of a daemon that is not shutting down.
Kill(d) ==
    /\ "kill" \in Faults
    /\ daemon[d].phase # "down"
    /\ Exit(d)
    /\ UNCHANGED <<shards, claims, ownerId, offset, boots>>

-----------------------------------------------------------------------------
\* snerdmq add-shards.
AddShard ==
    /\ shards < MaxShards
    /\ shards' = shards + 1
    /\ UNCHANGED <<claims, flock, ownerId, offset, daemon, handlers, boots>>

\* Nothing of d is late: no acquisition or round is under way, and its timer is
\* not overdue.
OnTime(d) ==
    /\ daemon[d].acq = "none"
    /\ daemon[d].round = {}
    /\ Up(d) /\ daemon[d].stop = "no" => daemon[d].due > -Delay

Later(left) == IF left > Expired THEN left - 1 ELSE left

Tick ==
    /\ "stall" \in Faults \/ \A d \in Daemons : OnTime(d)
    /\ claims' = [s \in AllShards |->
                      IF claims[s] = Free THEN Free
                      ELSE [claims[s] EXCEPT !.left = Later(@)]]
    /\ daemon' = [d \in Daemons |->
                      IF Up(d) /\ daemon[d].due > -Delay
                      THEN [daemon[d] EXCEPT !.due = @ - 1] ELSE daemon[d]]
    /\ UNCHANGED <<shards, flock, ownerId, offset, handlers, boots>>

Acquiring(d) ==
    \/ Load(d) \/ Claim(d) \/ TryLock(d) \/ Revert(d) \/ Acquired(d)
    \/ BuildEngine(d) \/ Publish(d)

Working(d) ==
    \/ Acquiring(d) \/ StandbyRetry(d)
    \/ StartRound(d) \/ RenewLease(d) \/ RegisterOnEngines(d)
    \/ PauseAll(d) \/ Drained(d) \/ Release(d) \/ ShutdownComplete(d)

Next ==
    \/ \E d \in Daemons :
          \/ Boot(d) \/ Working(d) \/ AcquireFails(d) \/ RenewFails(d)
          \/ Sigterm(d) \/ LineDuringDrain(d) \/ Kill(d)
          \/ \E type \in Types : Register(d, type)
    \/ AddShard
    \/ Tick

Spec == Init /\ [][Next]_vars

\* Daemons and clocks go on; nothing says that one ever starts or stops.
FairSpec ==
    /\ Spec
    /\ WF_vars(Tick)
    /\ \A d \in Daemons :
          /\ WF_vars(Acquiring(d)) /\ WF_vars(StandbyRetry(d))
          /\ WF_vars(StartRound(d)) /\ WF_vars(RenewLease(d))
          /\ WF_vars(PauseAll(d)) /\ WF_vars(Drained(d))
          /\ WF_vars(Release(d)) /\ WF_vars(ShutdownComplete(d))

-----------------------------------------------------------------------------
\* A timer of the heartbeat or of the standby loop: never later than Delay.
DueType == (-Delay)..(IF Renew < Retry THEN Retry ELSE Renew)

ProcessType ==
    [phase: {"down", "boot", "up"},
     acq: {"none", "load", "claim", "lock", "revert", "build"},
     todo: SUBSET AllShards, shard: AllShards \cup {Nobody},
     got: SUBSET AllShards, built: SUBSET AllShards,
     engines: SUBSET AllShards, paused: SUBSET AllShards, orphans: SUBSET AllShards,
     due: DueType, round: SUBSET AllShards,
     stop: {"no", "flagged", "draining", "releasing"},
     unreleased: SUBSET AllShards,
     registered: SUBSET Types, registering: SUBSET Types]

\* Every variable has its type, no lease is longer than the clocks allow, and a
\* daemon never has more shards than SNERD_MAX_SHARDS.
TypeOK ==
    /\ shards \in InitShards..MaxShards
    /\ claims \in [AllShards -> [owner: (SUBSET Daemons) \cup {Nobody},
                                left: Expired..MaxLeft]]
    /\ flock \in [AllShards -> Daemons \cup {Nobody}]
    /\ ownerId \in OwnerIds
    /\ offset \in [Daemons -> Offsets]
    /\ daemon \in [Daemons -> ProcessType]
    /\ \A d \in Daemons :
          Cardinality(daemon[d].got \cup daemon[d].built \cup daemon[d].engines) <= MaxOwned
    /\ handlers \in [Daemons -> [AllShards -> SUBSET Types]]
    /\ boots \in 0..MaxBoots

\* No shard is ever processed by two daemons, whatever stalls, dies, fails,
\* believes the wrong time or takes another's claim for its own, unless an
\* engine that was built was dropped again because a later one failed to start.
OneProcessorPerShard ==
    (\A d \in Daemons : daemon[d].orphans = {}) =>
        \A d, e \in Daemons : d # e => Running(d) \cap Running(e) = {}

\* Where clocks differ by no more than the lease and the margin allow and no
\* daemon stalls, a running daemon owns the claims of its shards.
Serving(d) == IF daemon[d].stop = "no" THEN daemon[d].engines ELSE {}
HeartbeatKeepsClaims == \A d \in Daemons : \A s \in Serving(d) : Owns(d, s)

\* A claim passes from its owner only when the owner gives it up or when it is
\* lapsed on some daemon's clock; a rollback or release of an earlier owner
\* never takes it from a later one.
OnlyLapsedClaimsPass ==
    [][\A s \in AllShards : LET owner == claims[s].owner IN
          claims'[s].owner # owner /\ owner # Nobody => \E d \in Daemons :
              \/ IsLapsed(claims[s], d) /\ claims'[s].owner = ownerId[d]
              \/ /\ Owns(d, s)
                 /\ \/ daemon[d].acq = "revert" /\ daemon[d].shard = s
                    \/ s \in daemon[d].unreleased]_vars

\* A standby daemon that stays up finds every shard served, after every crash
\* of its owner.
Available(d) == Up(d) /\ daemon[d].stop = "no"
Served(s) == \E d \in Daemons : s \in Serving(d) \ daemon[d].paused
Failover ==
    \A s \in 0..(InitShards - 1) :
        (\E d \in Daemons : Available(d)) ~> Served(s) \/ ~ \E d \in Daemons : Available(d)

-----------------------------------------------------------------------------
(* What comments, messages, tests or the README say of this code, and the  *)
(* code does not do.                                                       *)

\* "The flock handle proving ownership" (main.rs): who processes a shard holds
\* its lock.
ProcessorHoldsFlock == \A d \in Daemons : Running(d) \subseteq Held(d)

\* "Membership never disagrees with the locks" (main.rs) of the daemons that are
\* not about to change either.
Settled(d) == Up(d) /\ daemon[d].acq = "none" /\ daemon[d].stop = "no"
ClaimsAgreeWithLocks ==
    (\A d \in Daemons : Settled(d)) =>
        \A s \in AllShards : flock[s] # Nobody => Owns(flock[s], s)

\* "After drain + exit, membership.json should have no active claims"
\* (sharding_e2e.rs): a graceful shutdown leaves no claim behind.
ShutdownReleasesClaims ==
    [][\A d \in Daemons : daemon[d].stop # "no" /\ daemon'[d].phase = "down" =>
          \A s \in AllShards : claims'[s].owner # ownerId[d]]_vars

\* "Replayed onto every shard engine" (main.rs): a registered handler is on every
\* published engine.
HandlersReplayed ==
    \A d \in Daemons : \A s \in daemon[d].engines :
        daemon[d].registered \ daemon[d].registering \subseteq handlers[d][s]
=============================================================================
