--------------------------- MODULE ClusterProofs ----------------------------
(***************************************************************************)
(* Machine-checked facts about which daemon runs which shard, for any set  *)
(* of daemons, any number of shards, and any lease, timers and clocks.     *)
(***************************************************************************)
EXTENDS Cluster, FiniteSetTheorems, TLAPS

-----------------------------------------------------------------------------
(* The inductive invariant.                                                *)

\* The shards a process has the locks of, by its own account.
Owned(p) == p.got \cup p.built \cup p.engines

\* What a process has at each stage of an acquisition: an acquisition is made
\* by a daemon without engines, a claimed shard is one too few for the limit.
Staged(p) ==
    /\ p.phase = "down" => p = Down
    /\ p.acq \in {"lock", "revert"} =>
          p.shard \in AllShards /\ Cardinality(p.got) < MaxOwned
    /\ p.acq # "none" => p.engines = {}
    /\ p.acq \in {"none", "load"} => p.got = {}
    /\ p.acq # "build" => p.built = {}
    /\ p.got \cap p.built = {}
    /\ p.round \subseteq p.engines

\* Every lock that a process believes to have is its own.
LocksHeld == \A d \in Daemons : Owned(daemon[d]) \subseteq Held(d)

IInv == TypeOK /\ (\A d \in Daemons : Staged(daemon[d])) /\ LocksHeld

-----------------------------------------------------------------------------
(* Types.                                                                  *)

ClaimType == [owner: (SUBSET Daemons) \cup {Nobody}, left: Expired..MaxLeft]

LEMMA ShardsAreFinite == \A S \in SUBSET AllShards : IsFiniteSet(S) /\ Cardinality(S) \in Nat
  <1>1. MaxShards - 1 \in Int BY ShardAssumption
  <1>2. IsFiniteSet(AllShards) BY <1>1, FS_Interval DEF AllShards
  <1> QED BY <1>2, FS_Subset, FS_CardinalityType

\* The longest a lease can be, for the clock that is ahead the most.
LEMMA LeaseTypes ==
    ASSUME TypeOK, NEW d \in Daemons
    PROVE  /\ Expired \in Int /\ MaxLeft \in Int /\ 0 \in Expired..MaxLeft
           /\ Lease + offset[d] \in Expired..MaxLeft
           /\ [owner |-> ownerId[d], left |-> Lease + offset[d]] \in ClaimType
           /\ Free \in ClaimType
  <1> DEFINE most == CHOOSE o \in Offsets : \A p \in Offsets : p <= o
  <1>1. most \in Offsets /\ \A p \in Offsets : p <= most BY TimeAssumption
  <1>2. MaxLeft = Lease + most BY DEF MaxLeft
  <1>3. offset[d] \in Offsets /\ offset[d] \in Nat /\ most \in Nat /\ Lease \in Nat /\ Margin \in Nat
    BY <1>1, TimeAssumption DEF TypeOK
  <1>4. Expired \in Int /\ MaxLeft \in Int /\ 0 \in Expired..MaxLeft
        /\ Lease + offset[d] \in Expired..MaxLeft
    BY <1>1, <1>2, <1>3 DEF Expired
  <1>5. ownerId[d] \in SUBSET Daemons BY DEF TypeOK, OwnerIds
  <1> QED BY <1>4, <1>5 DEF ClaimType, Free

LEMMA TypeFacts ==
    ASSUME IInv, NEW d \in Daemons
    PROVE  /\ daemon[d] \in ProcessType
           /\ Staged(daemon[d])
           /\ Owned(daemon[d]) \subseteq Held(d)
           /\ Cardinality(Owned(daemon[d])) <= MaxOwned
           /\ daemon \in [Daemons -> ProcessType]
           /\ claims \in [AllShards -> ClaimType]
           /\ flock \in [AllShards -> Daemons \cup {Nobody}]
           /\ handlers \in [Daemons -> [AllShards -> SUBSET Types]]
           /\ boots \in 0..MaxBoots
  <1>1. daemon \in [Daemons -> ProcessType] BY DEF IInv, TypeOK
  <1> QED BY <1>1 DEF IInv, TypeOK, Owned, LocksHeld, ClaimType

LEMMA ProcessTyped == ASSUME IInv, NEW d \in Daemons PROVE daemon[d] \in ProcessType
  BY DEF IInv, TypeOK

\* What a process has is a set of shards, and its timer in range.
LEMMA ProcessFacts ==
    ASSUME NEW p \in ProcessType
    PROVE  /\ {p.got, p.built, p.engines, p.orphans, p.paused, p.round} \subseteq SUBSET AllShards
           /\ p.due \in DueType /\ p.due \in Int
  BY TimeAssumption DEF ProcessType, DueType

LEMMA DownIsAState == Down \in ProcessType /\ Staged(Down) /\ Owned(Down) = {}
                      /\ Cardinality(Owned(Down)) <= MaxOwned
  <1>1. Owned(Down) = {} BY DEF Owned, Down
  <1>2. Cardinality({}) = 0 BY FS_EmptySet
  <1>3. 0 \in DueType BY TimeAssumption DEF DueType
  <1>4. Down \in ProcessType BY <1>3 DEF Down, ProcessType
  <1> QED BY <1>1, <1>2, <1>4, ShardAssumption DEF Down, Staged

LEMMA InitIInv == Init => IInv
  <1> SUFFICES ASSUME Init PROVE IInv OBVIOUS
  <1>1. daemon = [d \in Daemons |-> Down] BY DEF Init
  <1>2. \A d \in Daemons : daemon[d] = Down BY <1>1
  <1>3. claims \in [AllShards -> ClaimType]
    <2>1. Free \in ClaimType
      <3>1. \E o \in Offsets : TRUE BY TimeAssumption
      <3> DEFINE most == CHOOSE o \in Offsets : \A p \in Offsets : p <= o
      <3>2. most \in Nat BY TimeAssumption
      <3>3. MaxLeft = Lease + most /\ Lease \in Nat /\ Margin \in Nat
        BY TimeAssumption DEF MaxLeft
      <3> QED BY <3>2, <3>3 DEF ClaimType, Free, Expired
    <2> QED BY <2>1 DEF Init
  <1>4. TypeOK
    <2>1. \A d \in Daemons :
             /\ daemon[d] \in ProcessType
             /\ Cardinality(daemon[d].got \cup daemon[d].built \cup daemon[d].engines) <= MaxOwned
      BY <1>2, DownIsAState DEF Owned
    <2>2. shards \in InitShards..MaxShards /\ boots \in 0..MaxBoots
      BY ShardAssumption DEF Init
    <2> QED BY <1>1, <1>3, <2>1, <2>2, DownIsAState DEF Init, TypeOK, ClaimType
  <1>5. (\A d \in Daemons : Staged(daemon[d])) /\ LocksHeld
    BY <1>2, DownIsAState DEF LocksHeld
  <1> QED BY <1>4, <1>5 DEF IInv

-----------------------------------------------------------------------------
(* A step of one process.                                                  *)

\* What has to be shown of a step in which process d goes on to r.
LEMMA ProcessStep ==
    ASSUME IInv, NEW d \in Daemons, NEW r \in ProcessType,
           daemon' = [daemon EXCEPT ![d] = r],
           Staged(r), Cardinality(Owned(r)) <= MaxOwned,
           claims' \in [AllShards -> ClaimType],
           flock' \in [AllShards -> Daemons \cup {Nobody}],
           handlers' \in [Daemons -> [AllShards -> SUBSET Types]],
           boots' \in 0..MaxBoots,
           UNCHANGED <<shards, ownerId, offset>>,
           Owned(r) \subseteq Held(d)',
           \A e \in Daemons \ {d} : Held(e) \subseteq Held(e)'
    PROVE  IInv'
  <1>1. daemon' \in [Daemons -> ProcessType] /\ daemon'[d] = r
        /\ \A e \in Daemons \ {d} : daemon'[e] = daemon[e]
    BY TypeFacts
  <1>2. \A e \in Daemons : /\ daemon'[e] \in ProcessType /\ Staged(daemon'[e])
                           /\ Cardinality(Owned(daemon'[e])) <= MaxOwned
                           /\ Owned(daemon'[e]) \subseteq Held(e)'
    BY <1>1, TypeFacts
  <1>3. TypeOK'
    BY <1>1, <1>2, TypeFacts DEF IInv, TypeOK, Owned, ClaimType
  <1>4. LocksHeld' BY <1>2 DEF LocksHeld
  <1> QED BY <1>2, <1>3, <1>4 DEF IInv

\* A process that exits gives its locks back, and no others'.
LEMMA ExitStep ==
    ASSUME IInv, NEW d \in Daemons, Exit(d), claims' \in [AllShards -> ClaimType],
           UNCHANGED <<shards, ownerId, offset, boots>>
    PROVE  IInv'
  <1>1. daemon' = [daemon EXCEPT ![d] = Down] BY DEF Exit
  <1>2. flock' \in [AllShards -> Daemons \cup {Nobody}]
        /\ \A e \in Daemons \ {d} : Held(e) \subseteq Held(e)'
    BY TypeFacts DEF Exit, Held
  <1>3. handlers' \in [Daemons -> [AllShards -> SUBSET Types]]
    BY TypeFacts DEF Exit
  <1> QED BY <1>1, <1>2, <1>3, TypeFacts, DownIsAState, ProcessStep

\* What a step has to show that takes and gives back no lock.
LEMMA OwnStep ==
    ASSUME IInv, NEW d \in Daemons, NEW r \in ProcessType,
           daemon' = [daemon EXCEPT ![d] = r],
           Staged(r), Owned(r) \subseteq Owned(daemon[d]),
           claims' \in [AllShards -> ClaimType],
           handlers' \in [Daemons -> [AllShards -> SUBSET Types]],
           UNCHANGED <<shards, flock, ownerId, offset>>,
           boots' \in 0..MaxBoots
    PROVE  IInv'
  <1>1. Owned(daemon[d]) \subseteq AllShards /\ Owned(r) \subseteq AllShards
    BY TypeFacts DEF Owned, ProcessType
  <1>2. Cardinality(Owned(r)) <= Cardinality(Owned(daemon[d]))
    BY <1>1, ShardsAreFinite, FS_Subset
  <1>3. Cardinality(Owned(r)) <= MaxOwned
    BY <1>1, <1>2, TypeFacts, ShardsAreFinite, ShardAssumption
  <1>4. \A e \in Daemons : Held(e)' = Held(e) BY DEF Held
  <1> QED BY <1>3, <1>4, TypeFacts, ProcessStep

LEMMA BootStep ==
    ASSUME IInv, NEW d \in Daemons, Boot(d)
    PROVE  IInv'
  <1> DEFINE r == [daemon[d] EXCEPT !.phase = "boot", !.acq = "load"]
  <1>1. daemon' = [daemon EXCEPT ![d] = r] BY TypeFacts DEF Boot
  <1>2. daemon[d] = Down BY TypeFacts DEF Boot, Staged
  <1>3. r \in ProcessType BY ProcessTyped, ZenonT(40) DEF ProcessType
  <1>4. Staged(r) BY <1>2 DEF Staged, Down
  <1>5. Owned(r) \subseteq Owned(daemon[d]) BY <1>2 DEF Owned, Down
  <1>6. boots' \in 0..MaxBoots BY TypeFacts, ShardAssumption DEF Boot
  <1> QED BY <1>1, <1>3, <1>4, <1>5, <1>6, TypeFacts, OwnStep DEF Boot

LEMMA StandbyRetryStep ==
    ASSUME IInv, NEW d \in Daemons, StandbyRetry(d)
    PROVE  IInv'
  <1> DEFINE r == [daemon[d] EXCEPT !.acq = "load", !.due = @ + Retry]
  <1>1. daemon' = [daemon EXCEPT ![d] = r] BY TypeFacts DEF StandbyRetry
  <1>2. r \in ProcessType
    <2>1. daemon[d].due + Retry \in DueType
      <3>1. daemon[d].due \in DueType /\ daemon[d].due <= 0
        BY TypeFacts, ProcessFacts DEF StandbyRetry
      <3>2. Delay \in Nat /\ Renew \in Nat /\ Retry \in Nat BY TimeAssumption
      <3> QED BY <3>1, <3>2 DEF DueType
    <2> QED BY <2>1, ProcessTyped, ZenonT(40) DEF ProcessType
  <1>3. Staged(r) BY TypeFacts DEF Staged, StandbyRetry, Up, Down
  <1>4. Owned(r) \subseteq Owned(daemon[d]) BY TypeFacts DEF Owned, Staged, StandbyRetry
  <1> QED BY <1>1, <1>2, <1>3, <1>4, TypeFacts, OwnStep DEF StandbyRetry

LEMMA LoadStep ==
    ASSUME IInv, NEW d \in Daemons, Load(d)
    PROVE  IInv'
  <1> DEFINE r == [daemon[d] EXCEPT !.acq = "claim", !.todo = {s \in 0..(shards - 1) : Claimable(d, s)}]
  <1>1. daemon' = [daemon EXCEPT ![d] = r] BY TypeFacts DEF Load
  <1>2. r \in ProcessType 
    <2>1. 0..(shards - 1) \subseteq AllShards
      BY ShardAssumption DEF IInv, TypeOK, AllShards
    <2> QED BY <2>1, ProcessTyped, ZenonT(40) DEF ProcessType
  <1>3. Staged(r) BY TypeFacts DEF Staged, Load, Down
  <1>4. Owned(r) \subseteq Owned(daemon[d]) BY TypeFacts DEF Owned, Staged, Load
  <1> QED BY <1>1, <1>2, <1>3, <1>4, TypeFacts, OwnStep DEF Load

LEMMA AcquiredStep ==
    ASSUME IInv, NEW d \in Daemons, Acquired(d)
    PROVE  IInv'
  <1> DEFINE r == [daemon[d] EXCEPT !.acq = "build", !.todo = {}]
  <1>1. daemon' = [daemon EXCEPT ![d] = r] BY TypeFacts DEF Acquired
  <1>2. r \in ProcessType BY ProcessTyped, ZenonT(40) DEF ProcessType
  <1>3. Staged(r) BY TypeFacts DEF Staged, Acquired, Down
  <1>4. Owned(r) \subseteq Owned(daemon[d]) BY TypeFacts DEF Owned, Staged, Acquired
  <1> QED BY <1>1, <1>2, <1>3, <1>4, TypeFacts, OwnStep DEF Acquired

LEMMA RegisterStep ==
    ASSUME IInv, NEW d \in Daemons, NEW type \in Types, Register(d, type)
    PROVE  IInv'
  <1> DEFINE r == [daemon[d] EXCEPT !.registered = @ \cup {type}, !.registering = {type}]
  <1>1. daemon' = [daemon EXCEPT ![d] = r] BY TypeFacts DEF Register
  <1>2. r \in ProcessType BY ProcessTyped, ZenonT(40) DEF ProcessType
  <1>3. Staged(r) BY TypeFacts DEF Staged, Register, Up, Down
  <1>4. Owned(r) \subseteq Owned(daemon[d]) BY TypeFacts DEF Owned, Staged, Register
  <1> QED BY <1>1, <1>2, <1>3, <1>4, TypeFacts, OwnStep DEF Register

LEMMA StartRoundStep ==
    ASSUME IInv, NEW d \in Daemons, StartRound(d)
    PROVE  IInv'
  <1> DEFINE r == [daemon[d] EXCEPT !.due = @ + Renew, !.round = daemon[d].engines]
  <1>1. daemon' = [daemon EXCEPT ![d] = r] BY TypeFacts DEF StartRound
  <1>2. r \in ProcessType
    <2>1. daemon[d].due + Renew \in DueType
      <3>1. daemon[d].due \in DueType /\ daemon[d].due <= 0
        BY TypeFacts, ProcessFacts DEF StartRound
      <3>2. Delay \in Nat /\ Renew \in Nat /\ Retry \in Nat BY TimeAssumption
      <3> QED BY <3>1, <3>2 DEF DueType
    <2> QED BY <2>1, ProcessTyped, ZenonT(40) DEF ProcessType
  <1>3. Staged(r) BY TypeFacts DEF Staged, StartRound, Up, Down
  <1>4. Owned(r) \subseteq Owned(daemon[d]) BY TypeFacts DEF Owned, Staged, StartRound
  <1> QED BY <1>1, <1>2, <1>3, <1>4, TypeFacts, OwnStep DEF StartRound

LEMMA SigtermStep ==
    ASSUME IInv, NEW d \in Daemons, Sigterm(d)
    PROVE  IInv'
  <1> DEFINE r == [daemon[d] EXCEPT !.stop = "flagged"]
  <1>1. daemon' = [daemon EXCEPT ![d] = r] BY TypeFacts DEF Sigterm
  <1>2. r \in ProcessType BY ProcessTyped, ZenonT(40) DEF ProcessType
  <1>3. Staged(r) BY TypeFacts DEF Staged, Sigterm, Up, Down
  <1>4. Owned(r) \subseteq Owned(daemon[d]) BY TypeFacts DEF Owned, Staged, Sigterm
  <1> QED BY <1>1, <1>2, <1>3, <1>4, TypeFacts, OwnStep DEF Sigterm

LEMMA PauseAllStep ==
    ASSUME IInv, NEW d \in Daemons, PauseAll(d)
    PROVE  IInv'
  <1> DEFINE r == [daemon[d] EXCEPT !.stop = "draining", !.paused = daemon[d].engines]
  <1>1. daemon' = [daemon EXCEPT ![d] = r] BY TypeFacts DEF PauseAll
  <1>2. r \in ProcessType BY ProcessTyped, ZenonT(40) DEF ProcessType
  <1>3. Staged(r) BY TypeFacts DEF Staged, PauseAll, Down
  <1>4. Owned(r) \subseteq Owned(daemon[d]) BY TypeFacts DEF Owned, Staged, PauseAll
  <1> QED BY <1>1, <1>2, <1>3, <1>4, TypeFacts, OwnStep DEF PauseAll

LEMMA DrainedStep ==
    ASSUME IInv, NEW d \in Daemons, Drained(d)
    PROVE  IInv'
  <1> DEFINE r == [daemon[d] EXCEPT !.stop = "releasing", !.unreleased = daemon[d].engines]
  <1>1. daemon' = [daemon EXCEPT ![d] = r] BY TypeFacts DEF Drained
  <1>2. r \in ProcessType BY ProcessTyped, ZenonT(40) DEF ProcessType
  <1>3. Staged(r) BY TypeFacts DEF Staged, Drained, Down
  <1>4. Owned(r) \subseteq Owned(daemon[d]) BY TypeFacts DEF Owned, Staged, Drained
  <1> QED BY <1>1, <1>2, <1>3, <1>4, TypeFacts, OwnStep DEF Drained

LEMMA PublishStep ==
    ASSUME IInv, NEW d \in Daemons, Publish(d)
    PROVE  IInv'
  <1>1. PICK due \in IF daemon[d].built = {} THEN {IF Up(d) THEN daemon[d].due ELSE Retry}
                     ELSE IF Up(d) THEN 0..Renew ELSE {Renew} :
           daemon' = [daemon EXCEPT ![d].phase = "up", ![d].acq = "none",
                                    ![d].built = {}, ![d].due = due,
                                    ![d].engines = @ \cup daemon[d].built]
    BY DEF Publish
  <1> DEFINE r == [daemon[d] EXCEPT !.phase = "up", !.acq = "none", !.built = {},
                                    !.due = due, !.engines = @ \cup daemon[d].built]
  <1>2. daemon' = [daemon EXCEPT ![d] = r] BY <1>1, TypeFacts
  <1>3. due \in DueType
    <2>1. Delay \in Nat /\ Renew \in Nat /\ Retry \in Nat BY TimeAssumption
    <2>2. 0..Renew \subseteq DueType /\ Renew \in DueType /\ Retry \in DueType
      BY <2>1 DEF DueType
    <2>3. daemon[d].due \in DueType BY TypeFacts, ProcessFacts
    <2> QED BY <1>1, <2>2, <2>3
  <1>4. r \in ProcessType
    <2>1. daemon[d].engines \cup daemon[d].built \in SUBSET AllShards BY TypeFacts, ProcessFacts
    <2>2. daemon[d] \in ProcessType BY TypeFacts
    <2> QED BY <1>3, <2>1, <2>2 DEF ProcessType
  <1>5. Staged(r) BY TypeFacts DEF Staged, Publish
  <1>6. Owned(r) \subseteq Owned(daemon[d]) BY DEF Owned
  <1> QED BY <1>2, <1>4, <1>5, <1>6, TypeFacts, OwnStep DEF Publish

LEMMA RegisterOnEnginesStep ==
    ASSUME IInv, NEW d \in Daemons, RegisterOnEngines(d)
    PROVE  IInv'
  <1> DEFINE r == [daemon[d] EXCEPT !.registering = {}]
  <1>1. daemon' = [daemon EXCEPT ![d] = r] BY TypeFacts DEF RegisterOnEngines
  <1>2. r \in ProcessType BY ProcessTyped, ZenonT(40) DEF ProcessType
  <1>3. Staged(r) BY TypeFacts DEF Staged, RegisterOnEngines, Down
  <1>4. Owned(r) \subseteq Owned(daemon[d]) BY DEF Owned
  <1>5. handlers' \in [Daemons -> [AllShards -> SUBSET Types]]
    BY TypeFacts DEF RegisterOnEngines, ProcessType
  <1> QED BY <1>1, <1>2, <1>3, <1>4, <1>5, TypeFacts, OwnStep DEF RegisterOnEngines

LEMMA BuildEngineStep ==
    ASSUME IInv, NEW d \in Daemons, BuildEngine(d)
    PROVE  IInv'
  <1>1. PICK s \in AllShards :
           /\ s \in daemon[d].got
           /\ daemon' = [daemon EXCEPT ![d].got = @ \ {s}, ![d].built = @ \cup {s}]
           /\ handlers' = [handlers EXCEPT ![d][s] = daemon[d].registered]
    BY DEF BuildEngine, First
  <1> DEFINE r == [daemon[d] EXCEPT !.got = @ \ {s}, !.built = @ \cup {s}]
  <1>2. daemon' = [daemon EXCEPT ![d] = r] BY <1>1, TypeFacts
  <1>3. r \in ProcessType BY ProcessTyped, ZenonT(40) DEF ProcessType
  <1>4. Staged(r) BY TypeFacts DEF Staged, BuildEngine, Down
  <1>5. Owned(r) \subseteq Owned(daemon[d]) BY <1>1 DEF Owned
  <1>6. handlers' \in [Daemons -> [AllShards -> SUBSET Types]]
    BY <1>1, TypeFacts DEF ProcessType
  <1> QED BY <1>2, <1>3, <1>4, <1>5, <1>6, TypeFacts, OwnStep DEF BuildEngine

\* A claim that is set or removed keeps the type of the claims.
LEMMA ClaimsStay ==
    ASSUME IInv, NEW d \in Daemons, NEW s \in AllShards,
           SetLease(d, s) \/ Remove(s) \/ UNCHANGED claims
    PROVE  claims' \in [AllShards -> ClaimType]
  <1>1. TypeOK BY DEF IInv
  <1> QED BY <1>1, TypeFacts, LeaseTypes DEF SetLease, Remove

LEMMA RenewLeaseStep ==
    ASSUME IInv, NEW d \in Daemons, RenewLease(d) \/ RenewFails(d)
    PROVE  IInv'
  <1>1. PICK s \in AllShards, paused \in SUBSET AllShards :
           /\ s \in daemon[d].round
           /\ daemon' = [daemon EXCEPT ![d].round = @ \ {s}, ![d].paused = paused]
           /\ SetLease(d, s) \/ UNCHANGED claims
    <2>1. CASE RenewLease(d)
      <3>1. PICK s \in AllShards :
              /\ First(s, daemon[d].round)
              /\ IF s \in daemon[d].paused \/ ~Owns(d, s) THEN UNCHANGED claims
                 ELSE SetLease(d, s)
              /\ daemon' = [daemon EXCEPT ![d].round = @ \ {s},
                     ![d].paused = IF Owns(d, s) THEN @ ELSE @ \cup {s}]
        BY <2>1 DEF RenewLease
      <3> WITNESS s \in AllShards
      <3> DEFINE paused == IF Owns(d, s) THEN daemon[d].paused ELSE daemon[d].paused \cup {s}
      <3>2. paused \in SUBSET AllShards BY TypeFacts DEF ProcessType
      <3> WITNESS paused \in SUBSET AllShards
      <3> QED BY <3>1, TypeFacts DEF First
    <2>2. CASE RenewFails(d)
      <3>1. PICK s \in AllShards :
              /\ First(s, daemon[d].round \ daemon[d].paused)
              /\ daemon' = [daemon EXCEPT ![d].round = @ \ {s}]
        BY <2>2 DEF RenewFails
      <3> WITNESS s \in AllShards
      <3> DEFINE paused == daemon[d].paused
      <3>2. paused \in SUBSET AllShards BY TypeFacts DEF ProcessType
      <3> WITNESS paused \in SUBSET AllShards
      <3>3. daemon' = [daemon EXCEPT ![d].round = @ \ {s}, ![d].paused = paused]
        BY <3>1, TypeFacts, ZenonT(40) DEF ProcessType
      <3> QED BY <2>2, <3>1, <3>3 DEF First, RenewFails
    <2> QED BY <2>1, <2>2
  <1> DEFINE r == [daemon[d] EXCEPT !.round = @ \ {s}, !.paused = paused]
  <1>2. daemon' = [daemon EXCEPT ![d] = r] BY <1>1, TypeFacts
  <1>3. r \in ProcessType
    <2>1. daemon[d].round \ {s} \in SUBSET AllShards BY TypeFacts, ProcessFacts
    <2>2. daemon[d] \in ProcessType BY TypeFacts
    <2> QED BY <2>1, <2>2 DEF ProcessType
  <1>4. Staged(r) BY <1>1, TypeFacts DEF Staged, Down
  <1>5. Owned(r) \subseteq Owned(daemon[d]) BY DEF Owned
  <1>6. claims' \in [AllShards -> ClaimType] BY <1>1, ClaimsStay
  <1> QED BY <1>2, <1>3, <1>4, <1>5, <1>6, TypeFacts, OwnStep DEF RenewLease, RenewFails

LEMMA ReleaseStep ==
    ASSUME IInv, NEW d \in Daemons, Release(d)
    PROVE  IInv'
  <1>1. PICK s \in AllShards :
           /\ s \in daemon[d].unreleased
           /\ Remove(s) \/ UNCHANGED claims
           /\ daemon' = [daemon EXCEPT ![d].unreleased = @ \ {s}]
    BY DEF Release, First
  <1> DEFINE r == [daemon[d] EXCEPT !.unreleased = @ \ {s}]
  <1>2. daemon' = [daemon EXCEPT ![d] = r] BY <1>1, TypeFacts
  <1>3. r \in ProcessType BY ProcessTyped, ZenonT(40) DEF ProcessType
  <1>4. Staged(r) BY <1>1, TypeFacts DEF Staged, Down
  <1>5. Owned(r) \subseteq Owned(daemon[d]) BY DEF Owned
  <1>6. claims' \in [AllShards -> ClaimType] BY <1>1, ClaimsStay
  <1> QED BY <1>2, <1>3, <1>4, <1>5, <1>6, TypeFacts, OwnStep DEF Release

LEMMA RevertStep ==
    ASSUME IInv, NEW d \in Daemons, Revert(d)
    PROVE  IInv'
  <1> DEFINE r == [daemon[d] EXCEPT !.acq = "claim", !.shard = Nobody]
  <1>1. daemon' = [daemon EXCEPT ![d] = r] BY TypeFacts DEF Revert
  <1>2. r \in ProcessType BY ProcessTyped, ZenonT(40) DEF ProcessType
  <1>3. Staged(r) BY TypeFacts DEF Staged, Revert, Down
  <1>4. Owned(r) \subseteq Owned(daemon[d]) BY DEF Owned
  <1>5. daemon[d].shard \in AllShards BY TypeFacts DEF Staged, Revert
  <1>6. claims' \in [AllShards -> ClaimType] BY <1>5, ClaimsStay DEF Revert
  <1> QED BY <1>1, <1>2, <1>3, <1>4, <1>6, TypeFacts, OwnStep DEF Revert

\* Giving up an acquisition, at boot with the process.
LEMMA AbortStep ==
    ASSUME IInv, NEW d \in Daemons, daemon[d].acq # "none", Abort(d),
           UNCHANGED <<shards, claims, ownerId, offset, boots>>
    PROVE  IInv'
  <1>1. CASE daemon[d].phase = "boot"
    BY <1>1, TypeFacts, ExitStep DEF Abort
  <1>2. CASE daemon[d].phase # "boot"
    <2> DEFINE p == daemon[d]
               r == [p EXCEPT !.acq = "none", !.todo = {}, !.shard = Nobody,
                              !.got = {}, !.built = {}, !.orphans = @ \cup p.built]
    <2>1. daemon' = [daemon EXCEPT ![d] = r] BY <1>2, TypeFacts DEF Abort
    <2>2. r \in ProcessType BY ProcessTyped, ZenonT(40) DEF ProcessType
    <2>3. Staged(r) BY TypeFacts DEF Staged, Down
    <2>4. Owned(r) = {}
      <3>1. r.got = {} /\ r.built = {} /\ r.engines = p.engines BY TypeFacts DEF ProcessType
      <3>2. p.engines = {} BY TypeFacts DEF Staged
      <3> QED BY <3>1, <3>2 DEF Owned
    <2>5. Cardinality(Owned(r)) <= MaxOwned BY <2>4, FS_EmptySet, ShardAssumption
    <2>6. flock' = [s \in AllShards |-> IF s \in p.got \cup p.built THEN Nobody ELSE flock[s]]
      BY <1>2 DEF Abort
    <2>7. p.got \cup p.built \subseteq Held(d) BY TypeFacts DEF Owned
    <2>8. \A e \in Daemons \ {d} : Held(e) \subseteq Held(e)'
      BY <2>6, <2>7 DEF Held
    <2>9. flock' \in [AllShards -> Daemons \cup {Nobody}] BY <2>6, TypeFacts
    <2>10. UNCHANGED handlers BY <1>2 DEF Abort
    <2> HIDE DEF r
    <2> QED BY <2>1, <2>2, <2>3, <2>4, <2>5, <2>8, <2>9, <2>10, TypeFacts, ProcessStep
  <1> QED BY <1>1, <1>2

LEMMA ClaimStep ==
    ASSUME IInv, NEW d \in Daemons, Claim(d)
    PROVE  IInv'
  <1>1. PICK s \in AllShards :
           IF Claimable(d, s)
           THEN /\ SetLease(d, s)
                /\ daemon' = [daemon EXCEPT ![d].acq = "lock", ![d].shard = s,
                                            ![d].todo = @ \ {s}]
                /\ UNCHANGED <<flock, handlers>>
           ELSE Abort(d) /\ UNCHANGED claims
    BY DEF Claim
  <1>2. CASE Claimable(d, s)
    <2> DEFINE r == [daemon[d] EXCEPT !.acq = "lock", !.shard = s, !.todo = @ \ {s}]
    <2>1. daemon' = [daemon EXCEPT ![d] = r] BY <1>1, <1>2, TypeFacts
    <2>2. r \in ProcessType BY ProcessTyped, ZenonT(40) DEF ProcessType
    <2>3. Staged(r) BY TypeFacts DEF Staged, Claim, MayClaim, Down
    <2>4. Owned(r) \subseteq Owned(daemon[d]) BY DEF Owned
    <2>5. claims' \in [AllShards -> ClaimType] BY <1>1, <1>2, ClaimsStay
    <2>6. UNCHANGED <<shards, flock, ownerId, offset, handlers, boots>> BY <1>1, <1>2 DEF Claim
    <2> HIDE DEF r
    <2> QED BY <2>1, <2>2, <2>3, <2>4, <2>5, <2>6, TypeFacts, OwnStep
  <1>3. CASE ~Claimable(d, s)
    BY <1>1, <1>3, AbortStep DEF Claim
  <1> QED BY <1>2, <1>3

LEMMA AcquireFailsStep ==
    ASSUME IInv, NEW d \in Daemons, AcquireFails(d)
    PROVE  IInv'
  BY AbortStep DEF AcquireFails

\* The lock is taken where nobody has it; the limit on shards is kept, since
\* a daemon that acquires has no engine.
LEMMA TryLockStep ==
    ASSUME IInv, NEW d \in Daemons, TryLock(d)
    PROVE  IInv'
  <1> DEFINE p == daemon[d]
             s == p.shard
  <1>1. s \in AllShards /\ Cardinality(p.got) < MaxOwned
        /\ p.engines = {} /\ p.built = {}
    BY TypeFacts DEF TryLock, Staged
  <1>2. CASE flock[s] = Nobody
    <2> DEFINE r == [p EXCEPT !.acq = "claim", !.shard = Nobody, !.got = @ \cup {s}]
    <2>1. /\ flock' = [flock EXCEPT ![s] = d]
          /\ daemon' = [daemon EXCEPT ![d] = r]
      BY <1>2, TypeFacts DEF TryLock
    <2>2. r \in ProcessType
      <3>1. p.got \cup {s} \in SUBSET AllShards BY <1>1, TypeFacts, ProcessFacts
      <3>2. p \in ProcessType BY TypeFacts
      <3> QED BY <3>1, <3>2 DEF ProcessType
    <2>3. Staged(r) BY <1>1, TypeFacts DEF Staged, TryLock, Down
    <2>4. Owned(r) = p.got \cup {s} BY <1>1, TypeFacts DEF Owned, ProcessType
    <2>5. p.got \subseteq AllShards BY TypeFacts DEF ProcessType
    <2>6. Cardinality(Owned(r)) <= MaxOwned
      <3>1. IsFiniteSet(p.got) /\ Cardinality(p.got) \in Nat BY <2>5, ShardsAreFinite
      <3>2. Cardinality(p.got \cup {s}) \in {Cardinality(p.got), Cardinality(p.got) + 1}
        BY <3>1, FS_AddElement
      <3>3. MaxOwned \in Nat /\ Cardinality(p.got) < MaxOwned BY <1>1, ShardAssumption
      <3>4. Cardinality(Owned(r)) = Cardinality(p.got \cup {s}) BY <2>4, Zenon
      <3> QED BY <3>1, <3>2, <3>3, <3>4
    <2>7. flock' \in [AllShards -> Daemons \cup {Nobody}] BY <2>1, TypeFacts
    <2>8. Owned(r) \subseteq Held(d)'
      BY <1>1, <2>1, <2>4, TypeFacts DEF Held, Owned
    <2>9. \A e \in Daemons \ {d} : Held(e) \subseteq Held(e)'
      <3>1. \A e \in Daemons : e # Nobody BY NobodyAssumption
      <3> QED BY <1>2, <2>1, <3>1, TypeFacts DEF Held
    <2> QED BY <2>1, <2>2, <2>3, <2>6, <2>7, <2>8, <2>9, TypeFacts, ProcessStep
            DEF TryLock
  <1>3. CASE flock[s] # Nobody
    <2> DEFINE r == [p EXCEPT !.acq = "revert"]
    <2>1. daemon' = [daemon EXCEPT ![d] = r] BY <1>3, TypeFacts DEF TryLock
    <2>2. r \in ProcessType BY ProcessTyped, ZenonT(40) DEF ProcessType
    <2>3. Staged(r) BY <1>1, TypeFacts DEF Staged, TryLock, Down
    <2>4. Owned(r) \subseteq Owned(p) BY DEF Owned
    <2> QED BY <1>3, <2>1, <2>2, <2>3, <2>4, TypeFacts, OwnStep DEF TryLock
  <1> QED BY <1>2, <1>3

-----------------------------------------------------------------------------
(* Steps of all processes.                                                 *)

LEMMA TickStep ==
    ASSUME IInv, Tick
    PROVE  IInv'
  <1> DEFINE Counts(d) == Up(d) /\ daemon[d].due > -Delay
  <1>1. daemon' = [d \in Daemons |-> IF Counts(d) THEN [daemon[d] EXCEPT !.due = @ - 1]
                                     ELSE daemon[d]]
    BY DEF Tick
  <1>2. ASSUME NEW d \in Daemons
        PROVE  /\ daemon'[d] \in ProcessType /\ Staged(daemon'[d])
               /\ Owned(daemon'[d]) = Owned(daemon[d])
    <2>1. CASE Counts(d)
      <3> DEFINE r == [daemon[d] EXCEPT !.due = @ - 1]
      <3>1. daemon'[d] = r BY <1>1, <2>1
      <3>2. r \in ProcessType
        <4>1. daemon[d].due - 1 \in DueType
          <5>1. daemon[d].due \in DueType /\ daemon[d].due > -Delay
            BY <2>1, TypeFacts, ProcessFacts
          <5>2. Delay \in Nat /\ Renew \in Nat /\ Retry \in Nat BY TimeAssumption
          <5> QED BY <5>1, <5>2 DEF DueType
        <4> QED BY <4>1, ProcessTyped, ZenonT(40) DEF ProcessType
      <3>3. Staged(r) BY <2>1, TypeFacts DEF Staged, Up, Down
      <3>4. Owned(r) = Owned(daemon[d]) BY DEF Owned
      <3> QED BY <3>1, <3>2, <3>3, <3>4
    <2>2. CASE ~Counts(d)
      BY <1>1, <2>2, TypeFacts
    <2> QED BY <2>1, <2>2
  <1>3. daemon' \in [Daemons -> ProcessType] BY <1>1, <1>2
  <1>4. claims' \in [AllShards -> ClaimType]
    <2>1. claims' = [s \in AllShards |-> IF claims[s] = Free THEN Free
                        ELSE [claims[s] EXCEPT !.left = Later(@)]]
      BY DEF Tick
    <2>2. ASSUME NEW s \in AllShards PROVE [claims[s] EXCEPT !.left = Later(@)] \in ClaimType
      <3>1. claims[s] \in ClaimType BY DEF IInv, TypeOK, ClaimType
      <3>2. Expired \in Int /\ MaxLeft \in Int
        <4>1. (CHOOSE o \in Offsets : \A p \in Offsets : p <= o) \in Nat BY TimeAssumption
        <4> QED BY <4>1, TimeAssumption DEF Expired, MaxLeft
      <3>3. claims[s].left \in Expired..MaxLeft BY <3>1 DEF ClaimType
      <3>4. Later(claims[s].left) \in Expired..MaxLeft BY <3>2, <3>3 DEF Later
      <3> QED BY <3>1, <3>4 DEF ClaimType
    <2>3. \A s \in AllShards : claims[s] \in ClaimType BY DEF IInv, TypeOK, ClaimType
    <2> QED BY <2>1, <2>2, <2>3
  <1>5. \A d \in Daemons : Held(d)' = Held(d) BY DEF Held, Tick
  <1>6. TypeOK'
    BY <1>2, <1>3, <1>4 DEF IInv, TypeOK, Tick, Owned, ClaimType
  <1>7. LocksHeld' BY <1>2, <1>5 DEF IInv, LocksHeld
  <1> QED BY <1>2, <1>6, <1>7 DEF IInv

LEMMA AddShardStep ==
    ASSUME IInv, AddShard
    PROVE  IInv'
  <1>1. shards' \in InitShards..MaxShards
    BY ShardAssumption DEF IInv, TypeOK, AddShard
  <1>2. \A d \in Daemons : Held(d)' = Held(d) BY DEF Held, AddShard
  <1> QED BY <1>1, <1>2 DEF IInv, TypeOK, LocksHeld, AddShard

LEMMA StutterStep ==
    ASSUME IInv, UNCHANGED vars
    PROVE  IInv'
  <1>1. \A d \in Daemons : Held(d)' = Held(d) BY DEF Held, vars
  <1> QED BY <1>1 DEF IInv, TypeOK, LocksHeld, vars

LEMMA Step == IInv /\ [Next]_vars => IInv'
  <1> SUFFICES ASSUME IInv, [Next]_vars PROVE IInv' OBVIOUS
  <1>1. ASSUME NEW d \in Daemons, Acquiring(d) PROVE IInv'
    BY <1>1, LoadStep, ClaimStep, TryLockStep, RevertStep, AcquiredStep, BuildEngineStep,
       PublishStep DEF Acquiring
  <1>2. ASSUME NEW d \in Daemons, ShutdownComplete(d) \/ LineDuringDrain(d) \/ Kill(d)
        PROVE  IInv'
    BY <1>2, TypeFacts, ExitStep DEF ShutdownComplete, LineDuringDrain, Kill
  <1>3. ASSUME NEW d \in Daemons, Working(d) PROVE IInv'
    BY <1>1, <1>2, <1>3, StandbyRetryStep, StartRoundStep, RenewLeaseStep,
       RegisterOnEnginesStep, PauseAllStep, DrainedStep, ReleaseStep DEF Working
  <1> QED
    BY <1>2, <1>3, BootStep, AcquireFailsStep, RenewLeaseStep, SigtermStep, RegisterStep,
       AddShardStep, TickStep, StutterStep DEF Next

LEMMA Invariance == Spec => []IInv
  BY InitIInv, Step, PTL DEF Spec

-----------------------------------------------------------------------------
(* The theorems.                                                           *)

\* Types, the longest lease, and SNERD_MAX_SHARDS: a daemon never claims, builds
\* and runs more shards in all.
THEOREM TypeCorrect == Spec => []TypeOK
  <1>1. IInv => TypeOK BY DEF IInv
  <1> QED BY Invariance, <1>1, PTL

\* No shard is processed by two daemons, whatever happens to leases and clocks,
\* since who has built its engine has its lock.
THEOREM OneProcessorPerShardCorrect == Spec => []OneProcessorPerShard
  <1>1. IInv => OneProcessorPerShard
    <2> SUFFICES ASSUME IInv, \A d \in Daemons : daemon[d].orphans = {},
                        NEW d \in Daemons, NEW e \in Daemons, d # e
                 PROVE  Running(d) \cap Running(e) = {}
      BY DEF OneProcessorPerShard
    <2>1. Running(d) \subseteq Held(d) /\ Running(e) \subseteq Held(e)
      BY TypeFacts DEF Running, Owned
    <2>2. Held(d) \cap Held(e) = {} BY DEF Held
    <2> QED BY <2>1, <2>2
  <1> QED BY Invariance, <1>1, PTL

\* A claim passes only by a takeover of a lapsed lease, or when its owner rolls
\* it back or releases it: what is done with a claim is decided by whose it is
\* when it is done, whatever its daemon believed before.
THEOREM OnlyLapsedClaimsPassCorrect == Spec => OnlyLapsedClaimsPass
  <1> DEFINE Passes(s) ==
        LET owner == claims[s].owner IN
        claims'[s].owner # owner /\ owner # Nobody => \E d \in Daemons :
            \/ IsLapsed(claims[s], d) /\ claims'[s].owner = ownerId[d]
            \/ /\ Owns(d, s)
               /\ \/ daemon[d].acq = "revert" /\ daemon[d].shard = s
                  \/ s \in daemon[d].unreleased
  <1>1. ASSUME IInv, Next PROVE \A s \in AllShards : Passes(s)
    <2>1. claims \in [AllShards -> ClaimType] BY <1>1 DEF IInv, TypeOK, ClaimType
    <2>2. ASSUME NEW d \in Daemons, Claim(d) PROVE \A s \in AllShards : Passes(s)
      BY <2>1, <2>2 DEF Claim, SetLease, Claimable
    <2>3. ASSUME NEW d \in Daemons, Revert(d) PROVE \A s \in AllShards : Passes(s)
      BY <2>1, <2>3 DEF Revert, Remove
    <2>4. ASSUME NEW d \in Daemons, RenewLease(d) PROVE \A s \in AllShards : Passes(s)
      BY <2>1, <2>4 DEF RenewLease, SetLease, Owns
    <2>5. ASSUME NEW d \in Daemons, Release(d) PROVE \A s \in AllShards : Passes(s)
      BY <2>1, <2>5 DEF Release, Remove, First
    <2>6. CASE Tick
      BY <2>1, <2>6 DEF Tick, Free, ClaimType
    <2>7. CASE UNCHANGED claims
      BY <2>7
    <2>8. ASSUME NEW d \in Daemons, Working(d) PROVE \A s \in AllShards : Passes(s)
      BY <2>2, <2>3, <2>4, <2>5, <2>7, <2>8
      DEF Working, Acquiring, StandbyRetry, Load, TryLock, Acquired, BuildEngine, Publish,
          StartRound, RegisterOnEngines, PauseAll, Drained, ShutdownComplete
    <2> QED
      BY <1>1, <2>6, <2>7, <2>8
      DEF Next, Boot, AcquireFails, RenewFails, Sigterm, LineDuringDrain, Kill, Register, AddShard
  <1>2. IInv /\ [Next]_vars => [\A s \in AllShards : Passes(s)]_vars
    BY <1>1
  <1> QED BY Invariance, <1>2, PTL DEF Spec, OnlyLapsedClaimsPass

-----------------------------------------------------------------------------
(* Why the heartbeat keeps the claims.  Where nothing stalls, files do not *)
(* fail and owner ids differ, and where clocks differ by no more than the  *)
(* lease, the margin and the heartbeat allow, what is left of a lease is   *)
(* bounded from below by the time to the next heartbeat.                   *)

Punctual == {"stall", "io", "twins"} \cap Faults = {}
ClocksAgree == \A o, p \in Offsets : p <= Lease + o - Renew - Delay + Margin

\* Shards claimed and not run yet: no time passes during an acquisition.
Fresh(p) == p.got \cup p.built \cup (IF p.acq = "lock" THEN {p.shard} ELSE {})

\* A shard that the round has not reached was renewed one heartbeat earlier.
SinceRenewed(p, s) == Renew - p.due + (IF s \in p.round THEN Renew ELSE 0)

\* A process that is not shutting down has paused and released nothing, does
\* not claim a shard twice, and its heartbeat is at most Delay late.
Scheduled(p) ==
    /\ p.paused = {} /\ p.unreleased = {}
    /\ p.phase # "up" => p.engines = {}
    /\ p.engines # {} => p.due <= Renew
    /\ p.round # {} => p.due >= Renew - Delay
    /\ p.acq \in {"claim", "lock", "revert"} => p.todo \cap p.got = {}
    /\ p.acq \in {"lock", "revert"} => p.shard \notin p.got \cup p.todo

Kept(d) ==
    daemon[d].stop = "no" =>
        /\ Scheduled(daemon[d])
        /\ \A s \in daemon[d].engines :
              /\ Owns(d, s)
              /\ claims[s].left >= Lease + offset[d] - SinceRenewed(daemon[d], s)
        /\ \A s \in Fresh(daemon[d]) :
              Owns(d, s) /\ claims[s].left = Lease + offset[d]

LEMMA TimeTypes ==
    ASSUME IInv, NEW d \in Daemons, NEW s \in AllShards
    PROVE  /\ claims[s].left \in Int /\ offset[d] \in Offsets /\ offset[d] \in Int
           /\ daemon[d].due \in Int /\ daemon[d].due >= -Delay
           /\ Lease \in Nat /\ Renew \in Nat /\ Renew > 0 /\ Retry \in Nat
           /\ Delay \in Nat /\ Margin \in Nat /\ Expired \in Int
           /\ Expired = -(Margin + 1)
  <1>1. /\ Lease \in Nat /\ Renew \in Nat /\ Renew > 0 /\ Retry \in Nat
        /\ Delay \in Nat /\ Margin \in Nat
    BY TimeAssumption
  <1>2. offset[d] \in Offsets /\ offset[d] \in Int BY TimeAssumption DEF IInv, TypeOK
  <1>3. daemon[d].due \in Int /\ daemon[d].due >= -Delay
    <2>1. daemon[d].due \in DueType BY TypeFacts, ProcessFacts
    <2> QED BY <1>1, <2>1 DEF DueType
  <1>4. claims[s].left \in Int
    <2>1. claims[s] \in ClaimType BY TypeFacts
    <2> QED BY <2>1 DEF ClaimType
  <1> QED BY <1>1, <1>2, <1>3, <1>4 DEF Expired

\* No clock takes the lease of such a shard for lapsed.
LEMMA NotLapsed ==
    ASSUME IInv, ClocksAgree, NEW d \in Daemons, NEW e \in Daemons, Kept(d),
           daemon[d].stop = "no",
           NEW s \in AllShards, s \in daemon[d].engines \cup Fresh(daemon[d])
    PROVE  Owns(d, s) /\ ~IsLapsed(claims[s], e)
  <1> DEFINE p == daemon[d]
  <1>1. Scheduled(p) /\ Owns(d, s) BY DEF Kept
  <1>2. claims[s].left >= Lease + offset[d] - Renew - Delay
    <2>1. CASE s \in Fresh(p) BY <2>1, TimeTypes DEF Kept
    <2>2. CASE s \in p.engines
      <3>1. claims[s].left >= Lease + offset[d] - SinceRenewed(p, s) BY <2>2 DEF Kept
      <3>2. SinceRenewed(p, s) <= Renew + Delay
        <4>1. CASE s \in p.round
          <5>1. p.due >= Renew - Delay BY <1>1, <4>1 DEF Scheduled
          <5> QED BY <4>1, <5>1, TimeTypes DEF SinceRenewed
        <4>2. CASE s \notin p.round BY <4>2, TimeTypes DEF SinceRenewed
        <4> QED BY <4>1, <4>2
      <3>3. SinceRenewed(p, s) \in Int BY TimeTypes DEF SinceRenewed
      <3> QED BY <3>1, <3>2, <3>3, TimeTypes
    <2> QED BY <2>1, <2>2
  <1>3. offset[d] \in Offsets /\ offset[e] \in Offsets BY TimeTypes
  <1>4. offset[e] <= Lease + offset[d] - Renew - Delay + Margin BY <1>3 DEF ClocksAgree
  <1>5. offset[e] \in Int BY TimeTypes
  <1>6. ~(offset[e] > claims[s].left + Margin) BY <1>2, <1>4, <1>5, TimeTypes
  <1> QED BY <1>1, <1>6 DEF IsLapsed

\* What a daemon may do to a claim: take it over, or change its own.
Touches(d, s) ==
    \/ SetLease(d, s) /\ (Claimable(d, s) \/ Owns(d, s))
    \/ Remove(s) /\ Owns(d, s)

LEMMA DistinctOwners ==
    ASSUME IInv, Punctual, NEW d \in Daemons, NEW e \in Daemons, d # e
    PROVE  ownerId[d] # ownerId[e] /\ ownerId[d] # Nobody
  <1>1. ownerId \in OwnerIds BY DEF IInv, TypeOK
  <1>2. "twins" \notin Faults BY DEF Punctual
  <1>3. ownerId[d] = {d} /\ ownerId[e] = {e} BY <1>1, <1>2 DEF OwnerIds
  <1>4. Nobody # {d} BY NobodyAssumption
  <1> QED BY <1>3, <1>4

\* A step of one daemon leaves the claims of the others alone.
LEMMA OthersKeep ==
    ASSUME IInv, Punctual, ClocksAgree, NEW d \in Daemons, NEW e \in Daemons, d # e,
           Kept(d), daemon'[d] = daemon[d], UNCHANGED <<ownerId, offset>>,
           UNCHANGED claims \/ \E s \in AllShards : Touches(e, s)
    PROVE  Kept(d)'
  <1> SUFFICES ASSUME daemon[d].stop = "no" PROVE Kept(d)' BY DEF Kept
  <1>1. daemon[d].engines \cup Fresh(daemon[d]) \subseteq AllShards
    BY TypeFacts, ProcessFacts DEF Fresh, Staged
  <1>2. ASSUME NEW s \in daemon[d].engines \cup Fresh(daemon[d])
        PROVE  claims'[s] = claims[s]
    <2>1. s \in AllShards /\ Owns(d, s) /\ ~IsLapsed(claims[s], e)
      BY <1>1, <1>2, NotLapsed
    <2>2. ~Claimable(e, s) /\ ~Owns(e, s)
      BY <2>1, DistinctOwners DEF Claimable, Owns
    <2>3. \A t \in AllShards : Touches(e, t) => t # s BY <2>2 DEF Touches
    <2>4. claims \in [AllShards -> ClaimType] BY TypeFacts
    <2> QED BY <2>1, <2>3, <2>4 DEF Touches, SetLease, Remove
  <1>3. UNCHANGED <<Scheduled(daemon[d]), daemon[d].engines, Fresh(daemon[d]), daemon[d].stop>>
    BY DEF Scheduled, Fresh
  <1>4. \A s : SinceRenewed(daemon[d], s)' = SinceRenewed(daemon[d], s) BY DEF SinceRenewed
  <1> QED BY <1>2, <1>3, <1>4 DEF Kept, Owns

\* What a daemon's own step has to show that changes no claim: every shard it
\* runs afterwards ran before and is no longer due, or was claimed just now.
LEMMA SameClaims ==
    ASSUME IInv, NEW d \in Daemons, Kept(d), NEW r, daemon'[d] = r,
           UNCHANGED <<claims, ownerId, offset>>,
           r.stop = "no" =>
              /\ daemon[d].stop = "no"
              /\ Scheduled(r)
              /\ Fresh(r) \subseteq Fresh(daemon[d])
              /\ r.due \in Int
              /\ \A s \in r.engines :
                    \/ s \in daemon[d].engines
                       /\ SinceRenewed(r, s) >= SinceRenewed(daemon[d], s)
                    \/ s \in Fresh(daemon[d]) /\ SinceRenewed(r, s) >= 0
    PROVE  Kept(d)'
  <1> SUFFICES ASSUME r.stop = "no" PROVE Kept(d)' BY DEF Kept
  <1> DEFINE p == daemon[d]
  <1>1. p.stop = "no" /\ Scheduled(r) /\ Fresh(r) \subseteq Fresh(p) /\ r.due \in Int OBVIOUS
  <1>2. p.engines \cup Fresh(p) \subseteq AllShards
    BY TypeFacts, ProcessFacts DEF Fresh, Staged
  <1>3. \A s \in Fresh(r) : Owns(d, s) /\ claims[s].left = Lease + offset[d]
    BY <1>1 DEF Kept
  <1>4. ASSUME NEW s \in r.engines
        PROVE  Owns(d, s) /\ claims[s].left >= Lease + offset[d] - SinceRenewed(r, s)
    <2>1. s \in AllShards BY <1>2
    <2>2. SinceRenewed(r, s) \in Int /\ SinceRenewed(p, s) \in Int
      BY <1>1, <2>1, TimeTypes DEF SinceRenewed
    <2>3. CASE s \in p.engines /\ SinceRenewed(r, s) >= SinceRenewed(p, s)
      <3>1. Owns(d, s) /\ claims[s].left >= Lease + offset[d] - SinceRenewed(p, s)
        BY <1>1, <2>3 DEF Kept
      <3> QED BY <2>1, <2>2, <2>3, <3>1, TimeTypes
    <2>4. CASE s \in Fresh(p) /\ SinceRenewed(r, s) >= 0
      <3>1. Owns(d, s) /\ claims[s].left = Lease + offset[d] BY <1>1, <2>4 DEF Kept
      <3> QED BY <2>1, <2>2, <2>4, <3>1, TimeTypes
    <2> QED BY <2>3, <2>4
  <1>5. daemon'[d].stop = "no" /\ Scheduled(daemon'[d]) BY <1>1
  <1> QED BY <1>1, <1>3, <1>4 DEF Kept, Owns

\* What a daemon's own step has to show of the others.
LEMMA OneMoves ==
    ASSUME IInv, Punctual, ClocksAgree, NEW d \in Daemons, \A e \in Daemons : Kept(e),
           NEW r, daemon' = [daemon EXCEPT ![d] = r], UNCHANGED <<ownerId, offset>>,
           UNCHANGED claims \/ \E s \in AllShards : Touches(d, s),
           Kept(d)'
    PROVE  \A e \in Daemons : Kept(e)'
  <1>1. \A e \in Daemons \ {d} : daemon'[e] = daemon[e] BY TypeFacts
  <1> QED BY <1>1, OthersKeep

LEMMA ExitKeeps ==
    ASSUME IInv, Punctual, ClocksAgree, NEW d \in Daemons, \A e \in Daemons : Kept(e),
           Exit(d), UNCHANGED <<claims, ownerId, offset>>
    PROVE  \A e \in Daemons : Kept(e)'
  <1>1. daemon' = [daemon EXCEPT ![d] = Down] BY DEF Exit
  <1>2. daemon'[d] = Down BY <1>1, TypeFacts
  <1>3. Kept(d)' BY <1>2 DEF Kept, Scheduled, Fresh, Down
  <1> QED BY <1>1, <1>3, OneMoves

\* The steps that look at the clock, or make claims their engines'.
LEMMA TimedKeeps ==
    ASSUME IInv, Punctual, ClocksAgree, NEW d \in Daemons, \A e \in Daemons : Kept(e),
           StandbyRetry(d) \/ StartRound(d) \/ Publish(d)
    PROVE  \A e \in Daemons : Kept(e)'
  <1> DEFINE p == daemon[d]
  <1>0. p \in ProcessType /\ Staged(p) /\ Kept(d) BY TypeFacts
  <1>1. CASE StandbyRetry(d)
    <2> DEFINE r == [p EXCEPT !.acq = "load", !.due = @ + Retry]
    <2>1. daemon' = [daemon EXCEPT ![d] = r] BY <1>1, TypeFacts DEF StandbyRetry
    <2>2. daemon'[d] = r BY <2>1, TypeFacts
    <2>3. p.engines = {} /\ p.got = {} /\ p.built = {} /\ p.round = {} /\ p.acq = "none"
      BY <1>0, <1>1 DEF StandbyRetry, Staged
    <2>4. /\ r.engines = {} /\ r.got = {} /\ r.built = {} /\ r.round = {} /\ r.acq = "load"
          /\ r.stop = p.stop /\ r.paused = p.paused /\ r.unreleased = p.unreleased
      BY <1>0, <2>3 DEF ProcessType
    <2>5. Kept(d)' BY <1>0, <2>2, <2>3, <2>4 DEF Kept, Scheduled, Fresh
    <2> QED BY <1>1, <2>1, <2>5, OneMoves DEF StandbyRetry
  <1>2. CASE StartRound(d)
    <2> DEFINE r == [p EXCEPT !.due = @ + Renew, !.round = p.engines]
    <2>1. daemon' = [daemon EXCEPT ![d] = r] BY <1>2, TypeFacts DEF StartRound
    <2>2. daemon'[d] = r BY <2>1, TypeFacts
    <2>3. p.engines # {} /\ p.round = {} /\ p.due <= 0 /\ p.stop = "no" /\ p.phase = "up"
      BY <1>2 DEF StartRound, Up
    <2>4. PICK some \in AllShards : TRUE BY <2>3, TypeFacts, ProcessFacts
    <2>5. p.due \in Int /\ p.due >= -Delay /\ Renew \in Nat /\ Delay \in Nat BY <2>4, TimeTypes
    <2>6. /\ r.due = p.due + Renew /\ r.round = p.engines /\ r.engines = p.engines
          /\ r.stop = p.stop /\ r.paused = p.paused /\ r.unreleased = p.unreleased
          /\ r.got = p.got /\ r.built = p.built /\ r.acq = p.acq /\ r.shard = p.shard
          /\ r.todo = p.todo /\ r.phase = p.phase
      BY <1>0 DEF ProcessType
    <2> HIDE DEF r
    <2>7. r.due \in Int /\ r.due <= Renew /\ r.due >= Renew - Delay BY <2>3, <2>5, <2>6
    <2>8. Scheduled(r) BY <1>0, <2>3, <2>6, <2>7 DEF Kept, Scheduled
    <2>9. Fresh(r) = Fresh(p) BY <2>6 DEF Fresh
    <2>10. \A s \in r.engines : SinceRenewed(r, s) = SinceRenewed(p, s)
      BY <2>3, <2>5, <2>6 DEF SinceRenewed
    <2>11. \A s \in r.engines : SinceRenewed(p, s) \in Int BY <2>3, <2>5 DEF SinceRenewed
    <2>12. \A s \in r.engines : s \in p.engines /\ SinceRenewed(r, s) >= SinceRenewed(p, s)
      BY <2>6, <2>10, <2>11
    <2>13. UNCHANGED <<claims, ownerId, offset>> BY <1>2 DEF StartRound
    <2>14. Kept(d)'
      BY <1>0, <2>2, <2>3, <2>7, <2>8, <2>9, <2>12, <2>13, SameClaims
    <2> QED BY <2>1, <2>13, <2>14, OneMoves
  <1>3. CASE Publish(d)
    <2>1. PICK due \in IF p.built = {} THEN {IF Up(d) THEN p.due ELSE Retry}
                       ELSE IF Up(d) THEN 0..Renew ELSE {Renew} :
             daemon' = [daemon EXCEPT ![d].phase = "up", ![d].acq = "none",
                                      ![d].built = {}, ![d].due = due,
                                      ![d].engines = @ \cup p.built]
      BY <1>3 DEF Publish
    <2> DEFINE r == [p EXCEPT !.phase = "up", !.acq = "none", !.built = {}, !.due = due,
                              !.engines = @ \cup p.built]
    <2>2. daemon' = [daemon EXCEPT ![d] = r] BY <2>1, TypeFacts
    <2>3. daemon'[d] = r BY <2>2, TypeFacts
    <2>4. p.engines = {} /\ p.got = {} /\ p.round = {} /\ p.acq = "build"
      BY <1>0, <1>3 DEF Publish, Staged
    <2>5. /\ r.phase = "up" /\ r.acq = "none" /\ r.built = {} /\ r.got = {} /\ r.due = due
          /\ r.engines = p.built /\ r.round = {} /\ r.stop = p.stop /\ r.paused = p.paused
          /\ r.unreleased = p.unreleased
      BY <1>0, <2>4 DEF ProcessType
    <2> HIDE DEF r
    <2>6. Fresh(r) = {} /\ p.built \subseteq Fresh(p) BY <2>5 DEF Fresh
    <2>7. Renew \in Nat /\ Retry \in Nat BY TimeAssumption
    <2>8. due \in Int /\ (p.built # {} => due <= Renew)
      <3>1. p.due \in Int BY <1>0, ProcessFacts
      <3> QED BY <2>7, <3>1
    <2>9. p.stop = "no" => Scheduled(r)
      BY <1>0, <2>5, <2>8 DEF Kept, Scheduled
    <2>10. \A s \in r.engines : s \in Fresh(p) /\ SinceRenewed(r, s) >= 0
      BY <2>5, <2>6, <2>7, <2>8 DEF SinceRenewed
    <2>11. UNCHANGED <<claims, ownerId, offset>> BY <1>3 DEF Publish
    <2>12. r.due \in Int BY <2>5, <2>8
    <2>13. Kept(d)'
      BY <1>0, <2>3, <2>5, <2>6, <2>9, <2>10, <2>11, <2>12, SameClaims
    <2> QED BY <2>2, <2>11, <2>13, OneMoves
  <1> QED BY <1>1, <1>2, <1>3

\* A step that leaves alone what the schedule and the claims are about.
LEMMA QuietKeeps ==
    ASSUME IInv, Punctual, ClocksAgree, NEW d \in Daemons, \A e \in Daemons : Kept(e),
           NEW r, daemon' = [daemon EXCEPT ![d] = r], UNCHANGED <<claims, ownerId, offset>>,
           r.stop = "no" =>
              /\ daemon[d].stop = "no"
              /\ Scheduled(r)
              /\ Fresh(r) \subseteq Fresh(daemon[d])
              /\ r.due = daemon[d].due /\ r.round = daemon[d].round
              /\ r.engines = daemon[d].engines
    PROVE  \A e \in Daemons : Kept(e)'
  <1>1. daemon'[d] = r BY TypeFacts
  <1>2. ASSUME r.stop = "no"
        PROVE  /\ r.due \in Int
               /\ \A s \in r.engines :
                     s \in daemon[d].engines
                     /\ SinceRenewed(r, s) >= SinceRenewed(daemon[d], s)
    <2>1. daemon[d].due \in Int BY TypeFacts, ProcessFacts
    <2>2. Renew \in Nat BY TimeAssumption
    <2>3. \A s : SinceRenewed(r, s) = SinceRenewed(daemon[d], s) BY <1>2 DEF SinceRenewed
    <2>4. \A s : SinceRenewed(daemon[d], s) \in Int BY <2>1, <2>2 DEF SinceRenewed
    <2> QED BY <1>2, <2>1, <2>3, <2>4
  <1>3. Kept(d)' BY <1>1, <1>2, SameClaims
  <1> QED BY <1>3, OneMoves

LEMMA AcquiringKeeps ==
    ASSUME IInv, Punctual, ClocksAgree, NEW d \in Daemons, \A e \in Daemons : Kept(e),
           Boot(d) \/ Load(d) \/ TryLock(d) \/ Acquired(d) \/ BuildEngine(d)
    PROVE  \A e \in Daemons : Kept(e)'
  <1> DEFINE p == daemon[d]
  <1>0. p \in ProcessType /\ Staged(p) /\ Kept(d) BY TypeFacts
  <1>1. CASE Boot(d)
    <2> DEFINE r == [p EXCEPT !.phase = "boot", !.acq = "load"]
    <2>1. daemon' = [daemon EXCEPT ![d] = r] BY <1>1, TypeFacts DEF Boot
    <2>2. p = Down BY <1>0, <1>1 DEF Boot, Staged
    <2>3. Scheduled(r) /\ Fresh(r) = {} /\ r.due = p.due /\ r.round = p.round
          /\ r.engines = p.engines /\ p.stop = "no"
      BY <2>2 DEF Scheduled, Fresh, Down
    <2> HIDE DEF r
    <2> QED BY <1>1, <2>1, <2>3, QuietKeeps DEF Boot
  <1>2. CASE Load(d)
    <2> DEFINE r == [p EXCEPT !.acq = "claim", !.todo = {s \in 0..(shards - 1) : Claimable(d, s)}]
    <2>1. daemon' = [daemon EXCEPT ![d] = r] BY <1>2, TypeFacts DEF Load
    <2>2. p.got = {} /\ p.built = {} BY <1>0, <1>2 DEF Load, Staged
    <2>3. p.stop = "no" => Scheduled(r) BY <1>0, <2>2 DEF Kept, Scheduled
    <2>4. /\ Fresh(r) = {} /\ r.due = p.due /\ r.round = p.round
          /\ r.engines = p.engines /\ r.stop = p.stop
      BY <1>0, <2>2 DEF Fresh, ProcessType
    <2> HIDE DEF r
    <2> QED BY <1>2, <2>1, <2>3, <2>4, QuietKeeps DEF Load
  <1>3. CASE TryLock(d)
    <2>1. p.acq = "lock" BY <1>3 DEF TryLock
    <2>2. CASE flock[p.shard] = Nobody
      <3> DEFINE r == [p EXCEPT !.acq = "claim", !.shard = Nobody, !.got = @ \cup {p.shard}]
      <3>1. daemon' = [daemon EXCEPT ![d] = r] BY <1>3, <2>2, TypeFacts DEF TryLock
      <3>2. p.stop = "no" => Scheduled(r) BY <1>0, <2>1 DEF Kept, Scheduled
      <3>3. /\ Fresh(r) \subseteq Fresh(p) /\ r.due = p.due /\ r.round = p.round
            /\ r.engines = p.engines /\ r.stop = p.stop
        BY <1>0, <2>1 DEF Fresh, ProcessType
      <3> HIDE DEF r
      <3> QED BY <1>3, <3>1, <3>2, <3>3, QuietKeeps DEF TryLock
    <2>3. CASE flock[p.shard] # Nobody
      <3> DEFINE r == [p EXCEPT !.acq = "revert"]
      <3>1. daemon' = [daemon EXCEPT ![d] = r] BY <1>3, <2>3, TypeFacts DEF TryLock
      <3>2. p.stop = "no" => Scheduled(r) BY <1>0, <2>1 DEF Kept, Scheduled
      <3>3. /\ Fresh(r) \subseteq Fresh(p) /\ r.due = p.due /\ r.round = p.round
            /\ r.engines = p.engines /\ r.stop = p.stop
        BY <1>0 DEF Fresh, ProcessType
      <3> HIDE DEF r
      <3> QED BY <1>3, <3>1, <3>2, <3>3, QuietKeeps DEF TryLock
    <2> QED BY <2>2, <2>3
  <1>4. CASE Acquired(d)
    <2> DEFINE r == [p EXCEPT !.acq = "build", !.todo = {}]
    <2>1. daemon' = [daemon EXCEPT ![d] = r] BY <1>4, TypeFacts DEF Acquired
    <2>2. p.stop = "no" => Scheduled(r) BY <1>0 DEF Kept, Scheduled
    <2>3. /\ Fresh(r) \subseteq Fresh(p) /\ r.due = p.due /\ r.round = p.round
          /\ r.engines = p.engines /\ r.stop = p.stop
      BY <1>0 DEF Fresh, ProcessType
    <2> HIDE DEF r
    <2> QED BY <1>4, <2>1, <2>2, <2>3, QuietKeeps DEF Acquired
  <1>5. CASE BuildEngine(d)
    <2>1. PICK s \in AllShards :
             /\ s \in p.got
             /\ daemon' = [daemon EXCEPT ![d].got = @ \ {s}, ![d].built = @ \cup {s}]
      BY <1>5 DEF BuildEngine, First
    <2> DEFINE r == [p EXCEPT !.got = @ \ {s}, !.built = @ \cup {s}]
    <2>2. daemon' = [daemon EXCEPT ![d] = r] BY <2>1, TypeFacts
    <2>3. p.acq = "build" BY <1>5 DEF BuildEngine
    <2>4. p.stop = "no" => Scheduled(r) BY <1>0, <2>3 DEF Kept, Scheduled
    <2>5. /\ Fresh(r) \subseteq Fresh(p) /\ r.due = p.due /\ r.round = p.round
          /\ r.engines = p.engines /\ r.stop = p.stop
      BY <1>0, <2>1 DEF Fresh, ProcessType
    <2> HIDE DEF r
    <2> QED BY <1>5, <2>2, <2>4, <2>5, QuietKeeps DEF BuildEngine
  <1> QED BY <1>1, <1>2, <1>3, <1>4, <1>5

LEMMA OtherKeeps ==
    ASSUME IInv, Punctual, ClocksAgree, NEW d \in Daemons, \A e \in Daemons : Kept(e),
           \/ RegisterOnEngines(d) \/ \E type \in Types : Register(d, type)
           \/ Sigterm(d) \/ PauseAll(d) \/ Drained(d)
    PROVE  \A e \in Daemons : Kept(e)'
  <1> DEFINE p == daemon[d]
  <1>0. p \in ProcessType /\ Staged(p) /\ Kept(d) BY TypeFacts
  <1>1. ASSUME NEW r \in ProcessType, daemon' = [daemon EXCEPT ![d] = r],
               UNCHANGED <<claims, ownerId, offset>>, r.stop # "no"
        PROVE  \A e \in Daemons : Kept(e)'
    BY <1>1, QuietKeeps
  <1>2. ASSUME NEW registered \in SUBSET Types, NEW registering \in SUBSET Types,
               daemon' = [daemon EXCEPT ![d].registered = registered,
                                        ![d].registering = registering],
               UNCHANGED <<claims, ownerId, offset>>
        PROVE  \A e \in Daemons : Kept(e)'
    <2> DEFINE r == [p EXCEPT !.registered = registered, !.registering = registering]
    <2>1. daemon' = [daemon EXCEPT ![d] = r] BY <1>2, TypeFacts
    <2>2. p.stop = "no" => Scheduled(r) BY <1>0 DEF Kept, Scheduled
    <2>3. /\ Fresh(r) \subseteq Fresh(p) /\ r.due = p.due /\ r.round = p.round
          /\ r.engines = p.engines /\ r.stop = p.stop
      BY <1>0 DEF Fresh, ProcessType
    <2> HIDE DEF r
    <2> QED BY <1>2, <2>1, <2>2, <2>3, QuietKeeps
  <1>3. CASE RegisterOnEngines(d)
    <2>1. daemon' = [daemon EXCEPT ![d].registered = p.registered, ![d].registering = {}]
      BY <1>0, <1>3, TypeFacts DEF RegisterOnEngines, ProcessType
    <2>2. p.registered \in SUBSET Types /\ {} \in SUBSET Types BY <1>0 DEF ProcessType
    <2>3. UNCHANGED <<claims, ownerId, offset>> BY <1>3 DEF RegisterOnEngines
    <2> QED BY <1>2, <2>1, <2>2, <2>3
  <1>4. CASE \E type \in Types : Register(d, type)
    <2>1. PICK type \in Types : Register(d, type) BY <1>4
    <2>2. daemon' = [daemon EXCEPT ![d].registered = @ \cup {type}, ![d].registering = {type}]
      BY <2>1 DEF Register
    <2>3. p.registered \cup {type} \in SUBSET Types BY <1>0 DEF ProcessType
    <2> QED BY <1>2, <2>1, <2>2, <2>3 DEF Register
  <1>5. CASE Sigterm(d)
    <2> DEFINE r == [p EXCEPT !.stop = "flagged"]
    <2>1. r \in ProcessType /\ r.stop # "no" /\ daemon' = [daemon EXCEPT ![d] = r]
      BY <1>0, <1>5, TypeFacts DEF Sigterm, ProcessType
    <2> QED BY <1>1, <1>5, <2>1 DEF Sigterm
  <1>6. CASE PauseAll(d)
    <2> DEFINE r == [p EXCEPT !.stop = "draining", !.paused = p.engines]
    <2>1. daemon' = [daemon EXCEPT ![d] = r] BY <1>6, TypeFacts DEF PauseAll
    <2>2. r \in ProcessType /\ r.stop # "no" BY <1>0, ZenonT(40) DEF ProcessType
    <2> QED BY <1>1, <1>6, <2>1, <2>2 DEF PauseAll
  <1>7. CASE Drained(d)
    <2> DEFINE r == [p EXCEPT !.stop = "releasing", !.unreleased = p.engines]
    <2>1. daemon' = [daemon EXCEPT ![d] = r] BY <1>7, TypeFacts DEF Drained
    <2>2. r \in ProcessType /\ r.stop # "no" BY <1>0, ZenonT(40) DEF ProcessType
    <2> QED BY <1>1, <1>7, <2>1, <2>2 DEF Drained
  <1> QED BY <1>3, <1>4, <1>5, <1>6, <1>7

\* The candidates claimed so far are kept while the next is claimed; giving up
\* leaves nothing to keep.
LEMMA ClaimKeeps ==
    ASSUME IInv, Punctual, ClocksAgree, NEW d \in Daemons, \A e \in Daemons : Kept(e),
           Claim(d)
    PROVE  \A e \in Daemons : Kept(e)'
  <1> DEFINE p == daemon[d]
  <1>0. p \in ProcessType /\ Staged(p) /\ Kept(d) BY TypeFacts
  <1>1. PICK s \in AllShards :
           /\ s \in p.todo
           /\ IF Claimable(d, s)
              THEN /\ SetLease(d, s)
                   /\ daemon' = [daemon EXCEPT ![d].acq = "lock", ![d].shard = s,
                                               ![d].todo = @ \ {s}]
                   /\ UNCHANGED <<flock, handlers>>
              ELSE Abort(d) /\ UNCHANGED claims
    BY DEF Claim, First
  <1>2. p.acq = "claim" /\ p.engines = {} /\ p.built = {} BY <1>0 DEF Claim, Staged
  <1>3. CASE Claimable(d, s)
    <2> DEFINE r == [p EXCEPT !.acq = "lock", !.shard = s, !.todo = @ \ {s}]
    <2>1. daemon' = [daemon EXCEPT ![d] = r] BY <1>1, <1>3, TypeFacts
    <2>2. daemon'[d] = r BY <2>1, TypeFacts
    <2>3. p.stop = "no" => Scheduled(r) BY <1>0, <1>1, <1>2 DEF Kept, Scheduled
    <2>4. Fresh(r) = p.got \cup {s} /\ r.engines = {} /\ r.stop = p.stop
      BY <1>0, <1>2 DEF Fresh, ProcessType
    <2> HIDE DEF r
    <2>5. ASSUME p.stop = "no", NEW t \in p.got \cup {s}
          PROVE  Owns(d, t)' /\ claims'[t].left = Lease + offset'[d]
      <3>1. UNCHANGED <<ownerId, offset>> BY DEF Claim
      <3>2. claims' = [claims EXCEPT ![s] = [owner |-> ownerId[d], left |-> Lease + offset[d]]]
            /\ claims \in [AllShards -> ClaimType]
        BY <1>1, <1>3, TypeFacts DEF SetLease
      <3>3. CASE t = s BY <3>1, <3>2, <3>3 DEF Owns
      <3>4. CASE t # s
        <4>1. t \in Fresh(p) /\ t \in AllShards
          BY <2>5, <3>4, TypeFacts, ProcessFacts DEF Fresh
        <4>2. Owns(d, t) /\ claims[t].left = Lease + offset[d] BY <1>0, <2>5, <4>1 DEF Kept
        <4> QED BY <3>1, <3>2, <3>4, <4>1, <4>2 DEF Owns
      <3> QED BY <3>3, <3>4
    <2>6. Kept(d)' BY <2>2, <2>3, <2>4, <2>5 DEF Kept
    <2> QED BY <1>1, <1>3, <2>1, <2>6, OneMoves DEF Touches, Claim
  <1>4. CASE ~Claimable(d, s)
    <2>1. CASE p.phase = "boot" BY <1>1, <1>4, <2>1, ExitKeeps DEF Abort, Claim
    <2>2. CASE p.phase # "boot"
      <3> DEFINE r == [p EXCEPT !.acq = "none", !.todo = {}, !.shard = Nobody, !.got = {},
                                !.built = {}, !.orphans = @ \cup p.built]
      <3>1. daemon' = [daemon EXCEPT ![d] = r] BY <1>1, <1>4, <2>2, TypeFacts DEF Abort
      <3>2. p.stop = "no" => Scheduled(r) BY <1>0 DEF Kept, Scheduled
      <3>3. /\ Fresh(r) = {} /\ r.due = p.due /\ r.round = p.round
            /\ r.engines = p.engines /\ r.stop = p.stop
        BY <1>0 DEF Fresh, ProcessType
      <3> HIDE DEF r
      <3> QED BY <1>1, <1>4, <3>1, <3>2, <3>3, QuietKeeps DEF Claim
    <2> QED BY <2>1, <2>2
  <1> QED BY <1>3, <1>4

\* Only a shard that could not be locked is rolled back.
LEMMA RevertKeeps ==
    ASSUME IInv, Punctual, ClocksAgree, NEW d \in Daemons, \A e \in Daemons : Kept(e),
           Revert(d)
    PROVE  \A e \in Daemons : Kept(e)'
  <1> DEFINE p == daemon[d]
             s == p.shard
             r == [p EXCEPT !.acq = "claim", !.shard = Nobody]
  <1>0. p \in ProcessType /\ Staged(p) /\ Kept(d) BY TypeFacts
  <1>1. p.acq = "revert" /\ p.engines = {} /\ p.built = {} /\ s \in AllShards
    BY <1>0 DEF Revert, Staged
  <1>2. daemon' = [daemon EXCEPT ![d] = r] BY TypeFacts DEF Revert
  <1>3. daemon'[d] = r BY <1>2, TypeFacts
  <1>4. p.stop = "no" => Scheduled(r) /\ s \notin p.got BY <1>0, <1>1 DEF Kept, Scheduled
  <1>5. Fresh(r) = p.got /\ Fresh(p) = p.got /\ r.engines = {} /\ r.stop = p.stop
    BY <1>0, <1>1 DEF Fresh, ProcessType
  <1> HIDE DEF r
  <1>6. UNCHANGED claims \/ Touches(d, s) BY DEF Revert, Touches
  <1>7. UNCHANGED <<ownerId, offset>> BY DEF Revert
  <1>8. ASSUME p.stop = "no", NEW t \in p.got
        PROVE  Owns(d, t)' /\ claims'[t].left = Lease + offset'[d]
    <2>1. t # s /\ Owns(d, t) /\ claims[t].left = Lease + offset[d]
      BY <1>0, <1>4, <1>5, <1>8 DEF Kept
    <2>2. claims \in [AllShards -> ClaimType] /\ t \in AllShards
      BY <1>8, TypeFacts, ProcessFacts
    <2>3. claims'[t] = claims[t] BY <2>1, <2>2 DEF Revert, Remove
    <2> QED BY <1>7, <2>1, <2>3 DEF Owns
  <1>9. Kept(d)' BY <1>3, <1>4, <1>5, <1>8 DEF Kept
  <1> QED BY <1>1, <1>2, <1>6, <1>7, <1>9, OneMoves

\* A round renews every claim it reaches, since each is still the daemon's.
LEMMA RenewKeeps ==
    ASSUME IInv, Punctual, ClocksAgree, NEW d \in Daemons, \A e \in Daemons : Kept(e),
           RenewLease(d)
    PROVE  \A e \in Daemons : Kept(e)'
  <1> DEFINE p == daemon[d]
  <1>0. p \in ProcessType /\ Staged(p) /\ Kept(d) BY TypeFacts
  <1>1. PICK s \in AllShards :
           /\ s \in p.round
           /\ IF s \in p.paused \/ ~Owns(d, s) THEN UNCHANGED claims ELSE SetLease(d, s)
           /\ daemon' = [daemon EXCEPT
                  ![d].round = @ \ {s},
                  ![d].paused = IF Owns(d, s) THEN @ ELSE @ \cup {s}]
    BY DEF RenewLease, First
  <1> DEFINE r == [p EXCEPT !.round = @ \ {s},
                            !.paused = IF Owns(d, s) THEN @ ELSE @ \cup {s}]
  <1>2. daemon' = [daemon EXCEPT ![d] = r] BY <1>1, TypeFacts
  <1>3. daemon'[d] = r BY <1>2, TypeFacts
  <1>4. UNCHANGED <<ownerId, offset>> BY DEF RenewLease
  <1>5. UNCHANGED claims \/ Touches(d, s) BY <1>1 DEF Touches
  <1>6. s \in p.engines BY <1>0, <1>1 DEF Staged
  <1>7. /\ r.stop = p.stop /\ r.round = p.round \ {s} /\ r.engines = p.engines /\ r.due = p.due
        /\ Fresh(r) = Fresh(p)
    BY <1>0 DEF Fresh, ProcessType
  <1>8. ASSUME p.stop = "no" PROVE Kept(d)'
    <2>1. Owns(d, s) /\ p.paused = {} BY <1>0, <1>6, <1>8 DEF Kept, Scheduled
    <2>2. Scheduled(r) BY <1>0, <1>8, <2>1 DEF Kept, Scheduled
    <2>3. claims' = [claims EXCEPT ![s] = [owner |-> ownerId[d], left |-> Lease + offset[d]]]
          /\ claims \in [AllShards -> ClaimType]
      BY <1>1, <2>1, TypeFacts DEF SetLease
    <2>4. p.engines \cup Fresh(p) \subseteq AllShards
      BY TypeFacts, ProcessFacts DEF Fresh, Staged
    <2> HIDE DEF r
    <2>5. ASSUME NEW t \in Fresh(r)
          PROVE  Owns(d, t)' /\ claims'[t].left = Lease + offset'[d]
      <3>1. t \in AllShards /\ Owns(d, t) /\ claims[t].left = Lease + offset[d]
        BY <1>0, <1>7, <1>8, <2>4, <2>5 DEF Kept
      <3>2. claims'[t].owner = ownerId[d] /\ claims'[t].left = Lease + offset[d]
        BY <2>3, <3>1 DEF Owns
      <3> QED BY <1>4, <3>2 DEF Owns
    <2>6. ASSUME NEW t \in r.engines
          PROVE  Owns(d, t)' /\ claims'[t].left >= Lease + offset'[d] - SinceRenewed(r, t)
      <3>1. t \in AllShards /\ Owns(d, t) /\ claims[t].left >= Lease + offset[d] - SinceRenewed(p, t)
        BY <1>0, <1>7, <1>8, <2>4, <2>6 DEF Kept
      <3>2. r.due \in Int /\ r.due <= Renew
        BY <1>0, <1>6, <1>7, <1>8, TypeFacts, ProcessFacts DEF Kept, Scheduled
      <3>3. CASE t = s
        <4>1. claims'[t].owner = ownerId[d] /\ claims'[t].left = Lease + offset[d]
          BY <2>3, <3>1, <3>3
        <4>2. SinceRenewed(r, t) \in Nat BY <1>7, <3>2, <3>3, TimeAssumption DEF SinceRenewed
        <4>3. Lease \in Int /\ offset[d] \in Int BY <3>1, TimeTypes
        <4>4. claims'[t].left >= Lease + offset[d] - SinceRenewed(r, t) BY <4>1, <4>2, <4>3
        <4> QED BY <1>4, <4>1, <4>4 DEF Owns
      <3>4. CASE t # s
        <4>1. claims'[t] = claims[t] BY <2>3, <3>1, <3>4
        <4>2. SinceRenewed(r, t) = SinceRenewed(p, t) BY <1>7, <3>4 DEF SinceRenewed
        <4> QED BY <1>4, <3>1, <4>1, <4>2 DEF Owns
      <3> QED BY <3>3, <3>4
    <2> QED BY <1>3, <2>2, <2>5, <2>6 DEF Kept
  <1>9. Kept(d)' BY <1>3, <1>7, <1>8 DEF Kept
  <1> QED BY <1>1, <1>2, <1>4, <1>5, <1>9, OneMoves

\* Only a daemon that is shutting down releases.
LEMMA ReleaseKeeps ==
    ASSUME IInv, Punctual, ClocksAgree, NEW d \in Daemons, \A e \in Daemons : Kept(e),
           Release(d)
    PROVE  \A e \in Daemons : Kept(e)'
  <1> DEFINE p == daemon[d]
  <1>0. p \in ProcessType /\ Kept(d) BY TypeFacts
  <1>1. PICK s \in AllShards :
           /\ s \in p.unreleased
           /\ IF Owns(d, s) THEN Remove(s) ELSE UNCHANGED claims
           /\ daemon' = [daemon EXCEPT ![d].unreleased = @ \ {s}]
    BY DEF Release, First
  <1> DEFINE r == [p EXCEPT !.unreleased = @ \ {s}]
  <1>2. daemon' = [daemon EXCEPT ![d] = r] BY <1>1, TypeFacts
  <1>3. daemon'[d] = r BY <1>2, TypeFacts
  <1>4. r.stop # "no" BY <1>0, <1>1 DEF Kept, Scheduled, ProcessType
  <1>5. Kept(d)' BY <1>3, <1>4 DEF Kept
  <1>6. UNCHANGED <<ownerId, offset>> BY DEF Release
  <1> QED BY <1>1, <1>2, <1>5, <1>6, OneMoves DEF Touches

\* Time passes when nobody is late: a lease and the time to the next heartbeat
\* grow shorter together.
LEMMA TickKeeps ==
    ASSUME IInv, Punctual, \A e \in Daemons : Kept(e), Tick
    PROVE  \A e \in Daemons : Kept(e)'
  <1> SUFFICES ASSUME NEW d \in Daemons PROVE Kept(d)' OBVIOUS
  <1> DEFINE p == daemon[d]
  <1>0. p \in ProcessType /\ Staged(p) /\ Kept(d) BY TypeFacts
  <1>1. OnTime(d) BY DEF Tick, Punctual
  <1>2. UNCHANGED <<ownerId, offset>> BY DEF Tick
  <1>3. p.acq = "none" /\ p.round = {} /\ p.got = {} /\ p.built = {}
    BY <1>0, <1>1 DEF OnTime, Staged
  <1>4. daemon'[d] = IF Up(d) /\ p.due > -Delay THEN [p EXCEPT !.due = @ - 1] ELSE p
    BY DEF Tick
  <1>5. CASE p.stop = "no" /\ p.phase = "up"
    <2> DEFINE r == [p EXCEPT !.due = @ - 1]
    <2>1. daemon'[d] = r BY <1>1, <1>4, <1>5 DEF OnTime, Up
    <2>2. p.due \in Int /\ Renew \in Nat BY <1>0, ProcessFacts, TimeAssumption
    <2>3. /\ r.stop = "no" /\ r.round = {} /\ r.engines = p.engines /\ r.due = p.due - 1
          /\ r.paused = p.paused /\ r.unreleased = p.unreleased /\ r.phase = "up"
          /\ r.acq = "none" /\ r.got = {} /\ r.built = {}
      BY <1>0, <1>3, <1>5 DEF ProcessType
    <2> HIDE DEF r
    <2>4. Scheduled(r) /\ Fresh(r) = {}
      BY <1>0, <1>5, <2>2, <2>3 DEF Kept, Scheduled, Fresh
    <2>5. ASSUME NEW s \in r.engines
          PROVE  Owns(d, s)' /\ claims'[s].left >= Lease + offset'[d] - SinceRenewed(r, s)
      <3>1. s \in AllShards BY <1>0, <2>3, <2>5, ProcessFacts
      <3>2. Owns(d, s) /\ claims[s].left >= Lease + offset[d] - SinceRenewed(p, s)
        BY <1>0, <1>5, <2>3, <2>5 DEF Kept
      <3>3. claims[s] # Free
        <4>1. ownerId[d] \in SUBSET Daemons BY DEF IInv, TypeOK, OwnerIds
        <4>2. ownerId[d] # Nobody
          <5>1. ownerId[d] = {d} BY DEF IInv, TypeOK, OwnerIds, Punctual
          <5> QED BY <5>1, NobodyAssumption
        <4> QED BY <3>2, <4>2 DEF Owns, Free
      <3>4. claims[s] \in ClaimType BY <3>1, TypeFacts
      <3>5. claims'[s] = [claims[s] EXCEPT !.left = Later(@)] BY <3>1, <3>3 DEF Tick
      <3>6. claims'[s].owner = claims[s].owner /\ claims'[s].left = Later(claims[s].left)
        BY <3>4, <3>5 DEF ClaimType
      <3>7. claims[s].left \in Int /\ Lease \in Int /\ offset[d] \in Int BY <3>1, TimeTypes
      <3>8. claims'[s].left \in Int /\ claims'[s].left >= claims[s].left - 1
        BY <3>6, <3>7 DEF Later
      <3>9. SinceRenewed(r, s) = SinceRenewed(p, s) + 1 /\ SinceRenewed(p, s) \in Int
        BY <1>3, <2>2, <2>3 DEF SinceRenewed
      <3>10. claims'[s].left >= Lease + offset[d] - SinceRenewed(r, s)
        BY <3>2, <3>7, <3>8, <3>9
      <3> QED BY <1>2, <3>2, <3>6, <3>10 DEF Owns
    <2> QED BY <2>1, <2>4, <2>5 DEF Kept
  <1>6. CASE p.stop = "no" /\ p.phase # "up"
    <2>1. daemon'[d] = p BY <1>4, <1>6 DEF Up
    <2>2. p.engines = {} /\ Fresh(p) = {}
      BY <1>0, <1>3, <1>6 DEF Kept, Scheduled, Fresh
    <2> QED BY <1>0, <2>1, <2>2 DEF Kept
  <1>7. CASE p.stop # "no"
    <2>1. daemon'[d].stop # "no" BY <1>0, <1>4, <1>7 DEF ProcessType
    <2> QED BY <2>1 DEF Kept
  <1> QED BY <1>5, <1>6, <1>7

LEMMA KeptInit == Init => \A d \in Daemons : Kept(d)
  BY DEF Init, Kept, Scheduled, Fresh, Down

LEMMA KeptStep ==
    ASSUME IInv, Punctual, ClocksAgree, \A e \in Daemons : Kept(e), [Next]_vars
    PROVE  \A e \in Daemons : Kept(e)'
  <1>1. ASSUME UNCHANGED <<claims, ownerId, offset, daemon>>
        PROVE  \A e \in Daemons : Kept(e)'
    BY <1>1 DEF Kept, Scheduled, Fresh, Owns, SinceRenewed
  <1>2. ASSUME NEW d \in Daemons, Acquiring(d) PROVE \A e \in Daemons : Kept(e)'
    BY <1>2, AcquiringKeeps, ClaimKeeps, RevertKeeps, TimedKeeps DEF Acquiring
  <1>3. ASSUME NEW d \in Daemons, ShutdownComplete(d) \/ LineDuringDrain(d) \/ Kill(d)
        PROVE  \A e \in Daemons : Kept(e)'
    BY <1>3, ExitKeeps DEF ShutdownComplete, LineDuringDrain, Kill
  <1>4. ASSUME NEW d \in Daemons, Working(d) PROVE \A e \in Daemons : Kept(e)'
    BY <1>2, <1>3, <1>4, TimedKeeps, RenewKeeps, OtherKeeps, ReleaseKeeps DEF Working
  <1>5. ASSUME NEW d \in Daemons PROVE ~AcquireFails(d) /\ ~RenewFails(d)
    BY DEF Punctual, AcquireFails, RenewFails
  <1>6. CASE UNCHANGED vars BY <1>1, <1>6 DEF vars
  <1>7. CASE AddShard BY <1>1, <1>7 DEF AddShard
  <1> QED BY <1>3, <1>4, <1>5, <1>6, <1>7, AcquiringKeeps, OtherKeeps, TickKeeps DEF Next

\* Where every daemon is on time and clocks agree well enough, a daemon that
\* runs a shard and is not shutting down owns the shard's claim: nobody takes
\* it over between two heartbeats, a standby daemon that acquires included.
THEOREM HeartbeatKeepsClaimsCorrect ==
    ASSUME Punctual, ClocksAgree
    PROVE  Spec => []HeartbeatKeepsClaims
  <1> DEFINE Inv == IInv /\ \A d \in Daemons : Kept(d)
  <1>1. Init => Inv BY InitIInv, KeptInit
  <1>2. Inv /\ [Next]_vars => Inv' BY Step, KeptStep
  <1>3. Inv => HeartbeatKeepsClaims BY DEF HeartbeatKeepsClaims, Serving, Kept
  <1> QED BY <1>1, <1>2, <1>3, PTL DEF Spec
=============================================================================
