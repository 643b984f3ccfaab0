---------------------------- MODULE RateLimiter -----------------------------
(***************************************************************************)
(* The rate limiter of one shard (src/rate_limiter.rs): a fixed window per *)
(* group, kept in one JSON file that every call reads, truncates and       *)
(* writes again under a file lock.                                         *)
(*                                                                         *)
(* Windows are kept by their age; a call takes no time.                    *)
(***************************************************************************)
EXTENDS Integers

CONSTANTS
    Groups,
    Limit,      \* the greatest max_per_minute of any call
    Window,     \* 60 seconds, in Ticks
    Unknown,    \* a group the file says nothing of
    MaxLost     \* bound: how many writes are lost

ASSUME LimitAssumption == {Limit, MaxLost} \subseteq Nat /\ Window \in Nat \ {0}

ASSUME UnknownAssumption == Unknown \notin [count: 0..Limit, age: 0..Window]

VARIABLES
    file,       \* what the file says of each group
    call,       \* the call that holds the file lock
    recent,     \* history: for each group and age, how many calls were allowed
    lost        \* history: how many writes were lost

vars == <<file, call, recent, lost>>

NoCall == [group |-> Unknown, limits |-> [g \in Groups |-> Unknown], allow |-> FALSE]
Blank == [g \in Groups |-> Unknown]

Init ==
    /\ file = Blank
    /\ call = NoCall
    /\ recent = [g \in Groups |-> [age \in 0..(Window - 1) |-> 0]]
    /\ lost = 0

\* Mutated: a window that ran out is emptied and keeps its start.
CurrentKeepingStart(w) ==
    IF w = Unknown THEN [count |-> 0, age |-> 0]
    ELSE IF w.age >= Window THEN [w EXCEPT !.count = 0] ELSE w

\* The window a call counts in: what the file says, unless it has run out.
Current(w) ==
    IF w = Unknown \/ w.age >= Window THEN [count |-> 0, age |-> 0] ELSE w

\* Mutated: one call too many.
AdmitsOneMore(w, max) == w.count <= max

\* Tasks of one group may carry different limits: each call brings its own.
Admits(w, max) == w.count < max

\* Lock, read, decide, truncate.
Check(g, max) ==
    /\ call = NoCall
    /\ LET w == Current(file[g]) IN
       call' = [group |-> g,
                limits |-> [file EXCEPT ![g] =
                    IF Admits(w, max) THEN [w EXCEPT !.count = @ + 1] ELSE w],
                allow |-> Admits(w, max)]
    /\ file' = Blank
    /\ UNCHANGED <<recent, lost>>

\* Write, sync, unlock, answer.
Answer ==
    /\ call # NoCall
    /\ file' = call.limits
    /\ recent' = IF call.allow THEN [recent EXCEPT ![call.group][0] = @ + 1] ELSE recent
    /\ call' = NoCall
    /\ UNCHANGED lost

\* The write fails, or the daemon stops before it: the caller is refused or
\* gone, and the file says nothing of any group.
Lose ==
    /\ lost < MaxLost
    /\ call # NoCall
    /\ call' = NoCall
    /\ lost' = lost + 1
    /\ UNCHANGED <<file, recent>>

Tick ==
    /\ call = NoCall
    /\ file' = [g \in Groups |->
                   IF file[g] = Unknown \/ file[g].age >= Window THEN file[g]
                   ELSE [file[g] EXCEPT !.age = @ + 1]]
    /\ recent' = [g \in Groups |-> [age \in 0..(Window - 1) |->
                   IF age = 0 THEN 0 ELSE recent[g][age - 1]]]
    /\ UNCHANGED <<call, lost>>

Next == (\E g \in Groups, max \in 0..Limit : Check(g, max)) \/ Answer \/ Lose \/ Tick

Spec == Init /\ [][Next]_vars

-----------------------------------------------------------------------------
Limits == [Groups -> {Unknown} \cup [count: 0..Limit, age: 0..Window]]

\* Every variable has its type, no window counts more than the greatest limit.
TypeOK ==
    /\ file \in Limits
    /\ call \in [group: Groups \cup {Unknown}, limits: Limits, allow: BOOLEAN]
    /\ recent \in [Groups -> [0..(Window - 1) -> Nat]]
    /\ lost \in 0..MaxLost

\* How many calls of a history are younger than each age.
Younger(history) ==
    LET sum[n \in 0..Window] == IF n = 0 THEN 0 ELSE sum[n - 1] + history[n - 1]
    IN  sum

\* Calls allowed in the last Window.
RollingCount(g) == Younger(recent[g])[Window]

\* In any window of time a group is allowed at most two windows' worth of
\* calls by its greatest limit, the two fixed windows that meet in it, and at most one window's worth
\* more for each write that was lost.
AtMostTwoWindows == \A g \in Groups : RollingCount(g) <= (2 + lost) * Limit

\* "Within a 60-second rolling window" (README): a group is allowed at most Limit
\* calls in any window of time.  The code does not do that.
RollingWindow == \A g \in Groups : RollingCount(g) <= Limit
=============================================================================
