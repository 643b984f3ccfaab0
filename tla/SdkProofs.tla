----------------------------- MODULE SdkProofs ------------------------------
(***************************************************************************)
(* Machine-checked facts about executions by an SDK, for every set of      *)
(* tasks, any number of attempts and any choice of the timed ones.         *)
(***************************************************************************)
EXTENDS Sdk, SequenceTheorems, TLAPS

-----------------------------------------------------------------------------
(* The inductive invariant.                                                *)

\* TypeOK, with the domains of the functions and the sequence of lines.
Typed ==
    /\ TypeOK
    /\ pending \in [Ids -> Nat]
    /\ channel \in [Ids -> Results \cup {NoResult}]
    /\ stdin \in Seq(Results)

\* A sent result belongs to an execution that still waits for it and that has
\* no sender any more.
SentOnce ==
    \A id \in Ids : channel[id] # NoResult =>
        pending[id] = 0 /\ execution[id].pc \in {"stored", "waiting"}

\* Whose sender is not stored any more has been sent a result.
Reachable ==
    \A id \in Ids : execution[id].pc \in {"stored", "waiting"} =>
        pending[id] = execution[id].attempt \/ channel[id] # NoResult

\* What an untimed task has asked of the SDK is where it can be answered: at
\* the SDK, on the way back or in the channel, once, for the attempt that waits.
Pending(id, job) ==
    /\ AtPc(id, "waiting")
    /\ job = Job(id, execution[id].attempt)
OneAnswerFor(id) ==
    /\ \A job \in jobs : job.id = id =>
          /\ Pending(id, job)
          /\ channel[id] = NoResult
          /\ \A i \in 1..Len(stdin) : stdin[i].job.id # id
    /\ \A i \in 1..Len(stdin) : stdin[i].job.id = id =>
          /\ Pending(id, stdin[i].job)
          /\ channel[id] = NoResult
          /\ \A j \in 1..Len(stdin) : stdin[j].job.id = id => j = i
    /\ channel[id] # NoResult => Pending(id, channel[id].job)
OneAnswer == \A id \in Ids \ Timed : OneAnswerFor(id)

IInv == Typed /\ SentOnce /\ Reachable /\ OneAnswer /\ OnlyTimedAreConfused

LEMMA InitIInv == Init => IInv
  <1> SUFFICES ASSUME Init PROVE IInv OBVIOUS
  <1> USE DEF Init
  <1>1. Typed
    BY AttemptAssumption, EmptySeq DEF Typed, TypeOK, Executing
  <1>2. SentOnce /\ Reachable /\ OnlyTimedAreConfused
    BY DEF SentOnce, Reachable, OnlyTimedAreConfused
  <1>3. OneAnswer
    BY DEF OneAnswer, OneAnswerFor
  <1> QED BY <1>1, <1>2, <1>3 DEF IInv

-----------------------------------------------------------------------------
(* One lemma per action.                                                   *)

\* The fields of a task's execution, and what a sender can be.
LEMMA Fields ==
    ASSUME Typed, NEW id \in Ids
    PROVE  /\ execution[id].pc \in {"due", "stored", "waiting", "expired", "done", "failed"}
           /\ execution[id].attempt \in 1..Attempts
           /\ execution[id].attempt \in Nat \ {0}
           /\ pending[id] \in IF Executing(id) THEN {0, execution[id].attempt} ELSE {0}
           /\ Job(id, execution[id].attempt) \in Jobs
  <1>1. execution[id] \in [pc: {"due", "stored", "waiting", "expired", "done", "failed"},
                           attempt: 1..Attempts]
    BY DEF Typed, TypeOK
  <1>2. pending[id] \in IF Executing(id) THEN {0, execution[id].attempt} ELSE {0}
    BY DEF Typed, TypeOK
  <1> QED BY <1>1, <1>2, AttemptAssumption DEF Jobs, Job

\* What an action of one task has to show.
LEMMA TypedByTask ==
    ASSUME Typed, NEW id \in Ids, NEW e,
           e \in [pc: {"due", "stored", "waiting", "expired", "done", "failed"},
                  attempt: 1..Attempts],
           execution' = [execution EXCEPT ![id] = e],
           pending' \in [Ids -> Nat],
           \A a \in Ids \ {id} : pending'[a] = pending[a],
           pending'[id] \in IF e.pc \in {"stored", "waiting", "expired"}
                            THEN {0, e.attempt} ELSE {0},
           channel' \in [Ids -> Results \cup {NoResult}],
           jobs' \subseteq Jobs, strays' \subseteq Ids, UNCHANGED <<stdin, stop>>
    PROVE  Typed'
  <1>1. execution' \in [Ids -> [pc: {"due", "stored", "waiting", "expired", "done", "failed"},
                                attempt: 1..Attempts]]
    BY DEF Typed, TypeOK
  <1>2. \A a \in Ids : pending'[a] \in IF Executing(a)' THEN {0, execution'[a].attempt} ELSE {0}
    <2> SUFFICES ASSUME NEW a \in Ids
                 PROVE  pending'[a] \in IF Executing(a)' THEN {0, execution'[a].attempt} ELSE {0}
      OBVIOUS
    <2>1. CASE a = id BY <2>1 DEF Typed, TypeOK, Executing
    <2>2. CASE a # id
      <3>1. execution'[a] = execution[a] BY <2>2 DEF Typed, TypeOK
      <3>2. Executing(a)' <=> Executing(a) BY <3>1 DEF Executing
      <3> QED BY <2>2, <3>1, <3>2 DEF Typed, TypeOK
    <2> QED BY <2>1, <2>2
  <1> QED BY <1>1, <1>2 DEF Typed, TypeOK

\* An untimed task that does not wait has asked for nothing.
LEMMA Quiet ==
    ASSUME NEW id \in Ids \ Timed, OneAnswerFor(id), ~AtPc(id, "waiting")
    PROVE  /\ \A job \in jobs : job.id # id
           /\ \A i \in 1..Len(stdin) : stdin[i].job.id # id
           /\ channel[id] = NoResult
    BY DEF OneAnswerFor, Pending

\* Other tasks' answers are not touched.
LEMMA OneAnswerOfOthers ==
    ASSUME NEW a \in Ids \ Timed, OneAnswerFor(a),
           execution'[a] = execution[a], channel'[a] = channel[a],
           \A job \in jobs' : job.id = a => job \in jobs, stdin' = stdin
    PROVE  OneAnswerFor(a)'
    BY DEF OneAnswerFor, Pending, AtPc

\* An attempt that has asked for nothing may end or begin.
LEMMA OneAnswerQuiet ==
    ASSUME NEW a \in Ids \ Timed, channel'[a] = NoResult,
           \A job \in jobs' : job.id # a,
           \A i \in 1..Len(stdin') : stdin'[i].job.id # a
    PROVE  OneAnswerFor(a)'
    BY DEF OneAnswerFor

\* A failed or finished attempt leaves the task due, done or failed.
LEMMA Settled ==
    ASSUME Typed, NEW id \in Ids, NEW ok, Settle(id, ok)
    PROVE  \E e \in [pc: {"due", "done", "failed"}, attempt: 1..Attempts] :
               execution' = [execution EXCEPT ![id] = e]
  <1>1. execution[id] \in [pc: {"due", "stored", "waiting", "expired", "done", "failed"},
                           attempt: 1..Attempts]
    BY DEF Typed, TypeOK
  <1>2. CASE ok
    <2>1. execution' = [execution EXCEPT ![id] = [execution[id] EXCEPT !.pc = "done"]]
      BY <1>2 DEF Settle
    <2> QED BY <1>1, <2>1
  <1>3. CASE ~ok /\ execution[id].attempt = Attempts
    <2>1. execution' = [execution EXCEPT ![id] = [execution[id] EXCEPT !.pc = "failed"]]
      BY <1>3 DEF Settle
    <2> QED BY <1>1, <2>1
  <1>4. CASE ~ok /\ execution[id].attempt # Attempts
    <2>1. execution' = [execution EXCEPT
                          ![id] = [pc |-> "due", attempt |-> execution[id].attempt + 1]]
      BY <1>4 DEF Settle
    <2>2. execution[id].attempt + 1 \in 1..Attempts
      BY <1>1, <1>4, AttemptAssumption
    <2> QED BY <2>1, <2>2
  <1> QED BY <1>2, <1>3, <1>4

LEMMA StoreStep ==
    ASSUME IInv, NEW id \in Ids, Store(id)
    PROVE  IInv'
  <1> USE DEF IInv
  <1> DEFINE e == [execution[id] EXCEPT !.pc = "stored"]
  <1>1. /\ execution' = [execution EXCEPT ![id] = e]
        /\ e \in [pc: {"stored"}, attempt: 1..Attempts]
        /\ e.pc = "stored" /\ e.attempt = execution[id].attempt
    BY DEF Store, Move, Typed, TypeOK
  <1>2. Typed'
    <2>1. jobs' \subseteq Jobs BY Fields DEF Typed, TypeOK, Store
    <2>2. pending'[id] \in {0, e.attempt}
      BY <1>1, Fields DEF Store, Typed
    <2> QED BY <1>1, <2>1, <2>2, Fields, TypedByTask DEF Store, Typed, TypeOK
  <1>3. SentOnce' /\ Reachable' /\ OnlyTimedAreConfused'
    BY <1>1, Fields
    DEF Typed, TypeOK, SentOnce, Reachable, OnlyTimedAreConfused, Store, AtPc
  <1>4. OneAnswer'
    <2> SUFFICES ASSUME NEW a \in Ids \ Timed PROVE OneAnswerFor(a)'
      BY DEF OneAnswer
    <2>1. OneAnswerFor(a) BY DEF OneAnswer
    <2>2. CASE a # id
      BY <1>1, <2>1, <2>2, OneAnswerOfOthers DEF Store, Typed, TypeOK, Job
    <2>3. CASE a = id
      BY <2>1, <2>3, Quiet, OneAnswerQuiet DEF Store, AtPc, Typed
    <2> QED BY <2>2, <2>3
  <1> QED BY <1>2, <1>3, <1>4

LEMMA ExecuteStep ==
    ASSUME IInv, NEW id \in Ids, Execute(id)
    PROVE  IInv'
  <1> USE DEF IInv
  <1> DEFINE e == [execution[id] EXCEPT !.pc = "waiting"]
  <1>1. /\ execution' = [execution EXCEPT ![id] = e]
        /\ e \in [pc: {"waiting"}, attempt: 1..Attempts]
        /\ e.pc = "waiting" /\ e.attempt = execution[id].attempt
    BY DEF Execute, Move, Typed, TypeOK
  <1>2. Typed'
    <2>1. jobs' \subseteq Jobs BY Fields DEF Typed, TypeOK, Execute
    <2>2. pending'[id] \in {0, e.attempt}
      BY <1>1, Fields DEF Execute, Typed
    <2> QED BY <1>1, <2>1, <2>2, Fields, TypedByTask DEF Execute, Typed, TypeOK
  <1>3. SentOnce' /\ Reachable' /\ OnlyTimedAreConfused'
    BY <1>1, Fields
    DEF Typed, TypeOK, SentOnce, Reachable, OnlyTimedAreConfused, Execute, AtPc
  <1>4. OneAnswer'
    <2> SUFFICES ASSUME NEW a \in Ids \ Timed PROVE OneAnswerFor(a)'
      BY DEF OneAnswer
    <2>1. OneAnswerFor(a) BY DEF OneAnswer
    <2>2. CASE a # id
      <3>1. \A job \in jobs' : job.id = a => job \in jobs
        BY <2>2 DEF Execute, Job
      <3>2. execution'[a] = execution[a] BY <1>1, <2>2 DEF Typed, TypeOK
      <3> QED BY <2>1, <3>1, <3>2, OneAnswerOfOthers DEF Execute
    <2>3. CASE a = id
      <3>1. /\ \A job \in jobs : job.id # a
            /\ \A i \in 1..Len(stdin) : stdin[i].job.id # a
            /\ channel[a] = NoResult
        BY <2>1, <2>3, Quiet DEF Execute, AtPc
      <3>2. AtPc(a, "waiting")' /\ execution'[a].attempt = execution[a].attempt
        BY <1>1, <2>3 DEF Typed, TypeOK, AtPc
      <3> QED BY <2>3, <3>1, <3>2 DEF Execute, OneAnswerFor, Pending
    <2> QED BY <2>2, <2>3
  <1> QED BY <1>2, <1>3, <1>4

LEMMA ReceiveStep ==
    ASSUME IInv, NEW id \in Ids, Receive(id)
    PROVE  IInv'
  <1> USE DEF IInv
  <1>1. PICK e \in [pc: {"due", "done", "failed"}, attempt: 1..Attempts] :
            execution' = [execution EXCEPT ![id] = e]
    BY Settled DEF Receive
  <1>2. Typed'
    <2>1. pending[id] = 0 BY DEF SentOnce, Receive
    <2> QED BY <1>1, <2>1, TypedByTask DEF Receive, Typed, TypeOK
  <1>3. SentOnce' /\ Reachable'
    BY <1>1, Fields DEF Typed, TypeOK, SentOnce, Reachable, Receive
  <1>4. OneAnswer'
    <2> SUFFICES ASSUME NEW a \in Ids \ Timed PROVE OneAnswerFor(a)'
      BY DEF OneAnswer
    <2>1. OneAnswerFor(a) BY DEF OneAnswer
    <2>2. CASE a # id
      BY <1>1, <2>1, <2>2, OneAnswerOfOthers DEF Receive, Typed, TypeOK, Job
    <2>3. CASE a = id
      <3>1. Pending(a, channel[a].job)
        BY <2>1, <2>3 DEF OneAnswerFor, Receive
      <3>2. /\ \A job \in jobs : job.id # a
            /\ \A i \in 1..Len(stdin) : stdin[i].job.id # a
        BY <2>1, <2>3 DEF OneAnswerFor, Receive
      <3> QED BY <2>3, <3>2, OneAnswerQuiet DEF Receive, Typed
    <2> QED BY <2>2, <2>3
  <1>5. OnlyTimedAreConfused'
    <2>1. CASE id \in Timed
      BY <2>1 DEF OnlyTimedAreConfused, Receive
    <2>2. CASE id \notin Timed
      <3>1. Pending(id, channel[id].job)
        BY <2>2 DEF OneAnswer, OneAnswerFor, Receive
      <3>2. channel[id].job.attempt = execution[id].attempt
        BY <3>1 DEF Pending, Job
      <3> QED BY <3>2 DEF OnlyTimedAreConfused, Receive
    <2> QED BY <2>1, <2>2
  <1> QED BY <1>2, <1>3, <1>4, <1>5

LEMMA ExpireStep ==
    ASSUME IInv, NEW id \in Ids, Expire(id)
    PROVE  IInv'
  <1> USE DEF IInv
  <1> DEFINE e == [execution[id] EXCEPT !.pc = "expired"]
  <1>1. /\ execution' = [execution EXCEPT ![id] = e]
        /\ e \in [pc: {"expired"}, attempt: 1..Attempts]
        /\ e.pc = "expired" /\ e.attempt = execution[id].attempt
    BY DEF Expire, Move, Typed, TypeOK
  <1>2. Typed'
    <2>1. jobs' \subseteq Jobs BY Fields DEF Typed, TypeOK, Expire
    <2>2. pending'[id] \in {0, e.attempt}
      BY <1>1, Fields DEF Expire, Typed
    <2> QED BY <1>1, <2>1, <2>2, Fields, TypedByTask DEF Expire, Typed, TypeOK
  <1>3. SentOnce' /\ Reachable' /\ OnlyTimedAreConfused'
    BY <1>1, Fields
    DEF Typed, TypeOK, SentOnce, Reachable, OnlyTimedAreConfused, Expire, AtPc
  <1>4. OneAnswer'
    <2> SUFFICES ASSUME NEW a \in Ids \ Timed PROVE OneAnswerFor(a)'
      BY DEF OneAnswer
    <2>1. OneAnswerFor(a) BY DEF OneAnswer
    <2>2. CASE a # id
      BY <1>1, <2>1, <2>2, OneAnswerOfOthers DEF Expire, Typed, TypeOK, Job
    <2>3. CASE a = id
      BY <2>3 DEF Expire
    <2> QED BY <2>2, <2>3
  <1> QED BY <1>2, <1>3, <1>4

LEMMA GiveUpStep ==
    ASSUME IInv, NEW id \in Ids, GiveUp(id)
    PROVE  IInv'
  <1> USE DEF IInv
  <1>1. PICK e \in [pc: {"due", "done", "failed"}, attempt: 1..Attempts] :
            execution' = [execution EXCEPT ![id] = e]
    BY Settled DEF GiveUp
  <1>2. Typed'
    BY <1>1, TypedByTask DEF GiveUp, Typed, TypeOK
  <1>3. SentOnce' /\ Reachable' /\ OnlyTimedAreConfused'
    BY <1>1, Fields
    DEF Typed, TypeOK, SentOnce, Reachable, OnlyTimedAreConfused, GiveUp, AtPc
  <1>4. OneAnswer'
    <2> SUFFICES ASSUME NEW a \in Ids \ Timed PROVE OneAnswerFor(a)'
      BY DEF OneAnswer
    <2>1. OneAnswerFor(a) BY DEF OneAnswer
    <2>2. CASE a # id
      BY <1>1, <2>1, <2>2, OneAnswerOfOthers DEF GiveUp, Typed, TypeOK, Job
    <2>3. CASE a = id
      BY <2>1, <2>3, Quiet, OneAnswerQuiet DEF GiveUp, AtPc, Typed
    <2> QED BY <2>2, <2>3
  <1> QED BY <1>2, <1>3, <1>4

LEMMA SdkAnswersStep ==
    ASSUME IInv, NEW job \in jobs, SdkAnswers(job)
    PROVE  IInv'
  <1> USE DEF IInv
  <1>1. PICK ok \in BOOLEAN : stdin' = Append(stdin, Result(job, ok))
    BY DEF SdkAnswers
  <1>2. Result(job, ok) \in Results /\ Result(job, ok).job = job
    BY DEF Typed, TypeOK, Results, Result
  <1>3. /\ stdin' \in Seq(Results)
        /\ Len(stdin') = Len(stdin) + 1 /\ Len(stdin) \in Nat
        /\ \A i \in 1..Len(stdin) : stdin'[i] = stdin[i]
        /\ stdin'[Len(stdin) + 1] = Result(job, ok)
    BY <1>1, <1>2, AppendProperties, LenProperties DEF Typed
  <1>4. Typed'
    BY <1>3, ElementOfSeq DEF Typed, TypeOK, Executing, SdkAnswers
  <1>5. SentOnce' /\ Reachable' /\ OnlyTimedAreConfused'
    BY DEF SentOnce, Reachable, OnlyTimedAreConfused, SdkAnswers
  <1>6. OneAnswer'
    BY <1>2, <1>3 DEF OneAnswer, OneAnswerFor, Pending, AtPc, SdkAnswers
  <1> QED BY <1>4, <1>5, <1>6

LEMMA ReadResultStep ==
    ASSUME IInv, ReadResult
    PROVE  IInv'
  <1> USE DEF IInv
  <1> DEFINE line == Head(stdin)
             id == line.job.id
             sent == /\ pending[id] # 0 /\ pending[id] = execution[id].attempt
                     /\ execution[id].pc \in {"stored", "waiting"}
  <1>1. /\ line \in Results /\ line = stdin[1] /\ 1 \in 1..Len(stdin)
        /\ Len(stdin) \in Nat
        /\ stdin' \in Seq(Results) /\ Len(stdin') = Len(stdin) - 1
        /\ \A i \in 1..Len(stdin') : i + 1 \in 1..Len(stdin) /\ stdin'[i] = stdin[i + 1]
    BY HeadTailProperties, LenProperties, EmptySeq DEF Typed, ReadResult
  <1>2. id \in Ids /\ line # NoResult
    BY <1>1, NoResultAssumption DEF Results, Jobs
  <1>3. /\ pending' = [pending EXCEPT ![id] = 0]
        /\ channel' = IF sent THEN [channel EXCEPT ![id] = line] ELSE channel
        /\ UNCHANGED <<execution, jobs, stop, strays>>
    BY DEF ReadResult
  <1>4. Typed'
    <2>1. pending' \in [Ids -> Nat] /\ channel' \in [Ids -> Results \cup {NoResult}]
      BY <1>1, <1>2, <1>3 DEF Typed
    <2>2. TypeOK'
      <3>1. \A a \in Ids : pending'[a] \in {pending[a], 0}
        BY <1>2, <1>3 DEF Typed
      <3>2. \A i \in 1..Len(stdin') : stdin'[i] \in Results
        BY <1>1, ElementOfSeq
      <3> QED BY <1>3, <2>1, <3>1, <3>2 DEF Typed, TypeOK, Executing
    <2> QED BY <1>1, <2>1, <2>2 DEF Typed
  <1>5. SentOnce' /\ OnlyTimedAreConfused'
    BY <1>1, <1>2, <1>3 DEF Typed, TypeOK, SentOnce, OnlyTimedAreConfused
  <1>6. Reachable'
    BY <1>1, <1>2, <1>3, Fields DEF Typed, TypeOK, Reachable
  <1>7. OneAnswer'
    <2> SUFFICES ASSUME NEW a \in Ids \ Timed PROVE OneAnswerFor(a)'
      BY DEF OneAnswer
    <2>0. OneAnswerFor(a) BY DEF OneAnswer
    <2>1. CASE a # id
      <3>1. channel'[a] = channel[a] BY <1>2, <1>3, <2>1 DEF Typed
      <3>2. \A job : Pending(a, job)' <=> Pending(a, job)
        BY <1>3 DEF Pending, AtPc
      <3>3. \A job \in jobs' : job.id = a =>
               /\ Pending(a, job)' /\ channel'[a] = NoResult
               /\ \A i \in 1..Len(stdin') : stdin'[i].job.id # a
        BY <1>1, <1>3, <2>0, <3>1, <3>2 DEF OneAnswerFor
      <3>4. ASSUME NEW i \in 1..Len(stdin'), stdin'[i].job.id = a
            PROVE  /\ Pending(a, stdin[i].job)' /\ channel'[a] = NoResult
                   /\ \A j \in 1..Len(stdin') : stdin'[j].job.id = a => j = i
        <4>1. i + 1 \in 1..Len(stdin) /\ stdin[i + 1].job.id = a /\ stdin'[i] = stdin[i + 1]
          BY <1>1, <3>4
        <4>2. /\ Pending(a, stdin[i + 1].job) /\ channel[a] = NoResult
              /\ \A j \in 1..Len(stdin) : stdin[j].job.id = a => j = i + 1
          BY <2>0, <4>1 DEF OneAnswerFor
        <4>3. ASSUME NEW j \in 1..Len(stdin'), stdin'[j].job.id = a PROVE j = i
          <5>1. j + 1 \in 1..Len(stdin) /\ stdin[j + 1].job.id = a BY <1>1, <4>3
          <5> QED BY <4>2, <5>1
        <4> QED BY <3>1, <3>2, <4>1, <4>2, <4>3
      <3>5. channel'[a] # NoResult => Pending(a, channel[a].job)'
        BY <2>0, <3>1, <3>2 DEF OneAnswerFor
      <3> QED BY <3>3, <3>4, <3>5 DEF OneAnswerFor
    <2>2. CASE a = id
      <3>1. /\ Pending(a, line.job)
            /\ \A job \in jobs : job.id # a
            /\ \A j \in 1..Len(stdin) : stdin[j].job.id = a => j = 1
        BY <1>1, <2>0, <2>2 DEF OneAnswerFor
      <3>2. \A i \in 1..Len(stdin') : stdin'[i].job.id # a
        BY <1>1, <3>1
      <3>3. channel'[a] \in {NoResult, line}
        BY <1>1, <1>2, <1>3, <2>0, <2>2 DEF Typed, OneAnswerFor
      <3> QED BY <1>3, <3>1, <3>2, <3>3 DEF OneAnswerFor, Pending, AtPc
    <2> QED BY <2>1, <2>2
  <1> QED BY <1>4, <1>5, <1>6, <1>7

LEMMA ShutdownStep ==
    ASSUME IInv, Sigterm \/ DrainEnds \/ LineDuringDrain \/ EndOfInput
    PROVE  IInv'
  <1> USE DEF IInv
  <1>1. CASE Sigterm \/ DrainEnds \/ EndOfInput
    <2>1. /\ stop' \in {"draining", "drained", "timed out", "closed"}
          /\ UNCHANGED <<execution, pending, channel, jobs, stdin, strays>>
      BY <1>1 DEF Sigterm, DrainEnds, EndOfInput
    <2> QED BY <2>1 DEF Typed, TypeOK, Executing, SentOnce, Reachable, OneAnswer,
                        OneAnswerFor, OnlyTimedAreConfused, Pending, AtPc
  <1>2. CASE LineDuringDrain
    <2>1. /\ Len(stdin) \in Nat
          /\ stdin' \in Seq(Results) /\ Len(stdin') = Len(stdin) - 1
          /\ \A i \in 1..Len(stdin') : i + 1 \in 1..Len(stdin) /\ stdin'[i] = stdin[i + 1]
      BY <1>2, HeadTailProperties, LenProperties DEF Typed, LineDuringDrain
    <2>2. /\ stop' = "left"
          /\ UNCHANGED <<execution, pending, channel, jobs, strays>>
      BY <1>2 DEF LineDuringDrain
    <2>3. Typed'
      BY <2>1, <2>2, ElementOfSeq DEF Typed, TypeOK, Executing
    <2>4. SentOnce' /\ Reachable' /\ OnlyTimedAreConfused'
      BY <2>2 DEF SentOnce, Reachable, OnlyTimedAreConfused
    <2>5. OneAnswer'
      <3> SUFFICES ASSUME NEW a \in Ids \ Timed PROVE OneAnswerFor(a)'
        BY DEF OneAnswer
      <3>1. OneAnswerFor(a) BY DEF OneAnswer
      <3>2. \A i \in 1..Len(stdin') : stdin'[i].job.id = a =>
               /\ Pending(a, stdin'[i].job) /\ channel[a] = NoResult
               /\ \A j \in 1..Len(stdin') : stdin'[j].job.id = a => j = i
        <4> SUFFICES ASSUME NEW i \in 1..Len(stdin'), stdin'[i].job.id = a
                     PROVE  /\ Pending(a, stdin'[i].job) /\ channel[a] = NoResult
                            /\ \A j \in 1..Len(stdin') : stdin'[j].job.id = a => j = i
          OBVIOUS
        <4>1. i + 1 \in 1..Len(stdin) /\ stdin[i + 1].job.id = a /\ stdin'[i] = stdin[i + 1]
          BY <2>1
        <4>2. /\ Pending(a, stdin[i + 1].job) /\ channel[a] = NoResult
              /\ \A j \in 1..Len(stdin) : stdin[j].job.id = a => j = i + 1
          BY <3>1, <4>1 DEF OneAnswerFor
        <4>3. ASSUME NEW j \in 1..Len(stdin'), stdin'[j].job.id = a PROVE j = i
          <5>1. j + 1 \in 1..Len(stdin) /\ stdin[j + 1].job.id = a BY <2>1, <4>3
          <5> QED BY <4>2, <5>1
        <4> QED BY <4>1, <4>2, <4>3
      <3>3. \A job \in jobs : job.id = a =>
               \A i \in 1..Len(stdin') : stdin'[i].job.id # a
        BY <2>1, <3>1 DEF OneAnswerFor
      <3> QED BY <2>2, <3>1, <3>2, <3>3 DEF OneAnswerFor, Pending, AtPc
    <2> QED BY <2>3, <2>4, <2>5
  <1> QED BY <1>1, <1>2

-----------------------------------------------------------------------------
(* The theorems.                                                           *)

LEMMA StutterStep ==
    ASSUME IInv, UNCHANGED vars
    PROVE  IInv'
  <1> USE DEF vars, IInv
  <1>1. Typed' BY DEF Typed, TypeOK, Executing
  <1>2. SentOnce' /\ Reachable' /\ OnlyTimedAreConfused'
    BY DEF SentOnce, Reachable, OnlyTimedAreConfused
  <1>3. OneAnswer' BY OneAnswerOfOthers DEF OneAnswer
  <1> QED BY <1>1, <1>2, <1>3

LEMMA Invariance == Spec => []IInv
  <1>1. IInv /\ [Next]_vars => IInv'
    BY StoreStep, ExecuteStep, ReceiveStep, ExpireStep, GiveUpStep, SdkAnswersStep,
       ReadResultStep, ShutdownStep, StutterStep DEF Next
  <1> QED BY InitIInv, <1>1, PTL DEF Spec

\* The variables of the protocol loop have their types; a stored sender is
\* always that of the execution under way.
THEOREM TypeCorrect == Spec => []TypeOK
  <1>1. IInv => TypeOK BY DEF IInv, Typed
  <1> QED BY Invariance, <1>1, PTL

\* Who waits for a result has its sender stored or a result in its channel:
\* no handler ever waits on a channel that nobody can write to.
THEOREM WaiterIsReachableCorrect == Spec => []WaiterIsReachable
  <1>1. IInv => WaiterIsReachable BY DEF IInv, Reachable, WaiterIsReachable, AtPc
  <1> QED BY Invariance, <1>1, PTL

\* Only tasks with max_execution_seconds can be settled by an answer to an
\* earlier attempt.
THEOREM OnlyTimedAreConfusedCorrect == Spec => []OnlyTimedAreConfused
  <1>1. IInv => OnlyTimedAreConfused BY DEF IInv
  <1> QED BY Invariance, <1>1, PTL
=============================================================================
