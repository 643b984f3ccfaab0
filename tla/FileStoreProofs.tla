-------------------------- MODULE FileStoreProofs ---------------------------
(***************************************************************************)
(* Machine-checked facts about the task log, for every set of ids and of   *)
(* writers, any number of records and any choice of faults.                *)
(***************************************************************************)
EXTENDS FileStore, SetInduction, SequenceTheorems, TLAPS

-----------------------------------------------------------------------------
(* Files and what a reader finds in them.                                  *)

RecordSet == [kind: {"record"}, id: Ids, version: Versions, deleted: BOOLEAN]

Decodable(f) == \A i \in 1..Len(f) : ~Undecodable(f[i])

\* Every record of g but the one at n is a record of f, and the reverse; n is
\* behind all of them.
SameBefore(f, g, n) ==
    /\ Read(f) \ {n} = Read(g) \ {n}
    /\ \A i \in Read(f) \ {n} : i < n /\ RecordAt(g, i) = RecordAt(f, i)

LEMMA RecordTyped ==
    ASSUME NEW id \in Ids, NEW v \in Versions, NEW d \in BOOLEAN
    PROVE  Record(id, v, d) \in RecordSet
  <1> QED BY DEF Record, RecordSet

LEMMA FileTyped ==
    ASSUME NEW f \in Files
    PROVE  /\ Len(f) \in Nat \ {0}
           /\ \A i \in 1..Len(f) : f[i] \in Seq(Fragments)
           /\ Last(f) = f[Len(f)] /\ Last(f) \in Seq(Fragments)
  <1> QED BY DEF Files, Last

LEMMA ReadTyped ==
    ASSUME NEW f \in Files
    PROVE  /\ Read(f) \subseteq 1..Len(f)
           /\ IsFiniteSet(Read(f))
           /\ \A i \in Read(f) : RecordAt(f, i) \in RecordSet
  <1>1. Read(f) \subseteq 1..Len(f)
    BY DEF Read
  <1>2. IsFiniteSet(Read(f))
    <2>1. IsFiniteSet(1..Len(f))
      BY FileTyped, FS_Interval
    <2> QED BY <1>1, <2>1, FS_Subset
  <1>3. ASSUME NEW i \in Read(f) PROVE RecordAt(f, i) \in RecordSet
    <2>1. i \in 1..Len(f) /\ Len(f[i]) = 1 /\ f[i][1].kind = "record"
      BY DEF Read, Parsable
    <2>2. f[i] \in Seq(Fragments)
      BY <2>1, FileTyped
    <2>3. f[i][1] \in Fragments
      BY <2>1, <2>2
    <2> QED BY <2>1, <2>3 DEF RecordAt, Fragments, RecordSet
  <1> QED BY <1>1, <1>2, <1>3

\* Of a file that can be decoded every line counts for itself.
LEMMA ReadDecodable ==
    ASSUME NEW f, Decodable(f)
    PROVE  Read(f) = {i \in 1..Len(f) : Parsable(f[i])}
  <1> QED BY DEF Read, Decodable

LEMMA WriteTyped ==
    ASSUME NEW f \in Files, NEW x \in Fragments
    PROVE  /\ Write(f, x) \in Files
           /\ Len(Write(f, x)) = Len(f)
           /\ \A i \in 1..(Len(f) - 1) : Write(f, x)[i] = f[i]
           /\ Write(f, x)[Len(f)] = Append(f[Len(f)], x)
  <1> QED BY FileTyped DEF Write, Files

LEMMA LineFeedTyped ==
    ASSUME NEW f \in Files
    PROVE  /\ LineFeed(f) \in Files
           /\ Len(LineFeed(f)) = Len(f) + 1
           /\ \A i \in 1..Len(f) : LineFeed(f)[i] = f[i]
           /\ LineFeed(f)[Len(f) + 1] = <<>>
           /\ ~OpenLine(LineFeed(f))
  <1> QED BY FileTyped DEF LineFeed, Files, OpenLine, Last

LEMMA RecordIsFragment ==
    /\ RecordSet \subseteq Fragments
    /\ \A kind \in {"piece", "utf8"} : Fragment(kind) \in Fragments /\ Fragment(kind).kind = kind
  <1> QED BY DEF RecordSet, Fragments, Fragment

LEMMA WriteOpens ==
    ASSUME NEW f \in Files, NEW x \in Fragments
    PROVE  OpenLine(Write(f, x))
  <1>1. /\ Write(f, x)[Len(f)] = Append(f[Len(f)], x) /\ Len(Write(f, x)) = Len(f)
        /\ f[Len(f)] \in Seq(Fragments)
    BY WriteTyped, FileTyped
  <1>2. Append(f[Len(f)], x) # <<>>
    BY <1>1
  <1> QED BY <1>1, <1>2 DEF OpenLine, Last

LEMMA WriteDecodable ==
    ASSUME NEW f \in Files, Decodable(f), NEW x \in Fragments, x.kind # "utf8"
    PROVE  Decodable(Write(f, x))
  <1> DEFINE n == Len(f)
             g == Write(f, x)
  <1> HIDE DEF g
  <1>1. /\ Len(g) = n /\ n \in Nat \ {0} /\ f[n] \in Seq(Fragments)
        /\ \A i \in 1..(n - 1) : g[i] = f[i]
        /\ g[n] = Append(f[n], x)
    BY WriteTyped, FileTyped DEF g
  <1>2. ~Undecodable(f[n])
    BY <1>1 DEF Decodable
  <1>3. ~Undecodable(g[n])
    BY <1>1, <1>2 DEF Undecodable
  <1>4. \A i \in 1..n : ~Undecodable(g[i])
    <2>1. \A i \in 1..n : ~Undecodable(f[i])
      BY DEF Decodable
    <2>2. \A i \in 1..n : i = n \/ (i \in 1..(n - 1) /\ g[i] = f[i])
      BY <1>1
    <2> QED BY <1>3, <2>1, <2>2
  <1> QED BY <1>1, <1>4 DEF Decodable, g

\* A record on a line of its own is one more record.
LEMMA WriteOnClosed ==
    ASSUME NEW f \in Files, Decodable(f), ~OpenLine(f), NEW r \in RecordSet
    PROVE  LET g == Write(f, r) IN
           /\ Decodable(g)
           /\ Len(f) \notin Read(f) /\ Len(f) \in Read(g)
           /\ RecordAt(g, Len(f)) = r
           /\ SameBefore(f, g, Len(f))
           /\ OpenLine(g)
  <1> DEFINE n == Len(f)
             g == Write(f, r)
  <1> HIDE DEF g
  <1>1. /\ g \in Files /\ Len(g) = n
        /\ \A i \in 1..(n - 1) : g[i] = f[i]
        /\ g[n] = Append(f[n], r)
    BY WriteTyped, RecordIsFragment DEF g
  <1>2. n \in Nat \ {0} /\ f[n] = <<>>
    BY FileTyped DEF OpenLine
  <1>3. g[n] = <<r>> /\ Len(g[n]) = 1 /\ g[n][1] = r /\ r.kind = "record"
    BY <1>1, <1>2 DEF RecordSet
  <1>4. ~Undecodable(g[n]) /\ Parsable(g[n]) /\ ~Parsable(f[n])
    BY <1>2, <1>3 DEF Undecodable, Parsable
  <1>5. Decodable(g)
    BY <1>1, <1>2, <1>4 DEF Decodable, Undecodable
  <1>6. n \notin Read(f) /\ n \in Read(g)
    BY <1>1, <1>2, <1>4, <1>5, ReadDecodable
  <1>7. Read(f) \ {n} = Read(g) \ {n}
    BY <1>1, <1>2, <1>5, ReadDecodable DEF Parsable
  <1>8. ASSUME NEW i \in Read(f) \ {n} PROVE i < n /\ RecordAt(g, i) = RecordAt(f, i)
    <2>1. i \in 1..(n - 1)
      BY <1>2, ReadTyped
    <2> QED BY <2>1, <1>1, <1>2 DEF RecordAt
  <1>9. OpenLine(g)
    BY <1>1, <1>3 DEF OpenLine, Last
  <1> QED BY <1>3, <1>5, <1>6, <1>7, <1>8, <1>9 DEF SameBefore, RecordAt, g

\* What is written on an open line, and a piece of a record on any line, spoils
\* that line.
LEMMA WriteSpoils ==
    ASSUME NEW f \in Files, Decodable(f), NEW x \in Fragments, x.kind # "utf8",
           OpenLine(f) \/ x.kind # "record"
    PROVE  LET g == Write(f, x) IN
           /\ Decodable(g)
           /\ Len(f) \notin Read(g)
           /\ SameBefore(f, g, Len(f))
           /\ OpenLine(g)
  <1> DEFINE n == Len(f)
             g == Write(f, x)
  <1> HIDE DEF g
  <1>1. /\ g \in Files /\ Len(g) = n
        /\ \A i \in 1..(n - 1) : g[i] = f[i]
        /\ g[n] = Append(f[n], x)
    BY WriteTyped DEF g
  <1>2. n \in Nat \ {0} /\ f[n] \in Seq(Fragments)
    BY FileTyped
  <1>3. /\ Len(g[n]) = Len(f[n]) + 1
        /\ g[n][Len(f[n]) + 1] = x
        /\ \A i \in 1..Len(f[n]) : g[n][i] = f[n][i]
        /\ g[n] # <<>>
    BY <1>1, <1>2
  <1>4. ~Undecodable(f[n])
    BY <1>2 DEF Decodable
  <1>5. ~Undecodable(g[n])
    BY <1>2, <1>3, <1>4 DEF Undecodable
  <1>6. ~Parsable(g[n])
    <2>1. CASE OpenLine(f)
      <3>1. Len(f[n]) # 0
        BY <2>1, <1>2, FileTyped DEF OpenLine
      <3> QED BY <3>1, <1>2, <1>3 DEF Parsable
    <2>2. CASE ~OpenLine(f)
      <3>1. f[n] = <<>> /\ x.kind # "record"
        BY <2>2, FileTyped DEF OpenLine
      <3> QED BY <3>1, <1>3 DEF Parsable
    <2> QED BY <2>1, <2>2
  <1>7. Decodable(g)
    <2>1. \A i \in 1..(n - 1) : ~Undecodable(g[i])
      BY <1>1, <1>2 DEF Decodable, Undecodable
    <2>2. \A i \in 1..n : i = n \/ i \in 1..(n - 1)
      BY <1>2
    <2> QED BY <1>1, <1>5, <2>1, <2>2 DEF Decodable
  <1>8. n \notin Read(g)
    BY <1>6 DEF Read
  <1>9. Read(f) \ {n} = Read(g) \ {n}
    BY <1>1, <1>2, <1>7, ReadDecodable DEF Parsable
  <1>10. ASSUME NEW i \in Read(f) \ {n} PROVE i < n /\ RecordAt(g, i) = RecordAt(f, i)
    <2>1. i \in 1..(n - 1)
      BY <1>2, ReadTyped
    <2> QED BY <2>1, <1>1, <1>2 DEF RecordAt
  <1>11. OpenLine(g)
    BY <1>1, <1>3 DEF OpenLine, Last
  <1> QED BY <1>7, <1>8, <1>9, <1>10, <1>11 DEF SameBefore, g

\* A line feed changes nothing for a reader.
LEMMA LineFeedKeeps ==
    ASSUME NEW f \in Files, Decodable(f)
    PROVE  LET g == LineFeed(f) IN
           /\ Decodable(g)
           /\ Read(g) = Read(f)
           /\ \A i \in Read(f) : RecordAt(g, i) = RecordAt(f, i)
           /\ ~OpenLine(g)
  <1> DEFINE n == Len(f)
             g == LineFeed(f)
  <1> HIDE DEF g
  <1>1. /\ g \in Files /\ Len(g) = n + 1 /\ g[n + 1] = <<>> /\ ~OpenLine(g)
        /\ \A i \in 1..n : g[i] = f[i]
    BY LineFeedTyped DEF g
  <1>2. n \in Nat \ {0}
    BY FileTyped
  <1>3. ~Parsable(g[n + 1]) /\ ~Undecodable(g[n + 1])
    BY <1>1 DEF Parsable, Undecodable
  <1>4. Decodable(g)
    BY <1>1, <1>2, <1>3 DEF Decodable, Undecodable
  <1>5. Read(g) = Read(f)
    <2>1. \A i \in 1..n : Parsable(g[i]) <=> Parsable(f[i])
      BY <1>1
    <2>2. Read(f) = {i \in 1..n : Parsable(f[i])}
      BY ReadDecodable
    <2>3. Read(g) = {i \in 1..(n + 1) : Parsable(g[i])}
      BY <1>1, <1>4, ReadDecodable
    <2> HIDE DEF n
    <2> QED BY <1>2, <1>3, <2>1, <2>2, <2>3
  <1>6. ASSUME NEW i \in Read(f) PROVE RecordAt(g, i) = RecordAt(f, i)
    <2>1. i \in 1..n
      BY ReadTyped
    <2> QED BY <2>1, <1>1 DEF RecordAt
  <1> QED BY <1>1, <1>4, <1>5, <1>6 DEF g

-----------------------------------------------------------------------------
(* What a replay makes of it.                                              *)

LEMMA SurvivingTyped ==
    ASSUME NEW f \in Files, NEW id
    PROVE  /\ Surviving(f, id) \subseteq Read(f)
           /\ Surviving(f, id) # {} =>
                 /\ Max(Surviving(f, id)) \in Surviving(f, id)
                 /\ \A i \in Surviving(f, id) : i <= Max(Surviving(f, id))
  <1> DEFINE S == Surviving(f, id)
  <1>1. S \subseteq Read(f)
    BY DEF Surviving
  <1>2. Len(f) \in Nat /\ S \in SUBSET (0..Len(f))
    BY <1>1, ReadTyped, FileTyped
  <1>3. ASSUME S # {} PROVE \E x \in S : \A y \in S : x >= y
    <2> HIDE DEF S
    <2>1. PICK x \in S : \A y \in S : y <= x
      BY <1>2, <1>3, GreatestExists
    <2> QED BY <2>1, <1>2
  <1>4. ASSUME S # {} PROVE Max(S) \in S /\ \A y \in S : Max(S) >= y
    <2> HIDE DEF S
    <2> QED BY <1>3, <1>4 DEF Max
  <1>5. ASSUME S # {} PROVE \A y \in S : y <= Max(S)
    <2> HIDE DEF S
    <2> QED BY <1>2, <1>4, <1>5
  <1> QED BY <1>1, <1>4, <1>5

LEMMA ReplayTyped ==
    ASSUME NEW f \in Files
    PROVE  Replay(f) \in [Ids -> Versions \cup {None}]
  <1>1. ASSUME NEW id \in Ids, Surviving(f, id) # {}
        PROVE  RecordAt(f, Max(Surviving(f, id))).version \in Versions
    BY <1>1, SurvivingTyped, ReadTyped DEF RecordSet
  <1> QED BY <1>1 DEF Replay

\* A greatest element of a set of numbers is the only one.
LEMMA MaxIs ==
    ASSUME NEW S \in SUBSET Nat, NEW n \in S, \A i \in S : i <= n
    PROVE  Max(S) = n
  <1>1. \E x \in S : \A y \in S : x >= y
    OBVIOUS
  <1>2. Max(S) \in S /\ \A y \in S : Max(S) >= y
    BY <1>1 DEF Max
  <1>3. Max(S) <= n /\ Max(S) >= n /\ Max(S) \in Nat /\ n \in Nat
    BY <1>2
  <1> QED BY <1>3

LEMMA ReplaySame ==
    ASSUME NEW f \in Files, NEW g \in Files, Read(g) = Read(f),
           \A i \in Read(f) : RecordAt(g, i) = RecordAt(f, i)
    PROVE  Replay(g) = Replay(f)
  <1>1. ASSUME NEW id \in Ids PROVE Replay(g)[id] = Replay(f)[id]
    <2>1. Surviving(g, id) = Surviving(f, id)
      BY DEF Surviving
    <2>2. Surviving(f, id) # {} => Max(Surviving(f, id)) \in Read(f)
      BY SurvivingTyped
    <2> QED BY <2>1, <2>2 DEF Replay
  <1> QED BY <1>1 DEF Replay

\* Of ids other than that of the record at n, two files that agree but for n
\* tell the same.
LEMMA ReplayOther ==
    ASSUME NEW f \in Files, NEW g \in Files, NEW n \in Nat,
           SameBefore(f, g, n), n \notin Read(f), NEW id \in Ids,
           n \in Read(g) => RecordAt(g, n).id # id
    PROVE  Replay(g)[id] = Replay(f)[id]
  <1>1. Surviving(g, id) = Surviving(f, id)
    BY DEF Surviving, SameBefore
  <1>2. Surviving(f, id) # {} => Max(Surviving(f, id)) \in Read(f)
    BY SurvivingTyped
  <1> QED BY <1>1, <1>2 DEF Replay, SameBefore

\* The record at n, behind all others, decides about its id.
LEMMA ReplayLast ==
    ASSUME NEW f \in Files, NEW g \in Files, NEW n \in Nat,
           SameBefore(f, g, n), n \in Read(g), RecordAt(g, n).id \in Ids
    PROVE  Replay(g)[RecordAt(g, n).id] =
               IF RecordAt(g, n).deleted THEN None ELSE RecordAt(g, n).version
  <1> DEFINE r == RecordAt(g, n)
             S == Surviving(g, r.id)
  <1>1. ASSUME NEW i \in Read(g), i # n PROVE i < n
    BY <1>1 DEF SameBefore
  <1>2. S \subseteq Read(g) /\ Read(g) \subseteq Nat
    BY SurvivingTyped, ReadTyped, FileTyped
  <1>3. CASE r.deleted
    <2>1. S = {}
      BY <1>1, <1>2, <1>3 DEF Surviving
    <2> QED BY <2>1, <1>3 DEF Replay
  <1>4. CASE ~r.deleted
    <2>1. n \in S
      BY <1>1, <1>2, <1>4 DEF Surviving
    <2>2. \A i \in S : i <= n
      BY <1>1, <1>2
    <2>3. Max(S) = n
      <3> HIDE DEF S
      <3> QED BY <2>1, <2>2, <1>2, MaxIs
    <2> QED BY <2>1, <2>3, <1>4 DEF Replay
  <1> QED BY <1>3, <1>4

-----------------------------------------------------------------------------
(* Counting records.                                                       *)

LEMMA CountTyped ==
    ASSUME NEW f \in Files, NEW d
    PROVE  Count(f, d) \in Nat /\ Cardinality(Read(f)) \in Nat
  <1>1. IsFiniteSet({i \in Read(f) : RecordAt(f, i).deleted = d})
    BY ReadTyped, FS_Subset
  <1> QED BY <1>1, ReadTyped, FS_CardinalityType DEF Count

LEMMA CountSame ==
    ASSUME NEW f \in Files, NEW g \in Files, Read(g) = Read(f),
           \A i \in Read(f) : RecordAt(g, i) = RecordAt(f, i), NEW d
    PROVE  Count(g, d) = Count(f, d)
  <1>1. {i \in Read(g) : RecordAt(g, i).deleted = d} = {i \in Read(f) : RecordAt(f, i).deleted = d}
    OBVIOUS
  <1> QED BY <1>1 DEF Count

LEMMA CountNext ==
    ASSUME NEW f \in Files, NEW g \in Files, NEW n \in Nat,
           SameBefore(f, g, n), n \notin Read(f), n \in Read(g), NEW d \in BOOLEAN
    PROVE  /\ Cardinality(Read(g)) = Cardinality(Read(f)) + 1
           /\ Count(g, d) = Count(f, d) + (IF RecordAt(g, n).deleted = d THEN 1 ELSE 0)
  <1> DEFINE A == {i \in Read(f) : RecordAt(f, i).deleted = d}
             B == {i \in Read(g) : RecordAt(g, i).deleted = d}
  <1>1. Read(g) = Read(f) \cup {n}
    BY DEF SameBefore
  <1>2. IsFiniteSet(Read(f)) /\ IsFiniteSet(A) /\ n \notin A /\ n \notin Read(f)
    BY ReadTyped, FS_Subset
  <1>3. Cardinality(Read(f) \cup {n}) = Cardinality(Read(f)) + 1
    BY <1>2, FS_AddElement
  <1>4. Cardinality(A \cup {n}) = Cardinality(A) + 1
    <2> HIDE DEF A
    <2> QED BY <1>2, FS_AddElement
  <1>5. Count(f, d) = Cardinality(A) /\ Count(g, d) = Cardinality(B)
    BY DEF Count
  <1>6. Cardinality(A) \in Nat
    <2> HIDE DEF A
    <2> QED BY <1>2, FS_CardinalityType
  <1>7. CASE RecordAt(g, n).deleted = d
    <2>1. B = A \cup {n}
      <3>1. ASSUME NEW i \in Read(f) PROVE RecordAt(g, i) = RecordAt(f, i)
        BY <1>2 DEF SameBefore
      <3> QED BY <1>1, <1>7, <3>1
    <2>2. Cardinality(B) = Cardinality(A \cup {n})
      BY <2>1
    <2> HIDE DEF A, B
    <2> QED BY <1>1, <1>3, <1>4, <1>5, <1>7, <2>2
  <1>8. CASE RecordAt(g, n).deleted # d
    <2>1. B = A
      <3>1. ASSUME NEW i \in Read(f) PROVE RecordAt(g, i) = RecordAt(f, i)
        BY <1>2 DEF SameBefore
      <3> QED BY <1>1, <1>8, <3>1
    <2>2. Cardinality(B) = Cardinality(A)
      BY <2>1
    <2> HIDE DEF A, B
    <2> QED BY <1>1, <1>3, <1>5, <1>6, <1>8, <2>2
  <1> QED BY <1>7, <1>8

-----------------------------------------------------------------------------
(* The file a compaction writes.                                           *)

\* Every element of a finite set has one place in SetToSeq.
LEMMA Listed ==
    ASSUME NEW S, IsFiniteSet(S)
    PROVE  /\ Cardinality(S) \in Nat
           /\ SetToSeq(S) \in [1..Cardinality(S) -> S]
           /\ \A i, j \in 1..Cardinality(S) : SetToSeq(S)[i] = SetToSeq(S)[j] => i = j
           /\ \A x \in S : \E i \in 1..Cardinality(S) : SetToSeq(S)[i] = x
  <1> DEFINE c == Cardinality(S)
             q == SetToSeq(S)
  <1>1. c \in Nat /\ ExistsBijection(1..c, S)
    BY FS_CardinalityType
  <1>2. PICK f \in Bijection(1..c, S) : TRUE
    BY <1>1 DEF ExistsBijection
  <1>3. f \in [1..c -> S] /\ IsInjective(f)
    BY <1>2 DEF Bijection, Injection, IsInjective
  <1>4. q \in [1..c -> S] /\ IsInjective(q)
    BY <1>3 DEF SetToSeq
  <1> HIDE DEF q
  <1>5. q \in Injection(1..c, S)
    BY <1>4 DEF Injection, IsInjective
  <1>6. Cardinality(1..c) = c
    BY <1>1, FS_Interval
  <1>7. q \in Surjection(1..c, S)
    BY <1>5, <1>6, FS_Injection
  <1>8. \A i, j \in 1..c : q[i] = q[j] => i = j
    BY <1>4 DEF IsInjective
  <1>9. \A x \in S : \E i \in 1..c : q[i] = x
    BY <1>7 DEF Surjection
  <1> QED BY <1>1, <1>4, <1>8, <1>9 DEF q

LEMMA OneRecordLine ==
    ASSUME NEW r \in RecordSet
    PROVE  /\ <<r>> \in Seq(Fragments) /\ Len(<<r>>) = 1 /\ <<r>>[1] = r
  <1>1. r \in Fragments
    BY RecordIsFragment
  <1> QED BY <1>1

LEMMA RecordLineIsRead ==
    ASSUME NEW line, Len(line) = 1, line[1] \in RecordSet
    PROVE  Parsable(line) /\ ~Undecodable(line)
  <1>1. line[1].kind = "record"
    BY DEF RecordSet
  <1> QED BY <1>1 DEF Parsable, Undecodable

LEMMA Joined ==
    ASSUME NEW S, NEW s \in Seq(S), NEW x \in S
    PROVE  /\ s \o <<x>> \in Seq(S)
           /\ Len(s \o <<x>>) = Len(s) + 1
           /\ \A i \in 1..Len(s) : (s \o <<x>>)[i] = s[i]
           /\ (s \o <<x>>)[Len(s) + 1] = x
  <1> QED OBVIOUS

LEMMA RewrittenFile ==
    ASSUME NEW map \in [Ids -> Versions \cup {None}]
    PROVE  LET g == Rewritten(map)
               live == {id \in Ids : map[id] # None}
           IN  /\ g \in Files /\ Decodable(g) /\ ~OpenLine(g)
               /\ Replay(g) = map
               /\ Count(g, FALSE) = Cardinality(live)
               /\ Count(g, TRUE) = 0
               /\ Cardinality(Read(g)) = Cardinality(live)
               /\ Cardinality(live) \in 0..Cardinality(Ids)
  <1> DEFINE live == {id \in Ids : map[id] # None}
             c == Cardinality(live)
             q == SetToSeq(live)
             s == [i \in 1..c |-> <<Record(q[i], map[q[i]], FALSE)>>]
             g == Rewritten(map)
  <1>1. IsFiniteSet(live) /\ c <= Cardinality(Ids) /\ Cardinality(Ids) \in Nat
    BY IdsAssumption, FS_Subset, FS_CardinalityType
  <1> HIDE DEF live
  <1>2. /\ c \in Nat /\ q \in [1..c -> live]
        /\ \A i, j \in 1..c : q[i] = q[j] => i = j
        /\ \A x \in live : \E i \in 1..c : q[i] = x
    BY <1>1, Listed
  <1>3. Len(q) = c
    BY <1>2
  <1>4. g = s \o Empty
    BY <1>3 DEF Rewritten, live
  <1> HIDE DEF q, c
  <1>5. \A i \in 1..c : Record(q[i], map[q[i]], FALSE) \in RecordSet
    BY <1>2, RecordTyped DEF live
  <1>6. s \in Seq(Seq(Fragments)) /\ Len(s) = c
    <2>1. s \in [1..c -> Seq(Fragments)]
      <3>1. ASSUME NEW i \in 1..c PROVE <<Record(q[i], map[q[i]], FALSE)>> \in Seq(Fragments)
        BY <1>5, OneRecordLine
      <3> QED BY <3>1
    <2> HIDE DEF s
    <2> QED BY <1>2, <2>1
  <1>18. \A i \in 1..c : Len(s[i]) = 1 /\ s[i][1] = Record(q[i], map[q[i]], FALSE)
    OBVIOUS
  <1> HIDE DEF g, s
  <1>7. /\ g \in Files /\ Len(g) = c + 1
        /\ \A i \in 1..c : g[i] = s[i]
        /\ g[c + 1] = <<>>
    <2>1. <<>> \in Seq(Fragments) /\ g = s \o << <<>> >>
      BY <1>4 DEF Empty
    <2>2. /\ g \in Seq(Seq(Fragments)) /\ Len(g) = c + 1
          /\ \A i \in 1..c : g[i] = s[i]
          /\ g[c + 1] = <<>>
      BY <1>6, <2>1, Joined
    <2>3. g # <<>>
      BY <1>2, <2>2
    <2> QED BY <2>2, <2>3 DEF Files
  <1>8. /\ ~OpenLine(g)
        /\ \A i \in 1..c : Len(g[i]) = 1 /\ g[i][1] = Record(q[i], map[q[i]], FALSE)
    BY <1>2, <1>18, <1>7 DEF OpenLine, Last
  <1>9. /\ \A i \in 1..c : Parsable(g[i]) /\ ~Undecodable(g[i])
        /\ ~Parsable(g[c + 1]) /\ ~Undecodable(g[c + 1])
    <2>1. ASSUME NEW i \in 1..c PROVE Parsable(g[i]) /\ ~Undecodable(g[i])
      <3>1. Len(g[i]) = 1 /\ g[i][1] \in RecordSet
        BY <1>5, <1>8
      <3> QED BY <3>1, RecordLineIsRead
    <2> QED BY <2>1, <1>7 DEF Parsable, Undecodable
  <1>10. Decodable(g)
    BY <1>2, <1>7, <1>9 DEF Decodable
  <1>11. Read(g) = 1..c
    <2>1. Read(g) = {i \in 1..(c + 1) : Parsable(g[i])}
      BY <1>7, <1>10, ReadDecodable
    <2> QED BY <2>1, <1>2, <1>9
  <1>12. \A i \in 1..c : /\ RecordAt(g, i).id = q[i] /\ RecordAt(g, i).version = map[q[i]]
                         /\ RecordAt(g, i).deleted = FALSE
    <2>1. ASSUME NEW i \in 1..c PROVE RecordAt(g, i) = Record(q[i], map[q[i]], FALSE)
      BY <1>8 DEF RecordAt
    <2> QED BY <2>1 DEF Record
  <1>13. Replay(g) = map
    <2>1. ASSUME NEW id \in Ids PROVE Replay(g)[id] = map[id]
      <3>1. CASE id \in live
        <4>1. PICK i \in 1..c : q[i] = id
          BY <1>2, <3>1
        <4>2. Surviving(g, id) = {i}
          BY <1>2, <1>11, <1>12, <4>1 DEF Surviving
        <4>3. Max({i}) = i
          BY <1>2, MaxIs
        <4> QED BY <1>12, <4>1, <4>2, <4>3 DEF Replay
      <3>2. CASE id \notin live
        <4>1. Surviving(g, id) = {}
          BY <1>2, <1>11, <1>12, <3>2 DEF Surviving
        <4> QED BY <4>1, <3>2 DEF Replay, live
      <3> QED BY <3>1, <3>2
    <2> QED BY <2>1 DEF Replay
  <1>14. Cardinality(1..c) = c
    BY <1>2, FS_Interval
  <1>15. Count(g, FALSE) = c
    <2>1. {i \in Read(g) : RecordAt(g, i).deleted = FALSE} = 1..c
      BY <1>11, <1>12
    <2> QED BY <2>1, <1>14 DEF Count
  <1>16. Count(g, TRUE) = 0
    <2>1. {i \in Read(g) : RecordAt(g, i).deleted = TRUE} = {}
      BY <1>11, <1>12
    <2> QED BY <2>1, FS_EmptySet DEF Count
  <1>17. c \in 0..Cardinality(Ids)
    BY <1>1, <1>2 DEF c
  <1> QED BY <1>7, <1>8, <1>10, <1>11, <1>13, <1>14, <1>15, <1>16, <1>17 DEF live, c, g

-----------------------------------------------------------------------------
(* The invariant of file and lock.                                         *)

Operations ==
    [pc: {"delete", "written", "ended"}, id: Ids, version: Versions, deleted: BOOLEAN]

HasLock(t) == thread[t].pc \in {"written", "ended"}

\* file_lock is exclusive.
OneWriter == \A t, u \in Threads : HasLock(t) /\ HasLock(u) => t = u

\* Who has the lock has written its record, and not synced it; the line is open
\* until the line feed.
LineOfLock ==
    \A t \in Threads :
        /\ HasLock(t) => Len(disk) > 1
        /\ thread[t].pc = "written" => OpenLine(File)
        /\ thread[t].pc = "ended" => ~OpenLine(File)

\* No line was left open.
Whole == errors = 0 \/ "torn" \notin Faults

\* Where characters are not cut, every line is text.
Decoded ==
    Whole \/ "utf8" \notin Faults => \A k \in 1..Len(disk) : Decodable(disk[k])

\* Only the holder of the lock has a line open.
ClosedAtRest == Whole /\ ~Locked => ~OpenLine(File)

LogInv == TypeOK /\ OneWriter /\ LineOfLock /\ Decoded /\ ClosedAtRest

LEMMA DiskTyped ==
    ASSUME TypeOK
    PROVE  /\ Len(disk) \in Nat \ {0}
           /\ File \in Files /\ File = disk[Len(disk)]
           /\ \A k \in 1..Len(disk) : disk[k] \in Files
  <1> QED BY DEF TypeOK, File, Last

LEMMA GrowTyped ==
    ASSUME TypeOK, NEW f \in Files, Grow(f)
    PROVE  /\ disk' \in Seq(Files) \ {<<>>}
           /\ Len(disk') = Len(disk) + 1
           /\ \A k \in 1..Len(disk) : disk'[k] = disk[k]
           /\ disk'[Len(disk) + 1] = f
           /\ File' = f
  <1>1. disk \in Seq(Files) /\ disk' = Append(disk, f)
    BY DEF TypeOK, Grow
  <1>2. /\ disk' \in Seq(Files) /\ Len(disk') = Len(disk) + 1
        /\ \A k \in 1..Len(disk) : disk'[k] = disk[k]
        /\ disk'[Len(disk) + 1] = f
    BY <1>1
  <1>3. disk' # <<>>
    BY <1>1, <1>2
  <1>4. File' = f
    BY <1>2 DEF File, Last
  <1> QED BY <1>2, <1>3, <1>4

LEMMA OneFileTyped ==
    ASSUME NEW f \in Files, disk' = <<f>>
    PROVE  /\ disk' \in Seq(Files) \ {<<>>}
           /\ Len(disk') = 1 /\ disk'[1] = f /\ File' = f
  <1> QED BY DEF File, Last

LEMMA ThreadTyped ==
    ASSUME TypeOK, NEW t \in Threads
    PROVE  /\ thread[t].pc # "idle" => thread[t] \in Operations
           /\ thread[t].pc \in {"idle", "delete", "written", "ended"}
           /\ Locked <=> \E u \in Threads : HasLock(u)
  <1>1. thread[t] \in {Resting} \cup Operations
    BY DEF TypeOK, Operations
  <1> QED BY <1>1 DEF Resting, Operations, Locked, HasLock

\* One writer moves on.
ThreadsTyped == thread \in [Threads -> {Resting} \cup Operations]

LEMMA InitLogInv == Init => LogInv
  <1> SUFFICES ASSUME Init PROVE LogInv OBVIOUS
  <1> USE DEF Init
  <1>1. Empty \in Files /\ Len(Empty) = 1 /\ Empty[1] = <<>>
    BY DEF Empty, Files
  <1>2. disk \in Seq(Files) \ {<<>>} /\ Len(disk) = 1 /\ disk[1] = Empty /\ File = Empty
    BY <1>1 DEF File, Last
  <1>3. ~OpenLine(Empty) /\ Decodable(Empty)
    BY <1>1 DEF OpenLine, Last, Decodable, Undecodable
  <1>4. TypeOK
    <2>1. cache \in [Ids -> Versions \cup {None}] /\ thread \in [Threads -> {Resting}]
      OBVIOUS
    <2>2. lastOp \in [Ids -> [version: Versions \cup {None}, confirmed: BOOLEAN]]
      OBVIOUS
    <2>3. nextVersion \in 1..(MaxVersion + 1)
      BY BoundAssumption
    <2>4. compacting \in BOOLEAN
      OBVIOUS
    <2>6. {totalTasks, deletedTasks, appendCount, spawned, tears, errors} \subseteq Nat
      OBVIOUS
    <2>5. thread \in [Threads -> {Resting} \cup
           [pc: {"delete", "written", "ended"}, id: Ids, version: Versions, deleted: BOOLEAN]]
      BY <2>1
    <2> QED BY <1>2, <2>1, <2>2, <2>3, <2>4, <2>5, <2>6 DEF TypeOK
  <1>5. \A t \in Threads : thread[t].pc = "idle"
    BY DEF Resting
  <1> QED BY <1>2, <1>3, <1>4, <1>5
          DEF LogInv, OneWriter, LineOfLock, Decoded, ClosedAtRest, HasLock

\* BeginWrite, as Save and Tombstone use it.
LEMMA BeginWriteLogInv ==
    ASSUME LogInv, NEW t \in Threads, NEW id \in Ids, NEW v \in Versions,
           NEW d \in BOOLEAN, BeginWrite(t, id, v, d),
           nextVersion' \in 1..(MaxVersion + 1)
    PROVE  LogInv'
  <1> DEFINE r == Record(id, v, d)
             g == Write(File, r)
  <1>1. TypeOK /\ Decoded /\ ClosedAtRest /\ OneWriter
    BY DEF LogInv
  <1>2. File \in Files /\ r \in RecordSet /\ Fragment("piece") \in Fragments /\ g \in Files
    BY <1>1, DiskTyped, RecordTyped, WriteTyped, RecordIsFragment
  <1>3. /\ ~Locked /\ Grow(g)
        /\ thread' = [thread EXCEPT ![t] = [pc |-> "written", id |-> id, version |-> v, deleted |-> d]]
        /\ lastOp' = [lastOp EXCEPT ![id] = [version |-> IF d THEN None ELSE v, confirmed |-> FALSE]]
        /\ UNCHANGED <<cache, counters, spawned, compacting, tears, errors>>
    BY DEF BeginWrite
  <1> HIDE DEF g, r
  <1>4. /\ disk' \in Seq(Files) \ {<<>>} /\ Len(disk') = Len(disk) + 1 /\ File' = g
        /\ \A k \in 1..Len(disk) : disk'[k] = disk[k]
        /\ disk'[Len(disk) + 1] = g
        /\ Len(disk) \in Nat \ {0}
    BY <1>1, <1>2, <1>3, GrowTyped, DiskTyped
  <1>5. TypeOK'
    BY <1>1, <1>3, <1>4 DEF TypeOK, counters
  <1>6. \A u \in Threads : u # t => ~HasLock(u)'
    BY <1>1, <1>3, ThreadTyped DEF HasLock
  <1>7. thread'[t].pc = "written"
    BY <1>1, <1>3 DEF TypeOK
  <1>8. OpenLine(g)
    BY <1>2, WriteOpens, RecordIsFragment DEF g
  <1>9. Decoded'
    <2>1. SUFFICES ASSUME Whole' \/ "utf8" \notin Faults, NEW k \in 1..Len(disk')
                   PROVE  Decodable(disk'[k])
      BY DEF Decoded
    <2>2. \A j \in 1..Len(disk) : Decodable(disk[j])
      BY <2>1, <1>1, <1>3 DEF Decoded, Whole
    <2>3. Decodable(File)
      BY <2>2, <1>1, DiskTyped
    <2>4. Decodable(g)
      BY <2>3, <1>2, WriteDecodable, RecordIsFragment DEF g, RecordSet
    <2> QED BY <2>2, <2>4, <1>4
  <1> QED BY <1>1, <1>3, <1>4, <1>5, <1>6, <1>7, <1>8, <1>9
          DEF LogInv, OneWriter, LineOfLock, ClosedAtRest, HasLock, Locked

LEMMA SaveLogInv ==
    ASSUME LogInv, NEW t \in Threads, NEW id \in Ids, Save(t, id)
    PROVE  LogInv'
  <1>1. nextVersion \in Versions /\ BeginWrite(t, id, nextVersion, FALSE)
        /\ nextVersion' = nextVersion + 1
    BY DEF Save
  <1>2. nextVersion' \in 1..(MaxVersion + 1)
    BY <1>1, BoundAssumption DEF Versions
  <1> QED BY <1>1, <1>2, BeginWriteLogInv

LEMMA TombstoneLogInv ==
    ASSUME LogInv, NEW t \in Threads, Tombstone(t)
    PROVE  LogInv'
  <1>1. TypeOK
    BY DEF LogInv
  <1>2. thread[t].pc = "delete" /\ BeginWrite(t, thread[t].id, thread[t].version, TRUE)
        /\ nextVersion' = nextVersion
    BY DEF Tombstone
  <1>3. thread[t].id \in Ids /\ thread[t].version \in Versions
    BY <1>1, <1>2, ThreadTyped DEF Operations
  <1>4. nextVersion' \in 1..(MaxVersion + 1)
    BY <1>1, <1>2 DEF TypeOK
  <1> QED BY <1>2, <1>3, <1>4, BeginWriteLogInv

LEMMA LookUpLogInv ==
    ASSUME LogInv, NEW t \in Threads, NEW id \in Ids, LookUp(t, id)
    PROVE  LogInv'
  <1>1. TypeOK /\ OneWriter /\ LineOfLock /\ Decoded /\ ClosedAtRest
    BY DEF LogInv
  <1>2. /\ thread[t].pc = "idle" /\ cache[id] \in Versions
        /\ thread' = [thread EXCEPT ![t] =
              [pc |-> "delete", id |-> id, version |-> cache[id], deleted |-> TRUE]]
        /\ UNCHANGED <<disk, cache, counters, spawned, compacting, nextVersion, lastOp, tears, errors>>
    BY <1>1 DEF LookUp, TypeOK
  <1>3. TypeOK'
    <2>1. [pc |-> "delete", id |-> id, version |-> cache[id], deleted |-> TRUE] \in Operations
      BY <1>2 DEF Operations
    <2>2. thread' \in [Threads -> {Resting} \cup Operations]
      BY <1>1, <1>2, <2>1 DEF TypeOK, Operations
    <2> QED BY <1>1, <1>2, <2>2 DEF TypeOK, counters, Operations
  <1>4. /\ \A u \in Threads : HasLock(u)' <=> HasLock(u)
        /\ \A u \in Threads : \A pc \in {"written", "ended"} : thread'[u].pc = pc <=> thread[u].pc = pc
    BY <1>1, <1>2 DEF HasLock, TypeOK
  <1>5. Locked' <=> Locked
    BY <1>1, <1>3, <1>4 DEF Locked
  <1>6. File' = File
    BY <1>2 DEF File
  <1> QED BY <1>1, <1>2, <1>3, <1>4, <1>5, <1>6
          DEF LogInv, OneWriter, LineOfLock, Decoded, ClosedAtRest, Whole

LEMMA EndLineLogInv ==
    ASSUME LogInv, NEW t \in Threads, EndLine(t)
    PROVE  LogInv'
  <1> DEFINE g == LineFeed(File)
  <1>1. TypeOK /\ OneWriter /\ LineOfLock /\ Decoded /\ ClosedAtRest
    BY DEF LogInv
  <1>2. /\ thread[t].pc = "written" /\ Grow(g)
        /\ thread' = [thread EXCEPT ![t].pc = "ended"]
        /\ UNCHANGED <<cache, counters, spawned, compacting, nextVersion, lastOp, tears, errors>>
    BY DEF EndLine
  <1>3. g \in Files /\ ~OpenLine(g)
    BY <1>1, DiskTyped, LineFeedTyped
  <1>4. Decodable(File) => Decodable(g)
    BY <1>1, DiskTyped, LineFeedKeeps
  <1> HIDE DEF g
  <1>5. /\ disk' \in Seq(Files) \ {<<>>} /\ Len(disk') = Len(disk) + 1 /\ File' = g
        /\ \A k \in 1..Len(disk) : disk'[k] = disk[k]
        /\ disk'[Len(disk) + 1] = g
        /\ Len(disk) \in Nat \ {0} /\ File = disk[Len(disk)]
    BY <1>1, <1>2, <1>3, GrowTyped, DiskTyped
  <1>6. thread[t] \in Operations
    BY <1>1, <1>2, ThreadTyped
  <1>7. thread' \in [Threads -> {Resting} \cup Operations]
    BY <1>1, <1>2, <1>6 DEF TypeOK, Operations
  <1>8. TypeOK'
    BY <1>1, <1>2, <1>5, <1>7 DEF TypeOK, counters, Operations
  <1>9. \A u \in Threads : u # t => ~HasLock(u) /\ thread'[u] = thread[u]
    BY <1>1, <1>2 DEF HasLock, OneWriter, TypeOK
  <1>10. thread'[t].pc = "ended"
    BY <1>1, <1>2, <1>6 DEF TypeOK, Operations
  <1>11. Decoded'
    BY <1>1, <1>2, <1>4, <1>5 DEF Decoded, Whole
  <1> QED BY <1>2, <1>3, <1>5, <1>8, <1>9, <1>10, <1>11
          DEF LogInv, OneWriter, LineOfLock, ClosedAtRest, HasLock

\* A writer gives up or is done: nobody has the lock.
LEMMA LetGo ==
    ASSUME TypeOK, OneWriter, NEW t \in Threads, HasLock(t) \/ ~Locked,
           thread' = [thread EXCEPT ![t] = Resting]
    PROVE  /\ thread' \in [Threads -> {Resting} \cup Operations]
           /\ \A u \in Threads : ~HasLock(u)' /\ thread'[u].pc \notin {"written", "ended"}
           /\ ~Locked'
  <1>1. thread \in [Threads -> {Resting} \cup Operations]
    BY DEF TypeOK, Operations
  <1>2. thread' \in [Threads -> {Resting} \cup Operations] /\ thread'[t] = Resting
    BY <1>1
  <1>3. \A u \in Threads : u # t => ~HasLock(u) /\ thread'[u] = thread[u]
    BY <1>1 DEF OneWriter, Locked, HasLock
  <1>4. \A u \in Threads : thread'[u].pc \notin {"written", "ended"}
    BY <1>2, <1>3 DEF HasLock, Resting
  <1> QED BY <1>2, <1>4 DEF Locked, HasLock

LEMMA WriteFailsLogInv ==
    ASSUME LogInv, NEW t \in Threads, WriteFails(t)
    PROVE  LogInv'
  <1>1. TypeOK /\ OneWriter /\ LineOfLock /\ Decoded /\ ClosedAtRest
    BY DEF LogInv
  <1>2. /\ ~Locked /\ errors < MaxErrors /\ errors' = errors + 1
        /\ thread' = [thread EXCEPT ![t] = Resting]
        /\ UNCHANGED <<cache, counters, spawned, compacting, lastOp>>
    BY DEF WriteFails, CountError
  <1>3. nextVersion' \in 1..(MaxVersion + 1)
    BY <1>1, BoundAssumption DEF WriteFails, TypeOK, Versions
  <1>4. /\ thread' \in [Threads -> {Resting} \cup Operations]
        /\ \A u \in Threads : ~HasLock(u)' /\ thread'[u].pc \notin {"written", "ended"}
        /\ ~Locked'
    BY <1>1, <1>2, LetGo
  <1>5. errors' \in Nat /\ errors' # 0
    BY <1>1, <1>2 DEF TypeOK
  <1>6. CASE UNCHANGED <<disk, tears>>
    <2>1. TypeOK'
      BY <1>1, <1>2, <1>3, <1>4, <1>5, <1>6 DEF TypeOK, counters, Operations
    <2>2. Decoded' /\ ClosedAtRest'
      BY <1>1, <1>2, <1>5, <1>6 DEF Decoded, ClosedAtRest, Whole, File
    <2> QED BY <1>4, <2>1, <2>2 DEF LogInv, OneWriter, LineOfLock
  <1>7. CASE ~UNCHANGED <<disk, tears>>
    <2>1. PICK kind \in {"piece"} \cup (Faults \cap {"utf8"}) :
              /\ "torn" \in Faults
              /\ Grow(Write(File, Fragment(kind))) /\ CountTear(Write(File, Fragment(kind)))
      BY <1>7 DEF WriteFails
    <2> DEFINE g == Write(File, Fragment(kind))
    <2>2. kind \in {"piece", "utf8"} /\ Fragment(kind) \in Fragments /\ Fragment(kind).kind = kind
      BY RecordIsFragment
    <2>3. g \in Files /\ (Decodable(File) /\ kind # "utf8" => Decodable(g))
      BY <1>1, <2>2, DiskTyped, WriteTyped, WriteDecodable
    <2>4. tears' \in Nat
      <3> HIDE DEF g
      <3> QED BY <1>1, <2>1 DEF CountTear, TypeOK
    <2> HIDE DEF g
    <2>5. /\ disk' \in Seq(Files) \ {<<>>} /\ Len(disk') = Len(disk) + 1
          /\ \A k \in 1..Len(disk) : disk'[k] = disk[k]
          /\ disk'[Len(disk) + 1] = g
          /\ Len(disk) \in Nat \ {0} /\ File = disk[Len(disk)]
      BY <1>1, <2>1, <2>3, GrowTyped, DiskTyped DEF g
    <2>6. TypeOK'
      BY <1>1, <1>2, <1>3, <1>4, <1>5, <2>4, <2>5 DEF TypeOK, counters, Operations
    <2>7. ~Whole' /\ ClosedAtRest'
      BY <1>5, <2>1 DEF Whole, ClosedAtRest
    <2>8. Decoded'
      <3>1. SUFFICES ASSUME "utf8" \notin Faults PROVE \A k \in 1..Len(disk') : Decodable(disk'[k])
        BY <2>7 DEF Decoded
      <3>2. kind # "utf8" /\ \A k \in 1..Len(disk) : Decodable(disk[k])
        BY <3>1, <1>1, <2>1 DEF Decoded
      <3> QED BY <3>2, <2>3, <2>5
    <2> QED BY <1>4, <2>6, <2>7, <2>8 DEF LogInv, OneWriter, LineOfLock
  <1> QED BY <1>6, <1>7

LEMMA LineFeedFailsLogInv ==
    ASSUME LogInv, NEW t \in Threads, LineFeedFails(t)
    PROVE  LogInv'
  <1>1. TypeOK /\ OneWriter /\ LineOfLock /\ Decoded /\ ClosedAtRest
    BY DEF LogInv
  <1>2. /\ "torn" \in Faults /\ HasLock(t) /\ errors' = errors + 1 /\ CountTear(File)
        /\ thread' = [thread EXCEPT ![t] = Resting]
        /\ UNCHANGED <<disk, cache, counters, spawned, compacting, nextVersion, lastOp>>
    BY DEF LineFeedFails, CountError, HasLock
  <1>3. /\ thread' \in [Threads -> {Resting} \cup Operations]
        /\ \A u \in Threads : ~HasLock(u)' /\ thread'[u].pc \notin {"written", "ended"}
        /\ ~Locked'
    BY <1>1, <1>2, LetGo
  <1>4. errors' \in Nat /\ errors' # 0 /\ tears' \in Nat
    BY <1>1, <1>2 DEF TypeOK, CountTear
  <1>5. TypeOK'
    BY <1>1, <1>2, <1>3, <1>4 DEF TypeOK, counters, Operations
  <1>6. Decoded' /\ ClosedAtRest'
    BY <1>1, <1>2, <1>4 DEF Decoded, ClosedAtRest, Whole
  <1> QED BY <1>3, <1>5, <1>6 DEF LogInv, OneWriter, LineOfLock

LEMMA SyncFailsLogInv ==
    ASSUME LogInv, NEW t \in Threads, SyncFails(t)
    PROVE  LogInv'
  <1>1. TypeOK /\ OneWriter /\ LineOfLock /\ Decoded /\ ClosedAtRest
    BY DEF LogInv
  <1>2. /\ HasLock(t) /\ ~OpenLine(File) /\ errors' = errors + 1
        /\ thread' = [thread EXCEPT ![t] = Resting]
        /\ UNCHANGED <<disk, cache, counters, spawned, compacting, nextVersion, lastOp, tears>>
    BY <1>1 DEF SyncFails, CountError, HasLock, LineOfLock
  <1>3. /\ thread' \in [Threads -> {Resting} \cup Operations]
        /\ \A u \in Threads : ~HasLock(u)' /\ thread'[u].pc \notin {"written", "ended"}
        /\ ~Locked'
    BY <1>1, <1>2, LetGo
  <1>4. errors' \in Nat /\ errors' # 0
    BY <1>1, <1>2 DEF TypeOK
  <1>5. TypeOK'
    BY <1>1, <1>2, <1>3, <1>4 DEF TypeOK, counters, Operations
  <1>6. Decoded' /\ ClosedAtRest'
    BY <1>1, <1>2, <1>4 DEF Decoded, ClosedAtRest, Whole, File
  <1> QED BY <1>3, <1>5, <1>6 DEF LogInv, OneWriter, LineOfLock

LEMMA FinishLogInv ==
    ASSUME LogInv, NEW t \in Threads, Finish(t)
    PROVE  LogInv'
  <1>1. TypeOK /\ OneWriter /\ LineOfLock /\ Decoded /\ ClosedAtRest
    BY DEF LogInv
  <1> DEFINE op == thread[t]
  <1>2. /\ op.pc = "ended" /\ HasLock(t) /\ disk' = <<File>>
        /\ thread' = [thread EXCEPT ![t] = Resting]
        /\ cache' = [cache EXCEPT ![op.id] = IF op.deleted THEN None ELSE op.version]
        /\ totalTasks' = totalTasks + (IF op.deleted THEN 0 ELSE 1)
        /\ deletedTasks' = deletedTasks + (IF op.deleted THEN 1 ELSE 0)
        /\ appendCount' = appendCount + 1
        /\ spawned' \in {spawned, spawned + 1}
        /\ lastOp' = [lastOp EXCEPT ![op.id].confirmed = TRUE]
        /\ UNCHANGED <<compacting, nextVersion, tears, errors>>
    BY DEF Finish, Return, HasLock
  <1>3. /\ thread' \in [Threads -> {Resting} \cup Operations]
        /\ \A u \in Threads : ~HasLock(u)' /\ thread'[u].pc \notin {"written", "ended"}
        /\ ~Locked'
    BY <1>1, <1>2, LetGo
  <1>4. op \in Operations
    BY <1>1, <1>2, ThreadTyped
  <1>5. /\ File \in Files /\ ~OpenLine(File) /\ File = disk[Len(disk)] /\ Len(disk) \in Nat \ {0}
        /\ disk' \in Seq(Files) \ {<<>>} /\ Len(disk') = 1 /\ disk'[1] = File /\ File' = File
    BY <1>1, <1>2, DiskTyped, OneFileTyped DEF LineOfLock
  <1>6. cache' \in [Ids -> Versions \cup {None}]
    BY <1>1, <1>2, <1>4 DEF TypeOK, Operations
  <1>7. lastOp' \in [Ids -> [version: Versions \cup {None}, confirmed: BOOLEAN]]
    BY <1>1, <1>2, <1>4, ZenonT(30) DEF TypeOK, Operations
  <1>8. {totalTasks', deletedTasks', appendCount', spawned'} \subseteq Nat
    BY <1>1, <1>2 DEF TypeOK
  <1>9. TypeOK'
    BY <1>1, <1>2, <1>3, <1>5, <1>6, <1>7, <1>8 DEF TypeOK, Operations
  <1>10. Decoded' /\ ClosedAtRest'
    BY <1>1, <1>2, <1>5 DEF Decoded, ClosedAtRest, Whole
  <1> QED BY <1>3, <1>9, <1>10 DEF LogInv, OneWriter, LineOfLock

LEMMA CompactLogInv ==
    ASSUME LogInv, Compact
    PROVE  LogInv'
  <1>1. TypeOK /\ OneWriter /\ LineOfLock /\ Decoded /\ ClosedAtRest
    BY DEF LogInv
  <1>2. PICK map \in [Ids -> Versions \cup {None}] :
            /\ disk' = <<Rewritten(map)>> /\ cache' = map
            /\ totalTasks' = Cardinality({id \in Ids : map[id] # None})
    BY DEF Compact
  <1>3. /\ ~Locked /\ deletedTasks' = 0 /\ appendCount' = 0 /\ compacting' = FALSE
        /\ UNCHANGED <<spawned, thread, nextVersion, lastOp, tears, errors>>
    BY DEF Compact
  <1>4. /\ Rewritten(map) \in Files /\ Decodable(Rewritten(map)) /\ ~OpenLine(Rewritten(map))
        /\ totalTasks' \in Nat
    <2>1. Cardinality({id \in Ids : map[id] # None}) \in Nat
      BY IdsAssumption, FS_Subset, FS_CardinalityType
    <2> QED BY <1>2, <2>1, RewrittenFile
  <1>5. /\ disk' \in Seq(Files) \ {<<>>} /\ Len(disk') = 1
        /\ disk'[1] = Rewritten(map) /\ File' = Rewritten(map)
    BY <1>2, <1>4, OneFileTyped
  <1>6. TypeOK'
    <2>1. deletedTasks' \in Nat /\ appendCount' \in Nat
      BY <1>3
    <2> QED BY <1>1, <1>2, <1>3, <1>4, <1>5, <2>1, ZenonT(30) DEF TypeOK
  <1>7. Decoded' /\ ClosedAtRest'
    BY <1>4, <1>5 DEF Decoded, ClosedAtRest
  <1>8. \A u \in Threads : thread'[u] = thread[u] /\ thread[u].pc \notin {"written", "ended"}
    BY <1>1, <1>3 DEF Locked
  <1> QED BY <1>6, <1>7, <1>8 DEF LogInv, OneWriter, LineOfLock, HasLock

LEMMA ReopenTyped ==
    ASSUME TypeOK, NEW files \in Seq(Files) \ {<<>>}, Reopen(files),
           tears' \in Nat, errors' \in Nat
    PROVE  /\ TypeOK' /\ OneWriter' /\ LineOfLock' /\ ~Locked'
           /\ File' = Last(files) /\ Last(files) \in Files
           /\ \A u \in Threads : ~HasLock(u)'
  <1> DEFINE f == Last(files)
  <1>1. f \in Files
    BY DEF Last
  <1>2. /\ disk' = files /\ cache' = Replay(f)
        /\ totalTasks' = Count(f, FALSE) /\ deletedTasks' = Count(f, TRUE)
        /\ appendCount' = Cardinality(Read(f))
        /\ thread' = [t \in Threads |-> Resting]
        /\ spawned' = 0 /\ compacting' = FALSE
        /\ UNCHANGED <<nextVersion, lastOp>>
    BY DEF Reopen
  <1>3. File' = f
    BY <1>2 DEF File
  <1> HIDE DEF f
  <1>4. {totalTasks', deletedTasks', appendCount', spawned', tears', errors'} \subseteq Nat
    <2>1. Count(f, FALSE) \in Nat /\ Count(f, TRUE) \in Nat /\ Cardinality(Read(f)) \in Nat
      BY <1>1, CountTyped
    <2>2. totalTasks' \in Nat /\ deletedTasks' \in Nat /\ appendCount' \in Nat /\ spawned' \in Nat
      BY <1>2, <2>1
    <2> QED BY <2>2
  <1>5. cache' \in [Ids -> Versions \cup {None}]
    BY <1>1, <1>2, ReplayTyped
  <1>6. \A t \in Threads : thread'[t].pc = "idle"
    BY <1>2 DEF Resting
  <1>7. TypeOK'
    BY <1>2, <1>4, <1>5 DEF TypeOK
  <1> QED BY <1>1, <1>3, <1>6, <1>7 DEF OneWriter, LineOfLock, Locked, HasLock, f

LEMMA KillLogInv ==
    ASSUME LogInv, Kill
    PROVE  LogInv'
  <1>1. TypeOK /\ OneWriter /\ LineOfLock /\ Decoded /\ ClosedAtRest
    BY DEF LogInv
  <1>2. /\ OpenLine(File) => "torn" \in Faults
        /\ Reopen(disk) /\ disk' = disk
        /\ IF Locked THEN CountStop(File) ELSE UNCHANGED <<tears, errors>>
    BY DEF Kill, Reopen
  <1>3. /\ tears' \in Nat /\ errors' \in Nat /\ (errors' = 0 => errors = 0)
        /\ Locked /\ OpenLine(File) => errors' # 0
    BY <1>1, <1>2 DEF CountStop, CountTear, CountError, TypeOK
  <1>4. TypeOK' /\ OneWriter' /\ LineOfLock' /\ ~Locked' /\ File' = File
    BY <1>1, <1>2, <1>3, ReopenTyped DEF TypeOK, File
  <1>5. Decoded'
    BY <1>1, <1>2, <1>3 DEF Decoded, Whole
  <1>6. ClosedAtRest'
    BY <1>1, <1>2, <1>3, <1>4 DEF ClosedAtRest, Whole
  <1> QED BY <1>4, <1>5, <1>6 DEF LogInv

\* What a power failure leaves: a file since the last sync, or one cut inside
\* the record that came next.
LEMMA PowerFailsTo ==
    ASSUME LogInv, PowerFails
    PROVE  \E k \in 1..Len(disk), file \in Files :
              /\ \/ file = disk[k]
                 \/ /\ k < Len(disk)
                    /\ \E kind \in {"piece"} \cup (Faults \cap {"utf8"}) :
                          file = Write(disk[k], Fragment(kind))
              /\ OpenLine(file) => "torn" \in Faults
              /\ Reopen(<<file>>)
              /\ IF Len(disk) > 1 THEN CountStop(file) ELSE UNCHANGED <<tears, errors>>
  <1>1. TypeOK
    BY DEF LogInv
  <1>2. PICK k \in 1..Len(disk) :
          \E file \in {disk[k]}
                 \cup (IF k < Len(disk) /\ disk[k + 1] # LineFeed(disk[k])
                       THEN {Write(disk[k], Fragment(kind)) :
                                kind \in {"piece"} \cup (Faults \cap {"utf8"})}
                       ELSE {}) :
             /\ OpenLine(file) => "torn" \in Faults
             /\ Reopen(<<file>>)
             /\ IF Len(disk) > 1 THEN CountStop(file) ELSE UNCHANGED <<tears, errors>>
    BY DEF PowerFails
  <1>3. PICK file :
             /\ \/ file = disk[k]
                \/ /\ k < Len(disk)
                   /\ \E kind \in {"piece"} \cup (Faults \cap {"utf8"}) :
                         file = Write(disk[k], Fragment(kind))
             /\ OpenLine(file) => "torn" \in Faults
             /\ Reopen(<<file>>)
             /\ IF Len(disk) > 1 THEN CountStop(file) ELSE UNCHANGED <<tears, errors>>
    BY <1>2
  <1>4. disk[k] \in Files
    BY <1>1, DiskTyped
  <1>5. file \in Files
    BY <1>3, <1>4, WriteTyped, RecordIsFragment
  <1> QED BY <1>3, <1>5

LEMMA PowerFailsLogInv ==
    ASSUME LogInv, PowerFails
    PROVE  LogInv'
  <1>1. TypeOK /\ OneWriter /\ LineOfLock /\ Decoded /\ ClosedAtRest
    BY DEF LogInv
  <1>2. PICK k \in 1..Len(disk), file \in Files :
              /\ \/ file = disk[k]
                 \/ /\ k < Len(disk)
                    /\ \E kind \in {"piece"} \cup (Faults \cap {"utf8"}) :
                          file = Write(disk[k], Fragment(kind))
              /\ OpenLine(file) => "torn" \in Faults
              /\ Reopen(<<file>>)
              /\ IF Len(disk) > 1 THEN CountStop(file) ELSE UNCHANGED <<tears, errors>>
    BY PowerFailsTo
  <1>3. /\ Len(disk) \in Nat \ {0} /\ disk[k] \in Files /\ File = disk[Len(disk)]
    BY <1>1, DiskTyped
  <1>4. /\ tears' \in Nat /\ errors' \in Nat /\ (errors' = 0 => errors = 0)
        /\ Len(disk) > 1 /\ OpenLine(file) => errors' # 0
    BY <1>1, <1>2 DEF CountStop, CountTear, CountError, TypeOK
  <1>5. /\ <<file>> \in Seq(Files) \ {<<>>} /\ Last(<<file>>) = file
        /\ disk' = <<file>>
    BY <1>2 DEF Last, Reopen
  <1>6. TypeOK' /\ OneWriter' /\ LineOfLock' /\ ~Locked' /\ File' = file
    BY <1>1, <1>2, <1>4, <1>5, ReopenTyped
  <1>7. ClosedAtRest'
    <2>1. SUFFICES ASSUME Whole', OpenLine(file) PROVE FALSE
      BY <1>6 DEF ClosedAtRest
    <2>2. "torn" \in Faults /\ errors' = 0
      BY <2>1, <1>2 DEF Whole
    <2>3. Len(disk) = 1 /\ file = File
      <3> DEFINE n == Len(disk)
      <3>1. ~(n > 1) /\ n \in Nat \ {0}
        BY <2>1, <2>2, <1>3, <1>4
      <3>2. n = 1
        <4> HIDE DEF n
        <4> QED BY <3>1
      <3>3. k = 1
        BY <3>2
      <3> QED BY <3>2, <3>3, <1>2, <1>3
    <2>4. ~Locked
      BY <1>1, <2>3 DEF LineOfLock, Locked, HasLock
    <2> QED BY <2>1, <2>2, <2>3, <2>4, <1>1, <1>4 DEF ClosedAtRest, Whole
  <1>8. Decoded'
    <2>1. SUFFICES ASSUME Whole' \/ "utf8" \notin Faults PROVE Decodable(file)
      BY <1>5 DEF Decoded
    <2>2. Decodable(disk[k])
      BY <2>1, <1>1, <1>4 DEF Decoded, Whole
    <2>3. CASE file = disk[k]
      BY <2>2, <2>3
    <2>4. CASE file # disk[k]
      <3>1. PICK kind \in {"piece"} \cup (Faults \cap {"utf8"}) :
                    k < Len(disk) /\ file = Write(disk[k], Fragment(kind))
        BY <2>4, <1>2
      <3>2. Fragment(kind) \in Fragments /\ Fragment(kind).kind = kind
        BY RecordIsFragment
      <3>3. OpenLine(file)
        BY <3>1, <3>2, <1>3, WriteOpens
      <3>4. ~Whole'
        BY <3>1, <3>3, <1>2, <1>3, <1>4 DEF Whole
      <3>5. kind # "utf8"
        BY <2>1, <3>1, <3>4
      <3> QED BY <3>1, <3>2, <3>5, <2>2, <1>3, WriteDecodable
    <2> QED BY <2>3, <2>4
  <1> QED BY <1>6, <1>7, <1>8 DEF LogInv

LEMMA OtherLogInv ==
    ASSUME LogInv, StartCompaction \/ CompactFails \/ UNCHANGED vars
    PROVE  LogInv'
  <1>1. TypeOK /\ OneWriter /\ LineOfLock /\ Decoded /\ ClosedAtRest
    BY DEF LogInv
  <1>2. /\ UNCHANGED <<disk, cache, counters, thread, nextVersion, lastOp, tears, errors>>
        /\ spawned' \in Nat /\ compacting' \in BOOLEAN
    <2>1. spawned \in Nat /\ compacting \in BOOLEAN
      BY <1>1 DEF TypeOK
    <2>2. CASE StartCompaction
      BY <2>1, <2>2 DEF StartCompaction
    <2>3. CASE CompactFails
      BY <2>1, <2>3 DEF CompactFails
    <2>4. CASE UNCHANGED vars
      BY <2>1, <2>4 DEF vars
    <2> QED BY <2>2, <2>3, <2>4
  <1>3. TypeOK'
    BY <1>1, <1>2 DEF TypeOK, counters
  <1> QED BY <1>1, <1>2, <1>3
          DEF LogInv, OneWriter, LineOfLock, Decoded, ClosedAtRest, HasLock, Locked, Whole, File

LEMMA StepLogInv == LogInv /\ [Next]_vars => LogInv'
  <1> SUFFICES ASSUME LogInv, [Next]_vars PROVE LogInv'
    OBVIOUS
  <1>1. ASSUME NEW t \in Threads, NEW id \in Ids, Save(t, id) \/ LookUp(t, id) PROVE LogInv'
    BY <1>1, SaveLogInv, LookUpLogInv
  <1>2. ASSUME NEW t \in Threads, Tombstone(t) \/ EndLine(t) \/ Finish(t) PROVE LogInv'
    BY <1>2, TombstoneLogInv, EndLineLogInv, FinishLogInv
  <1>3. ASSUME NEW t \in Threads, WriteFails(t) \/ LineFeedFails(t) \/ SyncFails(t)
        PROVE  LogInv'
    BY <1>3, WriteFailsLogInv, LineFeedFailsLogInv, SyncFailsLogInv
  <1>4. CASE Compact \/ Kill \/ PowerFails
    BY <1>4, CompactLogInv, KillLogInv, PowerFailsLogInv
  <1>5. CASE StartCompaction \/ CompactFails \/ UNCHANGED vars
    BY <1>5, OtherLogInv
  <1> QED BY <1>1, <1>2, <1>3, <1>4, <1>5 DEF Next

LEMMA LogInvCorrect == Spec => []LogInv
  <1> QED BY InitLogInv, StepLogInv, PTL DEF Spec

-----------------------------------------------------------------------------
(* Cache and counters.                                                     *)

Settled(map, total, deleted, appended, f) ==
    /\ map = Replay(f)
    /\ total = Count(f, FALSE)
    /\ deleted = Count(f, TRUE)
    /\ appended <= Cardinality(Read(f))
    /\ Cardinality(Read(f)) <= appended + Cardinality(Ids)

\* What Finish will make of cache and counters.
CacheAfter(op) == [cache EXCEPT ![op.id] = IF op.deleted THEN None ELSE op.version]

\* Without errors they are those of the file, at rest, and will be when the
\* holder of the lock returns.
Agreement ==
    errors = 0 =>
        /\ ~Locked => Settled(cache, totalTasks, deletedTasks, appendCount, File)
        /\ \A t \in Threads : HasLock(t) =>
              Settled(CacheAfter(thread[t]),
                      totalTasks + (IF thread[t].deleted THEN 0 ELSE 1),
                      deletedTasks + (IF thread[t].deleted THEN 1 ELSE 0),
                      appendCount + 1, File)

LEMMA ReplayNext ==
    ASSUME NEW f \in Files, NEW g \in Files, NEW n \in Nat,
           SameBefore(f, g, n), n \notin Read(f), n \in Read(g), RecordAt(g, n) \in RecordSet
    PROVE  LET r == RecordAt(g, n) IN
           Replay(g) = [Replay(f) EXCEPT ![r.id] = IF r.deleted THEN None ELSE r.version]
  <1> DEFINE r == RecordAt(g, n)
             m == [Replay(f) EXCEPT ![r.id] = IF r.deleted THEN None ELSE r.version]
  <1>1. r.id \in Ids
    BY DEF RecordSet
  <1>2. Replay(f) \in [Ids -> Versions \cup {None}] /\ Replay(g) \in [Ids -> Versions \cup {None}]
    BY ReplayTyped
  <1>3. ASSUME NEW id \in Ids PROVE Replay(g)[id] = m[id]
    <2>1. CASE id = r.id
      BY <2>1, <1>1, <1>2, ReplayLast
    <2>2. CASE id # r.id
      BY <2>2, <1>2, ReplayOther
    <2> QED BY <2>1, <2>2
  <1>4. m \in [Ids -> Versions \cup {None} \cup {IF r.deleted THEN None ELSE r.version}]
    BY <1>1, <1>2
  <1> HIDE DEF m, r
  <1>5. Replay(g) = m
    BY <1>2, <1>3, <1>4
  <1> QED BY <1>5 DEF m, r

LEMMA SettledNext ==
    ASSUME NEW f \in Files, NEW g \in Files, NEW n \in Nat,
           SameBefore(f, g, n), n \notin Read(f), n \in Read(g),
           NEW r \in RecordSet, RecordAt(g, n) = r,
           Settled(cache, totalTasks, deletedTasks, appendCount, f), TypeOK
    PROVE  Settled(CacheAfter(r), totalTasks + (IF r.deleted THEN 0 ELSE 1),
                   deletedTasks + (IF r.deleted THEN 1 ELSE 0), appendCount + 1, g)
  <1>1. r.deleted \in BOOLEAN
    BY DEF RecordSet
  <1>2. Replay(g) = CacheAfter(r)
    BY ReplayNext DEF CacheAfter, Settled
  <1>3. /\ Count(g, FALSE) = totalTasks + (IF r.deleted THEN 0 ELSE 1)
        /\ Count(g, TRUE) = deletedTasks + (IF r.deleted THEN 1 ELSE 0)
        /\ Cardinality(Read(g)) = Cardinality(Read(f)) + 1
    BY <1>1, CountNext DEF Settled
  <1>4. appendCount \in Nat /\ Cardinality(Read(f)) \in Nat /\ Cardinality(Ids) \in Nat
    BY CountTyped, IdsAssumption, FS_CardinalityType DEF TypeOK
  <1>5. appendCount <= Cardinality(Read(f)) /\ Cardinality(Read(f)) <= appendCount + Cardinality(Ids)
    BY DEF Settled
  <1>6. /\ appendCount + 1 <= Cardinality(Read(g))
        /\ Cardinality(Read(g)) <= appendCount + 1 + Cardinality(Ids)
    BY <1>3, <1>4, <1>5
  <1> QED BY <1>2, <1>3, <1>6 DEF Settled

LEMMA SettledSame ==
    ASSUME NEW f \in Files, NEW g \in Files, Read(g) = Read(f),
           \A i \in Read(f) : RecordAt(g, i) = RecordAt(f, i),
           NEW map, NEW total, NEW deleted, NEW appended
    PROVE  Settled(map, total, deleted, appended, f) <=> Settled(map, total, deleted, appended, g)
  <1> QED BY ReplaySame, CountSame DEF Settled

LEMMA InitAgreement == Init => Agreement
  <1> SUFFICES ASSUME Init PROVE Agreement OBVIOUS
  <1>1. TypeOK /\ LogInv
    BY InitLogInv DEF LogInv
  <1>2. File = Empty
    BY DEF Init, File, Last
  <1>3. Read(Empty) = {}
    BY DEF Read, Empty, Parsable
  <1>4. Replay(Empty) = [id \in Ids |-> None]
    BY <1>3 DEF Replay, Surviving
  <1>5. Count(Empty, FALSE) = 0 /\ Count(Empty, TRUE) = 0 /\ Cardinality(Read(Empty)) = 0
    BY <1>3, FS_EmptySet DEF Count
  <1>6. Cardinality(Ids) \in Nat
    BY IdsAssumption, FS_CardinalityType
  <1>7. Settled(cache, totalTasks, deletedTasks, appendCount, File)
    <2>1. /\ cache = [id \in Ids |-> None]
          /\ totalTasks = 0 /\ deletedTasks = 0 /\ appendCount = 0
      BY DEF Init
    <2>2. 0 <= Cardinality(Read(Empty)) /\ Cardinality(Read(Empty)) <= 0 + Cardinality(Ids)
      BY <1>5, <1>6
    <2> QED BY <1>2, <1>4, <1>5, <2>1, <2>2 DEF Settled
  <1>8. \A t \in Threads : ~HasLock(t)
    BY DEF Init, HasLock, Resting
  <1> QED BY <1>7, <1>8 DEF Agreement

LEMMA BeginWriteAgreement ==
    ASSUME LogInv, LogInv', Agreement, NEW t \in Threads, NEW id \in Ids, NEW v \in Versions,
           NEW d \in BOOLEAN, BeginWrite(t, id, v, d)
    PROVE  Agreement'
  <1> DEFINE r == Record(id, v, d)
             g == Write(File, r)
             op == [pc |-> "written", id |-> id, version |-> v, deleted |-> d]
             n == Len(File)
  <1>1. TypeOK /\ Decoded /\ ClosedAtRest /\ TypeOK'
    BY DEF LogInv
  <1>2. /\ ~Locked /\ Grow(g) /\ thread' = [thread EXCEPT ![t] = op]
        /\ cache' = cache /\ totalTasks' = totalTasks /\ deletedTasks' = deletedTasks
        /\ appendCount' = appendCount /\ errors' = errors
    BY DEF BeginWrite, counters
  <1> SUFFICES ASSUME errors = 0
      PROVE /\ ~Locked' => Settled(cache, totalTasks, deletedTasks, appendCount, File)'
            /\ \A u \in Threads : HasLock(u)' =>
                 Settled(CacheAfter(thread[u]),
                      totalTasks + (IF thread[u].deleted THEN 0 ELSE 1),
                      deletedTasks + (IF thread[u].deleted THEN 1 ELSE 0),
                      appendCount + 1, File)'
    BY <1>2 DEF Agreement
  <1>3. /\ r \in RecordSet /\ File \in Files /\ g \in Files /\ n \in Nat
        /\ r.id = id /\ r.version = v /\ r.deleted = d
    BY <1>1, DiskTyped, FileTyped, RecordTyped, WriteTyped, RecordIsFragment DEF Record
  <1>4. Decodable(File) /\ ~OpenLine(File)
    BY <1>1, <1>2, DiskTyped DEF Decoded, ClosedAtRest, Whole
  <1> HIDE DEF r
  <1>5. n \notin Read(File) /\ n \in Read(g) /\ RecordAt(g, n) = r /\ SameBefore(File, g, n)
    BY <1>3, <1>4, WriteOnClosed
  <1>6. File' = g
    BY <1>1, <1>2, <1>3, GrowTyped
  <1>7. Settled(cache, totalTasks, deletedTasks, appendCount, File)
    BY <1>2 DEF Agreement
  <1> HIDE DEF g, n
  <1>8. Settled(CacheAfter(r), totalTasks + (IF d THEN 0 ELSE 1),
                deletedTasks + (IF d THEN 1 ELSE 0), appendCount + 1, g)
    BY <1>1, <1>3, <1>5, <1>7, SettledNext
  <1>9. \A u \in Threads : u # t => ~HasLock(u)'
    BY <1>1, <1>2, ThreadTyped DEF HasLock
  <1>10. thread'[t] = op /\ HasLock(t)' /\ Locked'
    BY <1>1, <1>2 DEF TypeOK, HasLock, Locked
  <1>11. CacheAfter(thread[t])' = CacheAfter(r)
    <2>1. thread'[t].id = r.id /\ thread'[t].version = r.version /\ thread'[t].deleted = r.deleted
      BY <1>3, <1>10
    <2> HIDE DEF op
    <2> QED BY <1>2, <2>1 DEF CacheAfter
  <1> QED BY <1>2, <1>6, <1>8, <1>9, <1>10, <1>11

LEMMA EndLineAgreement ==
    ASSUME LogInv, LogInv', Agreement, NEW t \in Threads, EndLine(t)
    PROVE  Agreement'
  <1> DEFINE g == LineFeed(File)
             op == thread[t]
  <1>1. TypeOK /\ OneWriter /\ Decoded
    BY DEF LogInv
  <1>2. /\ op.pc = "written" /\ HasLock(t) /\ Grow(g)
        /\ thread' = [thread EXCEPT ![t].pc = "ended"]
        /\ cache' = cache /\ totalTasks' = totalTasks /\ deletedTasks' = deletedTasks
        /\ appendCount' = appendCount /\ errors' = errors
    BY DEF EndLine, HasLock, counters
  <1> SUFFICES ASSUME errors = 0
      PROVE /\ ~Locked' => Settled(cache, totalTasks, deletedTasks, appendCount, File)'
            /\ \A u \in Threads : HasLock(u)' =>
                 Settled(CacheAfter(thread[u]),
                      totalTasks + (IF thread[u].deleted THEN 0 ELSE 1),
                      deletedTasks + (IF thread[u].deleted THEN 1 ELSE 0),
                      appendCount + 1, File)'
    BY <1>2 DEF Agreement
  <1>3. Decodable(File) /\ File \in Files /\ g \in Files
    <2>1. Decodable(disk[Len(disk)])
      BY <1>1, DiskTyped DEF Decoded, Whole
    <2> QED BY <1>1, <2>1, DiskTyped, LineFeedTyped
  <1>4. Read(g) = Read(File) /\ \A i \in Read(File) : RecordAt(g, i) = RecordAt(File, i)
    BY <1>3, LineFeedKeeps
  <1>5. File' = g
    BY <1>1, <1>2, <1>3, GrowTyped
  <1> HIDE DEF g
  <1>6. op \in Operations /\ thread'[t] = [op EXCEPT !.pc = "ended"]
    BY <1>1, <1>2, ThreadTyped DEF TypeOK
  <1>7. /\ HasLock(t)' /\ thread'[t].id = op.id /\ thread'[t].version = op.version
        /\ thread'[t].deleted = op.deleted
    BY <1>6 DEF HasLock, Operations
  <1>8. \A u \in Threads : u # t => ~HasLock(u)'
    BY <1>1, <1>2 DEF HasLock, OneWriter, TypeOK
  <1>9. Locked'
    BY <1>7 DEF Locked, HasLock
  <1> DEFINE total == totalTasks + (IF op.deleted THEN 0 ELSE 1)
             deleted == deletedTasks + (IF op.deleted THEN 1 ELSE 0)
  <1>10. Settled(CacheAfter(op), total, deleted, appendCount + 1, File)
    BY <1>2 DEF Agreement
  <1>11. Settled(CacheAfter(op), total, deleted, appendCount + 1, g)
    BY <1>3, <1>4, <1>10, SettledSame
  <1>12. CacheAfter(thread[t])' = CacheAfter(op)
    BY <1>2, <1>7 DEF CacheAfter
  <1> QED BY <1>2, <1>5, <1>7, <1>8, <1>9, <1>11, <1>12

LEMMA FinishAgreement ==
    ASSUME LogInv, LogInv', Agreement, NEW t \in Threads, Finish(t)
    PROVE  Agreement'
  <1> DEFINE op == thread[t]
  <1>1. TypeOK /\ OneWriter
    BY DEF LogInv
  <1>2. /\ HasLock(t) /\ disk' = <<File>> /\ errors' = errors
        /\ thread' = [thread EXCEPT ![t] = Resting]
        /\ cache' = CacheAfter(op)
        /\ totalTasks' = totalTasks + (IF op.deleted THEN 0 ELSE 1)
        /\ deletedTasks' = deletedTasks + (IF op.deleted THEN 1 ELSE 0)
        /\ appendCount' = appendCount + 1
    BY DEF Finish, Return, HasLock, CacheAfter
  <1>3. File' = File
    BY <1>1, <1>2, DiskTyped, OneFileTyped
  <1>4. \A u \in Threads : ~HasLock(u)'
    BY <1>1, <1>2, LetGo
  <1>5. errors = 0 => Settled(cache', totalTasks', deletedTasks', appendCount', File)
    BY <1>2 DEF Agreement
  <1> QED BY <1>2, <1>3, <1>4, <1>5 DEF Agreement

LEMMA CompactAgreement ==
    ASSUME LogInv, LogInv', Agreement, Compact
    PROVE  Agreement'
  <1>1. PICK map \in [Ids -> Versions \cup {None}] :
            /\ disk' = <<Rewritten(map)>> /\ cache' = map
            /\ totalTasks' = Cardinality({id \in Ids : map[id] # None})
    BY DEF Compact
  <1>2. /\ ~Locked /\ deletedTasks' = 0 /\ appendCount' = 0 /\ thread' = thread
    BY DEF Compact
  <1>3. File' = Rewritten(map)
    BY <1>1, RewrittenFile, OneFileTyped
  <1>4. Cardinality({id \in Ids : map[id] # None}) \in 0..Cardinality(Ids) /\ Cardinality(Ids) \in Nat
    BY RewrittenFile, IdsAssumption, FS_CardinalityType
  <1>5. Settled(cache', totalTasks', deletedTasks', appendCount', File')
    <2>1. /\ map = Replay(Rewritten(map)) /\ totalTasks' = Count(Rewritten(map), FALSE)
          /\ 0 = Count(Rewritten(map), TRUE)
          /\ Cardinality(Read(Rewritten(map))) = Cardinality({id \in Ids : map[id] # None})
      BY <1>1, RewrittenFile
    <2>2. /\ 0 <= Cardinality(Read(Rewritten(map)))
          /\ Cardinality(Read(Rewritten(map))) <= 0 + Cardinality(Ids)
      BY <1>4, <2>1
    <2> QED BY <1>1, <1>2, <1>3, <2>1, <2>2 DEF Settled
  <1>6. \A u \in Threads : ~HasLock(u)'
    BY <1>2 DEF Locked, HasLock
  <1> QED BY <1>5, <1>6 DEF Agreement

LEMMA ReopenAgreement ==
    ASSUME TypeOK, NEW files \in Seq(Files) \ {<<>>}, Reopen(files)
    PROVE  Agreement'
  <1> DEFINE f == Last(files)
  <1>1. f \in Files
    BY DEF Last
  <1>2. /\ File' = f /\ cache' = Replay(f)
        /\ totalTasks' = Count(f, FALSE) /\ deletedTasks' = Count(f, TRUE)
        /\ appendCount' = Cardinality(Read(f))
        /\ \A u \in Threads : ~HasLock(u)'
    BY DEF Reopen, File, HasLock, Resting
  <1> HIDE DEF f
  <1>3. Cardinality(Read(f)) \in Nat /\ Cardinality(Ids) \in Nat
    BY <1>1, CountTyped, IdsAssumption, FS_CardinalityType
  <1>4. Settled(cache', totalTasks', deletedTasks', appendCount', File')
    BY <1>2, <1>3 DEF Settled
  <1> QED BY <1>2, <1>4 DEF Agreement

LEMMA StepAgreement == LogInv /\ LogInv' /\ Agreement /\ [Next]_vars => Agreement'
  <1> SUFFICES ASSUME LogInv, LogInv', Agreement, [Next]_vars PROVE Agreement'
    OBVIOUS
  <1>1. TypeOK /\ TypeOK'
    BY DEF LogInv
  <1>2. ASSUME NEW t \in Threads, NEW id \in Ids, Save(t, id) PROVE Agreement'
    <2>1. nextVersion \in Versions /\ BeginWrite(t, id, nextVersion, FALSE)
      BY <1>2 DEF Save
    <2> QED BY <2>1, BeginWriteAgreement
  <1>3. ASSUME NEW t \in Threads, Tombstone(t) PROVE Agreement'
    <2>1. thread[t].pc = "delete" /\ BeginWrite(t, thread[t].id, thread[t].version, TRUE)
      BY <1>3 DEF Tombstone
    <2>2. thread[t].id \in Ids /\ thread[t].version \in Versions
      BY <1>1, <2>1, ThreadTyped DEF Operations
    <2> QED BY <2>1, <2>2, BeginWriteAgreement
  <1>4. ASSUME NEW t \in Threads, EndLine(t) \/ Finish(t) PROVE Agreement'
    BY <1>4, EndLineAgreement, FinishAgreement
  <1>5. ASSUME NEW t \in Threads, WriteFails(t) \/ LineFeedFails(t) \/ SyncFails(t)
        PROVE  Agreement'
    <2>1. errors' # 0
      BY <1>1, <1>5 DEF WriteFails, LineFeedFails, SyncFails, CountError, TypeOK
    <2> QED BY <2>1 DEF Agreement
  <1>6. CASE Compact
    BY <1>6, CompactAgreement
  <1>7. CASE Kill
    BY <1>7, <1>1, ReopenAgreement DEF Kill, TypeOK
  <1>8. CASE PowerFails
    <2>1. PICK f \in Files : Reopen(<<f>>)
      BY <1>8, PowerFailsTo
    <2>2. <<f>> \in Seq(Files) \ {<<>>}
      OBVIOUS
    <2> QED BY <2>1, <2>2, <1>1, ReopenAgreement
  <1>9. ASSUME NEW t \in Threads, NEW id \in Ids, LookUp(t, id) PROVE Agreement'
    <2>1. /\ thread[t].pc = "idle"
          /\ thread' = [thread EXCEPT ![t] =
                [pc |-> "delete", id |-> id, version |-> cache[id], deleted |-> TRUE]]
          /\ UNCHANGED <<disk, cache, counters, errors>>
      BY <1>9 DEF LookUp
    <2>2. \A u \in Threads : (HasLock(u)' <=> HasLock(u)) /\ (HasLock(u) => thread'[u] = thread[u])
      BY <1>1, <2>1 DEF HasLock, TypeOK
    <2>3. Locked' <=> Locked
      BY <2>2 DEF Locked, HasLock
    <2> QED BY <2>1, <2>2, <2>3 DEF Agreement, CacheAfter, counters, File
  <1>10. CASE StartCompaction \/ CompactFails \/ UNCHANGED vars
    <2>1. UNCHANGED <<disk, cache, counters, thread, errors>>
      BY <1>10 DEF StartCompaction, CompactFails, vars
    <2> QED BY <2>1 DEF Agreement, CacheAfter, counters, File, HasLock, Locked
  <1> QED BY <1>2, <1>3, <1>4, <1>5, <1>6, <1>7, <1>8, <1>9, <1>10 DEF Next

LEMMA AgreementCorrect == Spec => [](LogInv /\ Agreement)
  <1>1. LogInv /\ Agreement /\ [Next]_vars => (LogInv /\ Agreement)'
    BY StepLogInv, StepAgreement
  <1>2. Init => LogInv /\ Agreement
    BY InitLogInv, InitAgreement
  <1> QED BY <1>1, <1>2, PTL DEF Spec

-----------------------------------------------------------------------------
(* Open lines and lost operations.                                         *)

\* A crash cannot lose a confirmed operation: all contents since the last sync
\* say the same of its id.
Unshaken ==
    \A id \in Ids : lastOp[id].confirmed =>
        \A k \in 1..Len(disk) : Replay(disk[k])[id] = Replay(File)[id]

\* A record on an open line, which the next write spoils, is not confirmed.
OpenUnconfirmed ==
    \A k \in 1..Len(disk) : Len(disk[k]) \in Read(disk[k]) =>
        ~lastOp[RecordAt(disk[k], Len(disk[k])).id].confirmed

\* What the holder of the lock writes is the last operation of its id.
UnderWay ==
    \A t \in Threads : HasLock(t) =>
        lastOp[thread[t].id] =
            [version |-> IF thread[t].deleted THEN None ELSE thread[t].version,
             confirmed |-> FALSE]

\* The record being written shares its line.
Spoilt ==
    \E t \in Threads : HasLock(t) /\ Replay(File)[thread[t].id] # lastOp[thread[t].id].version

\* An open line will cost the operation that is written on it.
Owed == IF IF Locked THEN Spoilt ELSE OpenLine(File) THEN 1 ELSE 0

TearInv == Unshaken /\ OpenUnconfirmed /\ UnderWay /\ Cardinality(Damaged) + Owed <= tears

LEMMA DamagedTyped ==
    ASSUME TypeOK
    PROVE  IsFiniteSet(Damaged) /\ Cardinality(Damaged) \in Nat /\ Owed \in {0, 1} /\ tears \in Nat
  <1>1. IsFiniteSet(Damaged)
    BY IdsAssumption, FS_Subset DEF Damaged
  <1> QED BY <1>1, FS_CardinalityType DEF Owed, TypeOK

\* A step that confirms nothing and keeps what the file says of confirmed
\* operations damages none.
LEMMA DamagedKept ==
    ASSUME TypeOK,
           \A id \in Ids : lastOp'[id].confirmed =>
               /\ lastOp'[id] = lastOp[id]
               /\ Replay(File')[id] = Replay(File)[id]
    PROVE  Cardinality(Damaged') \in Nat /\ Cardinality(Damaged') <= Cardinality(Damaged)
  <1>1. Damaged' \subseteq Damaged
    BY DEF Damaged
  <1>2. IsFiniteSet(Damaged)
    BY DamagedTyped
  <1> QED BY <1>1, <1>2, FS_Subset, FS_CardinalityType

\* Only what an open line holds is lost when the line is spoilt.
LEMMA SpoilKeeps ==
    ASSUME NEW f \in Files, Decodable(f), NEW x \in Fragments, x.kind # "utf8",
           OpenLine(f) \/ x.kind # "record", NEW id \in Ids,
           Len(f) \in Read(f) => RecordAt(f, Len(f)).id # id
    PROVE  Replay(Write(f, x))[id] = Replay(f)[id]
  <1> DEFINE g == Write(f, x)
             n == Len(f)
  <1>1. g \in Files /\ n \in Nat
    BY WriteTyped, FileTyped
  <1>2. SameBefore(f, g, n) /\ n \notin Read(g)
    BY WriteSpoils
  <1>3. SameBefore(g, f, n)
    BY <1>2 DEF SameBefore
  <1> HIDE DEF g, n
  <1>4. Replay(f)[id] = Replay(g)[id]
    BY <1>1, <1>2, <1>3, ReplayOther DEF n
  <1> QED BY <1>4 DEF g

\* A line that is not open holds no record.
LEMMA ClosedLine ==
    ASSUME NEW f \in Files, ~OpenLine(f)
    PROVE  Len(f) \notin Read(f)
  <1>1. f[Len(f)] = <<>>
    BY FileTyped DEF OpenLine
  <1> QED BY <1>1 DEF Read, Parsable

\* Where no character is cut, every content of the file can be read to its end.
LEMMA TextOnly ==
    ASSUME LogInv, "utf8" \notin Faults
    PROVE  /\ \A k \in 1..Len(disk) : disk[k] \in Files /\ Decodable(disk[k])
           /\ File \in Files /\ Decodable(File) /\ File = disk[Len(disk)]
           /\ Len(disk) \in Nat \ {0}
  <1> QED BY DiskTyped DEF LogInv, Decoded

\* What is added to the file leaves confirmed operations as they are.
LEMMA GrowUnshaken ==
    ASSUME TypeOK, Unshaken, OpenUnconfirmed, NEW g \in Files, Grow(g),
           \A id \in Ids : lastOp'[id].confirmed =>
               /\ lastOp'[id] = lastOp[id]
               /\ Replay(g)[id] = Replay(File)[id],
           Len(g) \in Read(g) => ~lastOp'[RecordAt(g, Len(g)).id].confirmed
    PROVE  Unshaken' /\ OpenUnconfirmed'
  <1>1. /\ Len(disk') = Len(disk) + 1 /\ Len(disk) \in Nat
        /\ \A k \in 1..Len(disk) : disk'[k] = disk[k] /\ disk[k] \in Files
        /\ disk'[Len(disk) + 1] = g /\ File' = g
    BY GrowTyped, DiskTyped
  <1>2. ASSUME NEW k \in 1..Len(disk') PROVE k \in 1..Len(disk) \/ k = Len(disk) + 1
    BY <1>1
  <1>3. Unshaken'
    BY <1>1, <1>2 DEF Unshaken
  <1>4. OpenUnconfirmed'
    <2>1. ASSUME NEW k \in 1..Len(disk), Len(disk[k]) \in Read(disk[k])
          PROVE  ~lastOp'[RecordAt(disk[k], Len(disk[k])).id].confirmed
      <3>1. RecordAt(disk[k], Len(disk[k])).id \in Ids
        BY <1>1, <2>1, ReadTyped DEF RecordSet
      <3>2. ~lastOp[RecordAt(disk[k], Len(disk[k])).id].confirmed
        BY <2>1 DEF OpenUnconfirmed
      <3> QED BY <3>1, <3>2
    <2> QED BY <1>1, <1>2, <2>1 DEF OpenUnconfirmed
  <1> QED BY <1>3, <1>4

LEMMA InitTearInv == Init => TearInv
  <1> SUFFICES ASSUME Init PROVE TearInv OBVIOUS
  <1>1. TypeOK
    BY InitLogInv DEF LogInv
  <1>2. /\ \A id \in Ids : ~lastOp[id].confirmed
        /\ \A t \in Threads : ~HasLock(t)
        /\ Len(disk) = 1 /\ disk[1] = Empty /\ File = Empty /\ tears = 0 /\ ~Locked
    BY DEF Init, HasLock, Locked, Resting, File, Last
  <1>3. Empty \in Files /\ ~OpenLine(Empty)
    BY <1>1, <1>2, DiskTyped DEF OpenLine, Last, Empty
  <1>4. Owed = 0
    BY <1>2, <1>3 DEF Owed
  <1>5. Cardinality(Damaged) = 0
    BY <1>2, FS_EmptySet DEF Damaged
  <1>6. Unshaken /\ UnderWay
    BY <1>2 DEF Unshaken, UnderWay
  <1>7. OpenUnconfirmed
    BY <1>2, <1>3, ClosedLine DEF OpenUnconfirmed
  <1> QED BY <1>2, <1>4, <1>5, <1>6, <1>7 DEF TearInv

LEMMA BeginWriteTearInv ==
    ASSUME LogInv, TearInv, "utf8" \notin Faults, NEW t \in Threads, NEW id \in Ids,
           NEW v \in Versions, NEW d \in BOOLEAN, BeginWrite(t, id, v, d)
    PROVE  TearInv'
  <1> DEFINE r == Record(id, v, d)
             g == Write(File, r)
             n == Len(File)
             op == [pc |-> "written", id |-> id, version |-> v, deleted |-> d]
             last == [version |-> IF d THEN None ELSE v, confirmed |-> FALSE]
  <1>1. TypeOK /\ OneWriter /\ Unshaken /\ OpenUnconfirmed /\ UnderWay
    BY DEF LogInv, TearInv
  <1>2. /\ ~Locked /\ Grow(g) /\ thread' = [thread EXCEPT ![t] = op]
        /\ lastOp' = [lastOp EXCEPT ![id] = last] /\ tears' = tears
    BY DEF BeginWrite
  <1>3. /\ r \in RecordSet /\ r \in Fragments /\ g \in Files /\ Len(g) = n /\ n \in Nat
        /\ r.id = id /\ r.version = v /\ r.deleted = d /\ r.kind = "record"
        /\ File \in Files /\ Decodable(File)
    BY TextOnly, FileTyped, RecordTyped, WriteTyped, RecordIsFragment DEF Record
  <1>4. File' = g
    BY <1>1, <1>2, <1>3, GrowTyped
  <1>5. thread'[t] = op /\ \A u \in Threads : u # t => ~HasLock(u)'
    BY <1>1, <1>2, ThreadTyped DEF HasLock, TypeOK
  <1>6. HasLock(t)' /\ Locked'
    BY <1>5 DEF HasLock, Locked
  <1>7. /\ lastOp'[id] = last
        /\ \A x \in Ids : x # id => lastOp'[x] = lastOp[x]
        /\ \A x \in Ids : lastOp'[x].confirmed => x # id /\ lastOp[x].confirmed
    BY <1>1, <1>2 DEF TypeOK
  <1> HIDE DEF r, g, n
  <1>8. UnderWay'
    <2>1. thread'[t].id = id /\ thread'[t].version = v /\ thread'[t].deleted = d
      BY <1>5
    <2> HIDE DEF op
    <2> QED BY <1>5, <1>7, <2>1 DEF UnderWay
  <1>9. CASE OpenLine(File)
    <2>1. n \notin Read(g)
      BY <1>3, <1>9, WriteSpoils DEF g, n
    <2>2. ASSUME NEW x \in Ids, lastOp'[x].confirmed PROVE Replay(g)[x] = Replay(File)[x]
      <3>1. n \in Read(File) => RecordAt(File, n).id # x
        BY <1>1, <1>7, <2>2, TextOnly DEF OpenUnconfirmed, n
      <3> QED BY <1>3, <1>9, <3>1, SpoilKeeps DEF g, n
    <2>3. Unshaken' /\ OpenUnconfirmed'
      BY <1>1, <1>2, <1>3, <1>7, <2>1, <2>2, GrowUnshaken
    <2>4. Cardinality(Damaged') \in Nat /\ Cardinality(Damaged') <= Cardinality(Damaged)
      BY <1>1, <1>4, <1>7, <2>2, DamagedKept
    <2>5. Owed = 1 /\ Owed' \in {0, 1}
      BY <1>2, <1>9 DEF Owed
    <2>6. Cardinality(Damaged) \in Nat /\ tears \in Nat /\ Cardinality(Damaged) + Owed <= tears
      BY <1>1, DamagedTyped DEF TearInv
    <2>7. Cardinality(Damaged') + Owed' <= tears'
      BY <1>2, <2>4, <2>5, <2>6
    <2> QED BY <1>8, <2>3, <2>7 DEF TearInv
  <1>10. CASE ~OpenLine(File)
    <2>1. /\ n \notin Read(File) /\ n \in Read(g) /\ RecordAt(g, n) = r
          /\ SameBefore(File, g, n)
      BY <1>3, <1>10, WriteOnClosed DEF g, n
    <2>2. ASSUME NEW x \in Ids, lastOp'[x].confirmed PROVE Replay(g)[x] = Replay(File)[x]
      BY <1>3, <1>7, <2>1, <2>2, ReplayOther
    <2>3. Unshaken' /\ OpenUnconfirmed'
      BY <1>1, <1>2, <1>3, <1>7, <2>1, <2>2, GrowUnshaken
    <2>4. Cardinality(Damaged') \in Nat /\ Cardinality(Damaged') <= Cardinality(Damaged)
      BY <1>1, <1>4, <1>7, <2>2, DamagedKept
    <2>5. Replay(g)[id] = last.version
      BY <1>3, <2>1, ReplayLast
    <2>6. ~Spoilt'
      BY <1>4, <1>5, <1>7, <2>5 DEF Spoilt
    <2>7. Owed' = 0
      BY <1>6, <2>6 DEF Owed
    <2>8. Cardinality(Damaged) \in Nat /\ tears \in Nat /\ Owed \in {0, 1}
          /\ Cardinality(Damaged) + Owed <= tears
      BY <1>1, DamagedTyped DEF TearInv
    <2>9. Cardinality(Damaged') + Owed' <= tears'
      BY <1>2, <2>4, <2>7, <2>8
    <2> QED BY <1>8, <2>3, <2>9 DEF TearInv
  <1> QED BY <1>9, <1>10

LEMMA EndLineTearInv ==
    ASSUME LogInv, TearInv, "utf8" \notin Faults, NEW t \in Threads, EndLine(t)
    PROVE  TearInv'
  <1> DEFINE g == LineFeed(File)
             op == thread[t]
  <1>1. TypeOK /\ OneWriter /\ Unshaken /\ OpenUnconfirmed /\ UnderWay
    BY DEF LogInv, TearInv
  <1>2. /\ HasLock(t) /\ op.pc = "written" /\ Grow(g)
        /\ thread' = [thread EXCEPT ![t].pc = "ended"]
        /\ lastOp' = lastOp /\ tears' = tears
    BY DEF EndLine, HasLock
  <1>3. g \in Files /\ File \in Files /\ Decodable(File)
    BY TextOnly, LineFeedTyped
  <1>4. /\ Read(g) = Read(File) /\ \A i \in Read(File) : RecordAt(g, i) = RecordAt(File, i)
        /\ ~OpenLine(g)
    BY <1>3, LineFeedKeeps
  <1>5. File' = g
    BY <1>1, <1>2, <1>3, GrowTyped
  <1> HIDE DEF g
  <1>6. Replay(g) = Replay(File) /\ Len(g) \notin Read(g)
    BY <1>3, <1>4, ReplaySame, ClosedLine
  <1>7. Unshaken' /\ OpenUnconfirmed'
    BY <1>1, <1>2, <1>3, <1>6, GrowUnshaken
  <1>8. op \in Operations /\ thread'[t] = [op EXCEPT !.pc = "ended"]
    BY <1>1, <1>2, ThreadTyped DEF TypeOK
  <1>9. /\ HasLock(t)' /\ thread'[t].id = op.id /\ thread'[t].version = op.version
        /\ thread'[t].deleted = op.deleted
    BY <1>8 DEF HasLock, Operations
  <1>10. \A u \in Threads : u # t => ~HasLock(u) /\ ~HasLock(u)'
    BY <1>1, <1>2 DEF HasLock, OneWriter, TypeOK
  <1>11. Locked /\ Locked'
    BY <1>2, <1>9 DEF Locked, HasLock
  <1>12. UnderWay'
    BY <1>1, <1>2, <1>9, <1>10 DEF UnderWay
  <1>13. Owed' = Owed
    <2>1. Spoilt' <=> Spoilt
      BY <1>2, <1>5, <1>6, <1>9, <1>10 DEF Spoilt
    <2> QED BY <1>11, <2>1 DEF Owed
  <1>14. Damaged' = Damaged
    BY <1>2, <1>5, <1>6 DEF Damaged
  <1> QED BY <1>2, <1>7, <1>12, <1>13, <1>14 DEF TearInv

LEMMA FinishTearInv ==
    ASSUME LogInv, TearInv, NEW t \in Threads, Finish(t)
    PROVE  TearInv'
  <1> DEFINE op == thread[t]
  <1>1. TypeOK /\ OneWriter /\ LineOfLock /\ UnderWay
    BY DEF LogInv, TearInv
  <1>2. /\ HasLock(t) /\ op.pc = "ended" /\ disk' = <<File>> /\ tears' = tears
        /\ thread' = [thread EXCEPT ![t] = Resting]
        /\ lastOp' = [lastOp EXCEPT ![op.id].confirmed = TRUE]
    BY DEF Finish, Return, HasLock
  <1>3. /\ Len(disk') = 1 /\ disk'[1] = File /\ File' = File
        /\ File \in Files /\ ~OpenLine(File)
    BY <1>1, <1>2, DiskTyped, OneFileTyped DEF LineOfLock
  <1>4. (\A u \in Threads : ~HasLock(u)') /\ ~Locked' /\ Locked
    BY <1>1, <1>2, LetGo, ThreadTyped
  <1>5. op.id \in Ids
    BY <1>1, <1>2, ThreadTyped DEF Operations
  <1>6. /\ lastOp'[op.id].version = lastOp[op.id].version
        /\ \A x \in Ids : x # op.id => lastOp'[x] = lastOp[x]
    BY <1>1, <1>2, <1>5 DEF TypeOK
  <1>7. Unshaken' /\ UnderWay'
    BY <1>3, <1>4 DEF Unshaken, UnderWay
  <1>8. OpenUnconfirmed'
    BY <1>3, ClosedLine DEF OpenUnconfirmed
  <1>9. Owed' = 0
    BY <1>3, <1>4 DEF Owed
  <1>10. IsFiniteSet(Damaged) /\ Cardinality(Damaged) \in Nat /\ Owed \in {0, 1} /\ tears \in Nat
         /\ Cardinality(Damaged) + Owed <= tears
    BY <1>1, DamagedTyped DEF TearInv
  <1>11. Cardinality(Damaged') \in Nat /\ Cardinality(Damaged') <= Cardinality(Damaged) + Owed
    <2>1. CASE Replay(File)[op.id] = lastOp[op.id].version
      <3>1. Damaged' \subseteq Damaged
        BY <1>3, <1>6, <2>1 DEF Damaged
      <3>2. Cardinality(Damaged') \in Nat /\ Cardinality(Damaged') <= Cardinality(Damaged)
        BY <1>10, <3>1, FS_Subset, FS_CardinalityType
      <3> QED BY <1>10, <3>2
    <2>2. CASE Replay(File)[op.id] # lastOp[op.id].version
      <3>1. Owed = 1
        BY <1>2, <1>4, <2>2 DEF Owed, Spoilt
      <3>2. Damaged' \subseteq Damaged \cup {op.id}
        BY <1>3, <1>6 DEF Damaged
      <3>3. /\ IsFiniteSet(Damaged \cup {op.id})
            /\ Cardinality(Damaged \cup {op.id}) \in {Cardinality(Damaged), Cardinality(Damaged) + 1}
        BY <1>10, FS_AddElement
      <3>4. /\ Cardinality(Damaged') \in Nat
            /\ Cardinality(Damaged') <= Cardinality(Damaged \cup {op.id})
        BY <3>2, <3>3, FS_Subset, FS_CardinalityType
      <3> QED BY <1>10, <3>1, <3>3, <3>4
    <2> QED BY <2>1, <2>2
  <1>12. Cardinality(Damaged') + Owed' <= tears'
    BY <1>2, <1>9, <1>10, <1>11
  <1> QED BY <1>7, <1>8, <1>12 DEF TearInv

\* A writer gives up, and the file stays.
LEMMA GiveUpTearInv ==
    ASSUME LogInv, TearInv, NEW t \in Threads, HasLock(t) \/ ~Locked,
           thread' = [thread EXCEPT ![t] = Resting], UNCHANGED <<disk, lastOp>>,
           \/ tears' = tears /\ (Locked => ~OpenLine(File))
           \/ tears' = tears + 1 /\ OpenLine(File)
    PROVE  TearInv'
  <1>1. TypeOK /\ OneWriter /\ Unshaken /\ OpenUnconfirmed
    BY DEF LogInv, TearInv
  <1>2. (\A u \in Threads : ~HasLock(u)') /\ ~Locked' /\ File' = File
    BY <1>1, LetGo DEF File
  <1>3. Unshaken' /\ OpenUnconfirmed' /\ UnderWay' /\ Damaged' = Damaged
    BY <1>1, <1>2 DEF Unshaken, OpenUnconfirmed, UnderWay, Damaged
  <1>4. Cardinality(Damaged) \in Nat /\ Owed \in {0, 1} /\ tears \in Nat
        /\ Cardinality(Damaged) + Owed <= tears
    BY <1>1, DamagedTyped DEF TearInv
  <1>5. Owed' = IF OpenLine(File) THEN 1 ELSE 0
    BY <1>2 DEF Owed
  <1>6. Cardinality(Damaged') = Cardinality(Damaged)
    BY <1>3
  <1>7. Cardinality(Damaged') + Owed' <= tears'
    <2>1. CASE tears' = tears + 1
      BY <2>1, <1>4, <1>5, <1>6
    <2>2. CASE tears' = tears /\ (Locked => ~OpenLine(File))
      <3>1. Owed' = 1 => Owed = 1
        BY <2>2, <1>5 DEF Owed
      <3>2. Owed' \in {0, 1}
        BY <1>5
      <3> QED BY <2>2, <3>1, <3>2, <1>4, <1>6
    <2> QED BY <2>1, <2>2
  <1> QED BY <1>3, <1>7 DEF TearInv

LEMMA WriteFailsTearInv ==
    ASSUME LogInv, TearInv, "utf8" \notin Faults, NEW t \in Threads, WriteFails(t)
    PROVE  TearInv'
  <1>1. TypeOK /\ OneWriter /\ Unshaken /\ OpenUnconfirmed
    BY DEF LogInv, TearInv
  <1>2. ~Locked /\ thread' = [thread EXCEPT ![t] = Resting] /\ lastOp' = lastOp
    BY DEF WriteFails
  <1>3. CASE UNCHANGED <<disk, tears>>
    BY <1>2, <1>3, GiveUpTearInv
  <1>4. CASE ~UNCHANGED <<disk, tears>>
    <2> DEFINE x == Fragment("piece")
               g == Write(File, x)
               n == Len(File)
    <2>1. Grow(g) /\ CountTear(g)
      BY <1>4 DEF WriteFails
    <2>2. x \in Fragments /\ x.kind = "piece"
      BY RecordIsFragment
    <2>3. File \in Files /\ Decodable(File) /\ n \in Nat
      BY TextOnly, FileTyped
    <2> HIDE DEF x
    <2>4. g \in Files /\ Len(g) = n /\ OpenLine(g) /\ n \notin Read(g)
      BY <2>2, <2>3, WriteTyped, WriteSpoils
    <2>5. ASSUME NEW id \in Ids, lastOp'[id].confirmed PROVE Replay(g)[id] = Replay(File)[id]
      <3>1. n \in Read(File) => RecordAt(File, n).id # id
        BY <1>1, <1>2, <2>5, TextOnly DEF OpenUnconfirmed
      <3> QED BY <2>2, <2>3, <3>1, SpoilKeeps
    <2> HIDE DEF g, n
    <2>6. File' = g
      BY <1>1, <2>1, <2>4, GrowTyped
    <2>7. Unshaken' /\ OpenUnconfirmed'
      BY <1>1, <1>2, <2>1, <2>4, <2>5, GrowUnshaken
    <2>8. Cardinality(Damaged') \in Nat /\ Cardinality(Damaged') <= Cardinality(Damaged)
      BY <1>1, <1>2, <2>5, <2>6, DamagedKept
    <2>9. (\A u \in Threads : ~HasLock(u)') /\ ~Locked'
      BY <1>1, <1>2, LetGo
    <2>10. Owed' = 1 /\ tears' = tears + 1 /\ UnderWay'
      BY <2>1, <2>4, <2>6, <2>9 DEF Owed, CountTear, UnderWay
    <2>11. Cardinality(Damaged) \in Nat /\ Owed \in {0, 1} /\ tears \in Nat
           /\ Cardinality(Damaged) + Owed <= tears
      BY <1>1, DamagedTyped DEF TearInv
    <2>12. Cardinality(Damaged') + Owed' <= tears'
      BY <2>8, <2>10, <2>11
    <2> QED BY <2>7, <2>10, <2>12 DEF TearInv
  <1> QED BY <1>3, <1>4

LEMMA CompactTearInv ==
    ASSUME LogInv, TearInv, "clock" \notin Faults, Compact
    PROVE  TearInv'
  <1>1. TypeOK
    BY DEF LogInv
  <1>2. PICK map \in [Ids -> Versions \cup {None}] :
            /\ \A id \in Ids : map[id] \in Keep(File, id)
            /\ disk' = <<Rewritten(map)>>
    BY DEF Compact
  <1>3. ~Locked /\ UNCHANGED <<thread, lastOp, tears>>
    BY DEF Compact
  <1>4. map = Replay(File)
    <2>1. ASSUME NEW id \in Ids PROVE map[id] = Replay(File)[id]
      BY <1>2 DEF Keep, Replay
    <2> QED BY <2>1 DEF Replay
  <1>5. Rewritten(map) \in Files /\ ~OpenLine(Rewritten(map)) /\ Replay(Rewritten(map)) = map
    BY RewrittenFile
  <1>6. Len(disk') = 1 /\ disk'[1] = Rewritten(map) /\ File' = Rewritten(map)
    BY <1>2, <1>5, OneFileTyped
  <1>7. ~Locked' /\ \A u \in Threads : ~HasLock(u)'
    BY <1>3 DEF Locked, HasLock
  <1>8. Damaged' = Damaged
    BY <1>3, <1>4, <1>5, <1>6 DEF Damaged
  <1>9. Unshaken' /\ UnderWay' /\ OpenUnconfirmed'
    BY <1>5, <1>6, <1>7, ClosedLine DEF Unshaken, UnderWay, OpenUnconfirmed
  <1>10. Owed' = 0
    BY <1>5, <1>6, <1>7 DEF Owed
  <1>11. Cardinality(Damaged) \in Nat /\ Owed \in {0, 1} /\ tears \in Nat
         /\ Cardinality(Damaged) + Owed <= tears
    BY <1>1, DamagedTyped DEF TearInv
  <1>12. Cardinality(Damaged') + Owed' <= tears'
    BY <1>3, <1>8, <1>10, <1>11
  <1> QED BY <1>9, <1>12 DEF TearInv

LEMMA KillTearInv ==
    ASSUME LogInv, TearInv, Kill
    PROVE  TearInv'
  <1>1. TypeOK /\ LineOfLock /\ Unshaken /\ OpenUnconfirmed
    BY DEF LogInv, TearInv
  <1>2. /\ disk' = disk /\ lastOp' = lastOp /\ thread' = [t \in Threads |-> Resting]
        /\ IF Locked THEN CountStop(File) ELSE tears' = tears
    BY DEF Kill, Reopen
  <1>3. (\A u \in Threads : ~HasLock(u)') /\ ~Locked' /\ File' = File
    BY <1>2 DEF HasLock, Locked, Resting, File
  <1>4. Unshaken' /\ OpenUnconfirmed' /\ UnderWay' /\ Damaged' = Damaged
    BY <1>1, <1>2, <1>3 DEF Unshaken, OpenUnconfirmed, UnderWay, Damaged
  <1>5. Cardinality(Damaged) \in Nat /\ Owed \in {0, 1} /\ tears \in Nat
        /\ Cardinality(Damaged) + Owed <= tears
    BY <1>1, DamagedTyped DEF TearInv
  <1>6. Cardinality(Damaged') = Cardinality(Damaged)
    BY <1>4
  <1>7. Cardinality(Damaged') + Owed' <= tears'
    <2>1. Owed' = IF OpenLine(File) THEN 1 ELSE 0
      BY <1>3 DEF Owed
    <2>2. CASE Locked
      <3>1. tears' = tears + (IF OpenLine(File) THEN 1 ELSE 0)
        BY <2>2, <1>2 DEF CountStop, CountTear
      <3> QED BY <2>1, <3>1, <1>5, <1>6
    <2>3. CASE ~Locked
      <3>1. Owed' = Owed /\ tears' = tears
        BY <2>1, <2>3, <1>2 DEF Owed
      <3> QED BY <3>1, <1>5, <1>6
    <2> QED BY <2>2, <2>3
  <1> QED BY <1>4, <1>7 DEF TearInv

LEMMA PowerFailsTearInv ==
    ASSUME LogInv, TearInv, "utf8" \notin Faults, PowerFails
    PROVE  TearInv'
  <1>1. TypeOK /\ LineOfLock /\ Unshaken /\ OpenUnconfirmed
    BY DEF LogInv, TearInv
  <1>2. PICK k \in 1..Len(disk), file \in Files :
              /\ \/ file = disk[k]
                 \/ /\ k < Len(disk)
                    /\ \E kind \in {"piece"} \cup (Faults \cap {"utf8"}) :
                          file = Write(disk[k], Fragment(kind))
              /\ OpenLine(file) => "torn" \in Faults
              /\ Reopen(<<file>>)
              /\ IF Len(disk) > 1 THEN CountStop(file) ELSE UNCHANGED <<tears, errors>>
    BY PowerFailsTo
  <1>3. /\ disk' = <<file>> /\ lastOp' = lastOp /\ thread' = [t \in Threads |-> Resting]
    BY <1>2 DEF Reopen
  <1>4. Len(disk') = 1 /\ disk'[1] = file /\ File' = file
    BY <1>3, OneFileTyped
  <1>5. (\A u \in Threads : ~HasLock(u)') /\ ~Locked'
    BY <1>3 DEF HasLock, Locked, Resting
  <1> DEFINE f == disk[k]
             n == Len(f)
             x == Fragment("piece")
  <1>6. /\ f \in Files /\ Decodable(f) /\ n \in Nat /\ Len(disk) \in Nat \ {0}
        /\ File = disk[Len(disk)]
    BY TextOnly, FileTyped
  <1>7. x \in Fragments /\ x.kind = "piece"
    BY RecordIsFragment
  <1>8. file = f \/ file = Write(f, x)
    BY <1>2
  <1>9. ASSUME NEW id \in Ids, lastOp[id].confirmed PROVE Replay(file)[id] = Replay(File)[id]
    <2>1. Replay(f)[id] = Replay(File)[id]
      BY <1>1, <1>9 DEF Unshaken
    <2>2. Replay(Write(f, x))[id] = Replay(f)[id]
      <3>1. n \in Read(f) => RecordAt(f, n).id # id
        BY <1>1, <1>9 DEF OpenUnconfirmed
      <3> HIDE DEF x, f
      <3> QED BY <1>6, <1>7, <3>1, SpoilKeeps
    <2> QED BY <1>8, <2>1, <2>2
  <1>10. OpenUnconfirmed'
    <2>1. CASE file = f
      BY <2>1, <1>1, <1>3, <1>4 DEF OpenUnconfirmed
    <2>2. CASE file = Write(f, x)
      <3>1. Len(file) = n /\ n \notin Read(file)
        <4> HIDE DEF x, f
        <4> QED BY <2>2, <1>6, <1>7, WriteTyped, WriteSpoils
      <3> QED BY <3>1, <1>4 DEF OpenUnconfirmed
    <2> QED BY <1>8, <2>1, <2>2
  <1>11. Unshaken' /\ UnderWay'
    BY <1>4, <1>5 DEF Unshaken, UnderWay
  <1>12. Cardinality(Damaged') \in Nat /\ Cardinality(Damaged') <= Cardinality(Damaged)
    BY <1>1, <1>3, <1>4, <1>9, DamagedKept
  <1>13. Cardinality(Damaged) \in Nat /\ Owed \in {0, 1} /\ tears \in Nat
         /\ Cardinality(Damaged) + Owed <= tears
    BY <1>1, DamagedTyped DEF TearInv
  <1>14. Cardinality(Damaged') + Owed' <= tears'
    <2>1. Owed' = IF OpenLine(file) THEN 1 ELSE 0
      BY <1>4, <1>5 DEF Owed
    <2>2. CASE Len(disk) > 1
      <3>1. tears' = tears + (IF OpenLine(file) THEN 1 ELSE 0)
        BY <2>2, <1>2 DEF CountStop, CountTear
      <3> QED BY <2>1, <3>1, <1>12, <1>13
    <2>3. CASE ~(Len(disk) > 1)
      <3> DEFINE m == Len(disk)
      <3>1. m = 1
        <4>1. m \in Nat \ {0} /\ ~(m > 1)
          BY <2>3, <1>6
        <4> HIDE DEF m
        <4> QED BY <4>1
      <3>2. k = 1 /\ ~(k < Len(disk))
        BY <3>1
      <3>3. file = File
        BY <3>1, <3>2, <1>2, <1>6
      <3>4. ~Locked
        BY <2>3, <1>1 DEF LineOfLock, Locked, HasLock
      <3>5. Owed' = Owed /\ tears' = tears
        BY <2>1, <2>3, <3>3, <3>4, <1>2 DEF Owed
      <3> QED BY <3>5, <1>12, <1>13
    <2> QED BY <2>2, <2>3
  <1> QED BY <1>10, <1>11, <1>14 DEF TearInv

LEMMA QuietTearInv ==
    ASSUME LogInv, TearInv, UNCHANGED <<disk, lastOp, tears>>,
           \A u \in Threads : (HasLock(u)' <=> HasLock(u)) /\ (HasLock(u) => thread'[u] = thread[u])
    PROVE  TearInv'
  <1>1. (Locked' <=> Locked) /\ File' = File
    BY DEF Locked, HasLock, File
  <1>2. (Spoilt' <=> Spoilt) /\ Damaged' = Damaged
    BY <1>1 DEF Spoilt, Damaged
  <1>3. Owed' = Owed
    BY <1>1, <1>2 DEF Owed
  <1> QED BY <1>1, <1>2, <1>3 DEF TearInv, Unshaken, OpenUnconfirmed, UnderWay

LEMMA StepTearInv ==
    ASSUME "utf8" \notin Faults, "clock" \notin Faults, LogInv, TearInv, [Next]_vars
    PROVE  TearInv'
  <1>1. TypeOK /\ LineOfLock
    BY DEF LogInv
  <1>2. ASSUME NEW t \in Threads, NEW id \in Ids, Save(t, id) PROVE TearInv'
    <2>1. nextVersion \in Versions /\ BeginWrite(t, id, nextVersion, FALSE)
      BY <1>2 DEF Save
    <2> QED BY <2>1, BeginWriteTearInv
  <1>3. ASSUME NEW t \in Threads, Tombstone(t) PROVE TearInv'
    <2>1. thread[t].pc = "delete" /\ BeginWrite(t, thread[t].id, thread[t].version, TRUE)
      BY <1>3 DEF Tombstone
    <2>2. thread[t].id \in Ids /\ thread[t].version \in Versions
      BY <1>1, <2>1, ThreadTyped DEF Operations
    <2> QED BY <2>1, <2>2, BeginWriteTearInv
  <1>4. ASSUME NEW t \in Threads, EndLine(t) \/ Finish(t) \/ WriteFails(t) PROVE TearInv'
    BY <1>4, EndLineTearInv, FinishTearInv, WriteFailsTearInv
  <1>5. ASSUME NEW t \in Threads, LineFeedFails(t) PROVE TearInv'
    <2>1. /\ thread[t].pc = "written" /\ HasLock(t) /\ CountTear(File)
          /\ thread' = [thread EXCEPT ![t] = Resting] /\ UNCHANGED <<disk, lastOp>>
      BY <1>5 DEF LineFeedFails, HasLock
    <2>2. OpenLine(File) /\ tears' = tears + 1
      BY <1>1, <2>1 DEF LineOfLock, CountTear
    <2> QED BY <2>1, <2>2, GiveUpTearInv
  <1>6. ASSUME NEW t \in Threads, SyncFails(t) PROVE TearInv'
    <2>1. /\ thread[t].pc = "ended" /\ HasLock(t) /\ tears' = tears
          /\ thread' = [thread EXCEPT ![t] = Resting] /\ UNCHANGED <<disk, lastOp>>
      BY <1>6 DEF SyncFails, HasLock
    <2>2. ~OpenLine(File)
      BY <1>1, <2>1 DEF LineOfLock
    <2> QED BY <2>1, <2>2, GiveUpTearInv
  <1>7. CASE Compact \/ Kill \/ PowerFails
    BY <1>7, CompactTearInv, KillTearInv, PowerFailsTearInv
  <1>8. ASSUME NEW t \in Threads, NEW id \in Ids, LookUp(t, id) PROVE TearInv'
    <2>1. /\ thread[t].pc = "idle" /\ UNCHANGED <<disk, lastOp, tears>>
          /\ thread' = [thread EXCEPT ![t] =
                [pc |-> "delete", id |-> id, version |-> cache[id], deleted |-> TRUE]]
      BY <1>8 DEF LookUp
    <2>2. \A u \in Threads : (HasLock(u)' <=> HasLock(u)) /\ (HasLock(u) => thread'[u] = thread[u])
      BY <1>1, <2>1 DEF HasLock, TypeOK
    <2> QED BY <2>1, <2>2, QuietTearInv
  <1>9. CASE StartCompaction \/ CompactFails \/ UNCHANGED vars
    <2>1. UNCHANGED <<disk, thread, lastOp, tears>>
      BY <1>9 DEF StartCompaction, CompactFails, vars
    <2> QED BY <2>1, QuietTearInv DEF HasLock
  <1> QED BY <1>2, <1>3, <1>4, <1>5, <1>6, <1>7, <1>8, <1>9 DEF Next

-----------------------------------------------------------------------------
(* The theorems.                                                           *)

\* Every variable of the store keeps its type: in particular the counters that
\* trigger compaction never leave the natural numbers, and what a file holds is
\* always lines of fragments, with at least the open one.
THEOREM TypeCorrect == Spec => []TypeOK
  <1>1. LogInv => TypeOK
    BY DEF LogInv
  <1> QED BY <1>1, LogInvCorrect, PTL

\* Until an operation fails or a line is left open, whenever no writer is inside
\* save_task_inner the cache is what replaying the log would build: neither a
\* restart nor a compaction changes what the engine sees.
THEOREM CacheIsLogCorrect == Spec => []CacheIsLog
  <1>1. Agreement => CacheIsLog
    BY DEF Agreement, CacheIsLog, Settled
  <1> QED BY <1>1, AgreementCorrect, PTL

\* In the same states the counters of should_compact are those of the log, and
\* appendCount falls behind it by at most one record per id.
THEOREM CountersAreLogCorrect == Spec => []CountersAreLog
  <1>1. LogInv /\ Agreement => CountersAreLog
    <2> SUFFICES ASSUME LogInv, Agreement, errors = 0, ~Locked
                 PROVE  /\ totalTasks = Count(File, FALSE)
                        /\ deletedTasks = Count(File, TRUE)
                        /\ appendCount <= Cardinality(Read(File))
                        /\ Cardinality(Read(File)) - appendCount <= Cardinality(Ids)
      BY DEF CountersAreLog
    <2>1. Settled(cache, totalTasks, deletedTasks, appendCount, File)
      BY DEF Agreement
    <2>2. /\ Cardinality(Read(File)) \in Nat /\ Cardinality(Ids) \in Nat /\ appendCount \in Nat
      <3>1. File \in Files /\ appendCount \in Nat
        BY DiskTyped DEF LogInv, TypeOK
      <3> QED BY <3>1, CountTyped, IdsAssumption, FS_CardinalityType
    <2>3. Cardinality(Read(File)) <= appendCount + Cardinality(Ids)
      BY <2>1 DEF Settled
    <2>4. Cardinality(Read(File)) - appendCount <= Cardinality(Ids)
      BY <2>2, <2>3
    <2> QED BY <2>1, <2>4 DEF Settled
  <1> QED BY <1>1, AgreementCorrect, PTL

\* Where a cut leaves text and the clock moves while compaction parses, every
\* confirmed operation that a reader of the file no longer finds is paid for by
\* an open line left behind, whatever fails and whenever the machine stops.
THEOREM OneTearOneLossCorrect ==
    ASSUME "utf8" \notin Faults, "clock" \notin Faults
    PROVE  Spec => []OneTearOneLoss
  <1>1. LogInv /\ TearInv /\ [Next]_vars => (LogInv /\ TearInv)'
    BY StepLogInv, StepTearInv
  <1>2. Init => LogInv /\ TearInv
    BY InitLogInv, InitTearInv
  <1>3. LogInv /\ TearInv => OneTearOneLoss
    <2> SUFFICES ASSUME LogInv, TearInv PROVE Cardinality(Damaged) <= tears
      BY DEF OneTearOneLoss
    <2>1. Cardinality(Damaged) \in Nat /\ Owed \in {0, 1} /\ tears \in Nat
          /\ Cardinality(Damaged) + Owed <= tears
      BY DamagedTyped DEF TearInv, LogInv
    <2> QED BY <2>1
  <1> QED BY <1>1, <1>2, <1>3, PTL DEF Spec

-----------------------------------------------------------------------------
(* The store is a durable map.                                             *)

\* What readers of a list of contents find.
SeenOf(files) == [k \in 1..Len(files) |-> Replay(files[k])]
Seen == SeenOf(disk)

LEMMA SeenTyped ==
    ASSUME NEW files \in Seq(Files) \ {<<>>}
    PROVE  LET seen == SeenOf(files) IN
           /\ seen \in Seq([Ids -> Versions \cup {None}])
           /\ Len(seen) = Len(files) /\ Len(files) \in Nat \ {0}
           /\ \A k \in 1..Len(files) : seen[k] = Replay(files[k])
           /\ seen[Len(seen)] = Replay(Last(files))
  <1> DEFINE n == Len(files)
             seen == SeenOf(files)
  <1>1. n \in Nat \ {0} /\ Last(files) = files[n] /\ \A k \in 1..n : files[k] \in Files
    BY DEF Last
  <1>2. seen \in [1..n -> [Ids -> Versions \cup {None}]]
    BY <1>1, ReplayTyped DEF SeenOf
  <1>3. \A k \in 1..n : seen[k] = Replay(files[k])
    BY DEF SeenOf
  <1> HIDE DEF n, seen
  <1>4. seen \in Seq([Ids -> Versions \cup {None}]) /\ Len(seen) = n
    BY <1>1, <1>2
  <1> QED BY <1>1, <1>3, <1>4 DEF n, seen

LEMMA SeenGrows ==
    ASSUME TypeOK, TypeOK', NEW g \in Files, Grow(g), NEW id \in Ids,
           NEW v \in Versions \cup {None}, Replay(g) = [Replay(File) EXCEPT ![id] = v]
    PROVE  Seen' = Append(Seen, [Seen[Len(Seen)] EXCEPT ![id] = v])
  <1> DEFINE M == [Ids -> Versions \cup {None}]
             m == Replay(g)
             n == Len(disk)
             a == Append(Seen, m)
  <1>1. m \in M
    BY ReplayTyped
  <1>2. /\ Seen \in Seq(M) /\ Len(Seen) = n /\ n \in Nat
        /\ \A k \in 1..n : Seen[k] = Replay(disk[k])
        /\ Seen[Len(Seen)] = Replay(File)
    BY SeenTyped, FileTyped, DiskTyped DEF TypeOK, Seen, File
  <1>3. Seen' \in Seq(M) /\ Len(Seen') = Len(disk')
        /\ \A k \in 1..Len(disk') : Seen'[k] = Replay(disk'[k])
    BY SeenTyped DEF TypeOK, Seen
  <1>4. /\ Len(disk') = n + 1 /\ \A k \in 1..n : disk'[k] = disk[k]
        /\ disk'[n + 1] = g
    BY GrowTyped
  <1> HIDE DEF M, m, n
  <1>5. /\ a \in Seq(M) /\ Len(a) = n + 1 /\ a[n + 1] = m
        /\ \A k \in 1..n : a[k] = Seen[k]
    BY <1>1, <1>2
  <1>6. \A k \in 1..(n + 1) : Seen'[k] = a[k]
    <2>1. ASSUME NEW k \in 1..n PROVE Seen'[k] = a[k]
      BY <2>1, <1>2, <1>3, <1>4, <1>5
    <2>2. Seen'[n + 1] = a[n + 1]
      <3>1. n + 1 \in 1..Len(disk') /\ Replay(disk'[n + 1]) = m
        BY <1>2, <1>4 DEF m
      <3> HIDE DEF a
      <3> QED BY <1>3, <1>5, <3>1
    <2> QED BY <1>2, <2>1, <2>2
  <1> HIDE DEF a
  <1>7. Seen' = a
    BY <1>3, <1>4, <1>5, <1>6, SeqEqual
  <1> QED BY <1>2, <1>7 DEF a, m

LEMMA SeenShrinks ==
    ASSUME TypeOK, TypeOK', NEW f \in Files, disk' = <<f>>
    PROVE  Seen' = <<Replay(f)>>
  <1> DEFINE M == [Ids -> Versions \cup {None}]
  <1>1. Len(disk') = 1 /\ disk'[1] = f
    BY OneFileTyped
  <1>2. Seen' \in Seq(M) /\ Len(Seen') = 1 /\ Seen'[1] = Replay(f)
    <2>1. Seen' = SeenOf(disk') /\ disk' \in Seq(Files) \ {<<>>}
      BY DEF TypeOK, Seen
    <2>2. 1 \in 1..Len(disk')
      BY <1>1
    <2> QED BY <1>1, <2>1, <2>2, SeenTyped
  <1> HIDE DEF M
  <1> QED BY <1>2

LEMMA DurableWrite ==
    ASSUME LogInv, LogInv', "torn" \notin Faults, NEW t \in Threads, NEW id \in Ids,
           NEW v \in Versions, NEW d \in BOOLEAN, BeginWrite(t, id, v, d)
    PROVE  LET value == IF d THEN None ELSE v IN
           /\ Seen' = Append(Seen, [Seen[Len(Seen)] EXCEPT ![id] = value])
           /\ lastOp' = [lastOp EXCEPT ![id] = [version |-> value, confirmed |-> FALSE]]
           /\ value \in Versions \cup {None}
           /\ Replay(File')[id] = value
  <1> DEFINE r == Record(id, v, d)
             g == Write(File, r)
             n == Len(File)
  <1>1. TypeOK /\ TypeOK'
    BY DEF LogInv
  <1>2. ~Locked /\ Grow(g)
    BY DEF BeginWrite
  <1>3. /\ r \in RecordSet /\ File \in Files /\ g \in Files /\ n \in Nat
        /\ r.id = id /\ r.version = v /\ r.deleted = d
    BY <1>1, DiskTyped, FileTyped, RecordTyped, WriteTyped, RecordIsFragment DEF Record
  <1>4. Decodable(File) /\ ~OpenLine(File)
    BY <1>1, <1>2, DiskTyped DEF LogInv, Decoded, ClosedAtRest, Whole
  <1> HIDE DEF r
  <1>5. n \notin Read(File) /\ n \in Read(g) /\ RecordAt(g, n) = r /\ SameBefore(File, g, n)
    BY <1>3, <1>4, WriteOnClosed
  <1> HIDE DEF g, n
  <1>6. Replay(g) = [Replay(File) EXCEPT ![id] = IF d THEN None ELSE v]
    BY <1>3, <1>5, ReplayNext
  <1>7. (IF d THEN None ELSE v) \in Versions \cup {None}
    OBVIOUS
  <1>8. File' = g /\ Replay(File) \in [Ids -> Versions \cup {None}]
    BY <1>1, <1>2, <1>3, GrowTyped, ReplayTyped
  <1>9. Seen' = Append(Seen, [Seen[Len(Seen)] EXCEPT ![id] = IF d THEN None ELSE v])
    BY <1>1, <1>2, <1>3, <1>6, <1>7, SeenGrows
  <1> QED BY <1>6, <1>7, <1>8, <1>9 DEF BeginWrite

\* The two ways an operation begins.
LEMMA DurableSave ==
    ASSUME LogInv, LogInv', "torn" \notin Faults, NEW t \in Threads, NEW id \in Ids,
           Save(t, id)
    PROVE  \E v \in Versions \cup {None} :
              /\ Seen' = Append(Seen, [Seen[Len(Seen)] EXCEPT ![id] = v])
              /\ lastOp' = [lastOp EXCEPT ![id] = [version |-> v, confirmed |-> FALSE]]
              /\ Replay(File')[id] = v
              /\ ~Locked /\ thread'[t].id = id
              /\ \A u \in Threads : u # t => thread'[u] = thread[u]
  <1>1. nextVersion \in Versions /\ BeginWrite(t, id, nextVersion, FALSE)
    BY DEF Save
  <1>2. /\ ~Locked /\ thread'[t].id = id
        /\ \A u \in Threads : u # t => thread'[u] = thread[u]
    BY <1>1 DEF BeginWrite, LogInv, TypeOK
  <1> QED BY <1>1, <1>2, DurableWrite

LEMMA DurableTombstone ==
    ASSUME LogInv, LogInv', "torn" \notin Faults, NEW t \in Threads, Tombstone(t)
    PROVE  \E id \in Ids, v \in Versions \cup {None} :
              /\ Seen' = Append(Seen, [Seen[Len(Seen)] EXCEPT ![id] = v])
              /\ lastOp' = [lastOp EXCEPT ![id] = [version |-> v, confirmed |-> FALSE]]
              /\ Replay(File')[id] = v
              /\ ~Locked /\ thread'[t].id = id
              /\ \A u \in Threads : u # t => thread'[u] = thread[u]
  <1> DEFINE id == thread[t].id
  <1>1. thread[t].pc = "delete" /\ BeginWrite(t, id, thread[t].version, TRUE)
    BY DEF Tombstone
  <1>2. id \in Ids /\ thread[t].version \in Versions
    BY <1>1, ThreadTyped DEF Operations, LogInv
  <1>3. /\ ~Locked /\ thread'[t].id = id
        /\ \A u \in Threads : u # t => thread'[u] = thread[u]
    BY <1>1 DEF BeginWrite, LogInv, TypeOK
  <1> HIDE DEF id
  <1>4. /\ Seen' = Append(Seen, [Seen[Len(Seen)] EXCEPT ![id] = None])
        /\ lastOp' = [lastOp EXCEPT ![id] = [version |-> None, confirmed |-> FALSE]]
        /\ Replay(File')[id] = None
    BY <1>1, <1>2, DurableWrite
  <1> QED BY <1>2, <1>3, <1>4

\* A line feed changes nothing a reader finds.
LEMMA EndLineReplays ==
    ASSUME LogInv, "torn" \notin Faults, NEW t \in Threads, EndLine(t)
    PROVE  /\ LineFeed(File) \in Files /\ Grow(LineFeed(File)) /\ File' = LineFeed(File)
           /\ Replay(LineFeed(File)) = Replay(File)
           /\ Replay(File) \in [Ids -> Versions \cup {None}]
  <1> DEFINE g == LineFeed(File)
  <1>1. TypeOK /\ File \in Files /\ Grow(g) /\ Decodable(File)
    BY DiskTyped DEF LogInv, Decoded, Whole, EndLine
  <1>2. g \in Files /\ Read(g) = Read(File) /\ \A i \in Read(File) : RecordAt(g, i) = RecordAt(File, i)
    BY <1>1, LineFeedTyped, LineFeedKeeps
  <1>3. Replay(g) = Replay(File) /\ Replay(File) \in [Ids -> Versions \cup {None}]
    BY <1>1, <1>2, ReplaySame, ReplayTyped
  <1> HIDE DEF g
  <1>4. File' = g
    BY <1>1, <1>2, GrowTyped
  <1> QED BY <1>1, <1>2, <1>3, <1>4 DEF g

\* What the holder of the lock has written is what a reader of the file finds:
\* when save_task returns, its record is there.
Visible ==
    \A t \in Threads : HasLock(t) =>
        lastOp[thread[t].id].version = Replay(File)[thread[t].id]

LEMMA StepVisible ==
    ASSUME "torn" \notin Faults, LogInv, LogInv', Visible, [Next]_vars
    PROVE  Visible'
  <1>1. TypeOK /\ OneWriter
    BY DEF LogInv
  <1>2. ASSUME NEW t \in Threads, NEW id \in Ids, NEW v \in Versions \cup {None},
               /\ lastOp' = [lastOp EXCEPT ![id] = [version |-> v, confirmed |-> FALSE]]
               /\ Replay(File')[id] = v
               /\ ~Locked /\ thread'[t].id = id
               /\ \A u \in Threads : u # t => thread'[u] = thread[u]
        PROVE  Visible'
    <2>1. \A u \in Threads : u # t => ~HasLock(u)'
      BY <1>2 DEF Locked, HasLock
    <2>2. lastOp'[id].version = v
      BY <1>1, <1>2 DEF TypeOK
    <2> QED BY <1>2, <2>1, <2>2 DEF Visible
  <1>3. ASSUME NEW t \in Threads, NEW id \in Ids, Save(t, id) PROVE Visible'
    <2>1. PICK v \in Versions \cup {None} :
              /\ lastOp' = [lastOp EXCEPT ![id] = [version |-> v, confirmed |-> FALSE]]
              /\ Replay(File')[id] = v
              /\ ~Locked /\ thread'[t].id = id
              /\ \A u \in Threads : u # t => thread'[u] = thread[u]
      BY <1>3, DurableSave
    <2> QED BY <1>2, <2>1
  <1>4. ASSUME NEW t \in Threads, Tombstone(t) PROVE Visible'
    <2>1. PICK id \in Ids, v \in Versions \cup {None} :
              /\ lastOp' = [lastOp EXCEPT ![id] = [version |-> v, confirmed |-> FALSE]]
              /\ Replay(File')[id] = v
              /\ ~Locked /\ thread'[t].id = id
              /\ \A u \in Threads : u # t => thread'[u] = thread[u]
      BY <1>4, DurableTombstone
    <2> QED BY <1>2, <2>1
  <1>5. ASSUME NEW t \in Threads, EndLine(t) PROVE Visible'
    <2>1. Replay(File') = Replay(File)
      BY <1>5, EndLineReplays
    <2>2. /\ HasLock(t) /\ lastOp' = lastOp /\ thread'[t].id = thread[t].id
          /\ \A u \in Threads : u # t => thread'[u] = thread[u]
      BY <1>1, <1>5 DEF EndLine, HasLock, TypeOK
    <2>3. \A u \in Threads : HasLock(u)' => HasLock(u) /\ thread'[u].id = thread[u].id
      BY <2>2 DEF HasLock
    <2> QED BY <2>1, <2>2, <2>3 DEF Visible
  <1>6. ASSUME NEW t \in Threads,
               \/ Finish(t) \/ LineFeedFails(t) \/ SyncFails(t) \/ WriteFails(t)
        PROVE  Visible'
    <2>1. (HasLock(t) \/ ~Locked) /\ thread' = [thread EXCEPT ![t] = Resting]
      BY <1>6 DEF Finish, Return, LineFeedFails, SyncFails, WriteFails, HasLock
    <2> QED BY <1>1, <2>1, LetGo DEF Visible
  <1>7. ASSUME Compact \/ CompactFails PROVE Visible'
    <2>1. ~Locked /\ thread' = thread
      BY <1>7 DEF Compact, CompactFails
    <2>2. \A u \in Threads : ~HasLock(u)'
      BY <2>1 DEF Locked, HasLock
    <2> QED BY <2>2 DEF Visible
  <1>8. ASSUME Kill \/ PowerFails PROVE Visible'
    <2>1. thread' = [u \in Threads |-> Resting]
      BY <1>8 DEF Kill, PowerFails, Reopen
    <2>2. \A u \in Threads : ~HasLock(u)'
      BY <2>1 DEF HasLock, Resting
    <2> QED BY <2>2 DEF Visible
  <1>9. ASSUME NEW t \in Threads, NEW id \in Ids, LookUp(t, id) PROVE Visible'
    <2>1. /\ thread'[t].pc = "delete" /\ UNCHANGED <<disk, lastOp>>
          /\ \A u \in Threads : u # t => thread'[u] = thread[u]
      BY <1>1, <1>9 DEF LookUp, TypeOK
    <2>2. \A u \in Threads : HasLock(u)' => HasLock(u) /\ thread'[u] = thread[u]
      BY <2>1 DEF HasLock
    <2> QED BY <2>1, <2>2 DEF Visible, File
  <1>10. CASE StartCompaction \/ UNCHANGED vars
    <2>1. UNCHANGED <<disk, lastOp, thread>>
      BY <1>10 DEF StartCompaction, vars
    <2> QED BY <2>1 DEF Visible, HasLock, File
  <1> QED BY <1>3, <1>4, <1>5, <1>6, <1>7, <1>8, <1>9, <1>10 DEF Next

LEMMA InitVisible == Init => Visible
  <1> SUFFICES ASSUME Init, NEW t \in Threads PROVE ~HasLock(t)
    BY DEF Visible
  <1> QED BY DEF Init, HasLock, Resting

LEMMA DurableInit == Init => Durable!Init
  <1> SUFFICES ASSUME Init PROVE Seen = <<[id \in Ids |-> None]>>
    BY DEF Durable!Init, Seen, SeenOf, Init
  <1>1. TypeOK /\ Len(disk) = 1 /\ disk[1] = Empty
    BY InitLogInv DEF LogInv, Init
  <1>2. Read(Empty) = {}
    BY DEF Read, Empty, Parsable
  <1>3. Replay(Empty) = [id \in Ids |-> None]
    BY <1>2 DEF Replay, Surviving
  <1>4. Len(Seen) = 1 /\ Seen[1] = [id \in Ids |-> None]
    BY <1>1, <1>3, SeenTyped DEF TypeOK, Seen
  <1>5. Seen \in Seq([Ids -> Versions \cup {None}])
    BY <1>1, SeenTyped DEF TypeOK, Seen
  <1> QED BY <1>4, <1>5

\* The steps of DurableMap, as steps of the store.
Begins ==
    \E id \in Ids, v \in Versions \cup {None} :
        /\ Seen' = Append(Seen, [Seen[Len(Seen)] EXCEPT ![id] = v])
        /\ lastOp' = [lastOp EXCEPT ![id] = [version |-> v, confirmed |-> FALSE]]
Answers ==
    \E id \in Ids :
        /\ lastOp[id].version = Seen[Len(Seen)][id]
        /\ Seen' = <<Seen[Len(Seen)]>>
        /\ lastOp' = [lastOp EXCEPT ![id].confirmed = TRUE]
Touches == Seen' = Append(Seen, Seen[Len(Seen)]) /\ lastOp' = lastOp
Settles == \E k \in 1..Len(Seen) : Seen' = <<Seen[k]>> /\ lastOp' = lastOp

LEMMA DurableStep ==
    ASSUME "torn" \notin Faults, "clock" \notin Faults, LogInv, LogInv', Visible, [Next]_vars
    PROVE  Begins \/ Answers \/ Touches \/ Settles \/ (Seen' = Seen /\ lastOp' = lastOp)
  <1>1. TypeOK /\ TypeOK' /\ LineOfLock
    BY DEF LogInv
  <1>2. /\ File \in Files /\ Len(Seen) = Len(disk) /\ Len(disk) \in Nat \ {0}
        /\ \A k \in 1..Len(disk) : Seen[k] = Replay(disk[k]) /\ disk[k] \in Files
        /\ Seen[Len(Seen)] = Replay(File) /\ Len(Seen) \in 1..Len(Seen)
    <2>1. /\ File \in Files /\ File = disk[Len(disk)] /\ Len(disk) \in Nat \ {0}
          /\ \A k \in 1..Len(disk) : disk[k] \in Files
      BY <1>1, DiskTyped
    <2>2. Len(Seen) = Len(disk) /\ \A k \in 1..Len(disk) : Seen[k] = Replay(disk[k])
      BY <1>1, <2>1, SeenTyped DEF TypeOK, Seen
    <2>3. Len(disk) \in 1..Len(disk) BY <2>1
    <2> QED BY <2>1, <2>2, <2>3
  <1>3. ASSUME NEW t \in Threads, NEW id \in Ids, Save(t, id) PROVE Begins
    <2>1. PICK v \in Versions \cup {None} :
              /\ Seen' = Append(Seen, [Seen[Len(Seen)] EXCEPT ![id] = v])
              /\ lastOp' = [lastOp EXCEPT ![id] = [version |-> v, confirmed |-> FALSE]]
      BY <1>3, DurableSave
    <2> QED BY <2>1 DEF Begins
  <1>4. ASSUME NEW t \in Threads, Tombstone(t) PROVE Begins
    BY <1>4, DurableTombstone DEF Begins
  <1>5. ASSUME NEW t \in Threads, EndLine(t) PROVE Touches
    <2> DEFINE g == LineFeed(File)
               id == thread[t].id
    <2>1. thread[t].pc = "written" /\ Grow(g) /\ lastOp' = lastOp
      BY <1>5 DEF EndLine
    <2>2. id \in Ids
      BY <1>1, <2>1, ThreadTyped DEF Operations
    <2>3. g \in Files /\ Replay(g) = Replay(File) /\ Replay(File) \in [Ids -> Versions \cup {None}]
      BY <1>5, EndLineReplays
    <2> HIDE DEF g, id
    <2>4. Replay(File) = [Replay(File) EXCEPT ![id] = Replay(File)[id]]
      BY <2>2, <2>3
    <2>5. Replay(File)[id] \in Versions \cup {None}
      BY <2>2, <2>3
    <2>6. Seen' = Append(Seen, [Seen[Len(Seen)] EXCEPT ![id] = Replay(File)[id]])
      BY <1>1, <2>1, <2>2, <2>3, <2>4, <2>5, SeenGrows
    <2>7. [Seen[Len(Seen)] EXCEPT ![id] = Replay(File)[id]] = Seen[Len(Seen)]
      BY <1>2, <2>4
    <2> QED BY <2>1, <2>6, <2>7 DEF Touches
  <1>6. ASSUME NEW t \in Threads, Finish(t) PROVE Answers
    <2> DEFINE id == thread[t].id
    <2>1. /\ disk' = <<File>> /\ HasLock(t)
          /\ lastOp' = [lastOp EXCEPT ![id].confirmed = TRUE]
      BY <1>6 DEF Finish, Return, HasLock
    <2>2. id \in Ids
      BY <1>1, <1>6, ThreadTyped DEF Operations, Finish, Return
    <2>3. lastOp[id].version = Replay(File)[id]
      BY <2>1 DEF Visible
    <2> HIDE DEF id
    <2>4. Seen' = <<Replay(File)>>
      BY <1>1, <1>2, <2>1, SeenShrinks
    <2> QED BY <1>2, <2>1, <2>2, <2>3, <2>4 DEF Answers
  <1>7. ASSUME Compact PROVE Settles
    <2>1. PICK map \in [Ids -> Versions \cup {None}] :
              /\ \A id \in Ids : map[id] \in Keep(File, id)
              /\ disk' = <<Rewritten(map)>>
      BY <1>7 DEF Compact
    <2>2. map = Replay(File)
      <3>1. ASSUME NEW id \in Ids PROVE map[id] = Replay(File)[id]
        BY <2>1 DEF Keep, Replay
      <3> QED BY <3>1 DEF Replay
    <2>3. Rewritten(map) \in Files /\ Replay(Rewritten(map)) = map
      BY RewrittenFile
    <2>4. Seen' = <<Replay(File)>>
      BY <1>1, <2>1, <2>2, <2>3, SeenShrinks
    <2>5. lastOp' = lastOp
      BY <1>7 DEF Compact
    <2> QED BY <1>2, <2>4, <2>5 DEF Settles
  <1>8. ASSUME PowerFails PROVE Settles
    <2>1. PICK k \in 1..Len(disk), file \in Files :
              /\ \/ file = disk[k]
                 \/ /\ k < Len(disk)
                    /\ \E kind \in {"piece"} \cup (Faults \cap {"utf8"}) :
                          file = Write(disk[k], Fragment(kind))
              /\ OpenLine(file) => "torn" \in Faults
              /\ Reopen(<<file>>)
      BY <1>8, PowerFailsTo
    <2>2. file = disk[k]
      <3>1. SUFFICES ASSUME NEW kind \in {"piece"} \cup (Faults \cap {"utf8"}),
                            file = Write(disk[k], Fragment(kind))
                     PROVE  FALSE
        BY <2>1
      <3>2. OpenLine(file)
        BY <3>1, <1>2, WriteOpens, RecordIsFragment
      <3> QED BY <3>2, <2>1
    <2>3. disk' = <<file>> /\ lastOp' = lastOp
      BY <2>1 DEF Reopen
    <2>4. Seen' = <<Replay(file)>>
      BY <1>1, <2>3, SeenShrinks
    <2> QED BY <1>2, <2>2, <2>3, <2>4 DEF Settles
  <1>9. CASE UNCHANGED <<disk, lastOp>>
    BY <1>9 DEF Seen, SeenOf
  <1>10. ASSUME NEW t \in Threads, NEW id \in Ids, LookUp(t, id)
         PROVE  UNCHANGED <<disk, lastOp>>
    BY <1>10 DEF LookUp
  <1>11. ASSUME NEW t \in Threads, WriteFails(t) \/ LineFeedFails(t) \/ SyncFails(t)
         PROVE  UNCHANGED <<disk, lastOp>>
    BY <1>11 DEF WriteFails, LineFeedFails, SyncFails
  <1>12. CASE StartCompaction \/ CompactFails \/ Kill \/ UNCHANGED vars
    <2>1. UNCHANGED <<disk, lastOp>>
      BY <1>12 DEF StartCompaction, CompactFails, Kill, Reopen, vars
    <2> QED BY <2>1, <1>9
  <1> QED BY <1>3, <1>4, <1>5, <1>6, <1>7, <1>8, <1>9, <1>10, <1>11, <1>12 DEF Next

\* Where stops leave whole lines and the clock moves while compaction parses,
\* the log is a durable map: an operation shows at its first write and is
\* answered only when every content a crash could leave has it; line feeds,
\* compaction and reopening change nothing, and a crash falls back over
\* unanswered operations only.
THEOREM ImplementsDurableMapCorrect ==
    ASSUME "torn" \notin Faults, "clock" \notin Faults
    PROVE  Spec => ImplementsDurableMap
  <1>1. LogInv /\ LogInv' /\ Visible /\ [Next]_vars
            => [Durable!Next]_<<[i \in 1..Len(disk) |-> Replay(disk[i])], lastOp>>
    <2> SUFFICES ASSUME LogInv, LogInv', Visible, [Next]_vars
                 PROVE  \/ Durable!Next
                        \/ UNCHANGED <<[i \in 1..Len(disk) |-> Replay(disk[i])], lastOp>>
      OBVIOUS
    <2> USE DEF Seen, SeenOf
    <2>1. CASE Begins
      BY <2>1 DEF Begins, Durable!Next, Durable!Write, Durable!Current, Durable!Values
    <2>2. CASE Answers
      BY <2>2 DEF Answers, Durable!Next, Durable!Confirm, Durable!Current
    <2>3. CASE Touches
      BY <2>3 DEF Touches, Durable!Next, Durable!Touch, Durable!Current
    <2>4. CASE Settles
      BY <2>4 DEF Settles, Durable!Next, Durable!Settle
    <2>5. CASE Seen' = Seen /\ lastOp' = lastOp
      BY <2>5
    <2> QED BY <2>1, <2>2, <2>3, <2>4, <2>5, DurableStep
  <1>2. LogInv /\ LogInv' /\ Visible /\ [Next]_vars => Visible'
    BY StepVisible
  <1> QED BY <1>1, <1>2, DurableInit, InitVisible, LogInvCorrect, PTL
          DEF Spec, ImplementsDurableMap, Durable!Spec

LEMMA PromiseStep ==
    ASSUME TypeOK, TypeOK', Durable!Promise,
           Begins \/ Answers \/ Touches \/ Settles \/ (Seen' = Seen /\ lastOp' = lastOp)
    PROVE  Durable!Promise'
  <1> DEFINE M == [Ids -> Versions \cup {None}]
             n == Len(Seen)
  <1>1. /\ Seen \in Seq(M) /\ n \in Nat \ {0} /\ Seen[n] \in M
        /\ lastOp \in [Ids -> [version: Versions \cup {None}, confirmed: BOOLEAN]]
    <2>1. Seen \in Seq(M) /\ n \in Nat \ {0}
      BY SeenTyped DEF TypeOK, Seen
    <2> QED BY <2>1 DEF TypeOK
  <1>2. \A id \in Ids : lastOp[id].confirmed =>
            \A k \in 1..n : Seen[k][id] = lastOp[id].version
    BY DEF Durable!Promise, Seen, SeenOf
  <1>3. SUFFICES ASSUME NEW id \in Ids, lastOp'[id].confirmed, NEW k \in 1..Len(Seen')
                 PROVE  Seen'[k][id] = lastOp'[id].version
    BY DEF Durable!Promise, Seen, SeenOf
  <1> HIDE DEF M, n
  <1>4. CASE Begins
    <2>1. PICK x \in Ids, v \in Versions \cup {None} :
              /\ Seen' = Append(Seen, [Seen[n] EXCEPT ![x] = v])
              /\ lastOp' = [lastOp EXCEPT ![x] = [version |-> v, confirmed |-> FALSE]]
      BY <1>4 DEF Begins, n
    <2>2. x # id /\ lastOp'[id] = lastOp[id]
      BY <1>1, <1>3, <2>1
    <2>3. [Seen[n] EXCEPT ![x] = v] \in M /\ [Seen[n] EXCEPT ![x] = v][id] = Seen[n][id]
      BY <1>1, <2>2 DEF M
    <2>4. (Seen'[k] = Seen[k] /\ k \in 1..n) \/ Seen'[k][id] = Seen[n][id]
      BY <1>1, <1>3, <2>1, <2>3 DEF n
    <2> QED BY <1>1, <1>2, <1>3, <2>2, <2>4
  <1>5. CASE Answers
    <2>1. PICK x \in Ids :
              /\ lastOp[x].version = Seen[n][x] /\ Seen' = <<Seen[n]>>
              /\ lastOp' = [lastOp EXCEPT ![x].confirmed = TRUE]
      BY <1>5 DEF Answers, n
    <2>2. Seen'[k] = Seen[n] /\ lastOp'[id].version = lastOp[id].version
      BY <1>1, <1>3, <2>1
    <2>3. CASE x = id
      BY <2>1, <2>2, <2>3
    <2>4. CASE x # id
      BY <1>1, <1>2, <1>3, <2>1, <2>2, <2>4
    <2> QED BY <2>3, <2>4
  <1>6. CASE Touches
    BY <1>1, <1>2, <1>3, <1>6 DEF Touches, n
  <1>7. CASE Settles
    BY <1>1, <1>2, <1>3, <1>7 DEF Settles, n
  <1>8. CASE Seen' = Seen /\ lastOp' = lastOp
    BY <1>2, <1>3, <1>8 DEF n
  <1> QED BY <1>4, <1>5, <1>6, <1>7, <1>8

\* Under the same hypotheses nothing that save_task or delete_task answered with
\* success is ever undone: every content a crash could leave has it, and a
\* reader of the file finds it.
THEOREM ConfirmedSurvivesCorrect ==
    ASSUME "torn" \notin Faults, "clock" \notin Faults
    PROVE  Spec => [](Durable!Promise /\ ConfirmedSurvives)
  <1>1. Init => LogInv /\ Visible /\ Durable!Promise
    <2>1. Init => \A id \in Ids : ~lastOp[id].confirmed
      BY DEF Init
    <2> QED BY <2>1, InitLogInv, InitVisible DEF Durable!Promise
  <1>2. LogInv /\ LogInv' /\ Visible /\ Durable!Promise /\ [Next]_vars
            => Visible' /\ Durable!Promise'
    BY StepVisible, DurableStep, PromiseStep DEF LogInv
  <1>3. LogInv /\ Durable!Promise => ConfirmedSurvives
    <2> SUFFICES ASSUME LogInv, Durable!Promise, NEW id \in Ids, lastOp[id].confirmed
                 PROVE  lastOp[id].version = Replay(File)[id]
      BY DEF ConfirmedSurvives, Damaged
    <2>1. /\ Len(Seen) \in Nat \ {0} /\ Seen[Len(Seen)] = Replay(File)
      BY SeenTyped DEF LogInv, TypeOK, Seen, File
    <2>2. Seen[Len(Seen)][id] = lastOp[id].version
      BY <2>1 DEF Durable!Promise, Seen, SeenOf
    <2> QED BY <2>1, <2>2
  <1> QED BY <1>1, <1>2, <1>3, LogInvCorrect, PTL DEF Spec

=============================================================================
