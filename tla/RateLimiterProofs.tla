------------------------- MODULE RateLimiterProofs --------------------------
(***************************************************************************)
(* Machine-checked facts about the rate limiter, for every set of groups,  *)
(* limit and length of the window, and any number of lost writes.          *)
(***************************************************************************)
EXTENDS RateLimiter, SetInduction, TLAPS

-----------------------------------------------------------------------------
(* Histories and their sums.                                               *)

Ages == 0..(Window - 1)
Histories == [Ages -> Nat]

\* s is the sum of a history up to age m.
SumsUpTo(s, history, m) ==
    /\ s \in [0..Window -> Nat]
    /\ s[0] = 0
    /\ \A n \in 1..m : s[n] = s[n - 1] + history[n - 1]

LEMMA SumsExist ==
    ASSUME NEW h \in Histories
    PROVE  \E s : SumsUpTo(s, h, Window)
  <1> USE LimitAssumption
  <1> DEFINE S == {m \in 0..Window : \E s : SumsUpTo(s, h, m)}
  <1>1. 0 \in S
    <2>1. SumsUpTo([n \in 0..Window |-> 0], h, 0)
      BY DEF SumsUpTo
    <2> QED BY <2>1
  <1>2. ASSUME NEW m \in 0..(Window - 1), m \in S PROVE m + 1 \in S
    <2>1. PICK s : SumsUpTo(s, h, m)
      BY <1>2
    <2> DEFINE r == [s EXCEPT ![m + 1] = s[m] + h[m]]
    <2>2. h[m] \in Nat /\ s[m] \in Nat /\ s \in [0..Window -> Nat]
      BY <2>1 DEF SumsUpTo, Histories, Ages
    <2>3. r \in [0..Window -> Nat] /\ r[0] = 0
      BY <2>1, <2>2 DEF SumsUpTo
    <2>4. ASSUME NEW n \in 1..(m + 1) PROVE r[n] = r[n - 1] + h[n - 1]
      <3>1. CASE n = m + 1
        BY <3>1, <2>1, <2>2 DEF SumsUpTo
      <3>2. CASE n # m + 1
        BY <3>2, <2>1, <2>2 DEF SumsUpTo
      <3> QED BY <3>1, <3>2
    <2>5. SumsUpTo(r, h, m + 1)
      BY <2>3, <2>4 DEF SumsUpTo
    <2> QED BY <2>5
  <1>3. 0..Window \subseteq S
    <2> HIDE DEF S
    <2> QED BY <1>1, <1>2, InductionUpTo
  <1> QED BY <1>3

\* Younger is that sum.
LEMMA YoungerSums ==
    ASSUME NEW h \in Histories
    PROVE  /\ Younger(h) \in [0..Window -> Nat]
           /\ Younger(h)[0] = 0
           /\ \A n \in 1..Window : Younger(h)[n] = Younger(h)[n - 1] + h[n - 1]
  <1> USE LimitAssumption
  <1> DEFINE Body(s) == [n \in 0..Window |-> IF n = 0 THEN 0 ELSE s[n - 1] + h[n - 1]]
  <1>1. PICK s : SumsUpTo(s, h, Window)
    BY SumsExist
  <1>2. s = Body(s)
    BY <1>1 DEF SumsUpTo
  <1>3. Younger(h) = CHOOSE t : t = Body(t)
    BY DEF Younger
  <1>4. Younger(h) = Body(Younger(h))
    <2> HIDE DEF Body
    <2> QED BY <1>2, <1>3
  <1> DEFINE y == Younger(h)
  <1> HIDE DEF y
  <1>5. y = Body(y)
    BY <1>4 DEF y
  <1>6. y[0] = 0 /\ \A n \in 1..Window : y[n] = y[n - 1] + h[n - 1]
    BY <1>5
  <1>7. DOMAIN y = 0..Window /\ y = [n \in 0..Window |-> y[n]]
    BY <1>5
  <1> DEFINE S == {n \in 0..Window : y[n] \in Nat}
  <1>8. 0 \in S /\ \A n \in 0..(Window - 1) : n \in S => n + 1 \in S
    BY <1>6 DEF Histories, Ages
  <1>9. 0..Window \subseteq S
    <2> HIDE DEF S
    <2> QED BY <1>8, InductionUpTo
  <1>10. y \in [0..Window -> Nat]
    BY <1>7, <1>9
  <1> QED BY <1>6, <1>10 DEF y

LEMMA YoungerOfOne ==
    ASSUME NEW h \in Histories
    PROVE  Younger(h)[1] = h[0]
  <1> USE LimitAssumption
  <1>1. /\ Younger(h)[0] = 0
        /\ \A n \in 1..Window : Younger(h)[n] = Younger(h)[n - 1] + h[n - 1]
    BY YoungerSums
  <1>2. Younger(h)[1] = Younger(h)[1 - 1] + h[1 - 1]
    BY <1>1
  <1> QED BY <1>1, <1>2 DEF Histories, Ages

LEMMA YoungerGrows ==
    ASSUME NEW h \in Histories, NEW m \in 0..Window, NEW n \in m..Window
    PROVE  Younger(h)[m] <= Younger(h)[n]
  <1> USE LimitAssumption
  <1> DEFINE y == Younger(h)
             S == {k \in 0..Window : \A j \in 0..k : y[j] <= y[k]}
  <1> HIDE DEF y
  <1>1. /\ y \in [0..Window -> Nat]
        /\ \A k \in 1..Window : y[k] = y[k - 1] + h[k - 1]
    BY YoungerSums DEF y
  <1>2. 0 \in S
    BY <1>1
  <1>3. ASSUME NEW k \in 0..(Window - 1), k \in S PROVE k + 1 \in S
    <2>1. y[k] <= y[k + 1] /\ y[k] \in Nat /\ y[k + 1] \in Nat
      BY <1>1 DEF Histories, Ages
    <2>2. ASSUME NEW j \in 0..(k + 1) PROVE y[j] <= y[k + 1]
      BY <1>1, <1>3, <2>1
    <2> QED BY <2>2
  <1>4. n \in S
    <2> HIDE DEF S
    <2> QED BY <1>2, <1>3, InductionUpTo
  <1> QED BY <1>4 DEF y

\* A tick moves every call one age on.
Older(h) == [age \in Ages |-> IF age = 0 THEN 0 ELSE h[age - 1]]

LEMMA YoungerAfterTick ==
    ASSUME NEW h \in Histories
    PROVE  /\ Older(h) \in Histories
           /\ \A n \in 1..Window : Younger(Older(h))[n] = Younger(h)[n - 1]
  <1> USE LimitAssumption
  <1>1. Older(h) \in Histories
    BY DEF Older, Histories, Ages
  <1> DEFINE y == Younger(h)
             z == Younger(Older(h))
             S == {n \in 0..(Window - 1) : z[n + 1] = y[n]}
  <1> HIDE DEF y, z
  <1>2. /\ y \in [0..Window -> Nat] /\ y[0] = 0
        /\ \A k \in 1..Window : y[k] = y[k - 1] + h[k - 1]
    BY YoungerSums DEF y
  <1>3. /\ z \in [0..Window -> Nat] /\ z[0] = 0
        /\ \A k \in 1..Window : z[k] = z[k - 1] + Older(h)[k - 1]
    BY YoungerSums, <1>1 DEF z
  <1>4. 0 \in S
    BY <1>2, <1>3 DEF Older, Ages
  <1>5. ASSUME NEW n \in 0..(Window - 1 - 1), n \in S PROVE n + 1 \in S
    <2>1. z[n + 2] = z[n + 1] + Older(h)[n + 1] /\ y[n + 1] = y[n] + h[n]
      BY <1>2, <1>3
    <2>2. Older(h)[n + 1] = h[n]
      BY DEF Older, Ages
    <2> QED BY <1>5, <2>1, <2>2
  <1>6. 0..(Window - 1) \subseteq S
    <2> HIDE DEF S
    <2> QED BY <1>4, <1>5, InductionUpTo
  <1>7. ASSUME NEW n \in 1..Window PROVE z[n] = y[n - 1]
    <2>1. n - 1 \in S
      BY <1>6
    <2> QED BY <2>1
  <1> QED BY <1>1, <1>7 DEF y, z

\* A call counts at age 0.
Later(h) == [h EXCEPT ![0] = @ + 1]

LEMMA YoungerAfterCall ==
    ASSUME NEW h \in Histories
    PROVE  /\ Later(h) \in Histories
           /\ \A n \in 1..Window : Younger(Later(h))[n] = Younger(h)[n] + 1
  <1> USE LimitAssumption
  <1>1. Later(h) \in Histories
    BY DEF Later, Histories, Ages
  <1> DEFINE y == Younger(h)
             z == Younger(Later(h))
             S == {n \in 0..(Window - 1) : z[n + 1] = y[n + 1] + 1}
  <1> HIDE DEF y, z
  <1>2. /\ y \in [0..Window -> Nat] /\ y[0] = 0
        /\ \A k \in 1..Window : y[k] = y[k - 1] + h[k - 1]
    BY YoungerSums DEF y
  <1>3. /\ z \in [0..Window -> Nat] /\ z[0] = 0
        /\ \A k \in 1..Window : z[k] = z[k - 1] + Later(h)[k - 1]
    BY YoungerSums, <1>1 DEF z
  <1>4. Later(h)[0] = h[0] + 1 /\ \A n \in 1..(Window - 1) : Later(h)[n] = h[n]
    BY DEF Later, Histories, Ages
  <1>5. 0 \in S
    <2>1. z[1] = z[0] + Later(h)[0] /\ y[1] = y[0] + h[0] /\ h[0] \in Nat
      BY <1>2, <1>3 DEF Histories, Ages
    <2> QED BY <2>1, <1>2, <1>3, <1>4
  <1>6. ASSUME NEW n \in 0..(Window - 1 - 1), n \in S PROVE n + 1 \in S
    <2>1. z[n + 2] = z[n + 1] + Later(h)[n + 1] /\ y[n + 2] = y[n + 1] + h[n + 1]
      BY <1>2, <1>3
    <2>2. h[n + 1] \in Nat /\ y[n + 1] \in Nat
      BY <1>2 DEF Histories, Ages
    <2> QED BY <1>4, <1>6, <2>1, <2>2
  <1>7. 0..(Window - 1) \subseteq S
    <2> HIDE DEF S
    <2> QED BY <1>5, <1>6, InductionUpTo
  <1>8. ASSUME NEW n \in 1..Window PROVE z[n] = y[n] + 1
    <2>1. n - 1 \in S
      BY <1>7
    <2> QED BY <2>1
  <1> QED BY <1>1, <1>8 DEF y, z

-----------------------------------------------------------------------------
(* The inductive invariant.                                                *)

\* What the file says, or will say when the call under way has written it.
Known(g) == IF call = NoCall THEN file[g] ELSE call.limits[g]

\* The call under way is counted in Known, and not yet in recent.
Coming(g) == IF call # NoCall /\ call.allow /\ call.group = g THEN 1 ELSE 0
Booked(g) == (IF Known(g) = Unknown THEN 0 ELSE Known(g).count) - Coming(g)

\* The ages the window has been open for.
Reach(w) == IF w.age < Window THEN w.age + 1 ELSE Window

\* While a call has the file, the file is empty; an allowed call is counted in
\* a window that has not run out.
CallInOrder ==
    call # NoCall =>
        /\ file = Blank
        /\ call.allow => /\ call.group \in Groups
                         /\ call.limits[call.group] # Unknown
                         /\ call.limits[call.group].count > 0
                         /\ call.limits[call.group].age < Window

\* Since a window began, at most the calls it counts, and a window's worth for
\* each write that was lost.
SinceBegin(g) ==
    Known(g) # Unknown =>
        Younger(recent[g])[Reach(Known(g))] <= Booked(g) + lost * Limit

\* Where the file knows nothing, or a window that ran out, what is allowed now
\* is what lost windows allowed: nothing after a tick.
BeforeBegin(g) ==
    /\ Known(g) = Unknown => recent[g][0] <= lost * Limit
    /\ Known(g) # Unknown => (Known(g).age = Window => recent[g][0] = 0)

\* One window before this one reaches into the last Window.
OneBefore(g) == RollingCount(g) <= Booked(g) + Limit + lost * Limit

Counted == \A g \in Groups : SinceBegin(g) /\ BeforeBegin(g) /\ OneBefore(g)

IInv == TypeOK /\ CallInOrder /\ Counted

Windows == [count: 0..Limit, age: 0..Window]

LEMMA RecentTyped ==
    ASSUME TypeOK, NEW g \in Groups
    PROVE  /\ recent[g] \in Histories
           /\ Younger(recent[g]) \in [0..Window -> Nat]
           /\ RollingCount(g) = Younger(recent[g])[Window]
           /\ recent[g][0] \in Nat
           /\ lost * Limit \in Nat
  <1> USE LimitAssumption
  <1>1. recent[g] \in Histories
    BY DEF TypeOK, Histories, Ages
  <1>2. recent[g][0] \in Nat
    BY <1>1 DEF Histories, Ages
  <1>3. lost \in Nat /\ Limit \in Nat
    BY DEF TypeOK
  <1> QED BY <1>1, <1>2, <1>3, YoungerSums DEF RollingCount

LEMMA InitIInv == Init => IInv
  <1> SUFFICES ASSUME Init PROVE IInv OBVIOUS
  <1> USE LimitAssumption
  <1>1. TypeOK
    BY DEF Init, TypeOK, Limits, NoCall, Blank
  <1>2. CallInOrder
    BY DEF Init, CallInOrder
  <1>3. ASSUME NEW g \in Groups PROVE SinceBegin(g) /\ BeforeBegin(g) /\ OneBefore(g)
    <2> DEFINE y == Younger(recent[g])
               S == {n \in 0..Window : y[n] = 0}
    <2>1. Known(g) = Unknown /\ Coming(g) = 0 /\ Booked(g) = 0
      BY <1>3 DEF Init, Known, Blank, Coming, Booked
    <2>2. recent[g][0] = 0 /\ \A age \in Ages : recent[g][age] = 0
      BY <1>3 DEF Init, Ages
    <2> HIDE DEF y
    <2>3. 0 \in S
      BY <1>1, <1>3, RecentTyped, YoungerSums DEF y
    <2>4. ASSUME NEW n \in 0..(Window - 1), n \in S PROVE n + 1 \in S
      <3>1. y[n + 1] = y[n] + recent[g][n]
        BY <1>1, <1>3, RecentTyped, YoungerSums DEF y
      <3> QED BY <2>2, <2>4, <3>1 DEF Ages
    <2>5. 0..Window \subseteq S
      <3> HIDE DEF S
      <3> QED BY <2>3, <2>4, InductionUpTo
    <2>6. RollingCount(g) = 0
      BY <1>1, <1>3, <2>5, RecentTyped DEF y
    <2>7. lost * Limit \in Nat
      BY <1>1, <1>3, RecentTyped
    <2> QED BY <2>1, <2>2, <2>6, <2>7 DEF SinceBegin, BeforeBegin, OneBefore
  <1> QED BY <1>1, <1>2, <1>3 DEF IInv, Counted

LEMMA CheckIInv ==
    ASSUME IInv, NEW g \in Groups, NEW max \in 0..Limit, Check(g, max)
    PROVE  IInv'
  <1> USE LimitAssumption, UnknownAssumption
  <1> DEFINE w == Current(file[g])
             new == IF Admits(w, max) THEN [w EXCEPT !.count = @ + 1] ELSE w
  <1>1. TypeOK /\ CallInOrder /\ Counted
    BY DEF IInv
  <1>2. /\ call = NoCall
        /\ call' = [group |-> g, limits |-> [file EXCEPT ![g] = new], allow |-> Admits(w, max)]
        /\ file' = Blank /\ recent' = recent /\ lost' = lost
    BY DEF Check
  <1>3. file[g] \in {Unknown} \cup Windows
    BY <1>1 DEF TypeOK, Limits, Windows
  <1>4. w \in Windows /\ w.age < Window
    BY <1>3 DEF Current, Windows
  <1>5. /\ w = file[g] \/ w = [count |-> 0, age |-> 0]
        /\ w # file[g] => file[g] = Unknown \/ file[g].age = Window
    BY <1>3 DEF Current, Windows
  <1> DEFINE one == IF Admits(w, max) THEN 1 ELSE 0
  <1>6. /\ new \in Windows /\ new # Unknown
        /\ new.age = w.age /\ new.count = w.count + one
    BY <1>4 DEF Windows, Admits
  <1>7. Admits(w, max) \in BOOLEAN
    BY DEF Admits
  <1> HIDE DEF w, new
  <1>8. file \in Limits /\ [file EXCEPT ![g] = new] \in Limits /\ Blank \in Limits
    BY <1>1, <1>6 DEF TypeOK, Limits, Windows, Blank
  <1>9. TypeOK'
    BY <1>1, <1>2, <1>7, <1>8 DEF TypeOK
  <1>10. call' # NoCall
    <2>1. call'.limits[g] = new
      BY <1>2, <1>8 DEF Limits
    <2> QED BY <2>1, <1>6 DEF NoCall
  <1>11. CallInOrder'
    <2>1. call'.limits[g] = new /\ call'.group = g
      BY <1>2, <1>8 DEF Limits
    <2>2. call'.allow => Admits(w, max)
      BY <1>2
    <2> QED BY <2>1, <2>2, <1>2, <1>4, <1>6 DEF CallInOrder, Windows
  <1>12. ASSUME NEW k \in Groups
         PROVE  SinceBegin(k)' /\ BeforeBegin(k)' /\ OneBefore(k)'
    <2>1. Known(k) = file[k] /\ Coming(k) = 0
      BY <1>2 DEF Known, Coming
    <2>2. SinceBegin(k) /\ BeforeBegin(k) /\ OneBefore(k)
      BY <1>1 DEF Counted
    <2>3. RollingCount(k)' = RollingCount(k)
      BY <1>2 DEF RollingCount
    <2>4. CASE k # g
      <3>1. Known(k)' = file[k] /\ Coming(k)' = 0
        BY <1>2, <1>8, <1>10, <2>4 DEF Known, Coming, Limits
      <3>2. Booked(k)' = Booked(k)
        BY <2>1, <3>1 DEF Booked
      <3> QED BY <2>1, <2>2, <2>3, <3>1, <3>2, <1>2
              DEF SinceBegin, BeforeBegin, OneBefore, Reach
    <2>5. CASE k = g
      <3>1. Known(g)' = new
        BY <1>2, <1>8, <1>10 DEF Known, Limits
      <3>2. Coming(g)' = one
        BY <1>2, <1>10 DEF Coming
      <3>3. Booked(g)' = w.count
        BY <3>1, <3>2, <1>4, <1>6 DEF Booked, Windows
      <3>4. Reach(new) = Reach(w) /\ Reach(w) = w.age + 1 /\ Reach(w) \in 1..Window
        BY <1>4, <1>6 DEF Reach, Windows
      <3>5. /\ Younger(recent[g]) \in [0..Window -> Nat] /\ recent[g][0] \in Nat
            /\ RollingCount(g) = Younger(recent[g])[Window] /\ lost * Limit \in Nat
            /\ Younger(recent[g])[1] = recent[g][0]
        <4> QED BY <1>1, RecentTyped, YoungerOfOne
      <3>6. CASE w = file[g]
        <4>1. Booked(g) = w.count
          BY <3>6, <2>1, <2>5, <1>4, <1>6 DEF Booked, Windows
        <4>2. file[g] # Unknown
          BY <3>6, <1>4 DEF Windows
        <4> QED BY <3>1, <3>3, <3>4, <3>6, <4>1, <4>2, <2>1, <2>2, <2>3, <2>5, <1>2, <1>4, <1>6
                DEF SinceBegin, BeforeBegin, OneBefore
      <3>7. CASE w # file[g]
        <4>1. w.count = 0 /\ w.age = 0
          BY <3>7, <1>5
        <4>2. recent[g][0] <= lost * Limit
          BY <3>7, <1>5, <2>1, <2>2, <2>5, <3>5 DEF BeforeBegin
        <4>3. RollingCount(g) <= Limit + lost * Limit
          <5>1. CASE file[g] = Unknown
            BY <5>1, <2>1, <2>2, <2>5 DEF OneBefore, Booked
          <5>2. CASE file[g] # Unknown
            <6>1. file[g].age = Window /\ file[g].count \in 0..Limit
              BY <5>2, <3>7, <1>3, <1>5 DEF Windows
            <6>2. Reach(file[g]) = Window /\ Booked(g) = file[g].count
              BY <5>2, <6>1, <2>1, <2>5 DEF Reach, Booked
            <6> QED BY <5>2, <6>1, <6>2, <2>1, <2>2, <2>5, <3>5 DEF SinceBegin
          <5> QED BY <5>1, <5>2
        <4>4. SinceBegin(g)'
          BY <3>1, <3>3, <3>4, <3>5, <4>1, <4>2, <1>2 DEF SinceBegin
        <4>5. BeforeBegin(g)'
          BY <3>1, <1>4, <1>6 DEF BeforeBegin
        <4>6. OneBefore(g)'
          BY <3>3, <4>1, <4>3, <2>3, <2>5, <1>2, <3>5 DEF OneBefore
        <4> QED BY <4>4, <4>5, <4>6, <2>5
      <3> QED BY <3>6, <3>7
    <2> QED BY <2>4, <2>5
  <1> QED BY <1>9, <1>11, <1>12 DEF IInv, Counted

LEMMA AnswerIInv ==
    ASSUME IInv, Answer
    PROVE  IInv'
  <1> USE LimitAssumption, UnknownAssumption
  <1>1. TypeOK /\ CallInOrder /\ Counted
    BY DEF IInv
  <1>2. call # NoCall /\ file' = call.limits /\ call' = NoCall /\ lost' = lost
    BY DEF Answer
  <1>3. ASSUME call.allow
        PROVE  /\ call.group \in Groups
               /\ recent' = [recent EXCEPT ![call.group] = Later(recent[call.group])]
    <2>1. call.group \in Groups
      BY <1>1, <1>2, <1>3 DEF CallInOrder
    <2> QED BY <2>1, <1>3 DEF Answer, Later
  <1>4. ASSUME ~call.allow PROVE recent' = recent
    BY <1>4 DEF Answer
  <1>5. recent' \in [Groups -> [Ages -> Nat]]
    <2>1. CASE call.allow
      <3>1. Later(recent[call.group]) \in Histories
        BY <2>1, <1>1, <1>3, RecentTyped, YoungerAfterCall
      <3> QED BY <2>1, <3>1, <1>1, <1>3 DEF TypeOK, Ages, Histories
    <2>2. CASE ~call.allow
      BY <2>2, <1>1, <1>4 DEF TypeOK, Ages
    <2> QED BY <2>1, <2>2
  <1>6. TypeOK'
    <2>1. NoCall \in [group: Groups \cup {Unknown}, limits: Limits, allow: BOOLEAN]
      BY DEF NoCall, Limits
    <2> QED BY <2>1, <1>1, <1>2, <1>5 DEF TypeOK, Ages
  <1>7. CallInOrder'
    BY <1>2 DEF CallInOrder
  <1>8. ASSUME NEW k \in Groups
        PROVE  SinceBegin(k)' /\ BeforeBegin(k)' /\ OneBefore(k)'
    <2>1. Known(k)' = Known(k) /\ Coming(k)' = 0
      BY <1>2 DEF Known, Coming
    <2>2. SinceBegin(k) /\ BeforeBegin(k) /\ OneBefore(k)
      BY <1>1 DEF Counted
    <2>3. Known(k) \in {Unknown} \cup Windows
      BY <1>1, <1>2 DEF Known, TypeOK, Limits, Windows
    <2>4. CASE call.allow /\ call.group = k
      <3>1. recent[k]' = Later(recent[k])
        BY <2>4, <1>1, <1>3 DEF TypeOK
      <3>2. Coming(k) = 1 /\ Known(k) # Unknown /\ Known(k).age < Window
        BY <2>4, <1>1, <1>2 DEF Coming, CallInOrder, Known
      <3>3. Booked(k)' = Booked(k) + 1 /\ Booked(k) \in Int
        BY <2>1, <2>3, <3>2 DEF Booked, Windows
      <3>4. Reach(Known(k)) \in 1..Window
        BY <2>3, <3>2 DEF Reach, Windows
      <3> DEFINE y == Younger(recent[k])
                 z == Younger(Later(recent[k]))
      <3> HIDE DEF y, z
      <3>5. y \in [0..Window -> Nat] /\ \A n \in 1..Window : z[n] = y[n] + 1
        BY <1>1, RecentTyped, YoungerAfterCall DEF y, z
      <3>6. RollingCount(k)' = z[Window] /\ RollingCount(k) = y[Window]
        BY <3>1 DEF RollingCount, y, z
      <3>7. lost * Limit \in Nat
        BY <1>1, RecentTyped
      <3>8. SinceBegin(k)'
        <4>1. y[Reach(Known(k))] <= Booked(k) + lost * Limit
          BY <2>2, <3>2 DEF SinceBegin, y
        <4>2. z[Reach(Known(k))] <= Booked(k)' + lost * Limit
          BY <4>1, <3>3, <3>4, <3>5, <3>7
        <4>3. Reach(Known(k))' = Reach(Known(k))
          BY <2>1 DEF Reach
        <4> QED BY <4>2, <4>3, <3>1, <2>1, <1>2 DEF SinceBegin, z
      <3>9. BeforeBegin(k)'
        BY <2>1, <2>3, <3>2 DEF BeforeBegin, Windows
      <3>10. OneBefore(k)'
        BY <2>2, <3>3, <3>5, <3>6, <3>7, <1>2 DEF OneBefore
      <3> QED BY <3>8, <3>9, <3>10
    <2>5. CASE ~(call.allow /\ call.group = k)
      <3>1. recent[k]' = recent[k]
        BY <2>5, <1>1, <1>3, <1>4 DEF TypeOK
      <3>2. Coming(k) = 0
        BY <2>5 DEF Coming
      <3>3. Booked(k)' = Booked(k)
        BY <2>1, <3>2 DEF Booked
      <3> QED BY <2>1, <2>2, <3>1, <3>3, <1>2
              DEF SinceBegin, BeforeBegin, OneBefore, Reach, RollingCount
    <2> QED BY <2>4, <2>5
  <1> QED BY <1>6, <1>7, <1>8 DEF IInv, Counted

LEMMA LoseIInv ==
    ASSUME IInv, Lose
    PROVE  IInv'
  <1> USE LimitAssumption, UnknownAssumption
  <1>1. TypeOK /\ CallInOrder /\ Counted
    BY DEF IInv
  <1>2. /\ call # NoCall /\ call' = NoCall /\ lost' = lost + 1 /\ lost < MaxLost
        /\ file' = Blank /\ recent' = recent
    BY <1>1 DEF Lose, CallInOrder
  <1>3. TypeOK'
    <2>1. NoCall \in [group: Groups \cup {Unknown}, limits: Limits, allow: BOOLEAN]
      BY DEF NoCall, Limits
    <2>2. Blank \in Limits
      BY DEF Blank, Limits
    <2> QED BY <2>1, <2>2, <1>1, <1>2 DEF TypeOK
  <1>4. CallInOrder'
    BY <1>2 DEF CallInOrder
  <1>5. ASSUME NEW k \in Groups
        PROVE  SinceBegin(k)' /\ BeforeBegin(k)' /\ OneBefore(k)'
    <2>1. Known(k)' = Unknown /\ Booked(k)' = 0
      BY <1>2 DEF Known, Booked, Coming, Blank
    <2>2. SinceBegin(k) /\ BeforeBegin(k) /\ OneBefore(k)
      BY <1>1 DEF Counted
    <2>3. Known(k) \in {Unknown} \cup Windows /\ Coming(k) \in {0, 1}
      BY <1>1, <1>2 DEF Known, Coming, TypeOK, Limits, Windows
    <2>4. Booked(k) <= Limit /\ Booked(k) \in Int
      BY <2>3, <1>1, <1>2 DEF Booked, Windows, CallInOrder, Known, Coming
    <2>5. /\ recent[k] \in Histories
          /\ Younger(recent[k]) \in [0..Window -> Nat] /\ recent[k][0] \in Nat
          /\ lost * Limit \in Nat /\ RollingCount(k) = Younger(recent[k])[Window]
          /\ Younger(recent[k])[1] = recent[k][0]
      BY <1>1, RecentTyped, YoungerOfOne
    <2>6. lost' * Limit = lost * Limit + Limit
      BY <1>1, <1>2 DEF TypeOK
    <2>7. recent[k][0] <= Limit + lost * Limit
      <3>1. CASE Known(k) = Unknown
        BY <3>1, <2>2, <2>5 DEF BeforeBegin
      <3>2. CASE Known(k) # Unknown
        <4>1. Reach(Known(k)) \in 1..Window
          BY <3>2, <2>3 DEF Reach, Windows
        <4>2. Younger(recent[k])[1] <= Younger(recent[k])[Reach(Known(k))]
          BY <4>1, <2>5, YoungerGrows
        <4>3. Younger(recent[k])[Reach(Known(k))] <= Booked(k) + lost * Limit
          BY <3>2, <2>2 DEF SinceBegin
        <4> QED BY <4>1, <4>2, <4>3, <2>4, <2>5
      <3> QED BY <3>1, <3>2
    <2>8. RollingCount(k)' = RollingCount(k)
      BY <1>2 DEF RollingCount
    <2>9. OneBefore(k)'
      BY <2>1, <2>2, <2>4, <2>5, <2>6, <2>8 DEF OneBefore
    <2> QED BY <2>1, <2>5, <2>6, <2>7, <2>9, <1>2 DEF SinceBegin, BeforeBegin
  <1> QED BY <1>3, <1>4, <1>5 DEF IInv, Counted

LEMMA TickIInv ==
    ASSUME IInv, Tick
    PROVE  IInv'
  <1> USE LimitAssumption, UnknownAssumption
  <1>1. TypeOK /\ CallInOrder /\ Counted
    BY DEF IInv
  <1>2. /\ call = NoCall /\ call' = NoCall /\ lost' = lost
        /\ recent' = [g \in Groups |-> Older(recent[g])]
        /\ file' = [g \in Groups |->
              IF file[g] = Unknown \/ file[g].age >= Window THEN file[g]
              ELSE [file[g] EXCEPT !.age = @ + 1]]
    BY DEF Tick, Older, Ages
  <1>3. TypeOK'
    <2>1. file' \in Limits
      BY <1>1, <1>2 DEF TypeOK, Limits
    <2>2. recent' \in [Groups -> [Ages -> Nat]]
      BY <1>1, <1>2, RecentTyped, YoungerAfterTick DEF Histories
    <2> QED BY <2>1, <2>2, <1>1, <1>2 DEF TypeOK, Ages
  <1>4. CallInOrder'
    BY <1>2 DEF CallInOrder
  <1>5. ASSUME NEW k \in Groups
        PROVE  SinceBegin(k)' /\ BeforeBegin(k)' /\ OneBefore(k)'
    <2>1. Known(k) = file[k] /\ Known(k)' = file'[k] /\ Coming(k) = 0 /\ Coming(k)' = 0
      BY <1>2 DEF Known, Coming
    <2>2. SinceBegin(k) /\ BeforeBegin(k) /\ OneBefore(k)
      BY <1>1 DEF Counted
    <2>3. file[k] \in {Unknown} \cup Windows
      BY <1>1 DEF TypeOK, Limits, Windows
    <2> DEFINE y == Younger(recent[k])
               z == Younger(Older(recent[k]))
    <2> HIDE DEF y, z
    <2>4. /\ y \in [0..Window -> Nat]
          /\ \A n \in 1..Window : z[n] = y[n - 1]
          /\ y[Window - 1] <= y[Window]
      BY <1>1, RecentTyped, YoungerAfterTick, YoungerGrows DEF y, z
    <2>5. recent[k]' = Older(recent[k]) /\ recent[k]'[0] = 0
      BY <1>2 DEF Older, Ages
    <2>6. RollingCount(k) = y[Window] /\ RollingCount(k)' = z[Window]
      BY <2>5 DEF RollingCount, y, z
    <2>7. lost * Limit \in Nat
      BY <1>1, RecentTyped
    <2>8. z[Window] <= y[Window]
      BY <2>4
    <2>9. CASE file[k] = Unknown
      <3>1. file'[k] = Unknown /\ Booked(k) = 0 /\ Booked(k)' = 0
        BY <2>9, <2>1, <1>2 DEF Booked
      <3> QED BY <3>1, <2>1, <2>2, <2>4, <2>5, <2>6, <2>7, <2>8, <2>9, <1>2
              DEF SinceBegin, BeforeBegin, OneBefore
    <2>10. CASE file[k] # Unknown
      <3> DEFINE f == file[k]
                 q == file'[k]
      <3>1. q \in Windows /\ q # Unknown /\ q.count = f.count
            /\ q.age = (IF f.age < Window THEN f.age + 1 ELSE f.age)
        BY <2>3, <2>10, <1>2 DEF Windows
      <3>2. f \in Windows
        BY <2>3, <2>10
      <3>3. Booked(k) = f.count /\ Booked(k)' = f.count /\ f.count \in Nat
        BY <2>1, <2>10, <3>1, <3>2 DEF Booked, Windows
      <3>4. z[Reach(q)] <= y[Reach(f)]
        <4>1. CASE f.age + 2 <= Window
          <5>1. Reach(f) = f.age + 1 /\ Reach(q) = f.age + 2
            BY <4>1, <3>1, <3>2 DEF Reach, Windows
          <5>2. PICK age \in 0..Window : age = f.age /\ age + 2 <= Window
            BY <4>1, <3>2 DEF Windows
          <5>3. PICK n \in 1..Window : n = age + 2
            BY <5>2
          <5>4. z[n] = y[n - 1]
            BY <2>4
          <5>5. n - 1 = age + 1 /\ n - 1 \in 0..Window
            BY <5>3
          <5>6. y[n - 1] \in Nat
            BY <5>5, <2>4
          <5> QED BY <5>1, <5>2, <5>3, <5>4, <5>5, <5>6
        <4>2. CASE f.age + 2 > Window
          <5>1. Reach(f) = Window /\ Reach(q) = Window
            BY <4>2, <3>1, <3>2 DEF Reach, Windows
          <5> QED BY <5>1, <2>8
        <4> QED BY <4>1, <4>2, <3>2 DEF Windows
      <3>5. z[Reach(q)] \in Nat /\ y[Reach(f)] \in Nat
        <4>1. Reach(f) \in 1..Window /\ Reach(q) \in 1..Window
          BY <3>1, <3>2 DEF Reach, Windows
        <4> QED BY <4>1, <2>4
      <3>6. y[Reach(f)] <= f.count + lost * Limit
        BY <2>1, <2>2, <2>10, <3>3 DEF SinceBegin, y
      <3>7. SinceBegin(k)'
        <4>1. Reach(Known(k))' = Reach(q)
          BY <2>1 DEF Reach
        <4>2. Younger(recent[k])'[Reach(q)] = z[Reach(q)]
          BY <2>5 DEF z
        <4>3. z[Reach(q)] <= f.count + lost * Limit
          BY <3>3, <3>4, <3>5, <3>6, <2>7
        <4> QED BY <4>1, <4>2, <4>3, <3>3, <1>2 DEF SinceBegin
      <3>8. BeforeBegin(k)'
        BY <2>1, <2>5, <3>1 DEF BeforeBegin
      <3>9. OneBefore(k)'
        BY <2>2, <2>4, <2>6, <2>7, <2>8, <3>3, <1>2 DEF OneBefore
      <3> QED BY <3>7, <3>8, <3>9
    <2> QED BY <2>9, <2>10
  <1> QED BY <1>3, <1>4, <1>5 DEF IInv, Counted

LEMMA StepIInv == IInv /\ [Next]_vars => IInv'
  <1> SUFFICES ASSUME IInv, [Next]_vars PROVE IInv'
    OBVIOUS
  <1>1. ASSUME NEW g \in Groups, NEW max \in 0..Limit, Check(g, max) PROVE IInv'
    BY <1>1, CheckIInv
  <1>2. CASE Answer
    BY <1>2, AnswerIInv
  <1>3. CASE Lose
    BY <1>3, LoseIInv
  <1>4. CASE Tick
    BY <1>4, TickIInv
  <1>5. CASE UNCHANGED vars
    BY <1>5 DEF vars, IInv, TypeOK, CallInOrder, Counted, SinceBegin, BeforeBegin,
                OneBefore, Known, Coming, Booked, Reach, RollingCount
  <1> QED BY <1>1, <1>2, <1>3, <1>4, <1>5 DEF Next

LEMMA IInvCorrect == Spec => []IInv
  <1> QED BY InitIInv, StepIInv, PTL DEF Spec

-----------------------------------------------------------------------------
(* The theorems.                                                           *)

\* What the file says of a group, and what the call that holds the lock will
\* write, is well typed: no window counts more than the limit
\* (rate_limiter.rs, check_and_increment).
THEOREM TypeCorrect == Spec => []TypeOK
  <1>1. IInv => TypeOK
    BY DEF IInv
  <1> QED BY <1>1, IInvCorrect, PTL

\* Two fixed windows meet in any window of time, and a lost write opens one
\* more: no group is ever allowed more calls than that, whatever the limit,
\* the length of the window and the ticks at which calls come
\* (rate_limiter.rs, check_and_increment).
THEOREM AtMostTwoWindowsCorrect == Spec => []AtMostTwoWindows
  <1>1. IInv => AtMostTwoWindows
    <2> SUFFICES ASSUME IInv, NEW g \in Groups
                 PROVE  RollingCount(g) <= (2 + lost) * Limit
      BY DEF AtMostTwoWindows
    <2> USE LimitAssumption
    <2>1. TypeOK /\ CallInOrder /\ OneBefore(g)
      BY DEF IInv, Counted
    <2>2. /\ Known(g) \in {Unknown} \cup Windows
          /\ Coming(g) \in {0, 1}
      BY <2>1 DEF Known, Coming, TypeOK, Limits, Windows
    <2>3. Booked(g) \in Int /\ Booked(g) <= Limit
      BY <2>1, <2>2 DEF Booked, Windows
    <2>4. lost * Limit \in Nat /\ RollingCount(g) \in Nat
      BY <2>1, RecentTyped
    <2>5. (2 + lost) * Limit = lost * Limit + 2 * Limit
      BY <2>1 DEF TypeOK
    <2> QED BY <2>1, <2>3, <2>4, <2>5 DEF OneBefore
  <1> QED BY <1>1, IInvCorrect, PTL

=============================================================================
