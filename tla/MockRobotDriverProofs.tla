----------------------- MODULE MockRobotDriverProofs -----------------------
(***************************************************************************)
(* Theorems about MockRobotDriver.                                         *)
(***************************************************************************)
EXTENDS MockRobotDriver, WellFoundedInduction, TLAPS

(* The order of the naturals, as the set of pairs that the library uses.   *)
LEMMA NatOrder == \A x, y : <<x, y>> \in OpToRel(<, Nat) <=> x \in Nat /\ y \in Nat /\ x < y
  BY DEF OpToRel

(* A nonempty set of naturals has a smallest element.                      *)
LEMMA Smallest ==
    ASSUME NEW S \in SUBSET Nat, S # {}
    PROVE  \E x \in S : \A y \in S : x <= y
  <1>1. \E x \in S : \A y \in S : ~(<<y, x>> \in OpToRel(<, Nat))
    BY NatLessThanWellFounded, WFMin
  <1>2. PICK x \in S : \A y \in S : ~(<<y, x>> \in OpToRel(<, Nat))  BY <1>1
  <1>3. ASSUME NEW y \in S PROVE x <= y
    <2>1. ~(y \in Nat /\ x \in Nat /\ y < x)  BY <1>2, NatOrder
    <2>2. x \in Nat /\ y \in Nat  OBVIOUS
    <2>3. QED  BY <2>1, <2>2
  <1>4. QED  BY <1>3

(* Induction up to a bound, for a set of naturals.                         *)
LEMMA UpTo ==
    ASSUME NEW N \in Nat, NEW S, 0 \in S, \A n \in 0 .. N - 1 : n \in S => n + 1 \in S
    PROVE  0 .. N \subseteq S
  <1> DEFINE Missing == {n \in 0 .. N : n \notin S}
  <1>1. SUFFICES ASSUME Missing # {} PROVE FALSE  OBVIOUS
  <1>2. Missing \in SUBSET Nat  OBVIOUS
  <1>3. PICK n \in Missing : \A m \in Missing : n <= m  BY <1>1, <1>2, Smallest
  <1>4. n \in 0 .. N /\ n # 0  BY <1>3
  <1>5. n - 1 \in 0 .. N - 1 /\ n - 1 \notin Missing  BY <1>3, <1>4
  <1>6. n - 1 \in S  BY <1>5
  <1>7. (n - 1) + 1 \in S  BY <1>5, <1>6
  <1>8. QED  BY <1>3, <1>4, <1>7

-----------------------------------------------------------------------------
(* The queue: commands in the order in which they become due.              *)
Commands == [due : Int, positions : [Joints -> Int]]
Sorted(queue) == \A i, k \in DOMAIN queue : i < k => queue[i].due <= queue[k].due

(* The elements of a queue.                                                *)
LEMMA ElementAt ==
    ASSUME NEW S, NEW q \in Seq(S), NEW i \in 1 .. Len(q)
    PROVE  q[i] \in S
  OBVIOUS

(* A queue of a set is one of a larger set.                                *)
LEMMA LargerSeq ==
    ASSUME NEW S, NEW T, S \subseteq T, NEW q \in Seq(S)
    PROVE  q \in Seq(T)
  <1>1. \A i \in 1 .. Len(q) : q[i] \in T  BY ElementAt
  <1>2. QED  BY <1>1

(* A function on an initial segment is a queue.                            *)
LEMMA SeqOf ==
    ASSUME NEW S, NEW L \in Nat, NEW f \in [1 .. L -> S]
    PROVE  f \in Seq(S) /\ Len(f) = L
  OBVIOUS

(* A queue with one more.                                                  *)
LEMMA AppendIs ==
    ASSUME NEW S, NEW q \in Seq(S), NEW e \in S
    PROVE  /\ Append(q, e) \in Seq(S) /\ Len(Append(q, e)) = Len(q) + 1
           /\ Append(q, e)[Len(q) + 1] = e
           /\ \A i \in 1 .. Len(q) : Append(q, e)[i] = q[i]
  OBVIOUS

(* Two queues with the same elements are the same.                         *)
LEMMA SameSeq ==
    ASSUME NEW S, NEW q \in Seq(S), NEW r \in Seq(S), Len(q) = Len(r),
           \A i \in 1 .. Len(q) : q[i] = r[i]
    PROVE  q = r
  OBVIOUS

(* The loop takes some number of commands.                                 *)
LEMMA DueByExists ==
    ASSUME NEW queue \in Seq(Commands), NEW now \in Int
    PROVE  \E n \in 0 .. Len(queue) :
               /\ \A i \in 1 .. n : queue[i].due <= now
               /\ n < Len(queue) => queue[n + 1].due > now
  <1> DEFINE Late == {n \in 0 .. Len(queue) : n < Len(queue) => queue[n + 1].due > now}
  <1>1. Len(queue) \in Late /\ Late \in SUBSET Nat  OBVIOUS
  <1>2. PICK n \in Late : \A m \in Late : n <= m  BY <1>1, Smallest
  <1>3. ASSUME NEW i \in 1 .. n PROVE queue[i].due <= now
    <2>1. n \in 0 .. Len(queue) /\ Len(queue) \in Nat  BY <1>2
    <2>2. i - 1 \in 0 .. Len(queue) /\ i - 1 < Len(queue) /\ ~(n <= i - 1) /\ (i - 1) + 1 = i
      BY <2>1
    <2>3. ~(queue[i].due > now)  BY <1>2, <2>2
    <2>4. queue[i] \in Commands  BY <2>1, ElementAt
    <2>5. queue[i].due \in Int  BY <2>4 DEF Commands
    <2>6. QED  BY <2>3, <2>5
  <1>4. QED  BY <1>2, <1>3

(* ... and it is the number that DueBy names.                              *)
LEMMA DueByIs ==
    ASSUME NEW queue \in Seq(Commands), NEW now \in Int
    PROVE  /\ DueBy(queue, now) \in 0 .. Len(queue)
           /\ \A i \in 1 .. DueBy(queue, now) : queue[i].due <= now
           /\ DueBy(queue, now) < Len(queue) => queue[DueBy(queue, now) + 1].due > now
  BY DueByExists DEF DueBy

(* No other number is like that.                                           *)
LEMMA DueByUnique ==
    ASSUME NEW queue \in Seq(Commands), NEW now \in Int, NEW n \in 0 .. Len(queue),
           \A i \in 1 .. n : queue[i].due <= now,
           n < Len(queue) => queue[n + 1].due > now
    PROVE  DueBy(queue, now) = n
  <1> DEFINE m == DueBy(queue, now)
  <1>1. /\ m \in 0 .. Len(queue) /\ \A i \in 1 .. m : queue[i].due <= now
        /\ m < Len(queue) => queue[m + 1].due > now
    BY DueByIs
  <1> HIDE DEF m
  <1>2. ASSUME NEW i \in 1 .. Len(queue) PROVE queue[i].due \in Int
    <2>1. queue[i] \in Commands  BY ElementAt
    <2>2. QED  BY <2>1 DEF Commands
  <1>3. ~(m < n)
    <2>1. SUFFICES ASSUME m < n PROVE FALSE  OBVIOUS
    <2>2. m + 1 \in 1 .. n /\ m + 1 \in 1 .. Len(queue) /\ m < Len(queue)  BY <1>1, <2>1
    <2>3. QED  BY <1>1, <1>2, <2>2
  <1>4. ~(n < m)
    <2>1. SUFFICES ASSUME n < m PROVE FALSE  OBVIOUS
    <2>2. n + 1 \in 1 .. m /\ n + 1 \in 1 .. Len(queue) /\ n < Len(queue)  BY <1>1, <2>1
    <2>3. QED  BY <1>1, <1>2, <2>2
  <1>5. m = n  BY <1>1, <1>3, <1>4
  <1>6. QED  BY <1>5 DEF m

-----------------------------------------------------------------------------
(* A joint moves as far in two steps as in one.                            *)
LEMMA ClampAdds ==
    ASSUME NEW d \in Int, NEW a \in Nat, NEW b \in Nat
    PROVE  Clamp(d, a) + Clamp(d - Clamp(d, a), b) = Clamp(d, a + b)
  <1>1. CASE d > a  BY <1>1 DEF Clamp
  <1>2. CASE d < -a  BY <1>2 DEF Clamp
  <1>3. CASE -a <= d /\ d <= a
    <2>1. Clamp(d, a) = d /\ d - d = 0 /\ Clamp(0, b) = 0  BY <1>3 DEF Clamp
    <2>2. Clamp(d, a + b) = d  BY <1>3 DEF Clamp
    <2>3. QED  BY <2>1, <2>2
  <1>4. QED  BY <1>1, <1>2, <1>3

(* A step is an integer, towards the target and not beyond it.             *)
LEMMA ClampIs ==
    ASSUME NEW d \in Int, NEW a \in Nat
    PROVE  /\ Clamp(d, a) \in Int
           /\ d >= 0 => Clamp(d, a) \in 0 .. d
           /\ d <= 0 => Clamp(d, a) \in d .. 0
           /\ a <= 0 => Clamp(d, a) = 0
  <1>1. CASE d >= 0  BY <1>1 DEF Clamp
  <1>2. CASE d < 0
    <2>1. Clamp(d, a) = IF d < -a THEN -a ELSE d  BY <1>2 DEF Clamp
    <2>2. -a \in Int /\ -a <= 0 /\ (a <= 0 => -a >= 0)  OBVIOUS
    <2>3. QED  BY <1>2, <2>1, <2>2
  <1>3. QED  BY <1>1, <1>2

(* The longest way in a time.                                              *)
LEMMA Products ==
    ASSUME NEW v \in Nat, NEW a \in Nat, NEW b \in Nat
    PROVE  v * a \in Nat /\ v * (a + b) = v * a + v * b /\ v * 0 = 0 /\ v * 1 = v
  <1>1. v * a \in Int  OBVIOUS
  <1>2. v * a >= 0  OBVIOUS
  <1>3. v * (a + b) = v * a + v * b  OBVIOUS
  <1>4. QED  BY <1>1, <1>2, <1>3

-----------------------------------------------------------------------------
(* A range of positions without gaps.                                      *)
Convex(range) == range \subseteq Int /\ \A p, q \in range : p .. q \subseteq range

(* The three ways of integrating: back in time, without a speed limit, ... *)
LEMMA IntegrateBack ==
    ASSUME NEW v, NEW e \in Int, e < 0, NEW from, NEW to
    PROVE  integrate(v, from, to, e) = from
  BY DEF integrate

LEMMA IntegrateJumps ==
    ASSUME NEW e \in Nat, NEW from, NEW to
    PROVE  integrate(Unlimited, from, to, e) = to
  BY DEF integrate

(* ... and joint by joint.                                                 *)
LEMMA IntegrateIs ==
    ASSUME NEW v \in Nat, v # Unlimited, NEW e \in Nat,
           NEW from \in [Joints -> Int], NEW to \in [Joints -> Int]
    PROVE  integrate(v, from, to, e) = [j \in Joints |-> from[j] + Clamp(to[j] - from[j], v * e)]
  <1>1. ASSUME NEW j \in Joints
        PROVE  Toward[v * e][from[j]][to[j]] = from[j] + Clamp(to[j] - from[j], v * e)
    <2> DEFINE way == v * e
    <2>1. way \in Nat /\ from[j] \in Int /\ to[j] \in Int  BY Products
    <2> HIDE DEF way
    <2>2. Toward[way][from[j]][to[j]] = from[j] + Clamp(to[j] - from[j], way)
      BY <2>1, Zenon DEF Toward
    <2>3. QED  BY <2>2 DEF way
  <1>2. integrate(v, from, to, e) = [j \in Joints |-> Toward[v * e][from[j]][to[j]]]
    <2>1. ~(e < 0)  OBVIOUS
    <2>2. QED  BY <2>1, Zenon DEF integrate
  <1>3. QED  BY <1>1, <1>2

(* Integrating: the joints stay integers, and in any range of positions.   *)
LEMMA IntegrateType ==
    ASSUME NEW v \in Nat, NEW e \in Int, NEW R, Convex(R),
           NEW from \in [Joints -> R], NEW to \in [Joints -> R]
    PROVE  integrate(v, from, to, e) \in [Joints -> R]
  <1>1. CASE e < 0  BY <1>1, IntegrateBack
  <1>2. CASE ~(e < 0) /\ v = Unlimited
    <2>1. e \in Nat  BY <1>2
    <2>2. QED  BY <1>2, <2>1, IntegrateJumps
  <1>3. CASE ~(e < 0) /\ v # Unlimited
    <2>1. SUFFICES ASSUME NEW j \in Joints
                   PROVE  from[j] + Clamp(to[j] - from[j], v * e) \in R
      <3>1. [Joints -> R] \subseteq [Joints -> Int] /\ e \in Nat
        <4>1. R \subseteq Int  BY DEF Convex
        <4>2. [Joints -> R] \subseteq [Joints -> Int]  BY <4>1
        <4>3. e \in Nat  BY <1>3
        <4>4. QED  BY <4>2, <4>3
      <3>2. from \in [Joints -> Int] /\ to \in [Joints -> Int]  BY <3>1
      <3>3. integrate(v, from, to, e) = [j \in Joints |-> from[j] + Clamp(to[j] - from[j], v * e)]
        BY <1>3, <3>1, <3>2, IntegrateIs
      <3>4. QED  BY <3>3
    <2>2. R \subseteq Int /\ \A p, q \in R : p .. q \subseteq R  BY DEF Convex
    <2>3. from[j] \in R /\ to[j] \in R /\ from[j] \in Int /\ to[j] \in Int  BY <2>2
    <2>4. v * e \in Nat /\ to[j] - from[j] \in Int
      <3>1. e \in Nat  BY <1>3
      <3>2. QED  BY <2>3, <3>1, Products
    <2>5. CASE to[j] - from[j] >= 0
      <3>1. Clamp(to[j] - from[j], v * e) \in 0 .. to[j] - from[j]  BY <2>4, <2>5, ClampIs
      <3>2. from[j] + Clamp(to[j] - from[j], v * e) \in from[j] .. to[j]  BY <2>3, <3>1
      <3>3. QED  BY <2>2, <2>3, <3>2
    <2>6. CASE ~(to[j] - from[j] >= 0)
      <3>1. Clamp(to[j] - from[j], v * e) \in to[j] - from[j] .. 0  BY <2>3, <2>4, <2>6, ClampIs
      <3>2. from[j] + Clamp(to[j] - from[j], v * e) \in to[j] .. from[j]  BY <2>3, <3>1
      <3>3. QED  BY <2>2, <2>3, <3>2
    <2>7. QED  BY <2>5, <2>6
  <1>4. QED  BY <1>1, <1>2, <1>3

(* Two spans of time towards one target are as good as one, ...            *)
LEMMA IntegrateAdds ==
    ASSUME NEW v \in Nat, NEW a \in Nat, NEW b \in Nat,
           NEW from \in [Joints -> Int], NEW to \in [Joints -> Int]
    PROVE  integrate(v, integrate(v, from, to, a), to, b) = integrate(v, from, to, a + b)
  <1>1. CASE v = Unlimited  BY <1>1, IntegrateJumps
  <1>2. CASE v # Unlimited
    <2> DEFINE mid == [j \in Joints |-> from[j] + Clamp(to[j] - from[j], v * a)]
    <2>1. integrate(v, from, to, a) = mid /\ mid \in [Joints -> Int]
      <3>1. integrate(v, from, to, a) = mid  BY <1>2, IntegrateIs
      <3>2. Convex(Int)  BY DEF Convex
      <3>3. QED  BY <3>1, <3>2, IntegrateType
    <2>2. integrate(v, mid, to, b)
            = [j \in Joints |-> mid[j] + Clamp(to[j] - mid[j], v * b)]
      <3> HIDE DEF mid
      <3>1. QED  BY <1>2, <2>1, IntegrateIs
    <2>3. integrate(v, from, to, a + b)
            = [j \in Joints |-> from[j] + Clamp(to[j] - from[j], v * (a + b))]
      <3>1. a + b \in Nat  OBVIOUS
      <3>2. QED  BY <1>2, <3>1, IntegrateIs
    <2>4. ASSUME NEW j \in Joints
          PROVE  mid[j] + Clamp(to[j] - mid[j], v * b)
                   = from[j] + Clamp(to[j] - from[j], v * (a + b))
      <3> DEFINE d == to[j] - from[j]
                 c == Clamp(d, v * a)
      <3>1. from[j] \in Int /\ to[j] \in Int /\ d \in Int  OBVIOUS
      <3>2. v * a \in Nat /\ v * b \in Nat /\ v * (a + b) = v * a + v * b  BY Products
      <3>3. c + Clamp(d - c, v * b) = Clamp(d, v * (a + b))  BY <3>1, <3>2, ClampAdds
      <3>4. c \in Int  BY <3>1, <3>2, ClampIs
      <3>5. d - c \in Int  BY <3>1, <3>4
      <3>6. Clamp(d - c, v * b) \in Int  BY <3>2, <3>5, ClampIs
      <3>7. mid[j] = from[j] + c /\ to[j] - (from[j] + c) = d - c  BY <3>1, <3>4
      <3> HIDE DEF d, c, mid
      <3>8. mid[j] + Clamp(to[j] - mid[j], v * b) = from[j] + (c + Clamp(d - c, v * b))
        BY <3>1, <3>4, <3>6, <3>7
      <3>9. QED  BY <3>3, <3>8 DEF d
    <2> HIDE DEF mid
    <2>5. QED  BY <2>1, <2>2, <2>3, <2>4
  <1>3. QED  BY <1>1, <1>2

(* ... no time moves nothing, unless there is no speed limit, ...          *)
LEMMA IntegrateNothing ==
    ASSUME NEW v \in Nat, v # Unlimited,
           NEW from \in [Joints -> Int], NEW to \in [Joints -> Int]
    PROVE  integrate(v, from, to, 0) = from
  <1>1. integrate(v, from, to, 0) = [j \in Joints |-> from[j] + Clamp(to[j] - from[j], v * 0)]
    BY IntegrateIs
  <1>2. ASSUME NEW j \in Joints PROVE from[j] + Clamp(to[j] - from[j], v * 0) = from[j]
    <2>1. v * 0 \in Nat /\ v * 0 <= 0 /\ from[j] \in Int /\ to[j] - from[j] \in Int
      BY Products
    <2>2. Clamp(to[j] - from[j], v * 0) = 0  BY <2>1, ClampIs
    <2>3. QED  BY <2>1, <2>2
  <1>3. QED  BY <1>1, <1>2

(* ... and a robot that is at its target stays there.                      *)
LEMMA IntegrateRests ==
    ASSUME NEW v \in Nat, NEW e \in Nat, NEW from \in [Joints -> Int]
    PROVE  integrate(v, from, from, e) = from
  <1>1. CASE v = Unlimited  BY <1>1, IntegrateJumps
  <1>2. CASE v # Unlimited
    <2>1. integrate(v, from, from, e) = [j \in Joints |-> from[j] + Clamp(from[j] - from[j], v * e)]
      BY <1>2, IntegrateIs
    <2>2. ASSUME NEW j \in Joints PROVE from[j] + Clamp(from[j] - from[j], v * e) = from[j]
      <3>1. from[j] \in Int /\ from[j] - from[j] = 0 /\ v * e \in Nat  BY Products
      <3>2. Clamp(0, v * e) = 0  BY <3>1, ClampIs
      <3>3. QED  BY <3>1, <3>2
    <2>3. QED  BY <2>1, <2>2
  <1>3. QED  BY <1>1, <1>2

-----------------------------------------------------------------------------
(* From one command to the next.                                           *)
Leg(m, from, n) ==
    integrate(m.speed, from, InForce(m, n - 1), Since(m, n) - Since(m, n - 1))

(* The recursion has a solution: by induction, from each number of         *)
(* commands to one more.                                                   *)
LEMMA ReachedExists ==
    ASSUME NEW m, Len(m.pending) \in Nat
    PROVE  \E g : g = [n \in 0 .. Len(m.pending) |->
                          IF n = 0 THEN m.positions ELSE Leg(m, g[n - 1], n)]
  <1> DEFINE L == Len(m.pending)
             Solves(g, n) ==
                 g = [k \in 0 .. n |-> IF k = 0 THEN m.positions ELSE Leg(m, g[k - 1], k)]
             Solved == {n \in 0 .. L : \E g : Solves(g, n)}
  <1>1. L \in Nat  OBVIOUS
  <1>2. 0 \in Solved
    <2> DEFINE g == [k \in 0 .. 0 |-> m.positions]
    <2>1. g = [k \in 0 .. 0 |-> IF k = 0 THEN m.positions ELSE Leg(m, g[k - 1], k)]
      OBVIOUS
    <2>2. Solves(g, 0)  BY <2>1
    <2>3. 0 \in 0 .. L  BY <1>1
    <2> HIDE DEF g, Solves
    <2>4. QED  BY <2>2, <2>3
  <1>3. ASSUME NEW n \in 0 .. L - 1, n \in Solved PROVE n + 1 \in Solved
    <2>1. PICK g : Solves(g, n)  BY <1>3
    <2> DEFINE h == [k \in 0 .. n + 1 |-> IF k <= n THEN g[k] ELSE Leg(m, g[n], n + 1)]
               r == [k \in 0 .. n + 1 |-> IF k = 0 THEN m.positions ELSE Leg(m, h[k - 1], k)]
    <2>2. ASSUME NEW k \in 0 .. n + 1 PROVE h[k] = r[k]
      <3>1. n \in Nat /\ k \in Nat  BY <1>1
      <3>2. CASE k = 0
        <4>1. h[k] = g[0]  BY <3>1, <3>2
        <4>2. g[0] = m.positions  BY <2>1, <3>1
        <4>3. QED  BY <3>2, <4>1, <4>2
      <3>3. CASE k # 0 /\ k <= n
        <4>1. k - 1 \in 0 .. n /\ k \in 0 .. n  BY <3>1, <3>3
        <4>2. h[k] = g[k] /\ h[k - 1] = g[k - 1]  BY <3>1, <3>3, <4>1
        <4>3. g[k] = Leg(m, g[k - 1], k)  BY <2>1, <3>3, <4>1
        <4>4. QED  BY <3>3, <4>2, <4>3
      <3>4. CASE k = n + 1
        <4>1. k - 1 = n /\ n \in 0 .. n /\ n \in 0 .. n + 1 /\ ~(k <= n) /\ k # 0  BY <3>1, <3>4
        <4>2. h[k] = Leg(m, g[n], n + 1) /\ h[k - 1] = g[n]  BY <4>1
        <4>3. QED  BY <3>4, <4>1, <4>2
      <3>5. k = 0 \/ (k # 0 /\ k <= n) \/ k = n + 1  BY <3>1
      <3>6. QED  BY <3>2, <3>3, <3>4, <3>5
    <2>3. h = r  BY <2>2
    <2>4. Solves(h, n + 1)  BY <2>3
    <2>5. n + 1 \in 0 .. L  BY <1>1
    <2> HIDE DEF h, r, Solves
    <2>6. QED  BY <2>4, <2>5
  <1> HIDE DEF Solved
  <1>4. 0 .. L \subseteq Solved  BY <1>1, <1>2, <1>3, UpTo
  <1>5. L \in Solved  BY <1>1, <1>4
  <1>6. QED  BY <1>5 DEF Solved

(* So it is one, and an advance can be followed command by command.        *)
LEMMA ReachedIs ==
    ASSUME NEW m, Len(m.pending) \in Nat
    PROVE  /\ reached(m)[0] = m.positions
           /\ \A n \in 1 .. Len(m.pending) : reached(m)[n] = Leg(m, reached(m)[n - 1], n)
  <1> DEFINE at == reached(m)
  <1>1. at = [n \in 0 .. Len(m.pending) |->
                  IF n = 0 THEN m.positions ELSE Leg(m, at[n - 1], n)]
    BY ReachedExists DEF reached, Leg
  <1> HIDE DEF at
  <1>2. at[0] = m.positions  BY <1>1
  <1>3. ASSUME NEW n \in 1 .. Len(m.pending) PROVE at[n] = Leg(m, at[n - 1], n)
    BY <1>1
  <1>4. QED  BY <1>2, <1>3 DEF at

-----------------------------------------------------------------------------
(* Motions over such a range.                                              *)
Motions(range) ==
    {m \in [speed : Nat, positions : [Joints -> range], target : [Joints -> range],
            pending : Seq([due : Int, positions : [Joints -> range]])] : Sorted(m.pending)}

(* The parts of a motion.                                                  *)
LEMMA MotionParts ==
    ASSUME NEW R, Convex(R), NEW m \in Motions(R)
    PROVE  /\ m = [speed |-> m.speed, positions |-> m.positions, target |-> m.target,
                   pending |-> m.pending]
           /\ m.speed \in Nat /\ m.positions \in [Joints -> R] /\ m.target \in [Joints -> R]
           /\ m.positions \in [Joints -> Int] /\ m.target \in [Joints -> Int]
           /\ m.pending \in Seq([due : Int, positions : [Joints -> R]])
           /\ m.pending \in Seq(Commands) /\ Len(m.pending) \in Nat /\ Sorted(m.pending)
  <1>1. /\ m = [speed |-> m.speed, positions |-> m.positions, target |-> m.target,
                pending |-> m.pending]
        /\ m.speed \in Nat /\ m.positions \in [Joints -> R] /\ m.target \in [Joints -> R]
        /\ m.pending \in Seq([due : Int, positions : [Joints -> R]]) /\ Sorted(m.pending)
    BY DEF Motions
  <1>2. R \subseteq Int  BY DEF Convex
  <1>3. [Joints -> R] \subseteq [Joints -> Int]  BY <1>2
  <1>4. [due : Int, positions : [Joints -> R]] \subseteq Commands  BY <1>3 DEF Commands
  <1>5. m.pending \in Seq(Commands)  BY <1>1, <1>4, LargerSeq
  <1>6. QED  BY <1>1, <1>3, <1>5

(* The target in force and the time since when; a leg takes some time, if  *)
(* the first one does.                                                     *)
LEMMA LegParts ==
    ASSUME NEW R, Convex(R), NEW m \in Motions(R), NEW n \in 0 .. Len(m.pending)
    PROVE  /\ InForce(m, n) \in [Joints -> R] /\ InForce(m, n) \in [Joints -> Int]
           /\ Since(m, n) \in Int
           /\ n # 0 => Since(m, n) - Since(m, n - 1) \in Int
           /\ n # 0 /\ m.pending[1].due > 0 => Since(m, n) - Since(m, n - 1) \in Nat
  <1> DEFINE queue == m.pending
  <1>1. /\ queue \in Seq([due : Int, positions : [Joints -> R]]) /\ Len(queue) \in Nat
        /\ Sorted(queue) /\ m.target \in [Joints -> R]
    BY MotionParts
  <1>2. [Joints -> R] \subseteq [Joints -> Int]  BY DEF Convex
  <1>3. ASSUME NEW i \in 1 .. Len(queue)
        PROVE  queue[i].due \in Int /\ queue[i].positions \in [Joints -> R]
    <2>1. queue[i] \in [due : Int, positions : [Joints -> R]]  BY <1>1, ElementAt
    <2>2. QED  BY <2>1
  <1>4. ASSUME NEW i \in 0 .. Len(queue)
        PROVE  InForce(m, i) \in [Joints -> R] /\ Since(m, i) \in Int
    BY <1>1, <1>3 DEF InForce, Since
  <1>5. ASSUME n # 0
        PROVE  /\ Since(m, n) - Since(m, n - 1) \in Int
               /\ queue[1].due > 0 => Since(m, n) - Since(m, n - 1) \in Nat
    <2>1. CASE n = 1
      <3>1. Since(m, 1) \in Int /\ Since(m, 0) = 0 /\ Since(m, 1) = queue[1].due
        BY <1>4, <2>1 DEF Since
      <3>2. QED  BY <2>1, <3>1
    <2>2. CASE n # 1
      <3>1. n \in DOMAIN queue /\ n - 1 \in DOMAIN queue /\ n - 1 < n /\ n - 1 # 0
        BY <1>1, <1>5, <2>2
      <3>2. queue[n - 1].due <= queue[n].due  BY <1>1, <3>1 DEF Sorted
      <3>3. queue[n - 1].due \in Int /\ queue[n].due \in Int  BY <1>1, <1>3, <3>1
      <3>4. Since(m, n) = queue[n].due /\ Since(m, n - 1) = queue[n - 1].due
        BY <1>5, <3>1 DEF Since
      <3>5. QED  BY <3>2, <3>3, <3>4
    <2>3. QED  BY <2>1, <2>2
  <1>6. InForce(m, n) \in [Joints -> R] /\ Since(m, n) \in Int  BY <1>4
  <1>7. QED  BY <1>2, <1>5, <1>6

(* Wherever the advance has got to, the joints are at positions.           *)
LEMMA ReachedType ==
    ASSUME NEW R, Convex(R), NEW m \in Motions(R)
    PROVE  \A n \in 0 .. Len(m.pending) :
               reached(m)[n] \in [Joints -> R] /\ reached(m)[n] \in [Joints -> Int]
  <1> DEFINE L == Len(m.pending)
             Typed == {n \in 0 .. L : reached(m)[n] \in [Joints -> R]}
  <1>1. L \in Nat /\ m.speed \in Nat /\ m.positions \in [Joints -> R]  BY MotionParts
  <1>2. 0 \in Typed  BY <1>1, ReachedIs
  <1>3. ASSUME NEW n \in 0 .. L - 1, n \in Typed PROVE n + 1 \in Typed
    <2>1. n + 1 \in 1 .. L /\ n \in 0 .. L /\ n + 1 \in 0 .. L /\ (n + 1) - 1 = n /\ n + 1 # 0
      BY <1>1
    <2>2. reached(m)[n + 1] = Leg(m, reached(m)[n], n + 1)  BY <1>1, <2>1, ReachedIs
    <2>3. reached(m)[n] \in [Joints -> R]  BY <1>3
    <2>4. InForce(m, n) \in [Joints -> R]  BY <2>1, LegParts
    <2>5. Since(m, n + 1) - Since(m, n) \in Int
      <3>1. Since(m, n + 1) - Since(m, (n + 1) - 1) \in Int  BY <2>1, LegParts
      <3>2. QED  BY <2>1, <3>1
    <2>6. integrate(m.speed, reached(m)[n], InForce(m, n), Since(m, n + 1) - Since(m, n))
             \in [Joints -> R]
      BY <1>1, <2>3, <2>4, <2>5, IntegrateType
    <2>7. Leg(m, reached(m)[n], n + 1) \in [Joints -> R]  BY <2>1, <2>6 DEF Leg
    <2>8. QED  BY <2>1, <2>2, <2>7
  <1> HIDE DEF Typed
  <1>4. 0 .. L \subseteq Typed  BY <1>1, <1>2, <1>3, UpTo
  <1>5. [Joints -> R] \subseteq [Joints -> Int]  BY DEF Convex
  <1>6. QED  BY <1>4, <1>5 DEF Typed

(* a is what an advance of m to time t leaves that takes n commands.       *)
Advances(a, m, t, n) ==
    /\ n \in 0 .. Len(m.pending)
    /\ \A i \in 1 .. n : m.pending[i].due <= t
    /\ n < Len(m.pending) => m.pending[n + 1].due > t
    /\ t - Since(m, n) \in Nat
    /\ a.speed = m.speed
    /\ a.target = InForce(m, n)
    /\ a.positions = integrate(m.speed, reached(m)[n], InForce(m, n), t - Since(m, n))
    /\ Len(a.pending) = Len(m.pending) - n
    /\ \A i \in 1 .. Len(m.pending) - n :
          /\ a.pending[i].due = m.pending[n + i].due - t
          /\ a.pending[i].positions = m.pending[n + i].positions

(* An advance takes the commands that DueBy counts.                        *)
LEMMA AdvancedIs ==
    ASSUME NEW R, Convex(R), NEW m \in Motions(R), NEW t \in Nat
    PROVE  Advances(advanced(m, t), m, t, DueBy(m.pending, t))
  <1> DEFINE n == DueBy(m.pending, t)
  <1>1. m.pending \in Seq(Commands) /\ Len(m.pending) \in Nat  BY MotionParts
  <1>2. /\ n \in 0 .. Len(m.pending) /\ \A i \in 1 .. n : m.pending[i].due <= t
        /\ n < Len(m.pending) => m.pending[n + 1].due > t
    BY <1>1, DueByIs, SMTT(30)
  <1>3. Len(m.pending) - n \in Nat  BY <1>1, <1>2
  <1>4. t - Since(m, n) \in Nat
    <2>1. Since(m, n) \in Int  BY <1>2, LegParts
    <2>2. Since(m, n) <= t  BY <1>1, <1>2 DEF Since
    <2>3. QED  BY <2>1, <2>2
  <1>5. /\ advanced(m, t).speed = m.speed
        /\ advanced(m, t).target = InForce(m, n)
        /\ advanced(m, t).positions
              = integrate(m.speed, reached(m)[n], InForce(m, n), t - Since(m, n))
    BY DEF advanced, arrived
  <1>6. advanced(m, t).pending
          = [i \in 1 .. Len(m.pending) - n |->
                [due |-> m.pending[n + i].due - t, positions |-> m.pending[n + i].positions]]
    BY DEF advanced
  <1>7. Len(advanced(m, t).pending) = Len(m.pending) - n  BY <1>3, <1>6
  <1>8. \A i \in 1 .. Len(m.pending) - n :
           /\ advanced(m, t).pending[i].due = m.pending[n + i].due - t
           /\ advanced(m, t).pending[i].positions = m.pending[n + i].positions
    BY <1>6
  <1> HIDE DEF n
  <1>9. Advances(advanced(m, t), m, t, n)  BY <1>2, <1>4, <1>5, <1>7, <1>8 DEF Advances
  <1>10. QED  BY <1>9 DEF n

(* What an advance leaves is a motion again.                               *)
LEMMA AdvancedType ==
    ASSUME NEW R, Convex(R), NEW m \in Motions(R), NEW t \in Nat
    PROVE  advanced(m, t) \in Motions(R)
  <1> DEFINE n == DueBy(m.pending, t)
             a == advanced(m, t)
             C == [due : Int, positions : [Joints -> R]]
  <1>1. Advances(a, m, t, n)  BY AdvancedIs
  <1>2. /\ n \in 0 .. Len(m.pending) /\ t - Since(m, n) \in Nat
        /\ n < Len(m.pending) => m.pending[n + 1].due > t
        /\ a.target = InForce(m, n)
        /\ a.positions = integrate(m.speed, reached(m)[n], InForce(m, n), t - Since(m, n))
    <2> HIDE DEF a, n
    <2>1. QED  BY <1>1 DEF Advances
  <1>3. /\ m.speed \in Nat /\ m.pending \in Seq(C) /\ Len(m.pending) \in Nat
        /\ Sorted(m.pending)
    BY MotionParts
  <1>4. a = [speed |-> m.speed, positions |-> a.positions, target |-> a.target,
             pending |-> a.pending]
    BY DEF advanced
  <1>5. a.pending = [i \in 1 .. Len(m.pending) - n |->
                        [due |-> m.pending[n + i].due - t,
                         positions |-> m.pending[n + i].positions]]
    BY DEF advanced
  <1> HIDE DEF n, a
  <1>6. a.target \in [Joints -> R]  BY <1>2, LegParts
  <1>7. a.positions \in [Joints -> R]
    <2>1. reached(m)[n] \in [Joints -> R]  BY <1>2, ReachedType
    <2>2. InForce(m, n) \in [Joints -> R]  BY <1>2, LegParts
    <2>3. QED  BY <1>2, <1>3, <2>1, <2>2, IntegrateType
  <1>8. ASSUME NEW i \in 1 .. Len(m.pending) - n
        PROVE  /\ n + i \in 1 .. Len(m.pending) /\ m.pending[n + i] \in C
               /\ m.pending[n + i].due - t \in Nat
    <2>1. n + i \in 1 .. Len(m.pending) /\ n + 1 \in 1 .. Len(m.pending) /\ n < Len(m.pending)
      BY <1>2, <1>3, SMTT(30)
    <2>2. m.pending[n + i] \in C /\ m.pending[n + 1] \in C  BY <1>3, <2>1, ElementAt
    <2>3. m.pending[n + 1].due > t  BY <1>2, <2>1
    <2>4. m.pending[n + 1].due <= m.pending[n + i].due
      <3>1. CASE i = 1  BY <2>2, <3>1
      <3>2. CASE i # 1
        <4>1. n + 1 < n + i  BY <1>2, <1>3, <3>2
        <4>2. QED  BY <1>3, <2>1, <4>1 DEF Sorted
      <3>3. QED  BY <3>1, <3>2
    <2>5. m.pending[n + 1].due \in Int /\ m.pending[n + i].due \in Int  BY <2>2
    <2>6. QED  BY <2>1, <2>2, <2>3, <2>4, <2>5
  <1>9. Len(m.pending) - n \in Nat  BY <1>2, <1>3
  <1>10. a.pending \in Seq(C) /\ DOMAIN a.pending = 1 .. Len(m.pending) - n
    <2>1. \A i \in 1 .. Len(m.pending) - n :
             [due |-> m.pending[n + i].due - t, positions |-> m.pending[n + i].positions] \in C
      BY <1>8
    <2>2. a.pending \in [1 .. Len(m.pending) - n -> C]
      <3> HIDE DEF C
      <3>1. QED  BY <1>5, <2>1
    <2>3. QED  BY <1>9, <2>2, SeqOf
  <1>11. Sorted(a.pending)
    <2>1. SUFFICES ASSUME NEW i \in 1 .. Len(m.pending) - n,
                          NEW k \in 1 .. Len(m.pending) - n, i < k
                   PROVE  a.pending[i].due <= a.pending[k].due
      BY <1>10 DEF Sorted
    <2>2. a.pending[i].due = m.pending[n + i].due - t /\ a.pending[k].due = m.pending[n + k].due - t
      BY <1>1 DEF Advances
    <2>3. n + i \in 1 .. Len(m.pending) /\ n + k \in 1 .. Len(m.pending)  BY <1>8
    <2>4. n + i \in DOMAIN m.pending /\ n + k \in DOMAIN m.pending  BY <1>3, <2>3
    <2>5. n + i < n + k  BY <1>2, <1>3, <2>1
    <2>6. m.pending[n + i].due <= m.pending[n + k].due  BY <1>3, <2>4, <2>5 DEF Sorted
    <2>7. m.pending[n + i].due \in Int /\ m.pending[n + k].due \in Int  BY <1>8
    <2>8. \A x, y \in Int : x <= y => x - t <= y - t  OBVIOUS
    <2>9. QED  BY <2>2, <2>6, <2>7, <2>8
  <1>12. a \in Motions(R)  BY <1>3, <1>4, <1>6, <1>7, <1>10, <1>11 DEF Motions
  <1>13. QED  BY <1>12 DEF a

(* What still waits, as seen after the advance.                            *)
LEMMA AdvancedQueue ==
    ASSUME NEW a, NEW m, NEW t, NEW n, Advances(a, m, t, n), Len(m.pending) \in Nat,
           NEW i \in 0 .. Len(a.pending)
    PROVE  /\ InForce(a, i) = InForce(m, n + i)
           /\ i # 0 => Since(a, i) = Since(m, n + i) - t
  <1>1. n \in Nat /\ Len(a.pending) = Len(m.pending) - n /\ a.target = InForce(m, n)
    BY DEF Advances
  <1>2. CASE i = 0
    <2>1. n + 0 = n  BY <1>1
    <2>2. InForce(a, 0) = a.target  BY DEF InForce
    <2>3. QED  BY <1>1, <1>2, <2>1, <2>2
  <1>3. CASE i # 0
    <2>1. i \in 1 .. Len(m.pending) - n /\ n + i # 0  BY <1>1, <1>3
    <2>2. /\ a.pending[i].due = m.pending[n + i].due - t
          /\ a.pending[i].positions = m.pending[n + i].positions
      BY <2>1 DEF Advances
    <2>3. InForce(a, i) = a.pending[i].positions /\ Since(a, i) = a.pending[i].due
      BY <1>3 DEF InForce, Since
    <2>4. InForce(m, n + i) = m.pending[n + i].positions /\ Since(m, n + i) = m.pending[n + i].due
      BY <2>1 DEF InForce, Since
    <2>5. QED  BY <2>2, <2>3, <2>4
  <1>4. QED  BY <1>2, <1>3

(* What still waits after an advance lies ahead, and no further than       *)
(* before.                                                                 *)
Within(m, l) == \A i \in 1 .. Len(m.pending) : m.pending[i].due <= l
Ahead(m) == \A i \in 1 .. Len(m.pending) : m.pending[i].due > 0

(* An advance takes all that was due.                                      *)
LEMMA AdvancedDues ==
    ASSUME NEW R, Convex(R), NEW m \in Motions(R), NEW t \in Nat
    PROVE  /\ Ahead(advanced(m, t))
           /\ \A l \in Nat : Within(m, l) => Within(advanced(m, t), l)
  <1> DEFINE a == advanced(m, t)
             n == DueBy(m.pending, t)
  <1>1. Advances(a, m, t, n)  BY AdvancedIs
  <1>2. /\ Len(m.pending) \in Nat /\ m.pending \in Seq(Commands) /\ Sorted(m.pending)
    BY MotionParts, Zenon
  <1> HIDE DEF a, n
  <1>3. SUFFICES ASSUME NEW i \in 1 .. Len(a.pending)
                 PROVE  /\ a.pending[i].due > 0
                        /\ \A l \in Nat : Within(m, l) => a.pending[i].due <= l
    BY DEF Ahead, Within, a
  <1>4. /\ n \in 0 .. Len(m.pending) /\ Len(a.pending) = Len(m.pending) - n
        /\ n < Len(m.pending) => m.pending[n + 1].due > t
    BY <1>1 DEF Advances
  <1>5. /\ i \in 1 .. Len(m.pending) - n /\ n < Len(m.pending)
        /\ n + i \in 1 .. Len(m.pending) /\ n + 1 \in 1 .. Len(m.pending)
    BY <1>2, <1>4
  <1>6. a.pending[i].due = m.pending[n + i].due - t  BY <1>1, <1>5 DEF Advances
  <1>7. m.pending[n + i].due \in Int /\ m.pending[n + 1].due \in Int
    <2>1. m.pending[n + i] \in Commands /\ m.pending[n + 1] \in Commands
      BY <1>2, <1>5, ElementAt
    <2>2. QED  BY <2>1 DEF Commands
  <1>8. m.pending[n + 1].due <= m.pending[n + i].due
    <2>1. CASE i = 1  BY <1>7, <2>1
    <2>2. CASE i # 1
      <3>1. n + 1 < n + i  BY <1>4, <1>2, <2>2
      <3>2. n + 1 \in DOMAIN m.pending /\ n + i \in DOMAIN m.pending  BY <1>2, <1>5
      <3>3. QED  BY <1>2, <3>1, <3>2 DEF Sorted
    <2>3. QED  BY <2>1, <2>2
  <1>9. /\ m.pending[n + 1].due > t
        /\ \A l \in Nat : Within(m, l) => m.pending[n + i].due <= l
    BY <1>4, <1>5 DEF Within
  <1>10. QED  BY <1>6, <1>7, <1>8, <1>9

(* Being lazy makes no difference: an advance in two parts, with a look in *)
(* between, ends in the same motion as one in a single part.               *)
LEMMA AdvancedTwice ==
    ASSUME NEW R, Convex(R), NEW m \in Motions(R), NEW t \in Nat, NEW d \in Nat
    PROVE  advanced(advanced(m, t), d) = advanced(m, t + d)
  <1> DEFINE a == advanced(m, t)
             b == advanced(a, d)
             c == advanced(m, t + d)
             n == DueBy(m.pending, t)
             k == DueBy(a.pending, d)
             L == Len(m.pending)
  <1>1. a \in Motions(R) /\ b \in Motions(R) /\ c \in Motions(R) /\ t + d \in Nat
    BY AdvancedType
  <1>2. Advances(a, m, t, n)  BY AdvancedIs
  <1>3. Advances(b, a, d, k)  BY <1>1, AdvancedIs
  <1>4. /\ m.speed \in Nat /\ L \in Nat /\ m.pending \in Seq(Commands)
        /\ a.pending \in Seq(Commands)
    BY <1>1, MotionParts
  <1> HIDE DEF a, b, c, n, k
  <1>5. \A i \in 1 .. L : m.pending[i].due \in Int
    <2>1. \A i \in 1 .. L : m.pending[i] \in Commands  BY <1>4, ElementAt
    <2>2. QED  BY <2>1 DEF Commands
  <1>6. /\ n + k \in 0 .. L /\ n \in 0 .. L /\ n \in Nat /\ k \in Nat /\ k \in 0 .. L - n
        /\ Len(a.pending) = L - n /\ Len(a.pending) \in Nat
        /\ a.speed = m.speed /\ a.target = InForce(m, n) /\ t - Since(m, n) \in Nat
        /\ a.positions = integrate(m.speed, reached(m)[n], InForce(m, n), t - Since(m, n))
    BY <1>2, <1>3, <1>4 DEF Advances
  <1>7. /\ \A i \in 1 .. n : m.pending[i].due <= t
        /\ \A i \in 1 .. L - n : /\ a.pending[i].due = m.pending[n + i].due - t
                                /\ a.pending[i].positions = m.pending[n + i].positions
    BY <1>2 DEF Advances
  <1>8. /\ \A i \in 1 .. k : a.pending[i].due <= d
        /\ k < Len(a.pending) => a.pending[k + 1].due > d
    BY <1>3 DEF Advances
  <1>9. /\ b.speed = a.speed /\ b.target = InForce(a, k) /\ d - Since(a, k) \in Nat
        /\ b.positions = integrate(a.speed, reached(a)[k], InForce(a, k), d - Since(a, k))
        /\ Len(b.pending) = Len(a.pending) - k
        /\ \A i \in 1 .. Len(a.pending) - k :
              /\ b.pending[i].due = a.pending[k + i].due - d
              /\ b.pending[i].positions = a.pending[k + i].positions
    BY <1>3 DEF Advances
  <1>10. DueBy(m.pending, t + d) = n + k
    <2>1. ASSUME NEW i \in 1 .. n + k PROVE m.pending[i].due <= t + d
      <3>1. i \in 1 .. L /\ m.pending[i].due \in Int  BY <1>4, <1>5, <1>6
      <3>2. CASE i <= n
        <4>1. m.pending[i].due <= t  BY <1>7, <1>6, <3>1, <3>2
        <4>2. QED  BY <3>1, <4>1
      <3>3. CASE ~(i <= n)
        <4>1. i - n \in 1 .. k /\ i - n \in 1 .. L - n /\ n + (i - n) = i
          BY <1>4, <1>6, <3>3
        <4>2. a.pending[i - n].due <= d  BY <1>8, <4>1
        <4>3. a.pending[i - n].due = m.pending[i].due - t  BY <1>7, <4>1
        <4>4. QED  BY <3>1, <4>2, <4>3
      <3>4. QED  BY <3>2, <3>3
    <2>2. ASSUME n + k < L PROVE m.pending[(n + k) + 1].due > t + d
      <3>1. k < Len(a.pending) /\ k + 1 \in 1 .. L - n /\ n + (k + 1) = (n + k) + 1
            /\ (n + k) + 1 \in 1 .. L
        BY <1>2, <1>4, <1>6, <2>2
      <3>2. a.pending[k + 1].due > d  BY <1>8, <3>1
      <3>3. a.pending[k + 1].due = m.pending[(n + k) + 1].due - t  BY <1>7, <3>1
      <3>4. m.pending[(n + k) + 1].due \in Int  BY <1>5, <3>1
      <3>5. QED  BY <3>2, <3>3, <3>4
    <2>3. t + d \in Int  OBVIOUS
    <2>4. QED  BY <1>4, <1>6, <2>1, <2>2, <2>3, DueByUnique
  <1>11. ASSUME NEW i \in 0 .. k
         PROVE  /\ InForce(a, i) = InForce(m, n + i)
                /\ i # 0 => Since(a, i) = Since(m, n + i) - t
    <2>1. i \in 0 .. Len(a.pending)  BY <1>4, <1>6
    <2>2. QED  BY <1>2, <1>4, <2>1, AdvancedQueue
  <1>12. ASSUME NEW i \in 0 .. L
         PROVE  /\ InForce(m, i) \in [Joints -> Int] /\ Since(m, i) \in Int
                /\ reached(m)[i] \in [Joints -> Int]
    BY LegParts, ReachedType
  <1>13. ASSUME NEW i \in 1 .. k PROVE Since(a, i) - Since(a, i - 1) \in Nat
    <2>1. i \in 0 .. Len(a.pending) /\ i # 0 /\ 1 \in 1 .. Len(a.pending)  BY <1>4, <1>6
    <2>2. a.pending[1].due > 0  BY <2>1, AdvancedDues DEF Ahead, a
    <2>3. QED  BY <1>1, <2>1, <2>2, LegParts
  (* From where the first advance left the joints, the second one moves    *)
  (* them towards the same targets for the same spans of time.             *)
  <1> DEFINE Same == {i \in 0 .. k : i # 0 => reached(a)[i] = reached(m)[n + i]}
  <1>14. ASSUME NEW e \in Nat
         PROVE  integrate(m.speed, a.positions, InForce(m, n), e)
                  = integrate(m.speed, reached(m)[n], InForce(m, n), (t + e) - Since(m, n))
    <2>1. InForce(m, n) \in [Joints -> Int] /\ reached(m)[n] \in [Joints -> Int]
          /\ Since(m, n) \in Int
      BY <1>6, <1>12
    <2>2. (t - Since(m, n)) + e = (t + e) - Since(m, n)  BY <2>1
    <2>3. integrate(m.speed, a.positions, InForce(m, n), e)
            = integrate(m.speed, reached(m)[n], InForce(m, n), (t - Since(m, n)) + e)
      <3> DEFINE x == t - Since(m, n)
      <3>1. x \in Nat /\ m.speed \in Nat  BY <1>4, <1>6
      <3>2. a.positions = integrate(m.speed, reached(m)[n], InForce(m, n), x)  BY <1>6
      <3> HIDE DEF x
      <3>3. integrate(m.speed, integrate(m.speed, reached(m)[n], InForce(m, n), x), InForce(m, n), e)
              = integrate(m.speed, reached(m)[n], InForce(m, n), x + e)
        BY <2>1, <3>1, IntegrateAdds
      <3>4. integrate(m.speed, a.positions, InForce(m, n), e)
              = integrate(m.speed, reached(m)[n], InForce(m, n), x + e)
        BY <3>3, <2>1, <3>1, <3>2, IntegrateAdds
      <3>5. QED  BY <3>4 DEF x
    <2>4. QED  BY <2>2, <2>3
  <1>15. ASSUME NEW i \in 0 .. k - 1, i \in Same PROVE i + 1 \in Same
    <2>1. /\ i \in Nat /\ i + 1 \in 0 .. k /\ i \in 0 .. k /\ i + 1 # 0 /\ (i + 1) - 1 = i
          /\ n + (i + 1) \in 1 .. L /\ (n + (i + 1)) - 1 = n + i
          /\ i + 1 \in 1 .. Len(a.pending) /\ n + (i + 1) \in 0 .. L
          /\ Len(a.pending) \in Nat /\ n + (i + 1) # 0
      BY <1>2, <1>3, <1>4, <1>6
    <2>2. reached(a)[i + 1] = integrate(m.speed, reached(a)[i], InForce(m, n + i),
                                        Since(a, i + 1) - Since(a, i))
      <3>1. reached(a)[i + 1] = Leg(a, reached(a)[(i + 1) - 1], i + 1)  BY <2>1, ReachedIs
      <3>2. InForce(a, i) = InForce(m, n + i)  BY <1>11, <2>1
      <3>3. QED  BY <1>6, <2>1, <3>1, <3>2 DEF Leg
    <2>3. reached(m)[n + (i + 1)]
            = integrate(m.speed, reached(m)[n + i], InForce(m, n + i),
                        Since(m, n + (i + 1)) - Since(m, n + i))
      <3>1. reached(m)[n + (i + 1)] = Leg(m, reached(m)[(n + (i + 1)) - 1], n + (i + 1))
        BY <1>4, <2>1, ReachedIs
      <3>2. QED  BY <2>1, <3>1 DEF Leg
    <2>4. Since(a, i + 1) = Since(m, n + (i + 1)) - t  BY <1>11, <2>1
    <2>5. Since(m, n + (i + 1)) \in Int  BY <1>12, <2>1
    <2>6. CASE i = 0
      <3>1. Since(a, 0) = 0  BY DEF Since
      <3>2. reached(a)[0] = a.positions /\ n + 0 = n  BY <1>6, <2>1, ReachedIs
      <3>3. Since(a, i + 1) - Since(a, i) \in Nat
        <4>1. i + 1 \in 1 .. k  BY <2>1
        <4>2. Since(a, i + 1) - Since(a, (i + 1) - 1) \in Nat  BY <1>13, <4>1
        <4>3. QED  BY <2>1, <4>2
      <3> DEFINE e == Since(m, n + (i + 1)) - t
      <3>4. e \in Nat /\ Since(a, i + 1) - Since(a, i) = e /\ t + e = Since(m, n + (i + 1))
        BY <2>4, <2>5, <2>6, <3>1, <3>3
      <3> HIDE DEF e
      <3>5. reached(a)[i + 1] = integrate(m.speed, a.positions, InForce(m, n), e)
        BY <2>2, <2>6, <3>2, <3>4
      <3>6. reached(a)[i + 1] = integrate(m.speed, reached(m)[n], InForce(m, n),
                                          Since(m, n + (i + 1)) - Since(m, n))
        BY <1>14, <3>4, <3>5
      <3>7. reached(m)[n + (i + 1)] = integrate(m.speed, reached(m)[n], InForce(m, n),
                                                Since(m, n + (i + 1)) - Since(m, n))
        BY <2>3, <2>6, <3>2
      <3>8. QED  BY <2>1, <3>6, <3>7
    <2>7. CASE i # 0
      <3>1. reached(a)[i] = reached(m)[n + i]  BY <1>15, <2>7
      <3>2. Since(a, i) = Since(m, n + i) - t /\ Since(m, n + i) \in Int
        <4>1. n + i \in 0 .. L  BY <1>4, <1>6, <2>1
        <4>2. QED  BY <1>11, <1>12, <2>1, <2>7, <4>1
      <3>3. Since(a, i + 1) - Since(a, i) = Since(m, n + (i + 1)) - Since(m, n + i)
        BY <2>4, <2>5, <3>2
      <3>4. reached(a)[i + 1] = reached(m)[n + (i + 1)]  BY <2>2, <2>3, <3>1, <3>3
      <3>5. QED  BY <2>1, <3>4
    <2>8. QED  BY <2>6, <2>7
  <1>16. 0 .. k \subseteq Same
    <2>1. 0 \in Same  BY <1>6
    <2> HIDE DEF Same
    <2>2. QED  BY <1>6, <1>15, <2>1, UpTo
  <1>17. /\ c.speed = m.speed /\ c.target = InForce(m, n + k)
         /\ c.positions = integrate(m.speed, reached(m)[n + k], InForce(m, n + k),
                                    (t + d) - Since(m, n + k))
         /\ Len(c.pending) = L - (n + k)
         /\ \A i \in 1 .. L - (n + k) :
               /\ c.pending[i].due = m.pending[(n + k) + i].due - (t + d)
               /\ c.pending[i].positions = m.pending[(n + k) + i].positions
    <2>1. Advances(c, m, t + d, n + k)  BY <1>1, <1>10, AdvancedIs DEF c
    <2>2. QED  BY <2>1 DEF Advances
  <1>18. b.positions = c.positions
    <2>1. CASE k = 0
      <3>1. /\ reached(a)[0] = a.positions /\ n + 0 = n /\ InForce(a, 0) = InForce(m, n)
            /\ Since(a, 0) = 0 /\ d - 0 = d
        <4>1. Len(a.pending) \in Nat  BY <1>2, <1>4
        <4>2. reached(a)[0] = a.positions  BY <4>1, ReachedIs
        <4>3. QED  BY <1>2, <1>6, <4>2 DEF InForce, Since
      <3>2. b.positions = integrate(m.speed, a.positions, InForce(m, n), d)
        BY <1>6, <1>9, <2>1, <3>1
      <3>3. c.positions = integrate(m.speed, reached(m)[n], InForce(m, n), (t + d) - Since(m, n))
        BY <1>17, <2>1, <3>1
      <3>4. QED  BY <1>14, <3>2, <3>3
    <2>2. CASE k # 0
      <3>1. k \in 0 .. k /\ k \in Same  BY <1>6, <1>16
      <3>2. /\ reached(a)[k] = reached(m)[n + k] /\ InForce(a, k) = InForce(m, n + k)
            /\ Since(a, k) = Since(m, n + k) - t
        BY <1>11, <2>2, <3>1
      <3>3. Since(m, n + k) \in Int  BY <1>6, <1>12
      <3>4. d - Since(a, k) = (t + d) - Since(m, n + k)  BY <3>2, <3>3
      <3>5. QED  BY <1>6, <1>9, <1>17, <3>2, <3>4
    <2>3. QED  BY <2>1, <2>2
  <1>19. b.target = c.target /\ b.speed = c.speed
    <2>1. InForce(a, k) = InForce(m, n + k)  BY <1>6, <1>11
    <2>2. QED  BY <1>6, <1>9, <1>17, <2>1
  <1>20. b.pending = c.pending
    <2>1. Len(b.pending) = L - (n + k) /\ Len(c.pending) = L - (n + k)
          /\ L - (n + k) = Len(a.pending) - k
      BY <1>9, <1>4, <1>6, <1>17
    <2>2. b.pending \in Seq(Commands) /\ c.pending \in Seq(Commands)  BY <1>1, MotionParts DEF b, c
    <2>3. ASSUME NEW i \in 1 .. L - (n + k) PROVE b.pending[i] = c.pending[i]
      <3>1. i \in 1 .. Len(a.pending) - k /\ k + i \in 1 .. L - n /\ n + (k + i) = (n + k) + i
            /\ (n + k) + i \in 1 .. L
        BY <1>4, <1>6, <2>1
      <3>2. /\ b.pending[i].due = a.pending[k + i].due - d
            /\ b.pending[i].positions = a.pending[k + i].positions
        BY <1>9, <3>1
      <3>3. /\ a.pending[k + i].due = m.pending[(n + k) + i].due - t
            /\ a.pending[k + i].positions = m.pending[(n + k) + i].positions
        BY <1>7, <3>1
      <3>4. m.pending[(n + k) + i].due \in Int  BY <1>5, <3>1
      <3>5. (m.pending[(n + k) + i].due - t) - d = m.pending[(n + k) + i].due - (t + d)
        BY <3>4
      <3>6. /\ c.pending[i].due = m.pending[(n + k) + i].due - (t + d)
            /\ c.pending[i].positions = m.pending[(n + k) + i].positions
        BY <1>17
      <3>7. b.pending[i] \in Commands /\ c.pending[i] \in Commands  BY <2>1, <2>2, ElementAt
      <3>8. /\ b.pending[i] = [due |-> b.pending[i].due, positions |-> b.pending[i].positions]
            /\ c.pending[i] = [due |-> c.pending[i].due, positions |-> c.pending[i].positions]
        BY <3>7 DEF Commands
      <3>9. QED  BY <3>2, <3>3, <3>5, <3>6, <3>8
    <2>4. QED  BY <2>1, <2>2, <2>3, SameSeq
  <1>21. b = c
    <2>1. b = [speed |-> b.speed, positions |-> b.positions, target |-> b.target,
               pending |-> b.pending]
      BY <1>1, MotionParts DEF b
    <2>2. c = [speed |-> c.speed, positions |-> c.positions, target |-> c.target,
               pending |-> c.pending]
      BY <1>1, MotionParts
    <2>3. QED  BY <1>18, <1>19, <1>20, <2>1, <2>2
  <1>22. QED  BY <1>21 DEF a, b, c

(* Nothing that waits is dropped: the end of the queue stays what it was.  *)
LEMMA AdvancedFinal ==
    ASSUME NEW R, Convex(R), NEW m \in Motions(R), NEW t \in Nat
    PROVE  InForce(advanced(m, t), Len(advanced(m, t).pending)) = InForce(m, Len(m.pending))
  <1> DEFINE a == advanced(m, t)
             n == DueBy(m.pending, t)
  <1>1. Advances(a, m, t, n) /\ a \in Motions(R)  BY AdvancedIs, AdvancedType
  <1> HIDE DEF a, n
  <1>2. Len(m.pending) \in Nat /\ Len(a.pending) \in Nat  BY <1>1, MotionParts
  <1>3. n \in Nat /\ n + Len(a.pending) = Len(m.pending)  BY <1>1, <1>2 DEF Advances
  <1>4. Len(a.pending) \in 0 .. Len(a.pending)  BY <1>2
  <1>5. InForce(a, Len(a.pending)) = InForce(m, n + Len(a.pending))
    BY <1>1, <1>2, <1>4, AdvancedQueue
  <1>6. QED  BY <1>3, <1>5 DEF a

(* When every command is due, the last one is followed.                    *)
LEMMA AdvancedToEnd ==
    ASSUME NEW R, Convex(R), NEW m \in Motions(R), NEW t \in Nat,
           \A i \in 1 .. Len(m.pending) : m.pending[i].due <= t
    PROVE  /\ advanced(m, t).target = InForce(m, Len(m.pending))
           /\ advanced(m, t).pending = <<>>
  <1> DEFINE a == advanced(m, t)
             n == DueBy(m.pending, t)
  <1>1. Advances(a, m, t, n) /\ a \in Motions(R)  BY AdvancedIs, AdvancedType
  <1>2. Len(m.pending) \in Nat /\ m.pending \in Seq(Commands)
    BY MotionParts, Zenon
  <1>3. t \in Int  OBVIOUS
  <1>4. Len(m.pending) \in 0 .. Len(m.pending) /\ ~(Len(m.pending) < Len(m.pending))  BY <1>2
  <1>5. n = Len(m.pending)  BY <1>2, <1>4, <1>3, DueByUnique
  <1> HIDE DEF a, n
  <1>6. a.target = InForce(m, n) /\ Len(a.pending) = Len(m.pending) - n  BY <1>1 DEF Advances
  <1>7. Len(a.pending) = 0 /\ a.pending \in Seq(Commands)
    <2>1. a.pending \in Seq(Commands)  BY <1>1, MotionParts, Zenon
    <2>2. QED  BY <1>2, <1>5, <1>6, <2>1
  <1>8. a.pending = <<>>  BY <1>7
  <1>9. QED  BY <1>5, <1>6, <1>8 DEF a

(* A motion at rest stays as it is.                                        *)
LEMMA AdvancedAtRest ==
    ASSUME NEW R, Convex(R), NEW m \in Motions(R), NEW t \in Nat,
           m.pending = <<>>, m.target = m.positions
    PROVE  advanced(m, t) = m
  <1> DEFINE a == advanced(m, t)
             n == DueBy(m.pending, t)
  <1>1. Advances(a, m, t, n) /\ a \in Motions(R)  BY AdvancedIs, AdvancedType
  <1>2. Len(m.pending) = 0  OBVIOUS
  <1> HIDE DEF a, n
  <1>3. n = 0  BY <1>1, <1>2 DEF Advances
  <1>4. /\ a.speed = m.speed /\ a.target = m.target /\ Len(a.pending) = 0
        /\ a.positions = integrate(m.speed, m.positions, m.target, t)
    <2>1. InForce(m, 0) = m.target /\ Since(m, 0) = 0 /\ t - 0 = t  BY DEF InForce, Since
    <2>2. reached(m)[0] = m.positions  BY <1>2, ReachedIs
    <2>3. QED  BY <1>1, <1>2, <1>3, <2>1, <2>2 DEF Advances
  <1>5. m.speed \in Nat /\ m.positions \in [Joints -> Int]  BY MotionParts
  <1>6. a.positions = m.positions  BY <1>4, <1>5, IntegrateRests
  <1>7. a.pending \in Seq(Commands)  BY <1>1, MotionParts
  <1>8. a.pending = <<>>  BY <1>4, <1>7
  <1>9. a = [speed |-> a.speed, positions |-> a.positions, target |-> a.target,
             pending |-> a.pending]
    BY <1>1, MotionParts
  <1>10. m = [speed |-> m.speed, positions |-> m.positions, target |-> m.target,
              pending |-> m.pending]
    BY MotionParts
  <1>11. a = m  BY <1>4, <1>6, <1>8, <1>9, <1>10
  <1>12. QED  BY <1>11 DEF a

(* One tick: commands that become due at its end have no time to move      *)
(* anything, unless there is no speed limit.                               *)
LEMMA AdvancedByOne ==
    ASSUME NEW R, Convex(R), NEW m \in Motions(R),
           \A i \in 1 .. Len(m.pending) : m.pending[i].due > 0
    PROVE  advanced(m, 1).positions
             = IF m.speed = Unlimited THEN advanced(m, 1).target
               ELSE integrate(m.speed, m.positions, m.target, 1)
  <1> DEFINE a == advanced(m, 1)
             n == DueBy(m.pending, 1)
             there == integrate(m.speed, m.positions, m.target, 1)
  <1>1. Advances(a, m, 1, n)  BY AdvancedIs
  <1>2. /\ Len(m.pending) \in Nat /\ m.speed \in Nat
        /\ m.positions \in [Joints -> Int] /\ m.target \in [Joints -> Int]
        /\ m.pending \in Seq(Commands)
    BY MotionParts
  <1> HIDE DEF a, n
  <1>3. /\ n \in 0 .. Len(m.pending) /\ n \in Nat /\ a.target = InForce(m, n)
        /\ a.positions = integrate(m.speed, reached(m)[n], InForce(m, n), 1 - Since(m, n))
        /\ \A i \in 1 .. n : m.pending[i].due <= 1
    BY <1>1, <1>2 DEF Advances
  <1>4. reached(m)[0] = m.positions /\ InForce(m, 0) = m.target /\ Since(m, 0) = 0
    BY <1>2, ReachedIs DEF InForce, Since
  <1>5. CASE m.speed = Unlimited
    <2>1. 1 - Since(m, n) \in Nat  BY <1>1 DEF Advances
    <2>2. QED  BY <1>3, <1>5, <2>1, IntegrateJumps DEF a
  <1>6. CASE m.speed # Unlimited /\ n = 0
    <2>1. 1 - 0 = 1  OBVIOUS
    <2>2. QED  BY <1>3, <1>4, <1>6, <2>1 DEF a
  <1>7. CASE m.speed # Unlimited /\ n # 0
    <2>1. ASSUME NEW i \in 1 .. n PROVE Since(m, i) = 1
      <3>1. i \in 1 .. Len(m.pending) /\ i # 0  BY <1>2, <1>3
      <3>2. m.pending[i] \in Commands  BY <1>2, <3>1, ElementAt
      <3>3. m.pending[i].due \in Int /\ m.pending[i].due > 0 /\ m.pending[i].due <= 1
        BY <1>3, <3>1, <3>2 DEF Commands
      <3>4. QED  BY <3>1, <3>3 DEF Since
    <2>2. ASSUME NEW i \in 1 .. n
          PROVE  reached(m)[i]
                   = integrate(m.speed, reached(m)[i - 1], InForce(m, i - 1), 1 - Since(m, i - 1))
      <3>1. i \in 1 .. Len(m.pending)  BY <1>2, <1>3
      <3>2. QED  BY <1>2, <2>1, <3>1, ReachedIs DEF Leg
    <2> DEFINE There == {i \in 0 .. n : i # 0 => reached(m)[i] = there}
    <2>3. ASSUME NEW i \in 0 .. n - 1, i \in There PROVE i + 1 \in There
      <3>1. i + 1 \in 1 .. n /\ (i + 1) - 1 = i /\ i + 1 \in 0 .. n /\ i \in 0 .. Len(m.pending)
        BY <1>2, <1>3
      <3>2. reached(m)[i + 1] = integrate(m.speed, reached(m)[i], InForce(m, i), 1 - Since(m, i))
        <4>1. reached(m)[i + 1] = integrate(m.speed, reached(m)[(i + 1) - 1],
                                            InForce(m, (i + 1) - 1), 1 - Since(m, (i + 1) - 1))
          BY <2>2, <3>1
        <4>2. QED  BY <3>1, <4>1
      <3>3. CASE i = 0
        <4>1. 1 - 0 = 1  OBVIOUS
        <4>2. reached(m)[i + 1] = there  BY <1>4, <3>2, <3>3, <4>1
        <4>3. QED  BY <3>1, <4>2
      <3>4. CASE i # 0
        <4>1. i \in 1 .. n /\ 1 - 1 = 0  BY <1>3, <3>1, <3>4
        <4>2. Since(m, i) = 1  BY <2>1, <4>1
        <4>3. reached(m)[i] \in [Joints -> Int] /\ InForce(m, i) \in [Joints -> Int]
          BY <3>1, LegParts, ReachedType
        <4>4. integrate(m.speed, reached(m)[i], InForce(m, i), 0) = reached(m)[i]
          BY <1>2, <1>7, <4>3, IntegrateNothing
        <4>5. reached(m)[i + 1] = there  BY <2>3, <3>2, <3>4, <4>1, <4>2, <4>4
        <4>6. QED  BY <3>1, <4>5
      <3>5. QED  BY <3>3, <3>4
    <2>4. n \in There
      <3>1. 0 \in There  BY <1>3
      <3> HIDE DEF There
      <3>2. 0 .. n \subseteq There  BY <1>3, <2>3, <3>1, UpTo
      <3>3. QED  BY <1>3, <3>2
    <2>5. reached(m)[n] = there  BY <1>7, <2>4
    <2>6. n \in 1 .. n /\ 1 - 1 = 0  BY <1>3, <1>7
    <2>7. Since(m, n) = 1  BY <2>1, <2>6
    <2>8. reached(m)[n] \in [Joints -> Int] /\ InForce(m, n) \in [Joints -> Int]
      BY <1>3, LegParts, ReachedType
    <2>9. integrate(m.speed, reached(m)[n], InForce(m, n), 0) = reached(m)[n]
      BY <1>2, <1>7, <2>8, IntegrateNothing
    <2>10. a.positions = there  BY <1>3, <2>5, <2>6, <2>7, <2>9
    <2>11. QED  BY <1>7, <2>10 DEF a
  <1>8. QED  BY <1>5, <1>6, <1>7

(* A command that becomes due after those that wait.                       *)
LEMMA Appended ==
    ASSUME NEW R, Convex(R), NEW m \in Motions(R),
           NEW c \in [due : Int, positions : [Joints -> R]], c.due \in Nat, Within(m, c.due),
           NEW q, q = [speed |-> m.speed, positions |-> m.positions, target |-> m.target,
                       pending |-> Append(m.pending, c)]
    PROVE  /\ q \in Motions(R) /\ Within(q, c.due)
           /\ InForce(q, Len(q.pending)) = c.positions
           /\ \A d \in Nat : advanced(q, d).target
                               = IF d >= c.due THEN c.positions ELSE advanced(m, d).target
  <1> DEFINE C == [due : Int, positions : [Joints -> R]]
             L == Len(m.pending)
  <1>1. /\ m.speed \in Nat /\ m.positions \in [Joints -> R] /\ m.target \in [Joints -> R]
        /\ m.pending \in Seq(C) /\ m.pending \in Seq(Commands) /\ L \in Nat
        /\ Sorted(m.pending)
    BY MotionParts, Zenon
  <1>2. /\ q.speed = m.speed /\ q.positions = m.positions /\ q.target = m.target
        /\ q.pending = Append(m.pending, c)
    OBVIOUS
  <1>3. /\ q.pending \in Seq(C) /\ Len(q.pending) = L + 1 /\ q.pending[L + 1] = c
        /\ \A i \in 1 .. L : q.pending[i] = m.pending[i]
    <2> HIDE DEF C
    <2>1. c \in C  BY DEF C
    <2>2. QED  BY <1>1, <1>2, <2>1, AppendIs
  <1>4. \A i \in 1 .. L + 1 : q.pending[i].due \in Int /\ q.pending[i].due <= c.due
    <2>1. SUFFICES ASSUME NEW i \in 1 .. L + 1
                   PROVE  q.pending[i].due \in Int /\ q.pending[i].due <= c.due
      OBVIOUS
    <2>2. q.pending[i].due \in Int
      <3>1. q.pending[i] \in C  BY <1>3, ElementAt
      <3>2. QED  BY <3>1
    <2>3. CASE i = L + 1  BY <1>3, <2>2, <2>3
    <2>4. CASE i # L + 1
      <3>1. i \in 1 .. L  BY <1>1, <2>4
      <3>2. QED  BY <1>3, <2>2, <3>1 DEF Within
    <2>5. QED  BY <2>3, <2>4
  <1>5. Within(q, c.due)  BY <1>3, <1>4 DEF Within
  <1>6. Sorted(q.pending)
    <2>1. SUFFICES ASSUME NEW i \in 1 .. L + 1, NEW k \in 1 .. L + 1, i < k
                   PROVE  q.pending[i].due <= q.pending[k].due
      BY <1>3, SMTT(30) DEF Sorted
    <2>2. CASE k = L + 1  BY <1>3, <1>4, <2>2
    <2>3. CASE k # L + 1
      <3>1. i \in 1 .. L /\ k \in 1 .. L  BY <1>1, <2>1, <2>3, SMTT(30)
      <3>2. i \in DOMAIN m.pending /\ k \in DOMAIN m.pending  BY <1>1, <3>1
      <3>3. m.pending[i].due <= m.pending[k].due  BY <1>1, <2>1, <3>2 DEF Sorted
      <3>4. QED  BY <1>3, <3>1, <3>3
    <2>4. QED  BY <2>2, <2>3
  <1>7. q \in Motions(R)
    <2>1. q \in [speed : Nat, positions : [Joints -> R], target : [Joints -> R], pending : Seq(C)]
      <3> HIDE DEF C
      <3>1. QED  BY <1>1, <1>2, <1>3
    <2>2. QED  BY <1>6, <2>1 DEF Motions
  <1>8. InForce(q, Len(q.pending)) = c.positions
    <2>1. L + 1 # 0  BY <1>1
    <2>2. QED  BY <1>3, <2>1 DEF InForce
  <1>9. ASSUME NEW d \in Nat, d >= c.due PROVE advanced(q, d).target = c.positions
    <2>1. \A i \in 1 .. Len(q.pending) : q.pending[i].due <= d  BY <1>3, <1>4, <1>9
    <2>2. QED  BY <1>7, <1>8, <2>1, AdvancedToEnd
  <1>10. ASSUME NEW d \in Nat, ~(d >= c.due)
         PROVE  advanced(q, d).target = advanced(m, d).target
    <2> DEFINE n == DueBy(m.pending, d)
    <2>1. /\ n \in 0 .. L /\ \A i \in 1 .. n : m.pending[i].due <= d
          /\ n < L => m.pending[n + 1].due > d
      <3>1. d \in Int  OBVIOUS
      <3>2. QED  BY <1>1, <3>1, DueByIs, Zenon
    <2> HIDE DEF n
    <2>2. \A i \in 1 .. n : q.pending[i].due <= d  BY <1>1, <1>3, <2>1
    <2>3. n < L + 1 => q.pending[n + 1].due > d
      <3>1. CASE n = L  BY <1>3, <1>10, <3>1
      <3>2. CASE n # L
        <4>1. n < L /\ n + 1 \in 1 .. L  BY <1>1, <2>1, <3>2, SMTT(30)
        <4>2. QED  BY <1>3, <2>1, <4>1
      <3>3. QED  BY <3>1, <3>2
    <2>4. q.pending \in Seq(Commands)  BY <1>7, MotionParts
    <2>5. DueBy(q.pending, d) = n
      <3>1. n \in 0 .. Len(q.pending) /\ d \in Int  BY <1>1, <1>3, <2>1
      <3>2. n < Len(q.pending) => q.pending[n + 1].due > d  BY <1>3, <2>3
      <3>3. QED  BY <2>2, <2>4, <3>1, <3>2, DueByUnique
    <2>6. InForce(q, n) = InForce(m, n)
      <3>1. CASE n = 0  BY <1>2, <3>1 DEF InForce
      <3>2. CASE n # 0
        <4>1. n \in 1 .. L  BY <1>1, <2>1, <3>2
        <4>2. QED  BY <1>3, <3>2, <4>1 DEF InForce
      <3>3. QED  BY <3>1, <3>2
    <2>7. advanced(q, d).target = InForce(q, DueBy(q.pending, d))  BY DEF advanced
    <2>8. advanced(m, d).target = InForce(m, n)  BY DEF advanced, n
    <2>9. QED  BY <2>5, <2>6, <2>7, <2>8
  <1>11. QED  BY <1>5, <1>7, <1>8, <1>9, <1>10

(* It moves nothing at once, unless it is followed at once and there is no *)
(* speed limit.                                                            *)
LEMMA AppendedHere ==
    ASSUME NEW R, Convex(R), NEW m \in Motions(R), Ahead(m),
           NEW c \in [due : Int, positions : [Joints -> R]], c.due \in Nat, Within(m, c.due),
           NEW q, q = [speed |-> m.speed, positions |-> m.positions, target |-> m.target,
                       pending |-> Append(m.pending, c)]
    PROVE  advanced(q, 0).positions
             = IF m.speed = Unlimited THEN advanced(q, 0).target ELSE m.positions
  <1> DEFINE n == DueBy(q.pending, 0)
             a == advanced(q, 0)
             L == Len(m.pending)
             C == [due : Int, positions : [Joints -> R]]
  <1>1. q \in Motions(R)  BY Appended
  <1>2. /\ m.speed \in Nat /\ m.positions \in [Joints -> Int] /\ m.target \in [Joints -> Int]
        /\ m.pending \in Seq(C) /\ m.pending \in Seq(Commands) /\ L \in Nat
    BY MotionParts, Zenon
  <1>3. Advances(a, q, 0, n)  BY <1>1, AdvancedIs
  <1>4. /\ q.speed = m.speed /\ q.positions = m.positions /\ q.target = m.target
        /\ q.pending = Append(m.pending, c)
    OBVIOUS
  <1>5. /\ Len(q.pending) = L + 1 /\ q.pending[L + 1] = c
        /\ \A i \in 1 .. L : q.pending[i] = m.pending[i]
    <2> HIDE DEF C
    <2>1. c \in C  BY DEF C
    <2>2. QED  BY <1>2, <1>4, <2>1, AppendIs
  <1> HIDE DEF n, a
  <1>6. /\ n \in 0 .. L + 1 /\ a.target = InForce(q, n)
        /\ a.positions = integrate(q.speed, reached(q)[n], InForce(q, n), 0 - Since(q, n))
        /\ \A i \in 1 .. n : q.pending[i].due <= 0
    BY <1>3, <1>5 DEF Advances
  <1>7. \A i \in 1 .. L : m.pending[i].due \in Int /\ m.pending[i].due > 0
                           /\ m.pending[i].due <= c.due
    <2>1. \A i \in 1 .. L : m.pending[i] \in Commands  BY <1>2, ElementAt
    <2>2. QED  BY <2>1 DEF Commands, Ahead, Within
  <1>8. n = 0 \/ (n = 1 /\ Since(q, 1) = 0)
    <2>1. SUFFICES ASSUME n # 0 PROVE n = 1 /\ Since(q, 1) = 0  OBVIOUS
    <2>2. 1 \in 1 .. n  BY <1>2, <1>6, <2>1
    <2>3. q.pending[1].due <= 0  BY <1>6, <2>2
    <2>4. L = 0
      <3>1. SUFFICES ASSUME L # 0 PROVE FALSE  OBVIOUS
      <3>2. 1 \in 1 .. L  BY <1>2, <3>1
      <3>3. QED  BY <1>5, <1>7, <2>3, <3>2, SMTT(30)
    <2>5. n = 1 /\ q.pending[1] = c  BY <1>5, <1>6, <2>1, <2>4
    <2>6. q.pending[1].due = 0  BY <2>3, <2>5
    <2>7. QED  BY <2>5, <2>6 DEF Since
  <1>9. CASE m.speed = Unlimited
    <2>1. 0 - Since(q, n) \in Nat  BY <1>3 DEF Advances
    <2>2. QED  BY <1>4, <1>6, <1>9, <2>1, IntegrateJumps DEF a
  <1>10. CASE m.speed # Unlimited
    <2>1. /\ reached(q)[0] = m.positions /\ InForce(q, 0) = m.target /\ Since(q, 0) = 0
          /\ 0 - 0 = 0
      <3>1. Len(q.pending) \in Nat  BY <1>2, <1>5
      <3>2. reached(q)[0] = m.positions  BY <1>4, <3>1, ReachedIs
      <3>3. QED  BY <1>4, <3>2 DEF InForce, Since
    <2>2. integrate(m.speed, m.positions, m.target, 0) = m.positions
      BY <1>2, <1>10, IntegrateNothing
    <2>3. CASE n = 0  BY <1>4, <1>6, <1>10, <2>1, <2>2, <2>3 DEF a
    <2>4. CASE n = 1 /\ Since(q, 1) = 0
      <3>1. 1 \in 1 .. Len(q.pending) /\ 1 - 1 = 0 /\ 1 \in 0 .. Len(q.pending)
            /\ Len(q.pending) \in Nat
        BY <1>2, <1>5
      <3>2. reached(q)[1] = Leg(q, reached(q)[1 - 1], 1)  BY <3>1, ReachedIs
      <3>3. reached(q)[1] = m.positions  BY <1>4, <2>1, <2>2, <2>4, <3>1, <3>2 DEF Leg
      <3>4. InForce(q, 1) \in [Joints -> Int]  BY <1>1, <3>1, LegParts
      <3>5. integrate(m.speed, m.positions, InForce(q, 1), 0) = m.positions
        BY <1>2, <1>10, <3>4, IntegrateNothing
      <3>6. QED  BY <1>4, <1>6, <1>10, <2>1, <2>4, <3>3, <3>5 DEF a
    <2>5. QED  BY <1>8, <2>3, <2>4
  <1>11. QED  BY <1>9, <1>10

-----------------------------------------------------------------------------
(* The motion as it would be after a look at the robot.                    *)
Now == advanced(motion, lag)

(* The place and the goal of the robot are those of that motion.           *)
LEMMA PlaceIs ==
    /\ Place = Now.positions /\ Place' = Now'.positions
    /\ \A d : /\ Following(d) = advanced(motion, lag + d).target
             /\ Following(d)' = advanced(motion', lag' + d).target
  BY DEF Place, Following, Now, advanced, arrived, motion

(* The type of the motion, in terms of the record.                         *)
NotBefore(m) == \A i \in 1 .. Len(m.pending) : m.pending[i].due >= -MaxLag
MotionType(m, l) == m \in Motions(Positions) /\ Within(m, l) /\ NotBefore(m)

PoseQueue(q, l) ==
    /\ q \in Seq([due : -MaxLag .. l, positions : Poses])
    /\ \A i, k \in DOMAIN q : i < k => q[i].due <= q[k].due

(* They are the same.                                                      *)
LEMMA MotionTypeIs ==
    ASSUME MaxLag \in Nat, NEW v \in Nat, NEW l \in Nat, NEW p, NEW g, NEW q
    PROVE  MotionType([speed |-> v, positions |-> p, target |-> g, pending |-> q], l)
             <=> p \in Poses /\ g \in Poses /\ PoseQueue(q, l)
  <1> DEFINE m == [speed |-> v, positions |-> p, target |-> g, pending |-> q]
             C == [due : Int, positions : Poses]
             D == [due : -MaxLag .. l, positions : Poses]
  <1>1. m.speed = v /\ m.positions = p /\ m.target = g /\ m.pending = q  OBVIOUS
  <1>2. m \in Motions(Positions)
          <=> p \in Poses /\ g \in Poses /\ q \in Seq(C) /\ Sorted(q)
    BY DEF Motions, Poses
  <1>3. Within(m, l) /\ NotBefore(m)
          <=> \A i \in 1 .. Len(q) : -MaxLag <= q[i].due /\ q[i].due <= l
    BY <1>1 DEF Within, NotBefore
  <1>4. D \subseteq C  OBVIOUS
  <1>5. ASSUME q \in Seq(D)
        PROVE  /\ q \in Seq(C)
               /\ \A i \in 1 .. Len(q) : -MaxLag <= q[i].due /\ q[i].due <= l
    <2>1. q \in Seq(C)
      <3> HIDE DEF C, D
      <3>1. QED  BY <1>4, <1>5, LargerSeq
    <2>2. \A i \in 1 .. Len(q) : q[i] \in D
      <3> HIDE DEF D
      <3>1. QED  BY <1>5, ElementAt
    <2>3. QED  BY <2>1, <2>2
  <1>6. ASSUME q \in Seq(C), \A i \in 1 .. Len(q) : -MaxLag <= q[i].due /\ q[i].due <= l
        PROVE  q \in Seq(D)
    <2>1. ASSUME NEW i \in 1 .. Len(q) PROVE q[i] \in D
      <3>1. q[i] \in C
        <4> HIDE DEF C
        <4>1. QED  BY <1>6, ElementAt
      <3>2. q[i].due \in Int /\ -MaxLag <= q[i].due /\ q[i].due <= l
            /\ q[i] = [due |-> q[i].due, positions |-> q[i].positions]
            /\ q[i].positions \in Poses
        BY <1>6, <3>1
      <3>3. q[i].due \in -MaxLag .. l  BY <3>2
      <3>4. QED  BY <3>2, <3>3
    <2>2. QED
      <3> HIDE DEF C, D
      <3>1. QED  BY <1>6, <2>1
  <1>7. PoseQueue(q, l) <=> q \in Seq(D) /\ Sorted(q)  BY DEF PoseQueue, Sorted
  <1> HIDE DEF m, C, D
  <1>8. QED  BY <1>2, <1>3, <1>5, <1>6, <1>7 DEF MotionType, m

(* The phases and the parameters.                                          *)
PhaseType ==
    /\ configured \in BOOLEAN /\ connected \in BOOLEAN /\ active \in BOOLEAN
    /\ streaming \in BOOLEAN /\ stopped \in BOOLEAN
    /\ (streaming => active) /\ (active => connected) /\ (connected => configured)
    /\ disconnectInjected \in BOOLEAN /\ restarted \in BOOLEAN
    /\ speed \in Speeds /\ latency \in Latencies

(* MockTypeOK in these terms.                                              *)
LEMMA TypeIs ==
    ASSUME MockAssumption
    PROVE  MockTypeOK <=> PhaseType /\ MotionType(motion, latency) /\ wanted \in Poses
                          /\ lag \in 0 .. MaxLag
  <1>1. /\ speed \in Speeds /\ latency \in Latencies => speed \in Nat /\ latency \in Nat
        /\ MaxLag \in Nat
    BY DEF MockAssumption
  <1>2. speed \in Nat /\ latency \in Nat
          => (MotionType(motion, latency)
                <=> positions \in Poses /\ target \in Poses /\ PoseQueue(pending, latency))
    BY <1>1, MotionTypeIs DEF motion
  <1>3. QED  BY <1>1, <1>2 DEF MockTypeOK, PhaseType, PoseQueue

(* The motion that an advance leaves is typed, too.                        *)
LEMMA NowIs ==
    ASSUME MockAssumption, MockTypeOK
    PROVE  /\ Convex(Positions) /\ speed \in Nat /\ latency \in Nat /\ lag \in Nat
           /\ motion \in Motions(Positions) /\ Within(motion, latency)
           /\ MotionType(Now, latency) /\ Ahead(Now) /\ Now.speed = speed
           /\ Now = [speed |-> speed, positions |-> Now.positions, target |-> Now.target,
                     pending |-> Now.pending]
           /\ Now.positions \in Poses /\ Now.target \in Poses /\ PoseQueue(Now.pending, latency)
  <1>1. Convex(Positions)  BY DEF MockAssumption, Convex
  <1>2. /\ Convex(Positions) /\ speed \in Nat /\ latency \in Nat /\ lag \in Nat
    <2>1. Speeds \subseteq Nat /\ Latencies \subseteq Nat /\ MaxLag \in Nat  BY DEF MockAssumption
    <2>2. speed \in Speeds /\ latency \in Latencies /\ lag \in 0 .. MaxLag  BY DEF MockTypeOK
    <2>3. QED  BY <1>1, <2>1, <2>2
  <1>3. motion \in Motions(Positions) /\ Within(motion, latency)  BY TypeIs DEF MotionType
  <1>4. Now \in Motions(Positions) /\ Ahead(Now) /\ Within(Now, latency)
    BY <1>2, <1>3, AdvancedType, AdvancedDues DEF Now
  <1>5. Now.speed = speed  BY DEF Now, advanced, motion
  <1>6. /\ Now = [speed |-> Now.speed, positions |-> Now.positions, target |-> Now.target,
                  pending |-> Now.pending]
        /\ Now.positions \in [Joints -> Positions] /\ Now.target \in [Joints -> Positions]
    BY <1>2, <1>4, MotionParts, Zenon
  <1>7. MotionType(Now, latency)
    <2>1. Now.pending \in Seq(Commands) /\ MaxLag \in Nat
      BY <1>2, <1>4, MotionParts, Zenon DEF MockAssumption
    <2>2. ASSUME NEW i \in 1 .. Len(Now.pending) PROVE Now.pending[i].due >= -MaxLag
      <3>1. Now.pending[i] \in Commands  BY <2>1, ElementAt
      <3>2. Now.pending[i].due \in Int /\ Now.pending[i].due > 0
        BY <1>4, <3>1 DEF Commands, Ahead
      <3>3. QED  BY <2>1, <3>2
    <2>3. QED  BY <1>4, <2>2 DEF MotionType, NotBefore
  <1>8. PoseQueue(Now.pending, latency)
    <2>1. MotionType([speed |-> speed, positions |-> Now.positions, target |-> Now.target,
                      pending |-> Now.pending], latency)
      BY <1>5, <1>6, <1>7
    <2>2. MaxLag \in Nat  BY DEF MockAssumption
    <2>3. QED  BY <1>2, <2>1, <2>2, MotionTypeIs
  <1>9. QED  BY <1>2, <1>3, <1>4, <1>5, <1>6, <1>7, <1>8 DEF Poses

-----------------------------------------------------------------------------
(* The invariant: types, and rest when nothing may move.                   *)
MockInv == MockTypeOK /\ StoppedIsAtRest /\ NewestWins

(* Nothing waits in order, too.                                            *)
LEMMA EmptyQueue == \A l \in Nat : PoseQueue(<<>>, l)
  BY DEF PoseQueue

(* It holds at first.                                                      *)
LEMMA InitInv == ASSUME MockAssumption, MockInit PROVE MockInv
  <1>1. positions \in Poses /\ target \in Poses /\ wanted \in Poses
    BY DEF MockInit, MockAssumption, Poses
  <1>2. PoseQueue(pending, latency)  BY EmptyQueue DEF MockInit
  <1>3. speed \in Speeds /\ latency \in Latencies /\ lag \in 0 .. MaxLag
    BY DEF MockInit, MockAssumption
  <1>4. MockTypeOK  BY <1>1, <1>2, <1>3 DEF MockInit, MockTypeOK, PoseQueue
  <1>5. StoppedIsAtRest  BY DEF MockInit, StoppedIsAtRest
  <1>6. NewestWins
    <2>1. motion.target = target /\ Len(<<>>) = 0  BY DEF motion
    <2>2. InForce(motion, 0) = target  BY <2>1 DEF InForce
    <2>3. QED  BY <2>1, <2>2 DEF NewestWins, Final, MockInit
  <1>7. QED  BY <1>4, <1>5, <1>6 DEF MockInv

(* What a step does to the motion, with the two ways to advance.           *)
MotionTyped ==
    /\ positions \in Poses /\ target \in Poses /\ wanted \in Poses
    /\ PoseQueue(pending, latency) /\ lag \in 0 .. MaxLag

(* An advance keeps the types.                                             *)
LEMMA AdvanceTyped ==
    ASSUME MockAssumption, MockInv, Advance \/ AdvanceAndHold, latency' = latency
    PROVE  MotionTyped'
  <1>1. /\ Now.positions \in Poses /\ Now.target \in Poses /\ PoseQueue(Now.pending, latency)
        /\ latency \in Nat
    BY NowIs DEF MockInv
  <1>2. wanted \in Poses /\ 0 \in 0 .. MaxLag  BY DEF MockInv, MockTypeOK, MockAssumption
  <1>3. CASE Advance
    <2>1. /\ positions' = Now.positions /\ target' = Now.target /\ pending' = Now.pending
          /\ lag' = 0 /\ wanted' = wanted
      BY <1>3 DEF Advance, Now
    <2>2. QED  BY <1>1, <1>2, <2>1 DEF MotionTyped
  <1>4. CASE AdvanceAndHold
    <2>1. PoseQueue(<<>>, latency)  BY <1>1, EmptyQueue
    <2>2. QED  BY <1>1, <1>2, <1>4, <2>1 DEF AdvanceAndHold, MotionTyped, Now
  <1>5. QED  BY <1>3, <1>4

(* Nothing moves while the robot is not being streamed to.                 *)
LEMMA Resting ==
    ASSUME MockInv, stopped \/ ~active \/ ~streaming \/ ~connected \/ ~configured
    PROVE  pending = <<>> /\ target = positions /\ wanted = positions
  <1>1. pending = <<>> /\ target = positions
    BY DEF MockInv, MockTypeOK, StoppedIsAtRest
  <1>2. wanted = InForce(motion, 0)
    <2>1. Len(<<>>) = 0  OBVIOUS
    <2>2. QED  BY <1>1, <2>1 DEF MockInv, NewestWins, Final
  <1>3. InForce(motion, 0) = target  BY DEF InForce, motion
  <1>4. QED  BY <1>1, <1>2, <1>3

(* A valid command, and what it leaves waiting.                            *)
Ordered(command) ==
    [due |-> latency,
     positions |-> [j \in Joints |-> IF j \in DOMAIN command THEN command[j] ELSE newest(Now)[j]]]

(* A command names positions that are commanded.                           *)
LEMMA CommandIs ==
    ASSUME NEW command \in MockCommands
    PROVE  \A j \in DOMAIN command : command[j] \in Targets
  <1>1. \E members \in (SUBSET Joints) \ {{}}, p \in Targets : command = [j \in members |-> p]
    BY DEF MockCommands
  <1>2. QED  BY <1>1

(* What is ordered is typed, due last, and changes what was wanted.        *)
LEMMA OrderedIs ==
    ASSUME MockAssumption, MockInv, NEW command \in MockCommands
    PROVE  /\ Ordered(command) \in [due : Int, positions : [Joints -> Positions]]
           /\ Within(Now, Ordered(command).due) /\ newest(Now) = wanted
           /\ Ordered(command).due = latency /\ Ordered(command).due \in Nat
  <1>1. /\ Convex(Positions) /\ motion \in Motions(Positions) /\ lag \in Nat /\ latency \in Nat
        /\ Within(Now, latency)
    BY NowIs DEF MockInv, MotionType
  <1>2. newest(Now) = InForce(motion, Len(pending))
    BY <1>1, AdvancedFinal DEF newest, Now, motion
  <1>3. newest(Now) = wanted  BY <1>2 DEF MockInv, NewestWins, Final
  <1>4. wanted \in [Joints -> Positions]  BY DEF MockInv, MockTypeOK, Poses
  <1>5. \A j \in DOMAIN command : command[j] \in Targets  BY CommandIs
  <1>6. \A j \in DOMAIN command : command[j] \in Positions
    BY <1>5 DEF MockAssumption
  <1>7. [j \in Joints |-> IF j \in DOMAIN command THEN command[j] ELSE newest(Now)[j]]
           \in [Joints -> Positions]
    BY <1>3, <1>4, <1>6
  <1>8. QED  BY <1>1, <1>3, <1>7 DEF Ordered

(* A write advances, and then a valid command joins the queue, ...         *)
LEMMA WriteIs ==
    ASSUME MockAssumption, MockInv, NEW command \in MockCommands,
           writeJointCommand(command, TRUE)
    PROVE  /\ positions' = Now.positions /\ target' = Now.target /\ lag' = 0
           /\ pending' = Append(Now.pending, Ordered(command))
           /\ wanted' = Ordered(command).positions
           /\ active /\ streaming /\ connected /\ speed' = speed /\ latency' = latency
  <1>1. newest(Now) = wanted  BY OrderedIs
  <1>2. wanted' = [j \in Joints |-> IF j \in DOMAIN command THEN command[j] ELSE wanted[j]]
    BY DEF writeJointCommand
  <1>3. wanted' = Ordered(command).positions  BY <1>1, <1>2 DEF Ordered
  <1>4. /\ positions' = Now.positions /\ target' = Now.target /\ lag' = 0
        /\ pending' = Append(Now.pending, Ordered(command))
    BY DEF writeJointCommand, Ordered, Now
  <1>5. QED  BY <1>3, <1>4 DEF writeJointCommand, communicationAvailable, limitVars

(* ... while a bad one only advances it.                                   *)
LEMMA RefusedIs ==
    ASSUME MockInv, writeJointCommand(<<>>, FALSE)
    PROVE  /\ positions' = Now.positions /\ target' = Now.target /\ lag' = 0
           /\ pending' = Now.pending /\ wanted' = wanted
           /\ speed' = speed /\ latency' = latency
  <1>1. wanted \in [Joints -> Positions]  BY DEF MockInv, MockTypeOK, Poses
  <1>2. wanted' = [j \in Joints |-> wanted[j]]  BY DEF writeJointCommand
  <1>3. wanted' = wanted  BY <1>1, <1>2
  <1>4. QED  BY <1>3 DEF writeJointCommand, limitVars, Now

(* A second start of the stream puts the queue on the new time scale.      *)
LEMMA StartedOver ==
    ASSUME MockAssumption, MockInv, startJointStream
    PROVE  /\ Len(pending') = Len(pending)
           /\ pending' \in Seq([due : -MaxLag .. latency, positions : Poses])
           /\ \A i \in 1 .. Len(pending) : /\ pending'[i].due = pending[i].due - lag
                                          /\ pending'[i].positions = pending[i].positions
           /\ \A i \in 1 .. Len(pending) : pending[i].due \in Int
  <1> DEFINE C == [due : -MaxLag .. latency, positions : Poses]
  <1>1. pending \in Seq(C) /\ Len(pending) \in Nat /\ DOMAIN pending = 1 .. Len(pending)
    BY DEF MockInv, MockTypeOK
  <1>2. lag \in Nat /\ latency \in Nat /\ MaxLag \in Nat  BY NowIs DEF MockInv, MockAssumption
  <1>3. pending' = [i \in 1 .. Len(pending) |-> [pending[i] EXCEPT !.due = @ - lag]]
    BY <1>1 DEF startJointStream
  <1>4. ASSUME NEW i \in 1 .. Len(pending)
        PROVE  /\ pending[i].due \in Int
               /\ pending'[i] \in C /\ pending'[i].due = pending[i].due - lag
               /\ pending'[i].positions = pending[i].positions
    <2>1. pending[i] \in C
      <3> HIDE DEF C
      <3>1. QED  BY <1>1, ElementAt
    <2>2. pending[i].due - lag >= -MaxLag  BY <1>1 DEF startJointStream
    <2>3. pending'[i] = [pending[i] EXCEPT !.due = @ - lag]  BY <1>3
    <2>4. pending[i].due \in -MaxLag .. latency  BY <2>1
    <2>5. pending[i].due - lag \in -MaxLag .. latency  BY <1>2, <2>2, <2>4
    <2>6. QED  BY <2>1, <2>3, <2>4, <2>5
  <1>5. pending' \in Seq(C) /\ Len(pending') = Len(pending)
    <2>1. pending' \in [1 .. Len(pending) -> C]
      <3> HIDE DEF C
      <3>1. \A i \in 1 .. Len(pending) : [pending[i] EXCEPT !.due = @ - lag] \in C
        BY <1>3, <1>4
      <3>2. QED  BY <1>3, <3>1
    <2> HIDE DEF C
    <2>2. QED  BY <1>1, <2>1, SeqOf
  <1>6. QED  BY <1>4, <1>5

(* The types after each operation.                                         *)
LEMMA TypeStep ==
    ASSUME MockAssumption, MockInv, [MockNext]_mockVars
    PROVE  MockTypeOK'
  <1>1. SUFFICES PhaseType' /\ MotionTyped'
    BY DEF MockTypeOK, PhaseType, MotionTyped, PoseQueue
  <1>2. /\ PhaseType /\ MotionTyped /\ latency \in Nat /\ 0 \in 0 .. MaxLag
        /\ Targets \subseteq Positions /\ Latencies \subseteq Nat
    <2>1. MockTypeOK  BY DEF MockInv
    <2>2. PhaseType /\ MotionTyped  BY <2>1 DEF MockTypeOK, PhaseType, MotionTyped, PoseQueue
    <2>3. /\ MaxLag \in Nat /\ Targets \subseteq Positions /\ Latencies \subseteq Nat
      BY DEF MockAssumption
    <2>4. latency \in Latencies  BY <2>2 DEF PhaseType
    <2>5. QED  BY <2>2, <2>3, <2>4
  <1>3. ASSUME NEW limit \in Speeds, NEW delay \in Latencies, NEW noConnection \in BOOLEAN,
               NEW initial \in Targets, configure(initial, limit, delay, noConnection)
        PROVE  PhaseType' /\ MotionTyped'
    <2>1. PhaseType'  BY <1>2, <1>3 DEF configure, Parsed, PhaseType
    <2>2. [j \in Joints |-> initial] \in Poses  BY <1>2 DEF Poses
    <2>3. PoseQueue(<<>>, delay)  BY <1>2, EmptyQueue
    <2>4. QED  BY <1>2, <1>3, <2>1, <2>2, <2>3 DEF configure, Parsed, MotionTyped
  <1>4. ASSUME NEW limit \in Speeds, NEW delay \in Latencies, NEW noConnection \in BOOLEAN,
               ConfigureFails(limit, delay, noConnection)
        PROVE  PhaseType' /\ MotionTyped'
    <2>1. PhaseType'  BY <1>2, <1>4 DEF ConfigureFails, Parsed, phaseVars, PhaseType
    <2>2. pending = <<>>  BY <1>4, Resting DEF ConfigureFails
    <2>3. PoseQueue(<<>>, delay)  BY <1>2, EmptyQueue
    <2>4. QED  BY <1>2, <1>4, <2>1, <2>2, <2>3 DEF ConfigureFails, Parsed, motionVars, MotionTyped
  <1>5. CASE connect  BY <1>2, <1>5 DEF connect, limitVars, PhaseType, MotionTyped
  <1>6. CASE disconnect
    <2>1. PoseQueue(<<>>, latency)  BY <1>2, EmptyQueue
    <2>2. QED  BY <1>2, <1>6, <2>1 DEF disconnect, limitVars, PhaseType, MotionTyped
  <1>7. CASE activate
    BY <1>2, <1>7 DEF activate, communicationAvailable, limitVars, PhaseType, MotionTyped
  <1>8. CASE deactivate
    <2>1. PhaseType' /\ latency' = latency  BY <1>2, <1>8 DEF deactivate, limitVars, PhaseType
    <2>2. QED  BY <1>8, <2>1, AdvanceTyped DEF deactivate
  <1>9. CASE startJointStream
    <2>1. PhaseType'
      BY <1>2, <1>9 DEF startJointStream, communicationAvailable, limitVars, PhaseType
    <2>2. /\ positions' = positions /\ target' = target /\ wanted' = wanted /\ lag' = 0
          /\ latency' = latency
      BY <1>9 DEF startJointStream, limitVars
    <2>3. /\ Len(pending') = Len(pending) /\ Len(pending) \in Nat
          /\ pending' \in Seq([due : -MaxLag .. latency, positions : Poses])
          /\ \A i \in 1 .. Len(pending) : pending'[i].due = pending[i].due - lag
          /\ \A i \in 1 .. Len(pending) : pending[i].due \in Int
          /\ lag \in Int
      BY <1>2, <1>9, StartedOver DEF MotionTyped, PoseQueue
    <2>4. ASSUME NEW i \in DOMAIN pending', NEW k \in DOMAIN pending', i < k
          PROVE  pending'[i].due <= pending'[k].due
      <3>1. i \in 1 .. Len(pending) /\ k \in 1 .. Len(pending)  BY <2>3
      <3>2. i \in DOMAIN pending /\ k \in DOMAIN pending  BY <1>2, <3>1 DEF MotionTyped, PoseQueue
      <3>3. pending[i].due <= pending[k].due  BY <1>2, <2>4, <3>2 DEF MotionTyped, PoseQueue
      <3>4. /\ pending'[i].due = pending[i].due - lag /\ pending'[k].due = pending[k].due - lag
            /\ pending[i].due \in Int /\ pending[k].due \in Int
        BY <2>3, <3>1
      <3>5. \A x, y, z \in Int : x <= y => x - z <= y - z  OBVIOUS
      <3>6. lag \in Int  BY <2>3
      <3>7. pending[i].due - lag <= pending[k].due - lag  BY <3>3, <3>4, <3>5, <3>6
      <3>8. QED  BY <3>4, <3>7
    <2>5. PoseQueue(pending', latency)  BY <2>3, <2>4 DEF PoseQueue
    <2>6. QED  BY <1>2, <2>1, <2>2, <2>5 DEF MotionTyped
  <1>10. CASE stopJointStream
    <2>1. PhaseType' /\ latency' = latency
      BY <1>2, <1>10 DEF stopJointStream, limitVars, PhaseType
    <2>2. QED  BY <1>10, <2>1, AdvanceTyped DEF stopJointStream
  <1>11. CASE readJointState
    <2>1. PhaseType' /\ latency' = latency
      BY <1>2, <1>11 DEF readJointState, phaseVars, limitVars, PhaseType
    <2>2. QED  BY <1>11, <2>1, AdvanceTyped DEF readJointState
  <1>12. ASSUME NEW command \in MockCommands, writeJointCommand(command, TRUE)
         PROVE  PhaseType' /\ MotionTyped'
    <2>1. PhaseType'  BY <1>2, <1>12 DEF writeJointCommand, limitVars, PhaseType
    <2>2. /\ positions' = Now.positions /\ target' = Now.target /\ lag' = 0
          /\ pending' = Append(Now.pending, Ordered(command))
          /\ wanted' = Ordered(command).positions /\ latency' = latency
      BY <1>12, WriteIs
    <2>3. /\ Now.positions \in Poses /\ Now.target \in Poses /\ PoseQueue(Now.pending, latency)
          /\ Now = [speed |-> speed, positions |-> Now.positions, target |-> Now.target,
                    pending |-> Now.pending]
          /\ MotionType(Now, latency) /\ Convex(Positions) /\ speed \in Nat /\ Now.speed = speed
      BY NowIs DEF MockInv
    <2>4. /\ Ordered(command) \in [due : Int, positions : [Joints -> Positions]]
          /\ Within(Now, Ordered(command).due) /\ Ordered(command).due = latency
          /\ Ordered(command).due \in Nat
      BY OrderedIs
    <2>5. PoseQueue(Append(Now.pending, Ordered(command)), latency)
      <3> DEFINE q == [speed |-> Now.speed, positions |-> Now.positions, target |-> Now.target,
                       pending |-> Append(Now.pending, Ordered(command))]
      <3>1. Now \in Motions(Positions)  BY <2>3 DEF MotionType
      <3>2. q \in Motions(Positions) /\ Within(q, Ordered(command).due)
        BY <2>3, <2>4, <3>1, Appended
      <3>3. NotBefore(q)
        <4>1. Now.pending \in Seq(Commands)  BY <2>3, <3>1, MotionParts, Zenon
        <4>2. Ordered(command) \in Commands  BY <2>4 DEF Commands, MockAssumption
        <4>3. /\ Len(q.pending) = Len(Now.pending) + 1
              /\ q.pending[Len(Now.pending) + 1] = Ordered(command)
              /\ \A i \in 1 .. Len(Now.pending) : q.pending[i] = Now.pending[i]
          BY <4>1, <4>2, AppendIs
        <4>4. MaxLag \in Nat /\ Len(Now.pending) \in Nat  BY <4>1 DEF MockAssumption
        <4>5. ASSUME NEW i \in 1 .. Len(q.pending) PROVE q.pending[i].due >= -MaxLag
          <5>1. CASE i = Len(Now.pending) + 1
            <6>1. q.pending[i].due \in Nat  BY <2>4, <4>3, <5>1
            <6>2. QED  BY <4>4, <6>1
          <5>2. CASE i # Len(Now.pending) + 1
            <6>1. i \in 1 .. Len(Now.pending)  BY <4>3, <4>4, <5>2
            <6>2. QED  BY <2>3, <4>3, <6>1 DEF MotionType, NotBefore
          <5>3. QED  BY <5>1, <5>2
        <4>6. QED  BY <4>5 DEF NotBefore
      <3>4. MotionType(q, latency)  BY <2>4, <3>2, <3>3 DEF MotionType
      <3>5. MaxLag \in Nat  BY DEF MockAssumption
      <3>6. QED  BY <1>2, <2>3, <3>4, <3>5, MotionTypeIs
    <2>6. Ordered(command).positions \in Poses  BY <2>4 DEF Poses
    <2>7. QED  BY <1>2, <2>1, <2>2, <2>3, <2>5, <2>6 DEF MotionTyped
  <1>13. CASE writeJointCommand(<<>>, FALSE)
    <2>1. PhaseType'  BY <1>2, <1>13 DEF writeJointCommand, limitVars, PhaseType
    <2>2. /\ positions' = Now.positions /\ target' = Now.target /\ lag' = 0
          /\ pending' = Now.pending /\ wanted' = wanted /\ latency' = latency
      BY <1>13, RefusedIs
    <2>3. Now.positions \in Poses /\ Now.target \in Poses /\ PoseQueue(Now.pending, latency)
      BY NowIs DEF MockInv
    <2>4. QED  BY <1>2, <2>1, <2>2, <2>3 DEF MotionTyped
  <1>14. CASE stopAll
    <2>1. PhaseType' /\ latency' = latency  BY <1>2, <1>14 DEF stopAll, limitVars, PhaseType
    <2>2. CASE configured  BY <1>14, <2>1, <2>2, AdvanceTyped DEF stopAll
    <2>3. CASE ~configured  BY <1>2, <1>14, <2>1, <2>3 DEF stopAll, motionVars, MotionTyped
    <2>4. QED  BY <2>2, <2>3
  <1>15. ASSUME NEW enabled \in BOOLEAN, setDisconnectInjected(enabled)
         PROVE  PhaseType' /\ MotionTyped'
    BY <1>2, <1>15
       DEF setDisconnectInjected, phaseVars, limitVars, motionVars, PhaseType, MotionTyped
  <1>16. CASE MockTick
    <2>1. lag' \in 0 .. MaxLag
      BY <1>2, <1>16 DEF MockTick, MotionTyped, MockAssumption
    <2>2. QED  BY <1>2, <1>16, <2>1 DEF MockTick, phaseVars, limitVars, PhaseType, MotionTyped
  <1>17. CASE UNCHANGED mockVars
    BY <1>2, <1>17 DEF mockVars, phaseVars, limitVars, motionVars, PhaseType, MotionTyped
  <1>18. QED
    BY <1>3, <1>4, <1>5, <1>6, <1>7, <1>8, <1>9, <1>10, <1>11, <1>12, <1>14, <1>15, <1>16, <1>17,
       <1>13
       DEF MockNext

(* Rest, after each operation: those that stop the robot or its stream     *)
(* drop what waits, and those that start it find it at rest.               *)
LEMMA RestStep ==
    ASSUME MockAssumption, MockInv, [MockNext]_mockVars
    PROVE  StoppedIsAtRest'
  <1> DEFINE Rest == pending = <<>> /\ target = positions
  <1>1. stopped \/ ~active \/ ~streaming \/ ~connected \/ ~configured => Rest
    BY Resting
  <1>2. SUFFICES stopped' \/ ~streaming' => Rest'  BY DEF StoppedIsAtRest
  <1>3. StoppedIsAtRest /\ stopped \in BOOLEAN  BY DEF MockInv, MockTypeOK
  <1>4. ASSUME NEW limit \in Speeds, NEW delay \in Latencies, NEW noConnection \in BOOLEAN,
               NEW initial \in Targets, configure(initial, limit, delay, noConnection)
        PROVE  Rest'
    BY <1>4 DEF configure
  <1>5. ASSUME NEW limit \in Speeds, NEW delay \in Latencies, NEW noConnection \in BOOLEAN,
               ConfigureFails(limit, delay, noConnection)
        PROVE  Rest'
    BY <1>1, <1>5 DEF ConfigureFails, motionVars
  <1>6. CASE connect \/ activate  BY <1>1, <1>6 DEF connect, activate
  <1>7. CASE startJointStream
    <2>1. streaming' /\ stopped' = stopped /\ positions' = positions /\ target' = target
      BY <1>7 DEF startJointStream
    <2>2. ASSUME pending = <<>> PROVE pending' = <<>>
      <3>1. Len(pending') = 0 /\ pending' \in Seq([due : -MaxLag .. latency, positions : Poses])
        BY <1>7, <2>2, StartedOver
      <3>2. QED  BY <3>1
    <2>3. QED  BY <1>1, <2>1, <2>2
  <1>8. CASE disconnect  BY <1>1, <1>8 DEF disconnect
  <1>9. CASE deactivate \/ stopJointStream
    BY <1>9 DEF deactivate, stopJointStream, AdvanceAndHold
  <1>10. ASSUME stopped, lag' = 0, pending' = Now.pending, target' = Now.target,
                positions' = Now.positions
         PROVE  Rest'
    <2>1. motion.pending = <<>> /\ motion.target = motion.positions  BY <1>1, <1>10 DEF motion
    <2>2. Convex(Positions) /\ motion \in Motions(Positions) /\ lag \in Nat  BY NowIs DEF MockInv
    <2>3. Now = motion  BY <2>1, <2>2, AdvancedAtRest DEF Now
    <2>4. QED  BY <1>10, <2>1, <2>3
  <1>11. CASE readJointState
    <2>1. /\ streaming' /\ stopped' = stopped /\ lag' = 0 /\ pending' = Now.pending
          /\ target' = Now.target /\ positions' = Now.positions
      BY <1>11 DEF readJointState, phaseVars, Advance, Now
    <2>2. QED  BY <1>10, <2>1
  <1>12. ASSUME NEW command \in MockCommands, writeJointCommand(command, TRUE)
         PROVE  stopped' \/ ~streaming' => Rest'
    BY <1>12 DEF writeJointCommand
  <1>13. CASE writeJointCommand(<<>>, FALSE)
    <2>1. streaming' /\ stopped' = (stopped /\ TRUE)  BY <1>13 DEF writeJointCommand
    <2>2. /\ positions' = Now.positions /\ target' = Now.target /\ lag' = 0
          /\ pending' = Now.pending
      BY <1>13, RefusedIs
    <2>3. QED  BY <1>10, <2>1, <2>2
  <1>14. CASE stopAll
    <2>1. CASE configured  BY <1>14, <2>1 DEF stopAll, AdvanceAndHold
    <2>2. CASE ~configured  BY <1>1, <1>14, <2>2 DEF stopAll, motionVars
    <2>3. QED  BY <2>1, <2>2
  <1>15. ASSUME NEW enabled \in BOOLEAN, setDisconnectInjected(enabled)
         PROVE  stopped' \/ ~streaming' => Rest'
    BY <1>1, <1>15 DEF setDisconnectInjected, phaseVars, motionVars
  <1>16. CASE MockTick  BY <1>1, <1>16 DEF MockTick, phaseVars
  <1>17. CASE UNCHANGED mockVars  BY <1>1, <1>17 DEF mockVars, phaseVars, motionVars
  <1> HIDE DEF Rest
  <1>18. QED
    BY <1>4, <1>5, <1>6, <1>8, <1>9, <1>11, <1>12, <1>14, <1>15, <1>16, <1>17, <1>7, <1>13
       DEF MockNext

(* The end of the queue, after each operation.                             *)
EndOf(q, g) == IF Len(q) = 0 THEN g ELSE q[Len(q)].positions

(* Every step keeps the end of the queue equal to what was last asked for. *)
LEMMA NewestStep ==
    ASSUME MockAssumption, MockInv, [MockNext]_mockVars
    PROVE  NewestWins'
  <1>1. Final = EndOf(pending, target) /\ Final' = EndOf(pending', target')
    BY DEF Final, InForce, motion, EndOf
  <1>2. SUFFICES EndOf(pending', target') = wanted'  BY <1>1 DEF NewestWins
  <1>3. EndOf(pending, target) = wanted  BY <1>1 DEF MockInv, NewestWins
  <1>4. EndOf(<<>>, positions') = positions'  BY DEF EndOf
  <1>5. EndOf(Now.pending, Now.target) = wanted
    <2>1. Convex(Positions) /\ motion \in Motions(Positions) /\ lag \in Nat  BY NowIs DEF MockInv
    <2>2. InForce(Now, Len(Now.pending)) = InForce(motion, Len(motion.pending))
      BY <2>1, AdvancedFinal DEF Now
    <2>3. InForce(Now, Len(Now.pending)) = EndOf(Now.pending, Now.target)  BY DEF InForce, EndOf
    <2>4. InForce(motion, Len(motion.pending)) = EndOf(pending, target)
      BY DEF InForce, EndOf, motion
    <2>5. QED  BY <1>3, <2>2, <2>3, <2>4
  <1>6. ASSUME NEW limit \in Speeds, NEW delay \in Latencies, NEW noConnection \in BOOLEAN,
               NEW initial \in Targets, configure(initial, limit, delay, noConnection)
        PROVE  EndOf(pending', target') = wanted'
    BY <1>4, <1>6 DEF configure
  <1>7. ASSUME NEW limit \in Speeds, NEW delay \in Latencies, NEW noConnection \in BOOLEAN,
               ConfigureFails(limit, delay, noConnection)
        PROVE  EndOf(pending', target') = wanted'
    BY <1>3, <1>7 DEF ConfigureFails, motionVars
  <1>8. CASE connect \/ activate  BY <1>3, <1>8 DEF connect, activate
  <1>9. CASE startJointStream
    <2>1. target' = target /\ wanted' = wanted  BY <1>9 DEF startJointStream
    <2>2. /\ Len(pending') = Len(pending) /\ Len(pending) \in Nat
          /\ \A i \in 1 .. Len(pending) : pending'[i].positions = pending[i].positions
      BY <1>9, StartedOver DEF MockInv, MockTypeOK
    <2>3. Len(pending) # 0 => pending'[Len(pending)].positions = pending[Len(pending)].positions
      BY <2>2
    <2>4. EndOf(pending', target') = EndOf(pending, target)  BY <2>1, <2>2, <2>3 DEF EndOf
    <2>5. QED  BY <1>3, <2>1, <2>4
  <1>10. CASE disconnect
    <2>1. target = positions /\ wanted = positions  BY <1>10, Resting DEF disconnect
    <2>2. QED  BY <1>4, <1>10, <2>1 DEF disconnect
  <1>11. CASE deactivate \/ stopJointStream
    BY <1>4, <1>11 DEF deactivate, stopJointStream, AdvanceAndHold
  <1>12. CASE readJointState  BY <1>5, <1>12 DEF readJointState, Advance, Now
  <1>13. ASSUME NEW command \in MockCommands, writeJointCommand(command, TRUE)
         PROVE  EndOf(pending', target') = wanted'
    <2>1. pending' = Append(Now.pending, Ordered(command)) /\ wanted' = Ordered(command).positions
      BY <1>13, WriteIs
    <2>2. Now.pending \in Seq(Commands)
      <3>1. MotionType(Now, latency) /\ Convex(Positions)  BY NowIs DEF MockInv
      <3>2. QED  BY <3>1, MotionParts, Zenon DEF MotionType
    <2>3. Ordered(command) \in Commands  BY OrderedIs DEF Commands, MockAssumption
    <2>4. /\ Len(Append(Now.pending, Ordered(command))) = Len(Now.pending) + 1
          /\ Append(Now.pending, Ordered(command))[Len(Now.pending) + 1] = Ordered(command)
      BY <2>2, <2>3, AppendIs
    <2>5. Len(Now.pending) + 1 # 0  BY <2>2
    <2>6. QED  BY <2>1, <2>4, <2>5 DEF EndOf
  <1>14. CASE writeJointCommand(<<>>, FALSE)  BY <1>5, <1>14, RefusedIs
  <1>15. CASE stopAll
    <2>1. CASE configured  BY <1>4, <1>15, <2>1 DEF stopAll, AdvanceAndHold
    <2>2. CASE ~configured  BY <1>3, <1>15, <2>2 DEF stopAll, motionVars
    <2>3. QED  BY <2>1, <2>2
  <1>16. ASSUME NEW enabled \in BOOLEAN, setDisconnectInjected(enabled)
         PROVE  EndOf(pending', target') = wanted'
    BY <1>3, <1>16 DEF setDisconnectInjected, motionVars
  <1>17. CASE MockTick  BY <1>3, <1>17 DEF MockTick
  <1>18. CASE UNCHANGED mockVars  BY <1>3, <1>18 DEF mockVars, motionVars
  <1>19. QED
    BY <1>6, <1>7, <1>8, <1>10, <1>11, <1>12, <1>13, <1>15, <1>16, <1>17, <1>18, <1>9, <1>14
       DEF MockNext

(* The invariant holds throughout, ...                                     *)
THEOREM MockInvariant == MockSpec => []MockInv
  <1>1. MockInit => MockInv  BY MockAssumption, InitInv
  <1>2. MockInv /\ [MockNext]_mockVars => MockInv'
    BY MockAssumption, TypeStep, RestStep, NewestStep DEF MockInv
  <1>3. QED  BY <1>1, <1>2, PTL DEF MockSpec

(* ... so the state is well-typed and commands wait in order,              *)
THEOREM TypesHold == MockSpec => []MockTypeOK
  <1>1. MockInv => MockTypeOK  BY DEF MockInv
  <1>2. QED  BY <1>1, MockInvariant, PTL

(* a robot that is stopped, or not streamed to, is at rest,                *)
THEOREM RestHolds == MockSpec => []StoppedIsAtRest
  <1>1. MockInv => StoppedIsAtRest  BY DEF MockInv
  <1>2. QED  BY <1>1, MockInvariant, PTL

(* and every joint ends where it was last told to be.                      *)
THEOREM NewestHolds == MockSpec => []NewestWins
  <1>1. MockInv => NewestWins  BY DEF MockInv
  <1>2. QED  BY <1>1, MockInvariant, PTL

-----------------------------------------------------------------------------
(* What the abstract robot will follow.                                    *)
Goal == [d \in 0 .. Horizon |-> Following(d)]

(* No command takes longer than the horizon.                               *)
LEMMA HorizonIs ==
    /\ Horizon \in Latencies /\ Horizon \in Nat /\ 0 \in 0 .. Horizon
    /\ \A l \in Latencies : l <= Horizon
  <1>1. Horizon \in Latencies /\ \A l \in Latencies : l <= Horizon
    BY MockAssumption DEF MockAssumption, Horizon
  <1>2. Horizon \in Nat  BY <1>1, MockAssumption DEF MockAssumption
  <1>3. QED  BY <1>1, <1>2

(* The motion's types, in a form that also holds in the next state.        *)
LEMMA MotionHolds ==
    MockInv => /\ Convex(Positions) /\ motion \in Motions(Positions) /\ lag \in Nat
               /\ Now \in Motions(Positions) /\ Place \in [Joints -> Positions]
               /\ speed \in Speeds /\ latency \in Latencies
  <1>1. SUFFICES ASSUME MockInv
                 PROVE  /\ Convex(Positions) /\ motion \in Motions(Positions) /\ lag \in Nat
                        /\ Now \in Motions(Positions) /\ Place \in [Joints -> Positions]
                        /\ speed \in Speeds /\ latency \in Latencies
    OBVIOUS
  <1>2. MockTypeOK  BY <1>1 DEF MockInv
  <1>3. speed \in Speeds /\ latency \in Latencies  BY <1>2 DEF MockTypeOK
  <1>4. QED  BY <1>2, <1>3, MockAssumption, NowIs, PlaceIs DEF MotionType, Poses

(* The future of the motion can be told from where the robot is now.       *)
LEMMA FutureIs ==
    ASSUME MockInv, NEW d \in Nat
    PROVE  Following(d) = advanced(Now, d).target
  <1>1. Convex(Positions) /\ motion \in Motions(Positions) /\ lag \in Nat  BY MotionHolds
  <1>2. advanced(Now, d) = advanced(motion, lag + d)  BY <1>1, AdvancedTwice DEF Now
  <1>3. QED  BY <1>2, PlaceIs

(* A robot without a speed limit is where it is told to be.                *)
LEMMA SettledIs ==
    MockInv /\ speed = Unlimited => Place = Following(0)
  <1>1. SUFFICES ASSUME MockInv, speed = Unlimited PROVE Place = Following(0)  OBVIOUS
  <1>2. Convex(Positions) /\ motion \in Motions(Positions) /\ lag \in Nat
    BY <1>1, MotionHolds
  <1> DEFINE n == DueBy(motion.pending, lag)
  <1>3. Advances(Now, motion, lag, n)  BY <1>2, AdvancedIs DEF Now
  <1>4. motion.speed = Unlimited  BY <1>1 DEF motion
  <1> HIDE DEF n
  <1>5. /\ lag - Since(motion, n) \in Nat /\ Now.target = InForce(motion, n)
        /\ Now.positions = integrate(Unlimited, reached(motion)[n], InForce(motion, n),
                                     lag - Since(motion, n))
    BY <1>3, <1>4 DEF Advances
  <1>6. Now.positions = Now.target  BY <1>5, IntegrateJumps
  <1>7. lag + 0 = lag  BY <1>2
  <1>8. Following(0) = advanced(motion, lag + 0).target  BY PlaceIs
  <1>9. QED  BY <1>6, <1>7, <1>8, PlaceIs DEF Now

(* The abstract robot at rest: it will follow the pose that it has.        *)
LEMMA RestIs ==
    MockInv /\ pending = <<>> /\ target = positions
      => /\ Now = motion /\ Place = positions /\ wanted = positions
         /\ Goal = [d \in 0 .. Horizon |-> positions]
  <1>1. SUFFICES ASSUME MockInv, pending = <<>>, target = positions
                 PROVE  /\ Now = motion /\ Place = positions /\ wanted = positions
                        /\ Goal = [d \in 0 .. Horizon |-> positions]
    OBVIOUS
  <1>2. Convex(Positions) /\ motion \in Motions(Positions) /\ lag \in Nat  BY <1>1, MotionHolds
  <1>3. motion.pending = <<>> /\ motion.target = motion.positions /\ motion.positions = positions
    BY <1>1 DEF motion
  <1>4. \A t \in Nat : advanced(motion, t) = motion  BY <1>2, <1>3, AdvancedAtRest
  <1>5. Now = motion  BY <1>2, <1>4 DEF Now
  <1>6. ASSUME NEW d \in 0 .. Horizon PROVE Following(d) = positions
    <2>1. lag + d \in Nat  BY <1>2, HorizonIs
    <2>2. Following(d) = advanced(motion, lag + d).target  BY PlaceIs
    <2>3. QED  BY <1>3, <1>4, <2>1, <2>2
  <1>7. wanted = positions
    <2>1. wanted = InForce(motion, 0)
      <3>1. Len(<<>>) = 0  OBVIOUS
      <3>2. QED  BY <1>1, <3>1 DEF MockInv, NewestWins, Final
    <2>2. QED  BY <1>1, <2>1 DEF InForce, motion
  <1>8. Place = positions  BY <1>3, <1>5, PlaceIs
  <1>9. QED  BY <1>5, <1>6, <1>7, <1>8 DEF Goal

(* The robot starts at rest.                                               *)
LEMMA RobotStarts == MockInit => Robot!RobotInit
  <1>1. SUFFICES ASSUME MockInit PROVE Robot!RobotInit  OBVIOUS
  <1>2. MockInv  BY <1>1, MockAssumption, InitInv
  <1>3. pending = <<>> /\ target = positions  BY <1>1 DEF MockInit
  <1>4. /\ Place = positions /\ Goal = [d \in 0 .. Horizon |-> positions]
        /\ wanted = positions /\ restarted = FALSE
    BY <1>1, <1>2, <1>3, RestIs DEF MockInit
  <1>5. Place \in [Joints -> Positions] /\ speed \in Speeds /\ latency \in Latencies
    BY <1>2, MotionHolds
  <1>6. QED
    BY <1>4, <1>5 DEF Robot!RobotInit, Robot!Always, Robot!Horizon, Horizon, Goal

(* A call that catches up with the clock, and does no more, is not seen.   *)
LEMMA LookIsNotSeen ==
    ASSUME MockInv, lag' = 0, positions' = Now.positions, target' = Now.target,
           pending' = Now.pending, speed' = speed
    PROVE  Place' = Place /\ Goal' = Goal
  <1>1. Convex(Positions) /\ motion \in Motions(Positions) /\ lag \in Nat  BY MotionHolds
  <1>2. motion' = Now
    <2>1. motion' = [speed |-> speed, positions |-> Now.positions, target |-> Now.target,
                     pending |-> Now.pending]
      BY DEF motion
    <2>2. QED  BY <2>1, MockAssumption, NowIs DEF MockInv
  <1>3. ASSUME NEW d \in Nat PROVE advanced(motion', 0 + d) = advanced(motion, lag + d)
    <2>1. 0 + d = d  OBVIOUS
    <2>2. QED  BY <1>1, <1>2, <2>1, AdvancedTwice DEF Now
  <1>4. Now' = Now
    <2>1. Now' = advanced(motion', 0)  BY DEF Now
    <2>2. 0 + 0 = 0 /\ lag + 0 = lag  BY <1>1
    <2>3. advanced(motion', 0 + 0) = advanced(motion, lag + 0)  BY <1>3
    <2>4. QED  BY <2>1, <2>2, <2>3 DEF Now
  <1>5. ASSUME NEW d \in 0 .. Horizon PROVE Following(d)' = Following(d)
    <2>1. d \in Nat  BY HorizonIs
    <2>2. Following(d)' = advanced(motion', 0 + d).target  BY PlaceIs
    <2>3. QED  BY <1>3, <2>1, <2>2, PlaceIs
  <1>6. QED  BY <1>4, <1>5, PlaceIs DEF Goal

(* A valid command is followed after the latency, and at once moves        *)
(* nothing but a robot without latency and without a speed limit.          *)
LEMMA WriteIsCommand ==
    ASSUME MockInv, NEW command \in MockCommands, writeJointCommand(command, TRUE)
    PROVE  \E members \in SUBSET Joints :
               \E given \in [members -> Positions] : Robot!Command(given)
  <1> DEFINE c == Ordered(command)
             q == [speed |-> Now.speed, positions |-> Now.positions, target |-> Now.target,
                   pending |-> Append(Now.pending, c)]
  <1>1. /\ positions' = Now.positions /\ target' = Now.target /\ lag' = 0
        /\ pending' = Append(Now.pending, c) /\ speed' = speed /\ latency' = latency
    BY MockAssumption, WriteIs
  <1>2. /\ Convex(Positions) /\ Now \in Motions(Positions) /\ Ahead(Now) /\ Now.speed = speed
        /\ latency \in Nat
    BY MockAssumption, NowIs DEF MockInv, MotionType
  <1>3. /\ c \in [due : Int, positions : [Joints -> Positions]] /\ Within(Now, c.due)
        /\ c.due = latency /\ c.due \in Nat
    BY MockAssumption, OrderedIs
  <1>4. motion' = q  BY <1>1, <1>2 DEF motion
  <1> HIDE DEF c
  <1>5. /\ \A d \in Nat : advanced(q, d).target
                            = IF d >= c.due THEN c.positions ELSE advanced(Now, d).target
    BY <1>2, <1>3, Appended
  <1>6. advanced(q, 0).positions
          = IF Now.speed = Unlimited THEN advanced(q, 0).target ELSE Now.positions
    BY <1>2, <1>3, AppendedHere
  <1> HIDE DEF q
  <1>7. ASSUME NEW d \in 0 .. Horizon
        PROVE  Following(d)' = IF d >= latency THEN c.positions ELSE Goal[d]
    <2>1. d \in Nat /\ 0 + d = d  BY HorizonIs
    <2>2. Following(d)' = advanced(q, d).target  BY <1>1, <1>4, <2>1, PlaceIs
    <2>3. Goal[d] = advanced(Now, d).target  BY <2>1, FutureIs DEF Goal
    <2>4. advanced(q, d).target = IF d >= c.due THEN c.positions ELSE advanced(Now, d).target
      BY <1>5, <2>1
    <2>5. QED  BY <1>3, <2>2, <2>3, <2>4
  <1>8. Goal' = [d \in 0 .. Horizon |-> IF d >= latency THEN c.positions ELSE Goal[d]]
    BY <1>7 DEF Goal
  <1>9. Place' = IF speed = Unlimited THEN Goal'[0] ELSE Place
    <2>1. Place' = advanced(q, 0).positions  BY <1>1, <1>4, PlaceIs DEF Now
    <2>2. Goal'[0] = advanced(q, 0).target
      <3>1. Goal'[0] = Following(0)'  BY HorizonIs DEF Goal
      <3>2. Following(0)' = advanced(q, 0 + 0).target  BY <1>1, <1>4, PlaceIs
      <3>3. 0 + 0 = 0  OBVIOUS
      <3>4. QED  BY <3>1, <3>2, <3>3
    <2>3. QED  BY <1>2, <1>6, <2>1, <2>2, PlaceIs
  <1>10. /\ c.positions = wanted' /\ restarted' = FALSE
         /\ wanted' = [j \in Joints |-> IF j \in DOMAIN command THEN command[j] ELSE wanted[j]]
    BY MockAssumption, WriteIs DEF writeJointCommand, c
  <1>11. Robot!Command(command)
    BY <1>1, <1>8, <1>9, <1>10
       DEF Robot!Command, Robot!Then, Robot!Settle, Robot!Unlimited, Unlimited, Robot!Horizon,
           Horizon, Goal
  <1>12. PICK members \in (SUBSET Joints) \ {{}}, p \in Targets : command = [j \in members |-> p]
    BY DEF MockCommands
  <1>13. command \in [members -> Positions]  BY <1>12, MockAssumption DEF MockAssumption
  <1>14. QED  BY <1>11, <1>12, <1>13

(* A second start of the stream moves a robot with a speed limit, but      *)
(* changes nothing of what it has been told.                               *)
LEMMA StartIsStartOver ==
    ASSUME MockInv, MockInv', startJointStream, streaming
    PROVE  Robot!StartOver
  <1>1. /\ lag' = 0 /\ speed' = speed /\ latency' = latency /\ wanted' = wanted /\ restarted'
        /\ motion'.target = motion.target /\ motion'.pending = pending'
    BY DEF startJointStream, limitVars, motion
  <1>2. /\ Len(pending') = Len(pending) /\ Len(pending) \in Nat
        /\ pending \in Seq(Commands) /\ pending' \in Seq(Commands)
        /\ \A i \in 1 .. Len(pending) : /\ pending'[i].due = pending[i].due - lag
                                       /\ pending'[i].positions = pending[i].positions
                                       /\ pending[i].due \in Int
    <2>1. /\ Len(pending') = Len(pending)
          /\ \A i \in 1 .. Len(pending) : /\ pending'[i].due = pending[i].due - lag
                                         /\ pending'[i].positions = pending[i].positions
                                         /\ pending[i].due \in Int
      BY MockAssumption, StartedOver
    <2>2. Convex(Positions) /\ motion \in Motions(Positions)  BY MotionHolds
    <2>3. (MockInv => /\ Convex(Positions) /\ motion \in Motions(Positions) /\ lag \in Nat
                      /\ Now \in Motions(Positions) /\ Place \in [Joints -> Positions]
                      /\ speed \in Speeds /\ latency \in Latencies)'
      BY MotionHolds, PTL
    <2>4. motion' \in Motions(Positions)  BY <2>3
    <2>5. motion.pending \in Seq(Commands) /\ motion'.pending \in Seq(Commands)
      BY <2>2, <2>4, MotionParts, Zenon
    <2>6. QED  BY <2>1, <2>5 DEF motion
  <1>3. lag \in Nat  BY MotionHolds
  <1>4. ASSUME NEW d \in 0 .. Horizon PROVE Following(d)' = Following(d)
    <2> DEFINE n == DueBy(pending, lag + d)
    <2>1. d \in Nat /\ lag + d \in Int /\ 0 + d = d /\ d \in Int  BY <1>3, HorizonIs
    <2>2. /\ n \in 0 .. Len(pending) /\ \A i \in 1 .. n : pending[i].due <= lag + d
          /\ n < Len(pending) => pending[n + 1].due > lag + d
      BY <1>2, <2>1, DueByIs, Zenon
    <2> HIDE DEF n
    <2>3. ASSUME NEW i \in 1 .. n PROVE pending'[i].due <= d
      <3>1. i \in 1 .. Len(pending)  BY <1>2, <2>2
      <3>2. QED  BY <1>2, <1>3, <2>1, <2>2, <3>1
    <2>4. n < Len(pending') => pending'[n + 1].due > d
      <3>1. SUFFICES ASSUME n < Len(pending) PROVE pending'[n + 1].due > d  BY <1>2
      <3>2. n + 1 \in 1 .. Len(pending)  BY <1>2, <2>2, <3>1
      <3>3. QED  BY <1>2, <1>3, <2>1, <2>2, <3>1, <3>2
    <2>5. DueBy(pending', d) = n
      <3>1. n \in 0 .. Len(pending')  BY <1>2, <2>2
      <3>2. QED  BY <1>2, <2>1, <2>3, <2>4, <3>1, DueByUnique
    <2>6. InForce(motion', n) = InForce(motion, n)
      <3>1. n # 0 => pending'[n].positions = pending[n].positions
        <4>1. n # 0 => n \in 1 .. Len(pending)  BY <1>2, <2>2
        <4>2. QED  BY <1>2, <4>1
      <3>2. motion.pending = pending  BY DEF motion
      <3>3. QED  BY <1>1, <3>1, <3>2 DEF InForce
    <2>7. Following(d)' = InForce(motion', DueBy(pending', 0 + d))  BY <1>1 DEF Following
    <2>8. QED  BY <2>1, <2>5, <2>6, <2>7 DEF Following, n
  <1>5. Goal' = Goal  BY <1>4 DEF Goal
  <1>6. speed = Unlimited => Place' = Place
    <2>1. MockInv /\ speed = Unlimited => Place = Following(0)  BY SettledIs
    <2>2. (MockInv /\ speed = Unlimited => Place = Following(0))'  BY SettledIs, PTL
    <2>3. Following(0)' = Following(0)  BY <1>4, HorizonIs
    <2>4. QED  BY <1>1, <2>1, <2>2, <2>3
  <1>7. Place' \in [Joints -> Positions]
    <2>1. (MockInv => /\ Convex(Positions) /\ motion \in Motions(Positions) /\ lag \in Nat
                      /\ Now \in Motions(Positions) /\ Place \in [Joints -> Positions]
                      /\ speed \in Speeds /\ latency \in Latencies)'
      BY MotionHolds, PTL
    <2>2. QED  BY <2>1
  <1>8. QED
    BY <1>1, <1>5, <1>6, <1>7 DEF Robot!StartOver, Robot!Unlimited, Unlimited, Goal

(* A tick moves the robot as far towards its target as its speed allows.   *)
LEMMA TickIsTick ==
    ASSUME MockInv, MockTick
    PROVE  Robot!Tick
  <1>1. /\ lag' = lag + 1 /\ motion' = motion /\ speed' = speed /\ latency' = latency
        /\ wanted' = wanted /\ restarted' = FALSE
    BY DEF MockTick, motion, limitVars
  <1>2. /\ Convex(Positions) /\ motion \in Motions(Positions) /\ Now \in Motions(Positions)
        /\ Ahead(Now) /\ Within(Now, latency) /\ Now.speed = speed /\ lag \in Nat
        /\ latency \in Nat /\ speed \in Nat
    BY MockAssumption, NowIs DEF MockInv, MotionType
  <1>3. ASSUME NEW d \in Nat PROVE advanced(motion', lag' + d) = advanced(Now, d + 1)
    <2>1. lag' + d = lag + (d + 1) /\ d + 1 \in Nat  BY <1>1, <1>2
    <2>2. advanced(motion, lag + (d + 1)) = advanced(Now, d + 1)
      <3>1. \A e \in Nat : advanced(advanced(motion, lag), e) = advanced(motion, lag + e)
        BY <1>2, AdvancedTwice
      <3>2. QED  BY <2>1, <3>1 DEF Now
    <2>3. QED  BY <1>1, <2>1, <2>2
  <1>4. Now' = advanced(Now, 1)
    <2>1. lag' + 0 = lag' /\ 0 + 1 = 1  BY <1>1, <1>2
    <2>2. advanced(motion', lag' + 0) = advanced(Now, 0 + 1)  BY <1>3
    <2>3. QED  BY <2>1, <2>2 DEF Now
  <1>5. ASSUME NEW d \in 0 .. Horizon
        PROVE  Following(d)' = Goal[IF d < Horizon THEN d + 1 ELSE d]
    <2>1. d \in Nat /\ d + 1 \in Nat /\ Horizon \in Nat  BY HorizonIs
    <2>2. Following(d)' = advanced(Now, d + 1).target  BY <1>3, <2>1, PlaceIs
    <2>3. CASE d < Horizon
      <3>1. d + 1 \in 0 .. Horizon  BY <2>1, <2>3
      <3>2. Goal[d + 1] = advanced(Now, d + 1).target  BY <2>1, <3>1, FutureIs DEF Goal
      <3>3. QED  BY <2>2, <2>3, <3>2
    <2>4. CASE ~(d < Horizon)
      <3>1. d = Horizon  BY <2>1, <2>4
      <3>2. latency <= Horizon
        <4>1. latency \in Latencies  BY MotionHolds
        <4>2. QED  BY <4>1, HorizonIs
      <3>3. Within(Now, d) /\ Within(Now, d + 1)
        <4>1. ASSUME NEW i \in 1 .. Len(Now.pending)
              PROVE  Now.pending[i].due <= d /\ Now.pending[i].due <= d + 1
          <5>1. Now.pending \in Seq(Commands)  BY <1>2, MotionParts, Zenon
          <5>2. Now.pending[i] \in Commands  BY <5>1, ElementAt
          <5>3. Now.pending[i].due \in Int  BY <5>2 DEF Commands
          <5>4. Now.pending[i].due <= latency  BY <1>2 DEF Within
          <5>5. QED  BY <1>2, <2>1, <3>1, <3>2, <5>3, <5>4
        <4>2. QED  BY <4>1 DEF Within
      <3>4. advanced(Now, d).target = advanced(Now, d + 1).target
        BY <1>2, <2>1, <3>3, AdvancedToEnd DEF Within
      <3>5. Goal[d] = advanced(Now, d).target  BY <2>1, FutureIs DEF Goal
      <3>6. QED  BY <2>2, <2>4, <3>4, <3>5
    <2>5. QED  BY <2>3, <2>4
  <1>6. Goal' = [d \in 0 .. Horizon |-> Goal[IF d < Horizon THEN d + 1 ELSE d]]
    BY <1>5 DEF Goal
  <1>7. Goal[0] = Now.target
    <2>1. Goal[0] = Following(0)  BY HorizonIs DEF Goal
    <2>2. lag + 0 = lag  BY <1>2
    <2>3. Following(0) = advanced(motion, lag + 0).target  BY PlaceIs
    <2>4. QED  BY <2>1, <2>2, <2>3 DEF Now
  <1>8. Goal'[0] = advanced(Now, 1).target
    <2>1. Goal'[0] = Following(0)'  BY HorizonIs DEF Goal
    <2>2. Following(0)' = advanced(motion', lag' + 0).target  BY PlaceIs
    <2>3. advanced(motion', lag' + 0) = advanced(Now, 0 + 1) /\ 0 + 1 = 1  BY <1>3
    <2>4. QED  BY <2>1, <2>2, <2>3
  <1>9. Place' = IF speed = Unlimited THEN Goal'[0] ELSE integrate(speed, Place, Goal[0], 1)
    <2>1. advanced(Now, 1).positions
            = IF Now.speed = Unlimited THEN advanced(Now, 1).target
              ELSE integrate(Now.speed, Now.positions, Now.target, 1)
      BY <1>2, AdvancedByOne DEF Ahead
    <2>2. QED  BY <1>2, <1>4, <1>7, <1>8, <2>1, PlaceIs
  <1>10. ASSUME speed # Unlimited
         PROVE  integrate(speed, Place, Goal[0], 1)
                  = [j \in Joints |-> Robot!Nearer(Place[j], Goal[0][j])]
    <2>1. Place \in [Joints -> Int] /\ Goal[0] \in [Joints -> Int]
      <3>1. Now.positions \in [Joints -> Int] /\ Now.target \in [Joints -> Int]
        BY <1>2, MotionParts, Zenon
      <3>2. QED  BY <1>7, <3>1, PlaceIs
    <2>2. speed * 1 = speed  BY <1>2
    <2>3. ASSUME NEW j \in Joints
          PROVE  Place[j] + Clamp(Goal[0][j] - Place[j], speed) = Robot!Nearer(Place[j], Goal[0][j])
      <3>1. Place[j] \in Int /\ Goal[0][j] \in Int  BY <2>1
      <3>2. QED  BY <1>2, <3>1 DEF Clamp, Robot!Nearer
    <2>4. integrate(speed, Place, Goal[0], 1)
            = [j \in Joints |-> Place[j] + Clamp(Goal[0][j] - Place[j], speed * 1)]
      BY <1>2, <1>10, <2>1, IntegrateIs
    <2>5. QED  BY <2>2, <2>3, <2>4
  <1>11. Place' = Robot!Settle(Robot!Follow(Place, Goal[0]), Goal'[0])
    BY <1>9, <1>10 DEF Robot!Settle, Robot!Follow, Robot!Unlimited, Unlimited
  <1>12. QED
    BY <1>1, <1>6, <1>11 DEF Robot!Tick, Robot!Later, Robot!Horizon, Horizon, Goal

(* Every step of the driver is one of the robot, or not seen.              *)
LEMMA RobotSteps ==
    MockInv /\ MockInv' /\ [MockNext]_mockVars
      => [Robot!RobotNext]_<<Place, Goal, wanted, restarted, speed, latency>>
  <1> DEFINE Seen == <<Place, Goal, wanted, restarted, speed, latency>>
             Rest == pending = <<>> /\ target = positions
             Always(p) == [d \in 0 .. Horizon |-> p]
  <1>1. SUFFICES ASSUME MockInv, MockInv', [MockNext]_mockVars
                 PROVE  Robot!RobotNext \/ UNCHANGED Seen
    OBVIOUS
  <1>2. Rest => Place = positions /\ Goal = Always(positions) /\ wanted = positions
    BY <1>1, RestIs
  <1>3. Rest' => Place' = positions' /\ Goal' = Always(positions') /\ wanted' = positions'
    <2>1. (MockInv /\ pending = <<>> /\ target = positions
             => /\ Now = motion /\ Place = positions /\ wanted = positions
                /\ Goal = [d \in 0 .. Horizon |-> positions])'
      BY RestIs, PTL
    <2>2. QED  BY <1>1, <2>1
  <1>4. stopped \/ ~active \/ ~streaming \/ ~connected \/ ~configured => Rest
    BY <1>1, Resting
  <1>5. /\ Place' \in [Joints -> Positions] /\ speed' \in Speeds /\ latency' \in Latencies
    <2>1. (MockInv => /\ Convex(Positions) /\ motion \in Motions(Positions) /\ lag \in Nat
                      /\ Now \in Motions(Positions) /\ Place \in [Joints -> Positions]
                      /\ speed \in Speeds /\ latency \in Latencies)'
      BY MotionHolds, PTL
    <2>2. QED  BY <1>1, <2>1
  (* The four kinds of steps that keep, set up, stop, or only look at a    *)
  (* motion.                                                               *)
  <1>6. ASSUME Rest, Rest', positions' = positions, UNCHANGED <<speed, latency>>, ~restarted'
        PROVE  Robot!Look
    BY <1>2, <1>3, <1>6 DEF Robot!Look, Goal
  <1>7. ASSUME Rest, Rest', ~restarted' PROVE Robot!Setup
    BY <1>2, <1>3, <1>5, <1>7 DEF Robot!Setup, Robot!Always, Robot!Horizon, Horizon, Goal
  <1>8. ASSUME AdvanceAndHold, UNCHANGED <<speed, latency>>, ~restarted' PROVE Robot!Stop
    <2>1. Rest' /\ positions' = Place /\ wanted' = Place
      BY <1>8, PlaceIs DEF AdvanceAndHold, Now
    <2>2. Place' = Place /\ Goal' = Always(Place)  BY <1>3, <2>1
    <2>3. QED  BY <1>8, <2>1, <2>2 DEF Robot!Stop, Robot!Always, Robot!Horizon, Horizon, Goal
  <1>9. ASSUME lag' = 0, positions' = Now.positions, target' = Now.target, pending' = Now.pending,
               UNCHANGED <<wanted, speed, latency>>, ~restarted'
        PROVE  Robot!Look
    <2>1. Place' = Place /\ Goal' = Goal  BY <1>1, <1>9, LookIsNotSeen
    <2>2. QED  BY <1>9, <2>1 DEF Robot!Look, Goal
  <1>10. ASSUME UNCHANGED <<wanted, speed, latency, positions, target, pending, lag>>
         PROVE  UNCHANGED <<Place, Goal, wanted, speed, latency>>
    BY <1>10 DEF Place, Goal, Following, motion
  <1>11. ASSUME UNCHANGED <<wanted, speed, latency, positions, target, pending, lag>>, ~restarted'
         PROVE  Robot!Look
    BY <1>10, <1>11 DEF Robot!Look, Goal
  <1> HIDE DEF Seen
  <1>12. ASSUME NEW limit \in Speeds, NEW delay \in Latencies, NEW noConnection \in BOOLEAN,
                NEW initial \in Targets, configure(initial, limit, delay, noConnection)
         PROVE  Robot!Setup
    <2>1. Rest  BY <1>4, <1>12 DEF configure
    <2>2. Rest' /\ ~restarted'  BY <1>12 DEF configure
    <2>3. QED  BY <1>7, <2>1, <2>2
  <1>13. ASSUME NEW limit \in Speeds, NEW delay \in Latencies, NEW noConnection \in BOOLEAN,
                ConfigureFails(limit, delay, noConnection)
         PROVE  Robot!Setup
    <2>1. Rest  BY <1>4, <1>13 DEF ConfigureFails
    <2>2. Rest' /\ ~restarted'  BY <1>13, <2>1 DEF ConfigureFails, motionVars
    <2>3. QED  BY <1>7, <2>1, <2>2
  <1>14. CASE connect \/ activate
    <2>1. Rest  BY <1>4, <1>14 DEF connect, activate
    <2>2. Rest' /\ positions' = positions /\ UNCHANGED <<speed, latency>> /\ ~restarted'
      BY <1>14, <2>1 DEF connect, activate, limitVars
    <2>3. QED  BY <1>6, <2>1, <2>2 DEF Robot!RobotNext
  <1>15. CASE startJointStream
    <2>1. ASSUME streaming PROVE Robot!StartOver  BY <1>1, <1>15, <2>1, StartIsStartOver
    <2>2. ASSUME ~streaming PROVE Robot!Look
      <3>1. Rest  BY <1>4, <2>2
      <3>2. positions' = positions /\ target' = target /\ UNCHANGED <<speed, latency>>
            /\ ~restarted'
        BY <1>15, <2>2 DEF startJointStream, limitVars
      <3>3. pending' = <<>>
        <4>1. Len(pending') = 0 /\ pending' \in Seq([due : -MaxLag .. latency, positions : Poses])
          BY <1>1, <1>15, <3>1, MockAssumption, StartedOver
        <4>2. QED  BY <4>1
      <3>4. Rest'  BY <3>1, <3>2, <3>3
      <3>5. QED  BY <1>6, <3>1, <3>2, <3>4
    <2>3. QED  BY <2>1, <2>2 DEF Robot!RobotNext
  <1>16. CASE disconnect
    <2>1. Rest  BY <1>4, <1>16 DEF disconnect
    <2>2. Rest' /\ positions' = positions /\ UNCHANGED <<speed, latency>> /\ ~restarted'
      BY <1>16, <2>1 DEF disconnect, limitVars
    <2>3. QED  BY <1>6, <2>1, <2>2 DEF Robot!RobotNext
  <1>17. CASE deactivate \/ stopJointStream
    <2>1. AdvanceAndHold /\ UNCHANGED <<speed, latency>> /\ ~restarted'
      BY <1>17 DEF deactivate, stopJointStream, limitVars
    <2>2. QED  BY <1>8, <2>1 DEF Robot!RobotNext
  <1>18. CASE readJointState
    <2>1. /\ lag' = 0 /\ positions' = Now.positions /\ target' = Now.target
          /\ pending' = Now.pending /\ UNCHANGED <<wanted, speed, latency>> /\ ~restarted'
      BY <1>18 DEF readJointState, Advance, limitVars, Now
    <2>2. QED  BY <1>9, <2>1 DEF Robot!RobotNext
  <1>19. ASSUME NEW command \in MockCommands, writeJointCommand(command, TRUE)
         PROVE  Robot!RobotNext
    <2>1. \E members \in SUBSET Joints :
             \E given \in [members -> Positions] : Robot!Command(given)
      BY <1>1, <1>19, WriteIsCommand
    <2>2. QED  BY <2>1 DEF Robot!RobotNext
  <1>20. CASE writeJointCommand(<<>>, FALSE)
    <2>1. /\ lag' = 0 /\ positions' = Now.positions /\ target' = Now.target
          /\ pending' = Now.pending /\ UNCHANGED <<wanted, speed, latency>>
      BY <1>1, <1>20, RefusedIs
    <2>2. ~restarted'  BY <1>20 DEF writeJointCommand
    <2>3. QED  BY <1>9, <2>1, <2>2 DEF Robot!RobotNext
  <1>21. CASE stopAll
    <2>1. UNCHANGED <<speed, latency>> /\ ~restarted'  BY <1>21 DEF stopAll, limitVars
    <2>2. CASE configured
      <3>1. AdvanceAndHold  BY <1>21, <2>2 DEF stopAll
      <3>2. QED  BY <1>8, <2>1, <3>1 DEF Robot!RobotNext
    <2>3. CASE ~configured
      <3>1. UNCHANGED <<wanted, positions, target, pending, lag>>
        BY <1>21, <2>3 DEF stopAll, motionVars
      <3>2. QED  BY <1>11, <2>1, <3>1 DEF Robot!RobotNext
    <2>4. QED  BY <2>2, <2>3
  <1>22. ASSUME NEW enabled \in BOOLEAN, setDisconnectInjected(enabled) PROVE Robot!Look
    BY <1>22, <1>11 DEF setDisconnectInjected, limitVars, motionVars
  <1>23. CASE MockTick  BY <1>1, <1>23, TickIsTick DEF Robot!RobotNext
  <1>24. CASE UNCHANGED mockVars
    BY <1>10, <1>24 DEF mockVars, limitVars, motionVars, Seen
  <1>25. QED
    BY <1>1, <1>12, <1>13, <1>14, <1>16, <1>17, <1>18, <1>19, <1>21, <1>22, <1>23, <1>24, <1>15,
       <1>20
       DEF MockNext, Robot!RobotNext

(* The lazy simulation implements the robot that moves by itself: when and *)
(* how often it is read, and what bad commands it is sent, has no          *)
(* influence on its motion; a command leaves the joints it does not name   *)
(* to their latest one; and a stream that is started again loses no        *)
(* command and shifts none.                                                *)
THEOREM RobotImplemented == MockSpec => ImplementsRobot
  <1>1. MockInit => Robot!RobotInit  BY RobotStarts
  <1>2. MockInv /\ MockInv' /\ [MockNext]_mockVars => [Robot!RobotNext]_(Robot!robotVars)
    <2>1. Robot!robotVars = <<Place, Goal, wanted, restarted, speed, latency>>
      BY DEF Robot!robotVars, Goal
    <2>2. Robot!robotVars' = <<Place, Goal, wanted, restarted, speed, latency>>'
      BY DEF Robot!robotVars, Goal
    <2>3. QED  BY <2>1, <2>2, RobotSteps
  <1>3. QED
    BY <1>1, <1>2, MockInvariant, PTL DEF MockSpec, ImplementsRobot, Robot!RobotSpec
=============================================================================
