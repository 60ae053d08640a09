----------------------------- MODULE ListProofs -----------------------------
(***************************************************************************)
(* Lemmas about lists, and loops over them, that the proofs about several  *)
(* components rest on.  A loop is a recursive function of the number of    *)
(* its passes.                                                             *)
(***************************************************************************)
EXTENDS Integers, SequencesExt, FiniteSetTheorems, TLAPS

\* A set of naturals has a smallest element.
LEMMA Smallest ==
  ASSUME NEW T, T \subseteq Nat, T # {}
  PROVE  \E x \in T : \A y \in T : x <= y
<1>. DEFINE Below(n) == 0..n
            segments == {Below(n) : n \in T}
<1>1. segments \subseteq FiniteSubsetsOf(Nat) /\ segments # {}
  <2>1. \A n \in T : IsFiniteSet(0..n) /\ 0..n \subseteq Nat
    BY FS_Interval
  <2>. QED  BY <2>1 DEF FiniteSubsetsOf
<1>2. PICK s \in segments :
        \A r \in segments : <<r, s>> \notin StrictSubsetOrdering(Nat)
  BY <1>1, FS_StrictSubsetOrderingWellFounded, WFMin
<1>3. PICK x \in T : s = Below(x)
  OBVIOUS
<1>4. ASSUME NEW y \in T, y < x PROVE FALSE
  <2>1. Below(y) \subseteq Below(x) /\ x \in Below(x) /\ x \notin Below(y)
    BY <1>4
  <2>2. <<Below(y), Below(x)>> \in StrictSubsetOrdering(Nat)
    BY <2>1, <1>4 DEF StrictSubsetOrdering
  <2>. QED  BY <1>2, <1>3, <2>2
<1>. QED  BY <1>4

\* What holds after no pass, and after a pass when it held before, always holds.
LEMMA EachPass ==
  ASSUME NEW n \in Nat, NEW T, 0 \in T, \A i \in 1..n : i - 1 \in T => i \in T
  PROVE  0..n \subseteq T
<1>. DEFINE B == (0..n) \ T
<1>1. ASSUME B # {} PROVE FALSE
  <2>1. B \subseteq Nat
    OBVIOUS
  <2>2. PICK x \in B : \A y \in B : x <= y
    <3>. HIDE DEF B
    <3>. QED  BY <1>1, <2>1, Smallest
  <2>3. x \in 1..n /\ x - 1 \in T
    BY <2>2
  <2>. QED  BY <2>2, <2>3
<1>. QED  BY <1>1

\* What one pass makes of what was there before it: a pass has a number.
Steps(n, V) == [V -> [1..n -> V]]

\* What is there after each of the n passes of a loop.
IsLoop(loop, n, V, first, step) ==
  /\ loop \in [0..n -> V]
  /\ loop[0] = first
  /\ \A i \in 1..n : loop[i] = step[loop[i - 1]][i]

\* There is a function that a loop with n passes defines.
LEMMA LoopExists ==
  ASSUME NEW n \in Nat, NEW V, NEW first \in V, NEW step \in Steps(n, V)
  PROVE  \E loop : IsLoop(loop, n, V, first, step)
<1>. DEFINE Loop(m, loop) == IsLoop(loop, m, V, first, step)
            T == {m \in 0..n : \E loop : Loop(m, loop)}
<1>1. 0 \in T
  <2>1. \E loop : Loop(0, loop)
    <3>1. Loop(0, [i \in 0..0 |-> first])
      BY DEF IsLoop
    <3>. QED  BY <3>1
  <2>. HIDE DEF Loop
  <2>. QED  BY <2>1
<1>2. ASSUME NEW m \in 1..n, m - 1 \in T PROVE m \in T
  <2>1. PICK loop : Loop(m - 1, loop)
    BY <1>2
  <2>2. PICK v : v = step[loop[m - 1]][m]
    OBVIOUS
  <2>3. v \in V
    BY <2>1, <2>2 DEF IsLoop, Steps
  <2>4. PICK longer : longer = [i \in 0..m |-> IF i = m THEN v ELSE loop[i]]
    OBVIOUS
  <2>5. longer \in [0..m -> V] /\ longer[0] = first /\ longer[m] = v
        /\ \A i \in 0..m - 1 : longer[i] = loop[i]
    BY <2>1, <2>3, <2>4 DEF IsLoop
  <2>6. ASSUME NEW i \in 1..m PROVE longer[i] = step[longer[i - 1]][i]
    <3>1. CASE i = m
      <4>1. m - 1 \in 0..m - 1 /\ longer[m - 1] = loop[m - 1] /\ longer[m] = v
        BY <2>5
      <4>. QED  BY <2>2, <3>1, <4>1
    <3>2. CASE i # m
      <4>1. i \in 1..m - 1 /\ i \in 0..m - 1 /\ i - 1 \in 0..m - 1
        BY <3>2
      <4>2. loop[i] = step[loop[i - 1]][i]
        BY <2>1, <4>1 DEF IsLoop
      <4>. QED  BY <2>5, <4>1, <4>2
    <3>. QED  BY <3>1, <3>2
  <2>7. Loop(m, longer)
    BY <2>5, <2>6 DEF IsLoop
  <2>. HIDE DEF Loop
  <2>. QED  BY <2>7
<1>3. n \in T
  <2>1. \A i \in 1..n : i - 1 \in T => i \in T
    BY <1>2
  <2>2. 0..n \subseteq T
    <3>. HIDE DEF T
    <3>. QED  BY <1>1, <2>1, EachPass
  <2>. HIDE DEF T
  <2>. QED  BY <2>2
<1>. QED  BY <1>3

\* The set of a list when an element is added or taken.
LEMMA QueueSets ==
  ASSUME NEW S, NEW q \in Seq(S), NEW m \in S
  PROVE  /\ ToSet(<< >>) = {}
         /\ ToSet(q) \subseteq S
         /\ Append(q, m) \in Seq(S) /\ ToSet(Append(q, m)) = ToSet(q) \cup {m}
         /\ q # << >> => /\ Head(q) \in S /\ Tail(q) \in Seq(S)
                         /\ ToSet(q) = ToSet(Tail(q)) \cup {Head(q)}
<1>1. ToSet(<< >>) = {} /\ ToSet(q) \subseteq S
  BY DEF ToSet
<1>2. Append(q, m) \in Seq(S) /\ ToSet(Append(q, m)) = ToSet(q) \cup {m}
  <2>1. /\ Append(q, m) \in Seq(S) /\ Len(Append(q, m)) = Len(q) + 1
        /\ \A i \in 1..Len(q) : Append(q, m)[i] = q[i]
        /\ Append(q, m)[Len(q) + 1] = m
    OBVIOUS
  <2>. QED  BY <2>1 DEF ToSet
<1>3. ASSUME q # << >>
      PROVE  /\ Head(q) \in S /\ Tail(q) \in Seq(S)
             /\ ToSet(q) = ToSet(Tail(q)) \cup {Head(q)}
  <2>1. /\ Len(q) >= 1 /\ Head(q) = q[1] /\ Head(q) \in S
        /\ Tail(q) \in Seq(S) /\ Len(Tail(q)) = Len(q) - 1
        /\ \A i \in 1..Len(q) - 1 : Tail(q)[i] = q[i + 1]
    BY <1>3
  <2>2. ToSet(Tail(q)) \cup {Head(q)} \subseteq ToSet(q)
    BY <2>1 DEF ToSet
  <2>3. ASSUME NEW i \in 1..Len(q)
        PROVE  q[i] \in ToSet(Tail(q)) \cup {Head(q)}
    <3>1. CASE i = 1
      BY <3>1, <2>1
    <3>2. CASE i # 1
      <4>1. i - 1 \in 1..Len(Tail(q)) /\ q[i] = Tail(q)[i - 1]
        BY <3>2, <2>1
      <4>2. DOMAIN Tail(q) = 1..Len(Tail(q))
        BY <2>1
      <4>. QED  BY <4>1, <4>2 DEF ToSet
    <3>. QED  BY <3>1, <3>2
  <2>4. ToSet(q) = {q[i] : i \in 1..Len(q)}
    BY DEF ToSet
  <2>. QED  BY <2>1, <2>2, <2>3, <2>4
<1>. QED  BY <1>1, <1>2, <1>3
=============================================================================
