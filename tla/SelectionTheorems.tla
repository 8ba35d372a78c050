-------------------------- MODULE SelectionTheorems --------------------------
(* What a selection keeps: its elements are those of the sequence that are in  *)
(* the set, in their order.  Both facts are by induction over the sequence;    *)
(* the induction is that of a set of numbers, whose complement would have a    *)
(* least element.                                                              *)
EXTENDS Selection, SequenceTheorems, WellFoundedInduction, TLAPS

\* A set of numbers that holds zero and the successor of each of its elements
\* is that of all numbers.
LEMMA NatSetInduction ==
  ASSUME NEW P \in SUBSET Nat, 0 \in P, \A n \in P : n + 1 \in P
  PROVE  P = Nat
<1> SUFFICES ASSUME Nat \ P # {} PROVE FALSE
  OBVIOUS
<1>1. PICK n \in Nat \ P : \A m \in Nat \ P : <<m, n>> \notin OpToRel(<, Nat)
  BY NatLessThanWellFounded, WFMin
<1>2. \A m \in Nat \ P : ~(m < n)
  BY <1>1 DEF OpToRel
<1>3. n \in Nat /\ n \notin P
  BY <1>1
<1>4. n # 0 /\ n - 1 \in Nat
  BY <1>3
<1>5. (n - 1) + 1 \in P
  BY <1>2, <1>4
<1> QED BY <1>3, <1>5

\* The recursion of Kept has a solution.
LEMMA SelectionExists ==
  ASSUME NEW s, NEW S, Len(s) \in Nat
  PROVE  \E g : /\ g = [i \in 0..Len(s) |-> IF i = 0 THEN <<>>
                                           ELSE IF s[i] \in S THEN Append(g[i - 1], s[i])
                                           ELSE g[i - 1]]
                /\ Kept(s, S) = g[Len(s)]
<1> DEFINE Solves(g, n) == g = [i \in 0..n |-> IF i = 0 THEN <<>>
                                              ELSE IF s[i] \in S THEN Append(g[i - 1], s[i])
                                              ELSE g[i - 1]]
           Solved == {n \in Nat : \E g : Solves(g, n)}
           f == CHOOSE g : Solves(g, Len(s))
<1>1. Solved = Nat
  <2>1. 0 \in Solved
    <3>1. Solves([i \in 0..0 |-> <<>>], 0)
      OBVIOUS
    <3> QED BY <3>1
  <2>2. ASSUME NEW n \in Solved PROVE n + 1 \in Solved
    <3>1. PICK g : Solves(g, n)
      BY <2>2
    <3> DEFINE h == [i \in 0..(n + 1) |-> IF i <= n THEN g[i]
                                         ELSE IF s[i] \in S THEN Append(g[i - 1], s[i])
                                         ELSE g[i - 1]]
    <3>2. \A i \in 0..n : h[i] = g[i]
      OBVIOUS
    <3>3. ASSUME NEW i \in 0..(n + 1)
          PROVE  h[i] = IF i = 0 THEN <<>>
                        ELSE IF s[i] \in S THEN Append(h[i - 1], s[i])
                        ELSE h[i - 1]
      <4>1. CASE i = n + 1
        BY <4>1, <3>2
      <4>2. CASE i \in 0..n
        <5>1. h[i] = g[i] /\ (i # 0 => i - 1 \in 0..n /\ h[i - 1] = g[i - 1])
          BY <4>2, <3>2
        <5>2. g[i] = IF i = 0 THEN <<>>
                     ELSE IF s[i] \in S THEN Append(g[i - 1], s[i])
                     ELSE g[i - 1]
          BY <4>2, <3>1
        <5> HIDE DEF h
        <5> QED BY <5>1, <5>2
      <4> QED BY <4>1, <4>2
    <3>4. h = [i \in 0..(n + 1) |-> h[i]]
      OBVIOUS
    <3> HIDE DEF h
    <3>5. Solves(h, n + 1)
      BY <3>3, <3>4
    <3> HIDE DEF Solves
    <3> QED BY <3>5
  <2> QED BY <2>1, <2>2, NatSetInduction
<1>2. Solves(f, Len(s))
  BY <1>1
<1>3. Kept(s, S) = f[Len(s)]
  BY DEF Kept
<1> QED BY <1>2, <1>3

\* The sequence r has the elements of s up to n that are in S, and each at the
\* place `from` names.
IsSelection(r, s, n, S, from) ==
  /\ from \in [1..Len(r) -> 1..n]
  /\ \A i, j \in 1..Len(r) : i < j => from[i] < from[j]
  /\ \A i \in 1..Len(r) : r[i] = s[from[i]] /\ r[i] \in S
  /\ \A k \in 1..n : s[k] \in S => \E i \in 1..Len(r) : r[i] = s[k]

THEOREM KeptProperties ==
  ASSUME NEW T, NEW s \in Seq(T), NEW S
  PROVE  /\ Kept(s, S) \in Seq(T)
         /\ Len(Kept(s, S)) <= Len(s)
         /\ \E from : IsSelection(Kept(s, S), s, Len(s), S, from)
<1>0. Len(s) \in Nat /\ \A i \in 1..Len(s) : s[i] \in T
  BY LenProperties, ElementOfSeq
<1>1. PICK g : /\ g = [i \in 0..Len(s) |-> IF i = 0 THEN <<>>
                                         ELSE IF s[i] \in S THEN Append(g[i - 1], s[i])
                                         ELSE g[i - 1]]
              /\ Kept(s, S) = g[Len(s)]
  BY <1>0, SelectionExists
<1> DEFINE Good(n) == /\ g[n] \in Seq(T) /\ Len(g[n]) <= n
                      /\ \E from : IsSelection(g[n], s, n, S, from)
           Done == {n \in Nat : n <= Len(s) => Good(n)}
<1>2. Done = Nat
  <2>1. 0 \in Done
    <3>1. g[0] = <<>>
      BY <1>0, <1>1
    <3>2. <<>> \in Seq(T) /\ Len(<<>>) = 0
      BY EmptySeq
    <3>3. IsSelection(<<>>, s, 0, S, <<>>)
      BY <3>2 DEF IsSelection
    <3>4. \E from : IsSelection(g[0], s, 0, S, from)
      BY <3>1, <3>3
    <3>5. Good(0)
      BY <3>1, <3>2, <3>4
    <3> HIDE DEF Good
    <3> QED BY <3>5
  <2>2. ASSUME NEW n \in Done PROVE n + 1 \in Done
    <3> SUFFICES ASSUME n + 1 <= Len(s) PROVE Good(n + 1)
      BY <2>2
    <3>1. n \in Nat /\ Good(n) /\ n \in 0..Len(s) /\ n + 1 \in 0..Len(s)
      BY <1>0, <2>2
    <3>2. PICK from : IsSelection(g[n], s, n, S, from)
      BY <3>1
    <3>3. Len(g[n]) \in Nat /\ g[n] \in Seq(T) /\ Len(g[n]) <= n
      BY <3>1, LenProperties
    <3>4. g[n + 1] = IF s[n + 1] \in S THEN Append(g[n], s[n + 1]) ELSE g[n]
      <4>1. n + 1 # 0 /\ (n + 1) - 1 = n
        BY <3>1
      <4> QED BY <1>1, <3>1, <4>1
    <3>5. CASE s[n + 1] \notin S
      <4>1. from \in [1..Len(g[n]) -> 1..(n + 1)]
        BY <3>1, <3>2 DEF IsSelection
      <4>2. ASSUME NEW k \in 1..(n + 1), s[k] \in S PROVE \E i \in 1..Len(g[n]) : g[n][i] = s[k]
        <5>1. k \in 1..n
          BY <3>1, <3>5, <4>2
        <5> QED BY <3>2, <4>2, <5>1 DEF IsSelection
      <4>3. IsSelection(g[n], s, n + 1, S, from)
        BY <3>2, <4>1, <4>2 DEF IsSelection
      <4> QED BY <3>1, <3>3, <3>4, <3>5, <4>3
    <3>6. CASE s[n + 1] \in S
      <4> DEFINE r == Append(g[n], s[n + 1])
                 to == [i \in 1..(Len(g[n]) + 1) |-> IF i <= Len(g[n]) THEN from[i] ELSE n + 1]
      <4>1. s[n + 1] \in T
        BY <1>0, <3>1
      <4>2. /\ r \in Seq(T) /\ Len(r) = Len(g[n]) + 1
            /\ \A i \in 1..Len(g[n]) : r[i] = g[n][i]
            /\ r[Len(g[n]) + 1] = s[n + 1]
        BY <3>3, <4>1, AppendProperties
      <4> HIDE DEF r
      <4>3. IsSelection(r, s, n + 1, S, to)
        <5>1. to \in [1..Len(r) -> 1..(n + 1)]
          BY <3>1, <3>2, <3>3, <4>2 DEF IsSelection
        <5>2. ASSUME NEW i \in 1..Len(g[n]) PROVE to[i] = from[i] /\ from[i] \in 1..n
          <6>1. from \in [1..Len(g[n]) -> 1..n]
            BY <3>2 DEF IsSelection
          <6>2. i <= Len(g[n]) /\ i \in 1..(Len(g[n]) + 1)
            BY <3>3
          <6>3. to[i] = from[i]
            BY <6>2
          <6> QED BY <6>1, <6>3
        <5>3. to[Len(g[n]) + 1] = n + 1
          BY <3>3
        <5> HIDE DEF to
        <5>4. ASSUME NEW i \in 1..Len(r), NEW j \in 1..Len(r), i < j PROVE to[i] < to[j]
          <6>1. i \in 1..Len(g[n])
            BY <3>3, <4>2, <5>4
          <6>2. CASE j \in 1..Len(g[n])
            BY <3>2, <5>2, <5>4, <6>1, <6>2 DEF IsSelection
          <6>3. CASE j = Len(g[n]) + 1
            BY <3>1, <5>2, <5>3, <6>1, <6>3
          <6> QED BY <3>3, <4>2, <6>2, <6>3
        <5>5. ASSUME NEW i \in 1..Len(r) PROVE r[i] = s[to[i]] /\ r[i] \in S
          <6>1. CASE i \in 1..Len(g[n])
            BY <3>2, <4>2, <5>2, <6>1 DEF IsSelection
          <6>2. CASE i = Len(g[n]) + 1
            BY <3>6, <4>2, <5>3, <6>2
          <6> QED BY <3>3, <4>2, <6>1, <6>2
        <5>6. ASSUME NEW k \in 1..(n + 1), s[k] \in S PROVE \E i \in 1..Len(r) : r[i] = s[k]
          <6>1. CASE k = n + 1
            <7>1. Len(g[n]) + 1 \in 1..Len(r) /\ r[Len(g[n]) + 1] = s[k]
              BY <3>3, <4>2, <6>1
            <7> QED BY <7>1
          <6>2. CASE k \in 1..n
            <7>1. PICK i \in 1..Len(g[n]) : g[n][i] = s[k]
              BY <3>2, <5>6, <6>2 DEF IsSelection
            <7>2. i \in 1..Len(r) /\ r[i] = s[k]
              BY <3>3, <4>2, <7>1
            <7> QED BY <7>2
          <6> QED BY <3>1, <6>1, <6>2
        <5> QED BY <5>1, <5>4, <5>5, <5>6 DEF IsSelection
      <4>4. g[n + 1] = r
        BY <3>4, <3>6 DEF r
      <4>5. Len(r) <= n + 1
        BY <3>1, <3>3, <4>2
      <4> QED BY <4>2, <4>3, <4>4, <4>5
    <3> QED BY <3>5, <3>6
  <2> HIDE DEF Good
  <2> QED BY <2>1, <2>2, NatSetInduction
<1>3. Good(Len(s))
  BY <1>0, <1>2
<1> QED BY <1>1, <1>3
=============================================================================
