------------------------------ MODULE NatOrder ------------------------------
(* What the proofs need of the order of the natural numbers.               *)
EXTENDS Integers, TLAPS, WellFoundedInduction

\* The order on naturals as the set of pairs well-founded induction is about
LEMMA LessThan ==
  \E R : IsWellFoundedOn(R, Nat) /\ \A a, b \in Nat : a < b => <<a, b>> \in R
<1> SUFFICES \A a, b \in Nat : a < b => <<a, b>> \in OpToRel(<, Nat)
  BY NatLessThanWellFounded, Zenon
<1> QED BY Zenon DEF OpToRel

\* A set of naturals has a least element
LEMMA Least ==
  ASSUME NEW T, T \subseteq Nat, T # {} PROVE \E x \in T : \A y \in T : x <= y
<1>1. PICK R : IsWellFoundedOn(R, Nat) /\ \A a, b \in Nat : a < b => <<a, b>> \in R
  BY LessThan, Zenon
<1>2. IsWellFoundedOn(R, Nat) BY <1>1
<1>3. \E x \in T : \A y \in T : ~ (<<y, x>> \in R)
  BY ONLY <1>2, T \subseteq Nat, T # {}, WFMin
<1>4. PICK x \in T : \A y \in T : ~ (<<y, x>> \in R) BY <1>3
<1>5. \A y \in T : ~(y < x) BY <1>1, <1>4, Zenon
<1>6. \A y \in T : x <= y BY <1>5, SMT
<1> QED BY <1>6

\* A nonempty set of naturals up to n has a greatest element
LEMMA Greatest ==
  ASSUME NEW n \in Nat, NEW T, T \subseteq 0..n, T # {}
  PROVE  \E x \in T : \A y \in T : y <= x
<1> DEFINE Q == {n - x : x \in T}
<1>0. \A x \in T : x \in 0..n /\ n - x \in Nat OBVIOUS
<1>1. Q \subseteq Nat /\ Q # {}
  <2>1. Q \subseteq Nat BY <1>0
  <2>2. PICK x \in T : TRUE OBVIOUS
  <2>3. n - x \in Q BY <2>2
  <2> QED BY <2>1, <2>3
<1>2. PICK q \in Q : \A y \in Q : q <= y BY ONLY <1>1, Least
<1>3. PICK x \in T : q = n - x OBVIOUS
<1>4. ASSUME NEW y \in T PROVE y <= x
  <2>1. q <= n - y BY <1>2
  <2> QED BY <1>0, <1>3, <2>1
<1> QED BY <1>4

\* Induction up to n: a set that has 0 and the successors of its members
LEMMA UpTo ==
  ASSUME NEW n \in Nat, NEW T, 0 \in T, \A i \in 0..(n - 1) : i \in T => i + 1 \in T
  PROVE  0..n \subseteq T
<1> DEFINE F == (0..n) \ T
<1> SUFFICES ASSUME F # {} PROVE FALSE OBVIOUS
<1>1. F \subseteq Nat OBVIOUS
<1>2. PICK x \in F : \A y \in F : x <= y BY ONLY <1>1, F # {}, Least
<1>3. x \in 1..n /\ x - 1 \in 0..(n - 1) /\ x = (x - 1) + 1 /\ ~(x <= x - 1) BY <1>2
<1>4. x - 1 \notin F BY <1>2, <1>3
<1> QED BY <1>2, <1>3, <1>4

\* Strong induction up to n
LEMMA StrongUpTo ==
  ASSUME NEW n \in Nat, NEW T,
         \A i \in 0..n : (\A j \in 0..n : j < i => j \in T) => i \in T
  PROVE  0..n \subseteq T
<1> DEFINE F == (0..n) \ T
<1> SUFFICES ASSUME F # {} PROVE FALSE OBVIOUS
<1>1. F \subseteq Nat OBVIOUS
<1>2. PICK x \in F : \A y \in F : x <= y BY ONLY <1>1, F # {}, Least
<1>3. ASSUME NEW j \in 0..n, j < x PROVE j \in T BY <1>2, <1>3
<1> QED BY <1>2, <1>3

\* What a recursive function of 0..n computes exists: a first value, and a
\* step from each value to the next
Steps(n, S) == [1..n -> [S -> S]]
Iterates(g, n, S, a, f) ==
  g \in [0..n -> S] /\ g[0] = a /\ \A i \in 1..n : g[i] = f[i][g[i - 1]]
LEMMA Iteration ==
  ASSUME NEW n \in Nat, NEW S, NEW a \in S, NEW f \in Steps(n, S)
  PROVE  \E g : Iterates(g, n, S, a, f)
<1>0. f \in [1..n -> [S -> S]] BY DEF Steps
<1> DEFINE T == {k \in 0..n : \E g \in [0..k -> S] :
                   g[0] = a /\ \A i \in 1..k : g[i] = f[i][g[i - 1]]}
<1>1. 0 \in T
  <2> DEFINE g == [x \in 0..0 |-> a]
  <2>1. g \in [0..0 -> S] /\ g[0] = a OBVIOUS
  <2>2. \A i \in 1..0 : FALSE OBVIOUS
  <2> HIDE DEF g
  <2>3. \A i \in 1..0 : g[i] = f[i][g[i - 1]] BY <2>2
  <2>4. 0 \in 0..n OBVIOUS
  <2> QED BY <2>1, <2>3, <2>4
<1>2. ASSUME NEW k \in 0..(n - 1), k \in T PROVE k + 1 \in T
  <2>1. PICK g \in [0..k -> S] : g[0] = a /\ \A i \in 1..k : g[i] = f[i][g[i - 1]] BY <1>2
  <2>2. k + 1 \in 1..n /\ k + 1 \in 0..n /\ g[k] \in S /\ k \in 0..k OBVIOUS
  <2>3. f[k + 1] \in [S -> S] BY <1>0, <2>2
  <2>4. f[k + 1][g[k]] \in S BY <2>2, <2>3
  <2> DEFINE h == [x \in 0..(k + 1) |-> IF x = k + 1 THEN f[k + 1][g[k]] ELSE g[x]]
  <2>5. h \in [0..(k + 1) -> S] BY <2>4
  <2>6. h[0] = a BY <2>1
  <2>7. ASSUME NEW i \in 1..(k + 1) PROVE h[i] = f[i][h[i - 1]]
    <3>1. CASE i = k + 1
      <4>1. h[k + 1] = f[k + 1][g[k]] OBVIOUS
      <4>2. i - 1 = k /\ k # k + 1 /\ k \in 0..(k + 1) BY <3>1
      <4>3. h[k] = g[k] BY <4>2
      <4> HIDE DEF h
      <4> QED BY <3>1, <4>1, <4>2, <4>3
    <3>2. CASE i # k + 1
      <4>1. /\ i \in 1..k /\ i - 1 \in 0..k /\ i - 1 # k + 1 /\ i \in 0..(k + 1) /\ i - 1 \in 0..(k + 1)
        BY <3>2
      <4>2. h[i] = g[i] /\ h[i - 1] = g[i - 1] BY <3>2, <4>1
      <4> HIDE DEF h
      <4> QED BY <2>1, <4>1, <4>2
    <3> QED BY <3>1, <3>2
  <2> HIDE DEF h
  <2> QED BY <2>2, <2>5, <2>6, <2>7
<1> HIDE DEF T
<1>3. 0..n \subseteq T BY ONLY n \in Nat, <1>1, <1>2, UpTo
<1>4. n \in T BY <1>3
<1> QED BY <1>4 DEF T, Iterates
=============================================================================
