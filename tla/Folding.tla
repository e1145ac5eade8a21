------------------------------ MODULE Folding -------------------------------
(***************************************************************************)
(* Induction along a fold, once for every fold of the project.  Do is the  *)
(* step that the fold repeats, from a state x and an element e, with three *)
(* parameters that stay; Good(x, n, k) is what holds of the state after n  *)
(* elements, with a parameter k of its own.  A proof module instantiates   *)
(* both with definitions of its own and cites Runs.                        *)
(***************************************************************************)
EXTENDS Integers, Sequences, WellFoundedInduction, TLAPS

CONSTANTS Do(_, _, _, _, _), Good(_, _, _)

Run(base, s, a, b, c) ==
    LET r[n \in 0..Len(s)] == IF n = 0 THEN base ELSE Do(r[n - 1], s[n], a, b, c)
    IN IF Len(s) \in Nat THEN r[Len(s)] ELSE base

(* f holds the states of the fold up to the n-th element.                  *)
States(f, n, base, s, a, b, c) ==
    f = [i \in 0..n |-> IF i = 0 THEN base ELSE Do(f[i - 1], s[i], a, b, c)]

(* A set of natural numbers that is not empty has a least.                  *)
LEMMA LeastOf == ASSUME NEW S \in SUBSET Nat, S # {} PROVE \E m \in S : \A n \in S : m <= n
<1>1. IsWellFoundedOn(OpToRel(<, Nat), Nat)
  BY NatLessThanWellFounded
<1>2. PICK m \in S : \A n \in S : ~ <<n, m>> \in OpToRel(<, Nat)
  BY <1>1, WFMin, Zenon
<1>3. \A n \in S : ~ (n < m)
  BY <1>2 DEF OpToRel
<1> QED
  BY <1>3

(* They exist for every length.                                            *)
LEMMA StatesExist ==
    ASSUME NEW n \in Nat, NEW base, NEW s, NEW a, NEW b, NEW c
    PROVE  \E f : States(f, n, base, s, a, b, c)
<1> DEFINE Missing == {k \in Nat : ~ \E f : States(f, k, base, s, a, b, c)}
<1>1. SUFFICES ASSUME Missing # {} PROVE FALSE
  OBVIOUS
<1>2. PICK k \in Missing : \A j \in Missing : k <= j
  BY <1>1, LeastOf
<1>3. k \in Nat /\ ~ \E f : States(f, k, base, s, a, b, c)
  OBVIOUS
<1>4. CASE k = 0
  <2>1. PICK f : f = [i \in 0..0 |-> base]
    OBVIOUS
  <2>2. f = [i \in 0..0 |-> IF i = 0 THEN base ELSE Do(f[i - 1], s[i], a, b, c)]
    BY <2>1
  <2> QED
    BY <1>3, <1>4, <2>2 DEF States
<1>5. CASE k # 0
  <2>1. k - 1 \in Nat
    BY <1>3, <1>5
  <2>2. PICK f : States(f, k - 1, base, s, a, b, c)
    BY <1>2, <1>3, <2>1
  <2>3. PICK g : g = [i \in 0..k |-> IF i = k THEN Do(f[k - 1], s[k], a, b, c) ELSE f[i]]
    OBVIOUS
  <2>4. ASSUME NEW i \in 0..k
        PROVE  g[i] = IF i = 0 THEN base ELSE Do(g[i - 1], s[i], a, b, c)
    <3>1. CASE i = k
      <4>1. i - 1 \in 0..k /\ i - 1 # k /\ i # 0
        BY <1>3, <1>5, <3>1
      <4>2. g[i - 1] = f[i - 1] /\ g[i] = Do(f[i - 1], s[i], a, b, c)
        BY <2>3, <3>1, <4>1
      <4> QED
        BY <4>1, <4>2
    <3>2. CASE i # k
      <4>1. i \in 0..(k - 1)
        BY <1>3, <3>2
      <4>2. f[i] = IF i = 0 THEN base ELSE Do(f[i - 1], s[i], a, b, c)
        BY <2>2, <4>1 DEF States
      <4>3. g[i] = f[i]
        BY <2>3, <3>2
      <4>4. i # 0 => g[i - 1] = f[i - 1]
        BY <1>3, <2>3, <4>1
      <4> QED
        BY <4>2, <4>3, <4>4
    <3> QED
      BY <3>1, <3>2
  <2>5. g = [i \in 0..k |-> g[i]]
    BY <2>3
  <2>6. g = [i \in 0..k |-> IF i = 0 THEN base ELSE Do(g[i - 1], s[i], a, b, c)]
    BY <2>4, <2>5
  <2> QED
    BY <1>3, <2>6 DEF States
<1> QED
  BY <1>4, <1>5

(* What holds at first and is kept by every step holds of the result.      *)
THEOREM Runs ==
    ASSUME NEW base, NEW s, NEW a, NEW b, NEW c, NEW k,
           Good(base, 0, k),
           \A x : \A n \in 1..Len(s) : Good(x, n - 1, k) => Good(Do(x, s[n], a, b, c), n, k)
    PROVE  Good(Run(base, s, a, b, c), IF Len(s) \in Nat THEN Len(s) ELSE 0, k)
<1>1. CASE Len(s) \notin Nat
  <2>1. Run(base, s, a, b, c) = base
    BY <1>1 DEF Run
  <2> QED
    BY <1>1, <2>1
<1>2. CASE Len(s) \in Nat
  <2>1. PICK N \in Nat : N = Len(s)
    BY <1>2
  <2> DEFINE r == CHOOSE f : States(f, N, base, s, a, b, c)
  <2>2. States(r, N, base, s, a, b, c)
    BY StatesExist
  <2>3. Run(base, s, a, b, c) = r[N]
    BY <1>2, <2>1 DEF Run, States
  <2>4. PICK f : f = r
    OBVIOUS
  <2> HIDE DEF r
  <2> DEFINE Broken == {i \in Nat : i <= N /\ ~ Good(f[i], i, k)}
  <2>5. Broken = {}
    <3>1. SUFFICES ASSUME Broken # {} PROVE FALSE
      OBVIOUS
    <3>2. PICK m \in Broken : \A j \in Broken : m <= j
      BY <3>1, LeastOf
    <3>3. m \in Nat /\ m <= N /\ ~ Good(f[m], m, k)
      OBVIOUS
    <3>4. f[m] = IF m = 0 THEN base ELSE Do(f[m - 1], s[m], a, b, c)
      BY <2>2, <2>4, <3>3 DEF States
    <3>5. m # 0
      BY <3>3, <3>4
    <3>6. m - 1 \in Nat /\ m - 1 <= N /\ m \in 1..Len(s) /\ ~ (m <= m - 1)
      BY <2>1, <3>3, <3>5
    <3>7. Good(f[m - 1], m - 1, k)
      BY <3>2, <3>6
    <3>8. Good(Do(f[m - 1], s[m], a, b, c), m, k)
      BY <3>6, <3>7
    <3> QED
      BY <3>3, <3>4, <3>5, <3>8
  <2>6. Good(f[N], N, k)
    BY <2>5
  <2> QED
    BY <1>2, <2>1, <2>3, <2>4, <2>6
<1> QED
  BY <1>1, <1>2

(* One more element is one more step.                                      *)
THEOREM RunMore ==
    ASSUME NEW base, NEW s, NEW t, NEW a, NEW b, NEW c,
           Len(s) \in Nat, Len(t) = Len(s) + 1, \A i \in 1..Len(s) : t[i] = s[i]
    PROVE  Run(base, t, a, b, c) = Do(Run(base, s, a, b, c), t[Len(t)], a, b, c)
<1>1. PICK N \in Nat : N = Len(s) /\ Len(t) = N + 1
  OBVIOUS
<1> DEFINE f == CHOOSE h : States(h, N, base, s, a, b, c)
           g == CHOOSE h : States(h, N + 1, base, t, a, b, c)
<1>2. States(f, N, base, s, a, b, c)
  BY StatesExist
<1>3. States(g, N + 1, base, t, a, b, c)
  <2>1. N + 1 \in Nat
    OBVIOUS
  <2>2. \E h : States(h, N + 1, base, t, a, b, c)
    BY <2>1, StatesExist
  <2> QED
    BY <2>2
<1>4. Run(base, s, a, b, c) = f[N] /\ Run(base, t, a, b, c) = g[N + 1]
  BY <1>1 DEF Run, States
<1> HIDE DEF f, g
<1> DEFINE Apart == {i \in Nat : i <= N /\ f[i] # g[i]}
<1>5. Apart = {}
  <2>1. SUFFICES ASSUME Apart # {} PROVE FALSE
    OBVIOUS
  <2>2. PICK m \in Apart : \A j \in Apart : m <= j
    BY <2>1, LeastOf
  <2>3. m \in Nat /\ m <= N /\ f[m] # g[m]
    OBVIOUS
  <2>4. f[m] = IF m = 0 THEN base ELSE Do(f[m - 1], s[m], a, b, c)
    BY <1>2, <2>3 DEF States
  <2>5. m \in 0..(N + 1)
    BY <2>3
  <2>6. g[m] = IF m = 0 THEN base ELSE Do(g[m - 1], t[m], a, b, c)
    BY <1>3, <2>5 DEF States
  <2>7. m # 0
    BY <2>3, <2>4, <2>6
  <2>8. m - 1 \in Nat /\ m - 1 <= N /\ m \in 1..Len(s) /\ ~ (m <= m - 1)
    BY <1>1, <2>3, <2>7
  <2>9. f[m - 1] = g[m - 1] /\ s[m] = t[m]
    BY <2>2, <2>8
  <2> QED
    BY <2>3, <2>4, <2>6, <2>7, <2>9
<1>6. f[N] = g[N]
  BY <1>5
<1>7. g[N + 1] = Do(g[N], t[N + 1], a, b, c)
  <2>1. N + 1 \in 0..(N + 1) /\ N + 1 # 0 /\ N + 1 - 1 = N
    OBVIOUS
  <2> QED
    BY <1>3, <2>1 DEF States
<1> QED
  BY <1>1, <1>4, <1>6, <1>7
=============================================================================
