---------------------------- MODULE ReportProofs ----------------------------
(***************************************************************************)
(* Reports from the run that writes one to the page that shows it.         *)
(*                                                                         *)
(* First module ReportRun, for every number of roles, chunks, faults and   *)
(* event streams: a ready report has all of the model's text, no thread    *)
(* outlives its run, an event stream is told the truth, and the run        *)
(* implements SessionContract.  Before it stands what the events of a run  *)
(* rest on, the algorithm of module EventSelection, for every set of       *)
(* stored events: its recursions are solved by induction over the natural  *)
(* numbers (NatSetInduction), each step is characterised by what is in its *)
(* list and in which order, and the lists it builds keep what the          *)
(* selection promises.                                                     *)
(*                                                                         *)
(* Then module Workbench, for every number of stocks, reports, requests    *)
(* and faults: what the page shows is of its route and belongs together,   *)
(* and the user's choice stays.                                            *)
(***************************************************************************)
EXTENDS ReportRun, Workbench, FiniteSetTheorems, WellFoundedInduction, TLAPS

-----------------------------------------------------------------------------
(***************************************************************************)
(* Recursion                                                               *)
(***************************************************************************)
LEMMA LeastIs ==
  ASSUME NEW A, A \subseteq Nat, A # {}
  PROVE  \E m \in A : \A n \in A : m <= n
<1> DEFINE Least == OpToRel(<, Nat)
<1>1. IsWellFoundedOn(Least, Nat)
  BY NatLessThanWellFounded
<1>2. \A m, n \in Nat : m < n => <<m, n>> \in Least
  BY DEF OpToRel
<1> HIDE DEF Least
<1>3. PICK m \in A : \A n \in A : <<n, m>> \notin Least
  BY <1>1, WFMin
<1>4. ASSUME NEW n \in A PROVE m <= n
  <2>1. m \in Nat /\ n \in Nat /\ <<n, m>> \notin Least
    BY <1>3
  <2>2. ~(n < m)
    BY <1>2, <2>1
  <2> QED
    BY <2>1, <2>2
<1> QED
  BY <1>4

LEMMA NatSetInduction ==
  ASSUME NEW A, 0 \in A, \A n \in Nat : n \in A => n + 1 \in A
  PROVE  Nat \subseteq A
<1> DEFINE Bad == Nat \ A
<1>1. SUFFICES ASSUME Bad # {} PROVE FALSE
  OBVIOUS
<1>2. PICK n \in Bad : \A m \in Bad : n <= m
  <2>1. Bad \subseteq Nat
    OBVIOUS
  <2> HIDE DEF Bad
  <2> QED
    BY <1>1, <2>1, LeastIs
<1>3. n - 1 \in Nat /\ n - 1 < n /\ (n - 1) + 1 = n
  OBVIOUS
<1>4. n - 1 \notin Bad
  BY <1>2, <1>3
<1> QED
  BY <1>3, <1>4

\* A recursion over the numbers up to n has a solution.
Recursive(f, V, base, n, step) ==
  /\ f \in [0 .. n -> V]
  /\ f[0] = base
  /\ \A m \in 1 .. n : f[m] = step[m][f[m - 1]]

LEMMA RecursionExists ==
  ASSUME NEW V, NEW base \in V, NEW n \in Nat, NEW step \in [1 .. n -> [V -> V]]
  PROVE  \E f : Recursive(f, V, base, n, step)
<1> DEFINE Solves(f, k) == f[0] = base /\ \A m \in 1 .. k : f[m] = step[m][f[m - 1]]
           A == {k \in Nat : k <= n => \E f \in [0 .. k -> V] : Solves(f, k)}
<1>1. 0 \in A
  <2>1. [i \in 0 .. 0 |-> base] \in [0 .. 0 -> V] /\ Solves([i \in 0 .. 0 |-> base], 0)
    OBVIOUS
  <2> QED
    BY <2>1
<1>2. ASSUME NEW k \in Nat, k \in A PROVE k + 1 \in A
  <2>1. SUFFICES ASSUME k + 1 <= n PROVE \E f \in [0 .. k + 1 -> V] : Solves(f, k + 1)
    OBVIOUS
  <2>2. PICK f \in [0 .. k -> V] : Solves(f, k)
    BY <1>2, <2>1
  <2> DEFINE g == [i \in 0 .. k + 1 |-> IF i = k + 1 THEN step[k + 1][f[k]] ELSE f[i]]
  <2>3. step[k + 1][f[k]] \in V
    <3>1. f[k] \in V /\ k + 1 \in 1 .. n
      BY <2>1, <2>2
    <3> QED
      BY <3>1
  <2>4. g \in [0 .. k + 1 -> V]
    BY <2>2, <2>3
  <2>5. g[0] = base
    BY <2>2
  <2>6. ASSUME NEW m \in 1 .. k + 1 PROVE g[m] = step[m][g[m - 1]]
    <3>1. CASE m = k + 1
      <4>1. g[m] = step[k + 1][f[k]] /\ g[m - 1] = f[k] /\ k \in 0 .. k /\ m - 1 = k
        BY <3>1
      <4> QED
        BY <3>1, <4>1
    <3>2. CASE m \in 1 .. k
      <4>1. g[m] = f[m] /\ g[m - 1] = f[m - 1]
        BY <3>2
      <4> QED
        BY <2>2, <3>2, <4>1
    <3> QED
      BY <3>1, <3>2
  <2> QED
    BY <2>4, <2>5, <2>6
<1> HIDE DEF A
<1>3. n \in A
  BY <1>1, <1>2, NatSetInduction
<1> QED
  BY <1>3 DEF A, Recursive

LEMMA LengthIs ==
  ASSUME NEW S, NEW s \in Seq(S), NEW e \in S
  PROVE  /\ Append(s, e) \in Seq(S) /\ Len(Append(s, e)) = Len(s) + 1 /\ Len(s) \in Nat
         /\ \A i \in 1 .. Len(s) : Append(s, e)[i] = s[i]
         /\ Append(s, e)[Len(s) + 1] = e
  OBVIOUS

-----------------------------------------------------------------------------
(***************************************************************************)
(* The events of a list that are wanted, and the first of each key         *)
(***************************************************************************)
\* h gives for each of the events kept its place among the first m of a list.
Picks(h, out, s, T, m) ==
  /\ h \in [1 .. Len(out) -> 1 .. m]
  /\ \A a, b \in 1 .. Len(out) : a < b => h[a] < h[b]
  /\ \A a \in 1 .. Len(out) : out[a] = s[h[a]] /\ s[h[a]] \in T
  /\ \A i \in 1 .. m : s[i] \in T => \E a \in 1 .. Len(out) : h[a] = i

LEMMA PicksNext ==
  ASSUME NEW S, NEW s \in Seq(S), NEW T, NEW m \in Nat, m + 1 <= Len(s),
         NEW out \in Seq(S), NEW h, Picks(h, out, s, T, m)
  PROVE  \E g : Picks(g, IF s[m + 1] \in T THEN Append(out, s[m + 1]) ELSE out, s, T, m + 1)
<1>1. CASE s[m + 1] \notin T
  <2>1. Picks(h, out, s, T, m + 1)
    BY <1>1 DEF Picks
  <2> QED
    BY <1>1, <2>1
<1>2. CASE s[m + 1] \in T
  <2> DEFINE new == Append(out, s[m + 1])
             g == [a \in 1 .. Len(out) + 1 |-> IF a = Len(out) + 1 THEN m + 1 ELSE h[a]]
  <2>1. s[m + 1] \in S
    OBVIOUS
  <2>2. /\ Len(new) = Len(out) + 1 /\ Len(out) \in Nat
        /\ \A i \in 1 .. Len(out) : new[i] = out[i]
        /\ new[Len(out) + 1] = s[m + 1]
    BY <2>1, LengthIs
  <2> HIDE DEF new
  <2>3. g \in [1 .. Len(new) -> 1 .. m + 1]
    BY <2>2 DEF Picks
  <2>4. ASSUME NEW a \in 1 .. Len(new), NEW b \in 1 .. Len(new), a < b PROVE g[a] < g[b]
    <3>1. a \in 1 .. Len(out) /\ g[a] = h[a] /\ h[a] \in 1 .. m
      BY <2>2, <2>4 DEF Picks
    <3>2. CASE b = Len(out) + 1
      BY <2>2, <3>1, <3>2
    <3>3. CASE b \in 1 .. Len(out)
      <4>1. g[b] = h[b]
        BY <2>2, <3>3
      <4> QED
        BY <2>4, <3>1, <3>3, <4>1 DEF Picks
    <3> QED
      BY <2>2, <3>2, <3>3
  <2>5. ASSUME NEW a \in 1 .. Len(new) PROVE new[a] = s[g[a]] /\ s[g[a]] \in T
    <3>1. CASE a = Len(out) + 1
      BY <1>2, <2>2, <3>1
    <3>2. CASE a \in 1 .. Len(out)
      <4>1. g[a] = h[a] /\ new[a] = out[a]
        BY <2>2, <3>2
      <4> QED
        BY <3>2, <4>1 DEF Picks
    <3> QED
      BY <2>2, <3>1, <3>2
  <2>6. ASSUME NEW i \in 1 .. m + 1, s[i] \in T PROVE \E a \in 1 .. Len(new) : g[a] = i
    <3>1. CASE i = m + 1
      BY <2>2, <3>1
    <3>2. CASE i \in 1 .. m
      <4>1. PICK a \in 1 .. Len(out) : h[a] = i
        BY <2>6, <3>2 DEF Picks
      <4> QED
        BY <2>2, <4>1
    <3>3. i = m + 1 \/ i \in 1 .. m
      OBVIOUS
    <3> QED
      BY <3>1, <3>2, <3>3
  <2>7. Picks(g, new, s, T, m + 1)
    BY <2>3, <2>4, <2>5, <2>6 DEF Picks
  <2> QED
    BY <1>2, <2>7 DEF new
<1> QED
  BY <1>1, <1>2

LEMMA OnlyIs ==
  ASSUME NEW S, NEW s \in Seq(S), NEW T
  PROVE  Only(s, T) \in Seq(S) /\ \E h : Picks(h, Only(s, T), s, T, Len(s))
<1> DEFINE n == Len(s)
           next(out, m) == IF s[m] \in T THEN Append(out, s[m]) ELSE out
           Rec(F) == [m \in 0 .. n |-> IF m = 0 THEN <<>> ELSE next(F[m - 1], m)]
           kept == CHOOSE F : F = Rec(F)
<1>1. Only(s, T) = kept[n]
  BY Zenon DEF Only
<1>2. n \in Nat /\ <<>> \in Seq(S)
  OBVIOUS
<1>3. \A out \in Seq(S), m \in 1 .. n : next(out, m) \in Seq(S)
  OBVIOUS
<1> HIDE DEF n, next
<1>4. kept = Rec(kept)
  <2> DEFINE V == Seq(S)
             none == <<>>
             step == [m \in 1 .. n |-> [out \in V |-> next(out, m)]]
  <2> HIDE DEF V, none
  <2>1. none \in V /\ \A out \in V, m \in 1 .. n : next(out, m) \in V
    BY <1>2, <1>3 DEF V, none
  <2>2. step \in [1 .. n -> [V -> V]] /\ \A out \in V, m \in 1 .. n : step[m][out] = next(out, m)
    BY <2>1
  <2> HIDE DEF step
  <2>3. PICK f : Recursive(f, V, none, n, step)
    BY <1>2, <2>1, <2>2, RecursionExists
  <2>4. \A m \in 1 .. n : f[m - 1] \in V
    BY <1>2, <2>3 DEF Recursive
  <2>5. \A m \in 0 .. n : f[m] = IF m = 0 THEN <<>> ELSE next(f[m - 1], m)
    BY <1>2, <2>2, <2>3, <2>4 DEF none, Recursive
  <2>6. f = Rec(f)
    BY <2>3, <2>5 DEF Recursive
  <2> HIDE DEF Rec
  <2> QED
    BY <2>6, Zenon
<1> HIDE DEF kept
<1>5. kept[0] = <<>> /\ \A m \in 1 .. n : kept[m] = next(kept[m - 1], m)
  BY <1>2, <1>4
<1> DEFINE A == {m \in Nat : m <= n =>
                   kept[m] \in Seq(S) /\ \E h : Picks(h, kept[m], s, T, m)}
<1>6. 0 \in A
  <2>1. Picks(<<>>, <<>>, s, T, 0)
    BY DEF Picks
  <2> QED
    BY <1>2, <1>5, <2>1
<1>7. ASSUME NEW m \in Nat, m \in A PROVE m + 1 \in A
  <2>1. SUFFICES ASSUME m + 1 <= n
                 PROVE  kept[m + 1] \in Seq(S) /\ \E h : Picks(h, kept[m + 1], s, T, m + 1)
    OBVIOUS
  <2>2. kept[m] \in Seq(S) /\ \E h : Picks(h, kept[m], s, T, m)
    BY <1>2, <1>7, <2>1
  <2>3. m + 1 \in 1 .. n /\ (m + 1) - 1 = m
    BY <1>2, <2>1
  <2>4. kept[m + 1] = next(kept[m], m + 1)
    BY <1>5, <2>3
  <2>5. kept[m + 1] \in Seq(S)
    BY <1>3, <2>2, <2>3, <2>4
  <2>6. \E h : Picks(h, next(kept[m], m + 1), s, T, m + 1)
    BY <2>1, <2>2, PicksNext DEF next, n
  <2> QED
    BY <2>4, <2>5, <2>6
<1> HIDE DEF A
<1>8. n \in A
  BY <1>2, <1>6, <1>7, NatSetInduction
<1> QED
  BY <1>1, <1>2, <1>8 DEF A, n

\* The events kept after those in front, and for each of them its place among the first m.
Leads(g, out, front, others, m) ==
  /\ Len(out) >= Len(front)
  /\ g \in [Len(front) + 1 .. Len(out) -> 1 .. m]
  /\ \A i \in 1 .. Len(front) : out[i] = front[i]
  /\ \A a, b \in Len(front) + 1 .. Len(out) : a < b => g[a] < g[b]
  /\ \A a \in Len(front) + 1 .. Len(out) : out[a] = others[g[a]]
  /\ \A a \in 1 .. Len(out), b \in Len(front) + 1 .. Len(out) :
       a < b => out[a].key # out[b].key
  /\ \A i \in 1 .. m : \E a \in 1 .. Len(out) : out[a].key = others[i].key

LEMMA LeadsNext ==
  ASSUME NEW S, NEW front \in Seq(S), NEW others \in Seq(S), NEW m \in Nat, m + 1 <= Len(others),
         NEW out \in Seq(S), NEW h, Leads(h, out, front, others, m)
  PROVE  \E g : Leads(g, IF others[m + 1].key \in Keys(out) THEN out
                         ELSE Append(out, others[m + 1]), front, others, m + 1)
<1> DEFINE e == others[m + 1]
<1>1. Len(out) \in Nat /\ Len(front) \in Nat /\ e \in S /\ DOMAIN out = 1 .. Len(out)
  OBVIOUS
<1>2. CASE e.key \in Keys(out)
  <2>1. PICK a \in 1 .. Len(out) : out[a].key = e.key
    BY <1>1, <1>2 DEF Keys
  <2>2. \A i \in 1 .. m + 1 : \E b \in 1 .. Len(out) : out[b].key = others[i].key
    BY <2>1 DEF Leads
  <2>3. Leads(h, out, front, others, m + 1)
    BY <2>2 DEF Leads
  <2> QED
    BY <1>2, <2>3
<1>3. CASE e.key \notin Keys(out)
  <2> DEFINE new == Append(out, e)
             g == [a \in Len(front) + 1 .. Len(out) + 1 |-> IF a = Len(out) + 1 THEN m + 1 ELSE h[a]]
  <2>1. /\ Len(new) = Len(out) + 1
        /\ \A i \in 1 .. Len(out) : new[i] = out[i]
        /\ new[Len(out) + 1] = e
    BY <1>1, LengthIs
  <2> HIDE DEF new, e
  <2>2. \A a \in 1 .. Len(out) : out[a].key # e.key
    BY <1>1, <1>3 DEF Keys
  <2>3. /\ Len(out) >= Len(front)
        /\ h \in [Len(front) + 1 .. Len(out) -> 1 .. m]
        /\ \A a, b \in Len(front) + 1 .. Len(out) : a < b => h[a] < h[b]
        /\ \A a \in Len(front) + 1 .. Len(out) : out[a] = others[h[a]]
    BY DEF Leads
  <2>4. g \in [Len(front) + 1 .. Len(new) -> 1 .. m + 1]
    BY <1>1, <2>1, <2>3
  <2>5. \A i \in 1 .. Len(front) : new[i] = front[i]
    BY <1>1, <2>1, <2>3 DEF Leads
  <2>6. ASSUME NEW a \in Len(front) + 1 .. Len(new), NEW b \in Len(front) + 1 .. Len(new), a < b
        PROVE  g[a] < g[b]
    <3>1. a \in Len(front) + 1 .. Len(out) /\ g[a] = h[a] /\ h[a] \in 1 .. m
      BY <1>1, <2>1, <2>3, <2>6
    <3>2. CASE b = Len(out) + 1
      BY <1>1, <2>1, <2>3, <3>1, <3>2
    <3>3. CASE b \in Len(front) + 1 .. Len(out)
      <4>1. g[b] = h[b]
        BY <1>1, <3>3
      <4> QED
        BY <2>3, <2>6, <3>1, <3>3, <4>1
    <3> QED
      BY <1>1, <2>1, <3>2, <3>3
  <2>7. ASSUME NEW a \in Len(front) + 1 .. Len(new) PROVE new[a] = others[g[a]]
    <3>1. CASE a = Len(out) + 1
      BY <1>1, <2>1, <2>3, <3>1 DEF e
    <3>2. CASE a \in Len(front) + 1 .. Len(out)
      <4>1. g[a] = h[a] /\ new[a] = out[a]
        BY <1>1, <2>1, <3>2
      <4> QED
        BY <2>3, <3>2, <4>1
    <3> QED
      BY <1>1, <2>1, <3>1, <3>2
  <2>8. ASSUME NEW a \in 1 .. Len(new), NEW b \in Len(front) + 1 .. Len(new), a < b
        PROVE  new[a].key # new[b].key
    <3>1. a \in 1 .. Len(out) /\ new[a] = out[a]
      BY <1>1, <2>1, <2>8
    <3>2. CASE b = Len(out) + 1
      BY <2>1, <2>2, <3>1, <3>2
    <3>3. CASE b \in Len(front) + 1 .. Len(out)
      BY <1>1, <2>1, <2>8, <3>1, <3>3 DEF Leads
    <3> QED
      BY <1>1, <2>1, <3>2, <3>3
  <2>9. ASSUME NEW i \in 1 .. m + 1 PROVE \E a \in 1 .. Len(new) : new[a].key = others[i].key
    <3>1. CASE i = m + 1
      BY <1>1, <2>1, <3>1 DEF e
    <3>2. CASE i \in 1 .. m
      <4>1. PICK a \in 1 .. Len(out) : out[a].key = others[i].key
        BY <3>2 DEF Leads
      <4> QED
        BY <1>1, <2>1, <4>1
    <3> QED
      BY <3>1, <3>2
  <2>10. Leads(g, new, front, others, m + 1)
    BY <1>1, <2>1, <2>3, <2>4, <2>5, <2>6, <2>7, <2>8, <2>9 DEF Leads
  <2> QED
    BY <1>3, <2>10 DEF new, e
<1> QED
  BY <1>2, <1>3

LEMMA FirstOfKeysIs ==
  ASSUME NEW S, NEW front \in Seq(S), NEW others \in Seq(S)
  PROVE  /\ FirstOfKeys(front, others) \in Seq(S)
         /\ \E h : Leads(h, FirstOfKeys(front, others), front, others, Len(others))
<1> DEFINE n == Len(others)
           next(out, m) == IF others[m].key \in Keys(out) THEN out ELSE Append(out, others[m])
           Rec(F) == [m \in 0 .. n |-> IF m = 0 THEN front ELSE next(F[m - 1], m)]
           kept == CHOOSE F : F = Rec(F)
<1>1. FirstOfKeys(front, others) = kept[n]
  BY Zenon DEF FirstOfKeys
<1>2. n \in Nat
  OBVIOUS
<1>3. \A out \in Seq(S), m \in 1 .. n : next(out, m) \in Seq(S)
  OBVIOUS
<1> HIDE DEF n, next
<1>4. kept = Rec(kept)
  <2> DEFINE V == Seq(S)
             step == [m \in 1 .. n |-> [out \in V |-> next(out, m)]]
  <2> HIDE DEF V
  <2>1. front \in V /\ \A out \in V, m \in 1 .. n : next(out, m) \in V
    BY <1>3 DEF V
  <2>2. step \in [1 .. n -> [V -> V]] /\ \A out \in V, m \in 1 .. n : step[m][out] = next(out, m)
    BY <2>1
  <2> HIDE DEF step
  <2>3. PICK f : Recursive(f, V, front, n, step)
    BY <1>2, <2>1, <2>2, RecursionExists
  <2>4. \A m \in 1 .. n : f[m - 1] \in V
    BY <1>2, <2>3 DEF Recursive
  <2>5. \A m \in 0 .. n : f[m] = IF m = 0 THEN front ELSE next(f[m - 1], m)
    BY <1>2, <2>2, <2>3, <2>4 DEF Recursive
  <2>6. f = Rec(f)
    BY <2>3, <2>5 DEF Recursive
  <2> HIDE DEF Rec
  <2> QED
    BY <2>6, Zenon
<1> HIDE DEF kept
<1>5. kept[0] = front /\ \A m \in 1 .. n : kept[m] = next(kept[m - 1], m)
  BY <1>2, <1>4
<1> DEFINE A == {m \in Nat : m <= n =>
                   kept[m] \in Seq(S) /\ \E h : Leads(h, kept[m], front, others, m)}
<1>6. 0 \in A
  <2>1. Leads(<<>>, front, front, others, 0)
    BY DEF Leads
  <2> QED
    BY <1>2, <1>5, <2>1
<1>7. ASSUME NEW m \in Nat, m \in A PROVE m + 1 \in A
  <2>1. SUFFICES ASSUME m + 1 <= n
                 PROVE  kept[m + 1] \in Seq(S) /\ \E h : Leads(h, kept[m + 1], front, others, m + 1)
    OBVIOUS
  <2>2. kept[m] \in Seq(S) /\ \E h : Leads(h, kept[m], front, others, m)
    BY <1>2, <1>7, <2>1
  <2>3. m + 1 \in 1 .. n /\ (m + 1) - 1 = m
    BY <1>2, <2>1
  <2>4. kept[m + 1] = next(kept[m], m + 1)
    BY <1>5, <2>3
  <2>5. kept[m + 1] \in Seq(S)
    BY <1>3, <2>2, <2>3, <2>4
  <2>6. \E h : Leads(h, next(kept[m], m + 1), front, others, m + 1)
    BY <2>1, <2>2, LeadsNext DEF next, n
  <2> QED
    BY <2>4, <2>5, <2>6
<1> HIDE DEF A
<1>8. n \in A
  BY <1>2, <1>6, <1>7, NatSetInduction
<1> QED
  BY <1>1, <1>2, <1>8 DEF A, n

-----------------------------------------------------------------------------
(***************************************************************************)
(* What a list holds and in which order                                    *)
(***************************************************************************)
LEMMA RangeIs ==
  ASSUME NEW S, NEW s \in Seq(S)
  PROVE  /\ DOMAIN s = 1 .. Len(s) /\ Len(s) \in Nat
         /\ Range(s) = {s[i] : i \in 1 .. Len(s)}
         /\ Range(s) \subseteq S
BY DEF Range

LEMMA OnlyRange ==
  ASSUME NEW S, NEW s \in Seq(S), NEW T
  PROVE  /\ Only(s, T) \in Seq(S)
         /\ Range(Only(s, T)) = Range(s) \intersect T
         /\ IsInjective(s) => IsInjective(Only(s, T))
<1> DEFINE out == Only(s, T)
<1>1. out \in Seq(S) /\ DOMAIN out = 1 .. Len(out) /\ Range(out) = {out[i] : i \in 1 .. Len(out)}
  BY OnlyIs, RangeIs
<1>2. DOMAIN s = 1 .. Len(s) /\ Range(s) = {s[i] : i \in 1 .. Len(s)} /\ Len(s) \in Nat
  BY RangeIs
<1>3. PICK h : Picks(h, out, s, T, Len(s))
  BY OnlyIs
<1> HIDE DEF out
<1>4. Range(out) = Range(s) \intersect T
  <2>1. ASSUME NEW a \in 1 .. Len(out) PROVE out[a] \in Range(s) \intersect T
    <3>1. h[a] \in 1 .. Len(s) /\ out[a] = s[h[a]] /\ s[h[a]] \in T
      BY <1>3 DEF Picks
    <3> QED
      BY <1>2, <3>1
  <2>2. ASSUME NEW i \in 1 .. Len(s), s[i] \in T PROVE s[i] \in Range(out)
    <3>1. PICK a \in 1 .. Len(out) : h[a] = i
      BY <1>3, <2>2 DEF Picks
    <3>2. out[a] = s[i]
      BY <1>3, <3>1 DEF Picks
    <3> QED
      BY <1>1, <3>2
  <2> QED
    BY <1>1, <1>2, <2>1, <2>2
<1>5. ASSUME IsInjective(s), NEW a \in 1 .. Len(out), NEW b \in 1 .. Len(out), out[a] = out[b]
      PROVE  a = b
  <2>1. s[h[a]] = s[h[b]] /\ h[a] \in 1 .. Len(s) /\ h[b] \in 1 .. Len(s)
    BY <1>3, <1>5 DEF Picks
  <2>2. h[a] = h[b]
    BY <1>2, <1>5, <2>1 DEF IsInjective
  <2>3. ~(a < b) /\ ~(b < a)
    BY <1>3, <2>1, <2>2 DEF Picks
  <2>4. a \in Nat /\ b \in Nat
    OBVIOUS
  <2> QED
    BY <2>3, <2>4
<1> QED
  BY <1>1, <1>4, <1>5 DEF out, IsInjective

LEMMA OnlyOrder ==
  ASSUME NEW S, NEW s \in Seq(S), NEW T, NEW d, NEW e
  PROVE  /\ Before(Only(s, T), d, e) => Before(s, d, e)
         /\ Before(s, d, e) /\ d \in T /\ e \in T => Before(Only(s, T), d, e)
<1> DEFINE out == Only(s, T)
<1>1. out \in Seq(S) /\ DOMAIN out = 1 .. Len(out) /\ Len(out) \in Nat
  BY OnlyIs, RangeIs
<1>2. DOMAIN s = 1 .. Len(s) /\ Len(s) \in Nat
  BY RangeIs
<1>3. PICK h : Picks(h, out, s, T, Len(s))
  BY OnlyIs
<1> HIDE DEF out
<1>4. ASSUME Before(out, d, e) PROVE Before(s, d, e)
  <2>1. PICK i \in 1 .. Len(out), j \in 1 .. Len(out) : i < j /\ out[i] = d /\ out[j] = e
    BY <1>1, <1>4 DEF Before
  <2>2. h[i] \in 1 .. Len(s) /\ h[j] \in 1 .. Len(s) /\ h[i] < h[j] /\ s[h[i]] = d /\ s[h[j]] = e
    BY <1>3, <2>1 DEF Picks
  <2> QED
    BY <1>2, <2>2 DEF Before
<1>5. ASSUME Before(s, d, e), d \in T, e \in T PROVE Before(out, d, e)
  <2>1. PICK i \in 1 .. Len(s), j \in 1 .. Len(s) : i < j /\ s[i] = d /\ s[j] = e
    BY <1>2, <1>5 DEF Before
  <2>2. PICK a \in 1 .. Len(out), b \in 1 .. Len(out) : h[a] = i /\ h[b] = j
    BY <1>3, <1>5, <2>1 DEF Picks
  <2>3. out[a] = d /\ out[b] = e
    BY <1>3, <2>1, <2>2 DEF Picks
  <2>4. a < b
    <3>1. a # b /\ ~(b < a)
      BY <1>3, <2>1, <2>2 DEF Picks
    <3>2. a \in Nat /\ b \in Nat
      OBVIOUS
    <3> QED
      BY <3>1, <3>2
  <2> QED
    BY <1>1, <2>3, <2>4 DEF Before
<1> QED
  BY <1>4, <1>5 DEF out

LEMMA UpToIs ==
  ASSUME NEW S, NEW s \in Seq(S), NEW n \in Nat
  PROVE  /\ UpTo(n, s) \in Seq(S)
         /\ Len(UpTo(n, s)) = (IF n < Len(s) THEN n ELSE Len(s))
         /\ DOMAIN UpTo(n, s) = 1 .. Len(UpTo(n, s))
         /\ \A i \in 1 .. Len(UpTo(n, s)) : i \in 1 .. Len(s) /\ UpTo(n, s)[i] = s[i]
         /\ Range(UpTo(n, s)) \subseteq Range(s)
         /\ n >= Len(s) => UpTo(n, s) = s
         /\ IsInjective(s) => IsInjective(UpTo(n, s))
<1> DEFINE k == IF n < Len(s) THEN n ELSE Len(s)
<1>1. k \in Nat /\ k <= Len(s) /\ Len(s) \in Nat /\ DOMAIN s = 1 .. Len(s)
  OBVIOUS
<1>2. UpTo(n, s) = SubSeq(s, 1, k)
  BY DEF UpTo
<1>3. SubSeq(s, 1, k) = [i \in 1 .. k |-> s[i]]
  BY <1>1
<1>4. UpTo(n, s) \in Seq(S) /\ Len(UpTo(n, s)) = k /\ DOMAIN UpTo(n, s) = 1 .. k
  BY <1>1, <1>2
<1>5. \A i \in 1 .. k : i \in 1 .. Len(s) /\ UpTo(n, s)[i] = s[i]
  BY <1>1, <1>2, <1>3
<1>6. n >= Len(s) => UpTo(n, s) = s
  <2>1. ASSUME n >= Len(s) PROVE UpTo(n, s) = s
    <3>0. ~(n < Len(s))
      <4>1. n \in Nat /\ Len(s) \in Nat
        OBVIOUS
      <4> QED
        BY <2>1, <4>1
    <3>1. k = Len(s)
      BY <3>0, Zenon
    <3> DEFINE out == UpTo(n, s)
    <3>2. /\ out \in Seq(S) /\ Len(out) = Len(s)
          /\ \A i \in 1 .. Len(s) : out[i] = s[i]
      BY <1>4, <1>5, <3>1
    <3> HIDE DEF out
    <3>3. out = s
      BY <3>2
    <3> QED
      BY <3>3 DEF out
  <2> QED
    BY <2>1
<1> HIDE DEF k
<1>7. Range(UpTo(n, s)) \subseteq Range(s)
  BY <1>1, <1>4, <1>5 DEF Range
<1>8. IsInjective(s) => IsInjective(UpTo(n, s))
  BY <1>1, <1>4, <1>5 DEF IsInjective
<1> QED
  BY <1>4, <1>5, <1>6, <1>7, <1>8 DEF k

LEMMA UpToOrder ==
  ASSUME NEW S, NEW s \in Seq(S), NEW n \in Nat, NEW d, NEW e,
         Before(s, d, e), IsInjective(s), e \in Range(UpTo(n, s))
  PROVE  d \in Range(UpTo(n, s)) /\ Before(UpTo(n, s), d, e)
<1> DEFINE out == UpTo(n, s)
<1>1. /\ DOMAIN out = 1 .. Len(out) /\ Len(out) <= Len(s) /\ Len(out) \in Nat
      /\ \A i \in 1 .. Len(out) : i \in 1 .. Len(s) /\ out[i] = s[i]
  BY UpToIs
<1> HIDE DEF out
<1>2. PICK i \in 1 .. Len(s), j \in 1 .. Len(s) : i < j /\ s[i] = d /\ s[j] = e
  BY DEF Before
<1>3. PICK b \in 1 .. Len(out) : out[b] = e
  BY <1>1 DEF Range, out
<1>4. b = j
  BY <1>1, <1>2, <1>3 DEF IsInjective
<1>5. i \in 1 .. Len(out) /\ out[i] = d
  BY <1>1, <1>2, <1>4
<1> QED
  BY <1>1, <1>2, <1>3, <1>4, <1>5 DEF Range, Before, out

LEMMA ConcatIs ==
  ASSUME NEW S, NEW s \in Seq(S), NEW t \in Seq(S)
  PROVE  /\ s \o t \in Seq(S) /\ Len(s \o t) = Len(s) + Len(t)
         /\ DOMAIN (s \o t) = 1 .. Len(s) + Len(t)
         /\ \A i \in 1 .. Len(s) : (s \o t)[i] = s[i]
         /\ \A i \in 1 .. Len(t) : (s \o t)[Len(s) + i] = t[i]
         /\ Range(s \o t) = Range(s) \union Range(t)
         /\ IsInjective(s) /\ IsInjective(t) /\ Range(s) \intersect Range(t) = {}
              => IsInjective(s \o t)
<1> DEFINE u == s \o t
<1>1. /\ u \in Seq(S) /\ Len(u) = Len(s) + Len(t) /\ Len(s) \in Nat /\ Len(t) \in Nat
      /\ DOMAIN u = 1 .. Len(s) + Len(t) /\ DOMAIN s = 1 .. Len(s) /\ DOMAIN t = 1 .. Len(t)
      /\ \A i \in 1 .. Len(s) : u[i] = s[i]
      /\ \A i \in 1 .. Len(t) : u[Len(s) + i] = t[i]
  OBVIOUS
<1> HIDE DEF u
<1>2. ASSUME NEW i \in 1 .. Len(u)
      PROVE  \/ i \in 1 .. Len(s) /\ u[i] = s[i]
             \/ i - Len(s) \in 1 .. Len(t) /\ u[i] = t[i - Len(s)]
  <2>1. CASE i \in 1 .. Len(s)
    BY <1>1, <2>1
  <2>2. CASE i \notin 1 .. Len(s)
    <3>1. i - Len(s) \in 1 .. Len(t) /\ Len(s) + (i - Len(s)) = i
      BY <1>1, <2>2
    <3> QED
      BY <1>1, <3>1
  <2> QED
    BY <2>1, <2>2
<1>3. Range(u) = Range(s) \union Range(t)
  <2>1. Range(u) \subseteq Range(s) \union Range(t)
    BY <1>1, <1>2 DEF Range
  <2>2. Range(s) \subseteq Range(u)
    BY <1>1 DEF Range
  <2>3. ASSUME NEW i \in 1 .. Len(t) PROVE t[i] \in Range(u)
    <3>1. Len(s) + i \in 1 .. Len(s) + Len(t)
      BY <1>1
    <3> QED
      BY <1>1, <3>1 DEF Range
  <2>4. Range(t) \subseteq Range(u)
    BY <1>1, <2>3 DEF Range
  <2> QED
    BY <2>1, <2>2, <2>4
<1>4. ASSUME IsInjective(s), IsInjective(t), Range(s) \intersect Range(t) = {},
             NEW i \in 1 .. Len(u), NEW j \in 1 .. Len(u), u[i] = u[j]
      PROVE  i = j
  <2>1. \A a \in 1 .. Len(s), b \in 1 .. Len(t) : s[a] # t[b]
    BY <1>1, <1>4 DEF Range
  <2>2. CASE i \in 1 .. Len(s) /\ j \in 1 .. Len(s)
    BY <1>1, <1>4, <2>2 DEF IsInjective
  <2>3. CASE i \notin 1 .. Len(s) /\ j \notin 1 .. Len(s)
    <3> DEFINE a == i - Len(s)
               b == j - Len(s)
    <3>1. a \in DOMAIN t /\ b \in DOMAIN t /\ t[a] = t[b]
      BY <1>1, <1>2, <1>4, <2>3
    <3> HIDE DEF a, b
    <3>2. a = b
      BY <1>4, <3>1 DEF IsInjective
    <3> USE DEF a, b
    <3> QED
      BY <1>1, <3>2
  <2>4. i \in 1 .. Len(s) <=> j \in 1 .. Len(s)
    BY <1>2, <1>4, <2>1
  <2> QED
    BY <2>2, <2>3, <2>4
<1> QED
  BY <1>1, <1>3, <1>4 DEF u, IsInjective

LEMMA ConcatOrder ==
  ASSUME NEW S, NEW s \in Seq(S), NEW t \in Seq(S), NEW d, NEW e,
         \/ Before(s, d, e)
         \/ Before(t, d, e)
         \/ d \in Range(s) /\ e \in Range(t)
  PROVE  Before(s \o t, d, e)
<1> DEFINE u == s \o t
<1>1. /\ DOMAIN u = 1 .. Len(s) + Len(t) /\ DOMAIN s = 1 .. Len(s) /\ DOMAIN t = 1 .. Len(t)
      /\ Len(s) \in Nat /\ Len(t) \in Nat
      /\ \A i \in 1 .. Len(s) : u[i] = s[i]
      /\ \A i \in 1 .. Len(t) : u[Len(s) + i] = t[i]
  BY ConcatIs, RangeIs
<1> HIDE DEF u
<1>2. CASE Before(s, d, e)
  <2>1. PICK i \in 1 .. Len(s), j \in 1 .. Len(s) : i < j /\ s[i] = d /\ s[j] = e
    BY <1>1, <1>2 DEF Before
  <2>2. i \in DOMAIN u /\ j \in DOMAIN u /\ u[i] = d /\ u[j] = e
    BY <1>1, <2>1
  <2> QED
    BY <2>1, <2>2 DEF Before, u
<1>3. CASE Before(t, d, e)
  <2>1. PICK i \in 1 .. Len(t), j \in 1 .. Len(t) : i < j /\ t[i] = d /\ t[j] = e
    BY <1>1, <1>3 DEF Before
  <2>2. /\ Len(s) + i \in DOMAIN u /\ Len(s) + j \in DOMAIN u /\ Len(s) + i < Len(s) + j
        /\ u[Len(s) + i] = d /\ u[Len(s) + j] = e
    BY <1>1, <2>1
  <2> QED
    BY <2>2 DEF Before, u
<1>4. CASE d \in Range(s) /\ e \in Range(t)
  <2>1. PICK i \in 1 .. Len(s), j \in 1 .. Len(t) : s[i] = d /\ t[j] = e
    BY <1>1, <1>4 DEF Range
  <2>2. /\ i \in DOMAIN u /\ Len(s) + j \in DOMAIN u /\ i < Len(s) + j
        /\ u[i] = d /\ u[Len(s) + j] = e
    BY <1>1, <2>1
  <2> QED
    BY <2>2 DEF Before, u
<1> QED
  BY <1>2, <1>3, <1>4

LEMMA CountTo ==
  ASSUME NEW n \in Nat PROVE IsFiniteSet(1 .. n) /\ Cardinality(1 .. n) = n
BY FS_Interval

LEMMA CountIs ==
  ASSUME NEW S, NEW s \in Seq(S), IsInjective(s)
  PROVE  IsFiniteSet(Range(s)) /\ Cardinality(Range(s)) = Len(s)
<1>1. Len(s) \in Nat /\ DOMAIN s = 1 .. Len(s) /\ Range(s) = {s[i] : i \in 1 .. Len(s)}
  BY RangeIs
<1>2. IsFiniteSet(1 .. Len(s)) /\ Cardinality(1 .. Len(s)) = Len(s)
  BY <1>1, FS_Interval
<1>3. s \in [1 .. Len(s) -> Range(s)]
  BY <1>1
<1>4. s \in Bijection(1 .. Len(s), Range(s))
  BY <1>1, <1>3 DEF Bijection, Injection, Surjection, IsInjective
<1> QED
  BY <1>2, <1>4, FS_Bijection DEF ExistsBijection

-----------------------------------------------------------------------------
\* No event is listed twice, and an event is known by its identifier.
-----------------------------------------------------------------------------
(***************************************************************************)
(* The steps of the selection                                              *)
(***************************************************************************)
Unique(s) == IsInjective(s) /\ \A d, e \in Range(s) : d.id = e.id => d = e

LEMMA IdsAre ==
  ASSUME NEW S, NEW s \in Seq(S)
  PROVE  /\ Ids(s) = {e.id : e \in Range(s)}
         /\ Keys(s) = {e.key : e \in Range(s)}
BY RangeIs DEF Ids, Keys

LEMMA AnchorIs ==
  ASSUME NEW ranked \in Seq(Event), Unique(ranked), NEW anchor
  PROVE  LET front == Anchor(ranked, anchor) IN
         /\ front \in Seq(Event) /\ IsInjective(front)
         /\ Range(front) = {e \in Range(ranked) : e.id = anchor}
         /\ Len(front) <= 1 /\ Len(front) \in Nat
<1> DEFINE front == Anchor(ranked, anchor)
<1>1. /\ front \in Seq(Event) /\ IsInjective(front)
      /\ Range(front) = {e \in Range(ranked) : e.id = anchor}
  BY OnlyRange DEF Anchor, Unique
<1> HIDE DEF front
<1>2. Len(front) \in Nat /\ DOMAIN front = 1 .. Len(front)
  BY <1>1
<1>3. ASSUME Len(front) > 1 PROVE FALSE
  <2>1. 1 \in DOMAIN front /\ 2 \in DOMAIN front
    BY <1>2, <1>3
  <2>2. front[1] \in Range(front) /\ front[2] \in Range(front)
    BY <2>1 DEF Range
  <2>3. front[1] = front[2]
    BY <1>1, <2>2 DEF Unique
  <2> QED
    BY <1>1, <2>1, <2>3 DEF IsInjective
<1> QED
  BY <1>1, <1>2, <1>3 DEF front

LEMMA FirstOfKeysList ==
  ASSUME NEW front \in Seq(Event), NEW others \in Seq(Event), Len(front) <= 1
  PROVE  LET out == FirstOfKeys(front, others) IN
         /\ out \in Seq(Event)
         /\ \A i, j \in DOMAIN out : out[i].key = out[j].key => i = j
         /\ Range(front) \subseteq Range(out)
         /\ Range(out) \subseteq Range(front) \union Range(others)
         /\ Keys(others) \subseteq Keys(out)
         /\ \A d, e \in Range(out) \ Range(front) : Before(out, d, e) => Before(others, d, e)
<1> DEFINE out == FirstOfKeys(front, others)
<1>1. /\ out \in Seq(Event) /\ DOMAIN out = 1 .. Len(out) /\ Len(out) \in Nat
      /\ \E h : Leads(h, out, front, others, Len(others))
  BY FirstOfKeysIs, RangeIs
<1>2. /\ DOMAIN others = 1 .. Len(others) /\ Len(others) \in Nat
      /\ DOMAIN front = 1 .. Len(front) /\ Len(front) \in Nat
  BY RangeIs
<1> HIDE DEF out
<1>3. PICK h : Leads(h, out, front, others, Len(others))
  BY <1>1
<1>4. /\ Len(out) >= Len(front)
      /\ h \in [Len(front) + 1 .. Len(out) -> 1 .. Len(others)]
      /\ \A i \in 1 .. Len(front) : out[i] = front[i]
      /\ \A a, b \in Len(front) + 1 .. Len(out) : a < b => h[a] < h[b]
      /\ \A a \in Len(front) + 1 .. Len(out) : out[a] = others[h[a]]
      /\ \A a \in 1 .. Len(out), b \in Len(front) + 1 .. Len(out) : a < b => out[a].key # out[b].key
      /\ \A i \in 1 .. Len(others) : \E a \in 1 .. Len(out) : out[a].key = others[i].key
  BY <1>3 DEF Leads
<1>5. ASSUME NEW i \in 1 .. Len(out), NEW j \in 1 .. Len(out), out[i].key = out[j].key
      PROVE  i = j
  <2>1. ~(i < j)
    <3>1. SUFFICES ASSUME i < j PROVE FALSE
      OBVIOUS
    <3>2. j \in Len(front) + 1 .. Len(out)
      BY <1>1, <1>2, <3>1
    <3> QED
      BY <1>4, <1>5, <3>1, <3>2
  <2>2. ~(j < i)
    <3>1. SUFFICES ASSUME j < i PROVE FALSE
      OBVIOUS
    <3>2. i \in Len(front) + 1 .. Len(out)
      BY <1>1, <1>2, <3>1
    <3> QED
      BY <1>4, <1>5, <3>1, <3>2
  <2>3. i \in Nat /\ j \in Nat
    BY <1>1
  <2> QED
    BY <2>1, <2>2, <2>3
<1>6. \A b \in 1 .. Len(front) : out[b] = front[b] /\ front[b] \in Range(front) /\ out[b] \in Range(out)
  <2>1. \A b \in 1 .. Len(front) : front[b] \in Range(front)
    BY <1>2 DEF Range
  <2>2. \A b \in 1 .. Len(front) : b \in 1 .. Len(out)
    BY <1>1, <1>2, <1>4
  <2>3. \A b \in 1 .. Len(out) : out[b] \in Range(out)
    BY <1>1 DEF Range
  <2> QED
    BY <1>4, <2>1, <2>2, <2>3
<1>7. Range(front) \subseteq Range(out)
  BY <1>6, RangeIs
<1>8. Range(out) \subseteq Range(front) \union Range(others)
  <2>1. SUFFICES ASSUME NEW a \in 1 .. Len(out) PROVE out[a] \in Range(front) \union Range(others)
    BY <1>1 DEF Range
  <2>2. CASE a \in 1 .. Len(front)
    BY <1>6, <2>2
  <2>3. CASE a \in Len(front) + 1 .. Len(out)
    <3>1. h[a] \in 1 .. Len(others) /\ out[a] = others[h[a]]
      BY <1>4, <2>3
    <3> QED
      BY <1>2, <3>1 DEF Range
  <2> QED
    BY <1>1, <1>2, <2>2, <2>3
<1>9. Keys(others) \subseteq Keys(out)
  <2>1. SUFFICES ASSUME NEW i \in 1 .. Len(others) PROVE others[i].key \in Keys(out)
    BY <1>2 DEF Keys
  <2>2. PICK a \in 1 .. Len(out) : out[a].key = others[i].key
    BY <1>4
  <2>3. out[a].key \in Keys(out)
    BY <1>1 DEF Keys
  <2> QED
    BY <2>2, <2>3
<1>10. ASSUME NEW d \in Range(out) \ Range(front), NEW e \in Range(out) \ Range(front),
              Before(out, d, e)
       PROVE  Before(others, d, e)
  <2>1. PICK i \in 1 .. Len(out), j \in 1 .. Len(out) : i < j /\ out[i] = d /\ out[j] = e
    BY <1>1, <1>10 DEF Before
  <2>2. i \notin 1 .. Len(front) /\ j \notin 1 .. Len(front)
    BY <1>6, <1>10, <2>1
  <2>3. i \in Len(front) + 1 .. Len(out) /\ j \in Len(front) + 1 .. Len(out)
    BY <1>1, <1>2, <2>2
  <2>4. /\ h[i] \in 1 .. Len(others) /\ h[j] \in 1 .. Len(others) /\ h[i] < h[j]
        /\ others[h[i]] = d /\ others[h[j]] = e
    BY <1>4, <2>1, <2>3
  <2> QED
    BY <1>2, <2>4 DEF Before
<1> QED
  BY <1>1, <1>5, <1>7, <1>8, <1>9, <1>10 DEF out

LEMMA DedupeIs ==
  ASSUME NEW ranked \in Seq(Event), Unique(ranked), NEW anchor
  PROVE  LET front == Anchor(ranked, anchor)
             deduped == Dedupe(ranked, anchor)
         IN  /\ deduped \in Seq(Event) /\ Unique(deduped)
             /\ \A i, j \in DOMAIN deduped : deduped[i].key = deduped[j].key => i = j
             /\ Range(front) \subseteq Range(deduped) /\ Range(deduped) \subseteq Range(ranked)
             /\ Keys(ranked) = Keys(deduped)
             /\ \A d, e \in Range(deduped) \ Range(front) :
                  d # e => Before(deduped, d, e) \/ Before(deduped, e, d)
             /\ \A d, e \in Range(deduped) \ Range(front) :
                  Before(deduped, d, e) => Before(ranked, d, e)
<1> DEFINE front == Anchor(ranked, anchor)
           deduped == Dedupe(ranked, anchor)
<1>1. /\ front \in Seq(Event) /\ Range(front) \subseteq Range(ranked) /\ Len(front) <= 1
  BY AnchorIs
<1>2. deduped = FirstOfKeys(front, ranked)
  BY DEF Dedupe
<1> HIDE DEF front, deduped
<1>3. /\ deduped \in Seq(Event)
      /\ \A i, j \in DOMAIN deduped : deduped[i].key = deduped[j].key => i = j
      /\ Range(front) \subseteq Range(deduped)
      /\ Range(deduped) \subseteq Range(front) \union Range(ranked)
      /\ Keys(ranked) \subseteq Keys(deduped)
      /\ \A d, e \in Range(deduped) \ Range(front) :
           Before(deduped, d, e) => Before(ranked, d, e)
  BY <1>1, <1>2, FirstOfKeysList
<1>4. DOMAIN deduped = 1 .. Len(deduped) /\ Len(deduped) \in Nat
  BY <1>3, RangeIs
<1>5. Range(deduped) \subseteq Range(ranked)
  BY <1>1, <1>3
<1>6. Unique(deduped)
  <2>1. IsInjective(deduped)
    BY <1>3 DEF IsInjective
  <2> QED
    BY <1>5, <2>1 DEF Unique
<1>7. Keys(ranked) = Keys(deduped)
  BY <1>3, <1>5, IdsAre
<1>8. ASSUME NEW d \in Range(deduped), NEW e \in Range(deduped), d # e
      PROVE  Before(deduped, d, e) \/ Before(deduped, e, d)
  <2>1. PICK i \in 1 .. Len(deduped), j \in 1 .. Len(deduped) : deduped[i] = d /\ deduped[j] = e
    BY <1>4 DEF Range
  <2>2. i < j \/ j < i
    BY <1>4, <1>8, <2>1
  <2> QED
    BY <1>4, <2>1, <2>2 DEF Before
<1> QED
  BY <1>3, <1>5, <1>6, <1>7, <1>8 DEF front, deduped

-----------------------------------------------------------------------------
LEMMA WithoutIs ==
  ASSUME NEW s \in Seq(Event), Unique(s), NEW t \in Seq(Event), Range(t) \subseteq Range(s)
  PROVE  /\ Without(s, t) \in Seq(Event) /\ Unique(Without(s, t))
         /\ Range(Without(s, t)) = Range(s) \ Range(t)
         /\ \A d, e \in Range(s) \ Range(t) : Before(s, d, e) => Before(Without(s, t), d, e)
<1> DEFINE T == {e \in Range(s) : e.id \notin Ids(t)}
<1>1. T = Range(s) \ Range(t)
  <2>1. Ids(t) = {e.id : e \in Range(t)}
    BY IdsAre
  <2> QED
    BY <2>1 DEF Unique
<1>2. Without(s, t) = Only(s, T)
  BY DEF Without
<1> HIDE DEF T
<1>3. /\ Only(s, T) \in Seq(Event) /\ Range(Only(s, T)) = Range(s) \intersect T
      /\ IsInjective(Only(s, T))
  BY OnlyRange DEF Unique
<1>4. Unique(Only(s, T))
  BY <1>3 DEF Unique
<1>5. \A d, e \in T : Before(s, d, e) => Before(Only(s, T), d, e)
  BY OnlyOrder
<1> QED
  BY <1>1, <1>2, <1>3, <1>4, <1>5

LEMMA InScopeIs ==
  ASSUME NEW s \in Seq(Event), NEW scope
  PROVE  /\ InScope(s, scope) \in Seq(Event)
         /\ Range(InScope(s, scope)) = {e \in Range(s) : e.scope = scope}
         /\ Len(InScope(s, scope)) \in Nat
         /\ IsInjective(s) => IsInjective(InScope(s, scope))
         /\ \A d, e \in Range(s) : d.scope = scope /\ e.scope = scope /\ Before(s, d, e) =>
              Before(InScope(s, scope), d, e)
<1> DEFINE T == {e \in Range(s) : e.scope = scope}
<1>1. InScope(s, scope) = Only(s, T)
  BY DEF InScope
<1>2. \A e \in Range(s) : e.scope = scope => e \in T
  OBVIOUS
<1>3. T \subseteq Range(s)
  OBVIOUS
<1>4. /\ Only(s, T) \in Seq(Event) /\ Range(Only(s, T)) = Range(s) \intersect T
      /\ IsInjective(s) => IsInjective(Only(s, T))
  BY OnlyRange
<1>5. \A d, e \in T : Before(s, d, e) => Before(Only(s, T), d, e)
  BY OnlyOrder
<1>6. Len(Only(s, T)) \in Nat
  BY <1>4
<1>7. Range(Only(s, T)) = T
  BY <1>3, <1>4
<1> QED
  BY <1>1, <1>2, <1>4, <1>5, <1>6, <1>7

\* What the quotas are taken from.
Offered(deduped, front, scope) == InScope(Without(deduped, front), scope)
Allowed(front, scope, quota) == Less(quota[scope], Len(InScope(front, scope)))

LEMMA QuotasAre ==
  ASSUME NEW deduped \in Seq(Event), Unique(deduped), NEW front \in Seq(Event),
         Range(front) \subseteq Range(deduped), NEW quota \in [Scopes -> Nat], NEW scope \in Scopes
  PROVE  LET part == Quotas(deduped, front, scope, quota)
             offered == Offered(deduped, front, scope)
         IN  /\ part \in Seq(Event) /\ IsInjective(part) /\ Range(part) \subseteq Range(offered)
             /\ Range(offered) = {e \in Range(deduped) \ Range(front) : e.scope = scope}
             /\ Allowed(front, scope, quota) \in Nat /\ Len(part) \in Nat
             /\ Len(part) <= Allowed(front, scope, quota)
             /\ Range(part) # Range(offered) => Len(part) = Allowed(front, scope, quota)
             /\ \A d, e \in Range(offered) : Before(deduped, d, e) /\ e \in Range(part) =>
                  d \in Range(part) /\ Before(part, d, e)
<1> DEFINE rest == Without(deduped, front)
           offered == Offered(deduped, front, scope)
           n == Allowed(front, scope, quota)
<1>1. /\ rest \in Seq(Event) /\ IsInjective(rest) /\ Range(rest) = Range(deduped) \ Range(front)
      /\ \A d, e \in Range(rest) : Before(deduped, d, e) => Before(rest, d, e)
  BY WithoutIs DEF Unique
<1>2. offered = InScope(rest, scope)
  BY DEF Offered
<1> HIDE DEF rest, offered
<1>3. /\ offered \in Seq(Event) /\ IsInjective(offered)
      /\ Range(offered) = {e \in Range(rest) : e.scope = scope}
      /\ \A d, e \in Range(offered) : Before(rest, d, e) => Before(offered, d, e)
  BY <1>1, <1>2, InScopeIs
<1>4. n \in Nat
  <2>1. Len(InScope(front, scope)) \in Nat /\ quota[scope] \in Nat
    BY InScopeIs
  <2> QED
    BY <2>1 DEF Less, Allowed
<1>5. Quotas(deduped, front, scope, quota) = UpTo(n, offered)
  BY DEF Quotas, Allowed, offered, Offered
<1> HIDE DEF n
<1>6. /\ UpTo(n, offered) \in Seq(Event) /\ IsInjective(UpTo(n, offered))
      /\ Range(UpTo(n, offered)) \subseteq Range(offered)
      /\ Len(UpTo(n, offered)) = (IF n < Len(offered) THEN n ELSE Len(offered))
      /\ n >= Len(offered) => UpTo(n, offered) = offered
      /\ Len(offered) \in Nat
  BY <1>3, <1>4, UpToIs, RangeIs
<1>7. ASSUME NEW d \in Range(offered), NEW e \in Range(offered), Before(deduped, d, e),
             e \in Range(UpTo(n, offered))
      PROVE  d \in Range(UpTo(n, offered)) /\ Before(UpTo(n, offered), d, e)
  <2>1. Before(offered, d, e)
    BY <1>1, <1>3, <1>7
  <2> QED
    BY <1>3, <1>4, <1>7, <2>1, UpToOrder
<1>8. /\ Len(UpTo(n, offered)) <= n /\ Len(UpTo(n, offered)) \in Nat
      /\ Range(UpTo(n, offered)) # Range(offered) => Len(UpTo(n, offered)) = n
  BY <1>4, <1>6
<1> QED
  BY <1>1, <1>3, <1>4, <1>5, <1>6, <1>7, <1>8 DEF n, offered

-----------------------------------------------------------------------------
\* The events chosen before any is taken regardless of its scope.
Filled(deduped, front, quota) ==
  front \o Quotas(deduped, front, "stock", quota)
        \o Quotas(deduped, front, "policy", quota)
        \o Quotas(deduped, front, "hot", quota)

LEMMA FilledIs ==
  ASSUME NEW deduped \in Seq(Event), Unique(deduped), NEW front \in Seq(Event), IsInjective(front),
         Range(front) \subseteq Range(deduped), NEW quota \in [Scopes -> Nat]
  PROVE  LET filled == Filled(deduped, front, quota)
             Part(scope) == Quotas(deduped, front, scope, quota)
         IN  /\ filled \in Seq(Event) /\ IsInjective(filled)
             /\ Range(filled) \subseteq Range(deduped) /\ Range(front) \subseteq Range(filled)
             /\ \A e \in Range(filled) \ Range(front) : e.scope \in Scopes /\ e \in Range(Part(e.scope))
             /\ \A scope \in Scopes : Range(Part(scope)) \subseteq Range(filled)
             /\ \A scope \in Scopes, d, e \in Range(deduped) :
                  Before(Part(scope), d, e) => Before(filled, d, e)
             /\ Len(front) >= 1 => filled[1] = front[1] /\ Len(filled) >= 1
<1> DEFINE a == Quotas(deduped, front, "stock", quota)
           b == Quotas(deduped, front, "policy", quota)
           c == Quotas(deduped, front, "hot", quota)
           left(scope) == {e \in Range(deduped) \ Range(front) : e.scope = scope}
<1>1. a \in Seq(Event) /\ IsInjective(a) /\ Range(a) \subseteq left("stock")
  BY QuotasAre DEF Scopes
<1>2. b \in Seq(Event) /\ IsInjective(b) /\ Range(b) \subseteq left("policy")
  BY QuotasAre DEF Scopes
<1>3. c \in Seq(Event) /\ IsInjective(c) /\ Range(c) \subseteq left("hot")
  BY QuotasAre DEF Scopes
<1>4. Filled(deduped, front, quota) = ((front \o a) \o b) \o c
  BY DEF Filled
<1> HIDE DEF a, b, c
<1> DEFINE x == front \o a
           y == x \o b
           z == y \o c
<1>5. /\ x \in Seq(Event) /\ IsInjective(x) /\ Range(x) = Range(front) \union Range(a)
      /\ \A d, e : Before(a, d, e) => Before(x, d, e)
      /\ Len(front) >= 1 => x[1] = front[1] /\ Len(x) >= 1
  <2>1. Range(front) \intersect Range(a) = {}
    BY <1>1
  <2>2. Len(x) = Len(front) + Len(a) /\ Len(front) \in Nat /\ Len(a) \in Nat
    BY <1>1, ConcatIs, RangeIs
  <2>3. \A i \in 1 .. Len(front) : x[i] = front[i]
    BY <1>1, ConcatIs
  <2> QED
    BY <1>1, <2>1, <2>2, <2>3, ConcatIs, ConcatOrder
<1> HIDE DEF x
<1>6. /\ y \in Seq(Event) /\ IsInjective(y) /\ Range(y) = Range(x) \union Range(b)
      /\ \A d, e : Before(x, d, e) \/ Before(b, d, e) => Before(y, d, e)
      /\ Len(front) >= 1 => y[1] = front[1] /\ Len(y) >= 1
  <2>1. Range(x) \intersect Range(b) = {}
    BY <1>1, <1>2, <1>5
  <2>2. Len(y) = Len(x) + Len(b) /\ Len(x) \in Nat /\ Len(b) \in Nat
    BY <1>2, <1>5, ConcatIs, RangeIs
  <2>3. \A i \in 1 .. Len(x) : y[i] = x[i]
    BY <1>2, <1>5, ConcatIs
  <2> QED
    BY <1>2, <1>5, <2>1, <2>2, <2>3, ConcatIs, ConcatOrder
<1> HIDE DEF y
<1>7. /\ z \in Seq(Event) /\ IsInjective(z) /\ Range(z) = Range(y) \union Range(c)
      /\ \A d, e : Before(y, d, e) \/ Before(c, d, e) => Before(z, d, e)
      /\ Len(front) >= 1 => z[1] = front[1] /\ Len(z) >= 1
  <2>1. Range(y) \intersect Range(c) = {}
    BY <1>1, <1>2, <1>3, <1>5, <1>6
  <2>2. Len(z) = Len(y) + Len(c) /\ Len(y) \in Nat /\ Len(c) \in Nat
    BY <1>3, <1>6, ConcatIs, RangeIs
  <2>3. \A i \in 1 .. Len(y) : z[i] = y[i]
    BY <1>3, <1>6, ConcatIs
  <2> QED
    BY <1>3, <1>6, <2>1, <2>2, <2>3, ConcatIs, ConcatOrder
<1>8. Filled(deduped, front, quota) = z
  BY <1>4 DEF y, x
<1> HIDE DEF z
<1>9. Range(z) = Range(front) \union Range(a) \union Range(b) \union Range(c)
  BY <1>5, <1>6, <1>7
<1> DEFINE Part(scope) == Quotas(deduped, front, scope, quota)
<1>10. Part("stock") = a /\ Part("policy") = b /\ Part("hot") = c
  BY DEF a, b, c
<1> HIDE DEF Part
<1>11. \A e \in Range(z) \ Range(front) : e.scope \in Scopes /\ e \in Range(Part(e.scope))
  BY <1>1, <1>2, <1>3, <1>9, <1>10 DEF Scopes
<1>12. \A scope \in Scopes : Range(Part(scope)) \subseteq Range(z)
  BY <1>9, <1>10 DEF Scopes
<1>13. \A scope \in Scopes, d, e \in Range(deduped) : Before(Part(scope), d, e) => Before(z, d, e)
  BY <1>5, <1>6, <1>7, <1>10 DEF Scopes
<1>14. Range(z) \subseteq Range(deduped) /\ Range(front) \subseteq Range(z)
  BY <1>1, <1>2, <1>3, <1>9
<1> QED
  BY <1>7, <1>8, <1>11, <1>12, <1>13, <1>14 DEF Part

LEMMA ChosenIs ==
  ASSUME NEW deduped \in Seq(Event), Unique(deduped), NEW front \in Seq(Event), IsInjective(front),
         Range(front) \subseteq Range(deduped), NEW quota \in [Scopes -> Nat]
  PROVE  LET chosen == Chosen(deduped, front, quota)
             filled == Filled(deduped, front, quota)
         IN  /\ chosen \in Seq(Event) /\ IsInjective(chosen) /\ Range(chosen) = Range(deduped)
             /\ Len(front) >= 1 => chosen[1] = front[1] /\ Len(chosen) >= 1
             /\ Len(filled) \in Nat /\ Len(filled) <= Len(chosen)
             /\ \A i \in 1 .. Len(filled) : chosen[i] = filled[i]
             /\ \A d, e \in Range(deduped) \ Range(front) :
                  d.scope = e.scope /\ Before(deduped, d, e) => Before(chosen, d, e)
<1> DEFINE filled == Filled(deduped, front, quota)
           rest == Without(deduped, filled)
           chosen == filled \o rest
           Part(scope) == Quotas(deduped, front, scope, quota)
<1>1. /\ filled \in Seq(Event) /\ IsInjective(filled)
      /\ Range(filled) \subseteq Range(deduped) /\ Range(front) \subseteq Range(filled)
      /\ \A e \in Range(filled) \ Range(front) : e.scope \in Scopes /\ e \in Range(Part(e.scope))
      /\ \A scope \in Scopes : Range(Part(scope)) \subseteq Range(filled)
      /\ \A scope \in Scopes, d, e \in Range(deduped) :
           Before(Part(scope), d, e) => Before(filled, d, e)
      /\ Len(front) >= 1 => filled[1] = front[1] /\ Len(filled) >= 1
  BY FilledIs
<1>2. Chosen(deduped, front, quota) = chosen
  BY DEF Chosen, Filled
<1> HIDE DEF filled
<1>3. /\ rest \in Seq(Event) /\ IsInjective(rest) /\ Range(rest) = Range(deduped) \ Range(filled)
      /\ \A d, e \in Range(deduped) \ Range(filled) : Before(deduped, d, e) => Before(rest, d, e)
  BY <1>1, WithoutIs DEF Unique
<1> HIDE DEF rest
<1>4. Len(filled) \in Nat /\ Len(rest) \in Nat
  BY <1>1, <1>3
<1>5. /\ chosen \in Seq(Event) /\ Len(chosen) = Len(filled) + Len(rest)
      /\ \A i \in 1 .. Len(filled) : chosen[i] = filled[i]
      /\ Range(chosen) = Range(filled) \union Range(rest)
      /\ IsInjective(chosen)
  BY <1>1, <1>3, ConcatIs
<1>6. ASSUME NEW d \in Range(deduped) \ Range(front), NEW e \in Range(deduped) \ Range(front),
             d.scope = e.scope, Before(deduped, d, e)
      PROVE  Before(chosen, d, e)
  <2>1. CASE e \in Range(filled)
    <3>1. e.scope \in Scopes /\ e \in Range(Part(e.scope))
      BY <1>1, <2>1
    <3>2. d \in Range(Offered(deduped, front, e.scope)) /\ e \in Range(Offered(deduped, front, e.scope))
      BY <1>6, <3>1, QuotasAre
    <3>3. Before(Part(e.scope), d, e)
      BY <1>6, <3>1, <3>2, QuotasAre
    <3>4. Before(filled, d, e)
      BY <1>1, <3>1, <3>3
    <3> QED
      BY <1>1, <1>3, <3>4, ConcatOrder
  <2>2. CASE e \notin Range(filled) /\ d \in Range(filled)
    <3>1. e \in Range(rest)
      BY <1>3, <2>2
    <3> QED
      BY <1>1, <1>3, <2>2, <3>1, ConcatOrder
  <2>3. CASE e \notin Range(filled) /\ d \notin Range(filled)
    <3>1. Before(rest, d, e)
      BY <1>3, <1>6, <2>3
    <3> QED
      BY <1>1, <1>3, <3>1, ConcatOrder
  <2> QED
    BY <2>1, <2>2, <2>3
<1>7. Len(front) >= 1 => chosen[1] = front[1] /\ Len(chosen) >= 1
  BY <1>1, <1>4, <1>5
<1> QED
  BY <1>1, <1>2, <1>3, <1>4, <1>5, <1>6, <1>7 DEF filled

-----------------------------------------------------------------------------
\* The selection keeps its promise whatever it is given.
-----------------------------------------------------------------------------
(***************************************************************************)
(* What the selection promises of the ranked events                        *)
(***************************************************************************)
LEMMA SelectionSound ==
  ASSUME NEW ranked \in Seq(Event), Unique(ranked), NEW anchor, NEW limit \in Nat,
         NEW quota \in [Scopes -> Nat]
  PROVE  /\ Sound(SelectEvents(ranked, anchor, limit, quota), ranked, anchor, limit, quota)
         /\ SelectEvents(ranked, anchor, limit, quota) \in Seq(Event)
         /\ Range(SelectEvents(ranked, anchor, limit, quota)) \subseteq Range(ranked)
<1> DEFINE front == Anchor(ranked, anchor)
           deduped == Dedupe(ranked, anchor)
           chosen == Chosen(deduped, front, quota)
           filled == Filled(deduped, front, quota)
           selected == UpTo(limit, chosen)
           left == Without(deduped, selected)
           Part(scope) == Quotas(deduped, front, scope, quota)
<1>1. /\ front \in Seq(Event) /\ IsInjective(front)
      /\ Range(front) = {e \in Range(ranked) : e.id = anchor}
      /\ Len(front) <= 1 /\ Len(front) \in Nat
  BY AnchorIs
<1>2. /\ deduped \in Seq(Event) /\ Unique(deduped)
      /\ \A i, j \in DOMAIN deduped : deduped[i].key = deduped[j].key => i = j
      /\ Range(front) \subseteq Range(deduped) /\ Range(deduped) \subseteq Range(ranked)
      /\ Keys(ranked) = Keys(deduped)
      /\ \A d, e \in Range(deduped) \ Range(front) :
           d # e => Before(deduped, d, e) \/ Before(deduped, e, d)
      /\ \A d, e \in Range(deduped) \ Range(front) :
           Before(deduped, d, e) => Before(ranked, d, e)
  BY DedupeIs
<1> HIDE DEF front, deduped
<1>3. /\ chosen \in Seq(Event) /\ IsInjective(chosen) /\ Range(chosen) = Range(deduped)
      /\ Len(front) >= 1 => chosen[1] = front[1] /\ Len(chosen) >= 1
      /\ Len(filled) \in Nat /\ Len(filled) <= Len(chosen)
      /\ \A i \in 1 .. Len(filled) : chosen[i] = filled[i]
      /\ \A d, e \in Range(deduped) \ Range(front) :
           d.scope = e.scope /\ Before(deduped, d, e) => Before(chosen, d, e)
  BY <1>1, <1>2, ChosenIs
<1>4. /\ filled \in Seq(Event) /\ IsInjective(filled)
      /\ Range(filled) \subseteq Range(deduped) /\ Range(front) \subseteq Range(filled)
      /\ \A e \in Range(filled) \ Range(front) : e.scope \in Scopes /\ e \in Range(Part(e.scope))
      /\ \A scope \in Scopes : Range(Part(scope)) \subseteq Range(filled)
  BY <1>1, <1>2, FilledIs
<1>5. SelectEvents(ranked, anchor, limit, quota) = selected
  BY DEF SelectEvents, front, deduped
<1>6. \A scope \in Scopes :
        /\ Part(scope) \in Seq(Event) /\ IsInjective(Part(scope))
        /\ Range(Part(scope)) \subseteq Range(Offered(deduped, front, scope))
        /\ Range(Offered(deduped, front, scope))
             = {e \in Range(deduped) \ Range(front) : e.scope = scope}
        /\ Allowed(front, scope, quota) \in Nat /\ Len(Part(scope)) \in Nat
        /\ Len(Part(scope)) <= Allowed(front, scope, quota)
        /\ Range(Part(scope)) # Range(Offered(deduped, front, scope)) =>
             Len(Part(scope)) = Allowed(front, scope, quota)
  BY <1>1, <1>2, QuotasAre
<1> HIDE DEF chosen, filled, Part
<1>7. /\ selected \in Seq(Event) /\ IsInjective(selected)
      /\ Len(selected) = (IF limit < Len(chosen) THEN limit ELSE Len(chosen))
      /\ DOMAIN selected = 1 .. Len(selected)
      /\ \A i \in 1 .. Len(selected) : i \in 1 .. Len(chosen) /\ selected[i] = chosen[i]
      /\ Range(selected) \subseteq Range(deduped)
      /\ limit >= Len(chosen) => selected = chosen
      /\ Len(chosen) \in Nat /\ Len(selected) \in Nat
  BY <1>3, UpToIs, RangeIs
<1>8. \A d, e : Before(chosen, d, e) /\ e \in Range(selected) => d \in Range(selected)
  BY <1>3, UpToOrder
<1> HIDE DEF selected
<1>9. Unique(selected)
  BY <1>2, <1>7 DEF Unique
<1>10. /\ left \in Seq(Event) /\ Range(left) = Range(deduped) \ Range(selected)
       /\ \A i \in DOMAIN left : left[i] \in Range(left)
  <2>1. left \in Seq(Event) /\ Range(left) = Range(deduped) \ Range(selected)
    BY <1>2, <1>7, WithoutIs
  <2> HIDE DEF left
  <2>2. \A i \in DOMAIN left : left[i] \in Range(left)
    BY DEF Range
  <2> QED
    BY <2>1, <2>2
<1> HIDE DEF left
<1>11. Len(selected) <= limit
  BY <1>7
<1>12. limit > 0 /\ front # <<>> => Head(selected) = Head(front)
  <2>1. SUFFICES ASSUME limit > 0, front # <<>> PROVE Head(selected) = Head(front)
    OBVIOUS
  <2>2. Len(front) >= 1
    BY <1>1, <2>1
  <2>3. Len(selected) >= 1
    BY <1>3, <1>7, <2>1, <2>2
  <2>4. selected[1] = front[1]
    BY <1>3, <1>7, <2>2, <2>3
  <2> QED
    BY <1>1, <1>7, <2>2, <2>3, <2>4
<1>13. Cardinality(Keys(selected)) = Len(selected)
  <2> DEFINE keys == [i \in 1 .. Len(selected) |-> selected[i].key]
  <2>1. ASSUME NEW i \in 1 .. Len(selected), NEW j \in 1 .. Len(selected),
               selected[i].key = selected[j].key
        PROVE  i = j
    <3>1. selected[i] \in Range(deduped) /\ selected[j] \in Range(deduped)
      BY <1>7 DEF Range
    <3>2. PICK a \in DOMAIN deduped, b \in DOMAIN deduped :
            deduped[a] = selected[i] /\ deduped[b] = selected[j]
      BY <3>1 DEF Range
    <3>3. a = b
      BY <1>2, <2>1, <3>2
    <3>4. selected[i] = selected[j]
      BY <3>2, <3>3
    <3> QED
      BY <1>7, <3>4 DEF IsInjective
  <2>2. Keys(selected) = {keys[i] : i \in 1 .. Len(selected)}
    BY <1>7 DEF Keys
  <2>3. keys \in [1 .. Len(selected) -> Keys(selected)]
    BY <1>7 DEF Keys
  <2>4. keys \in Bijection(1 .. Len(selected), Keys(selected))
    <3>1. \A i, j \in 1 .. Len(selected) : keys[i] = keys[j] => i = j
      BY <2>1
    <3> HIDE DEF keys
    <3>2. IsInjective(keys)
      BY <2>3, <3>1 DEF IsInjective
    <3>3. \A k \in Keys(selected) : \E i \in 1 .. Len(selected) : keys[i] = k
      BY <2>2
    <3> QED
      BY <2>3, <3>2, <3>3 DEF Bijection, Injection, Surjection
  <2>5. IsFiniteSet(1 .. Len(selected)) /\ Cardinality(1 .. Len(selected)) = Len(selected)
    BY <1>7, CountTo
  <2> QED
    BY <2>4, <2>5, FS_Bijection DEF ExistsBijection
<1>14. Ids(selected) \subseteq Ids(ranked)
  BY <1>2, <1>7, IdsAre
<1>15. Len(selected) < limit => Keys(ranked) \subseteq Keys(selected)
  <2>1. SUFFICES ASSUME Len(selected) < limit PROVE Keys(ranked) \subseteq Keys(selected)
    OBVIOUS
  <2>2. selected = chosen
    BY <1>7, <2>1
  <2> QED
    BY <1>2, <1>3, <2>2, IdsAre
<1>16. \A i \in DOMAIN left, j \in DOMAIN selected :
         left[i].scope = selected[j].scope /\ selected[j].id # anchor =>
           Before(ranked, selected[j], left[i])
  <2>1. SUFFICES ASSUME NEW i \in DOMAIN left, NEW j \in DOMAIN selected,
                        left[i].scope = selected[j].scope, selected[j].id # anchor
                 PROVE  Before(ranked, selected[j], left[i])
    OBVIOUS
  <2> DEFINE d == left[i]
             e == selected[j]
  <2>2. e \in Range(selected) /\ e \in Range(deduped) /\ e \notin Range(front)
    BY <1>1, <1>7, <2>1 DEF Range
  <2>3. d \in Range(deduped) \ Range(selected)
    BY <1>10
  <2>4. d \notin Range(front)
    <3>1. SUFFICES ASSUME d \in Range(front) PROVE FALSE
      OBVIOUS
    <3>2. PICK k \in 1 .. Len(front) : front[k] = d
      BY <1>1, <3>1, RangeIs
    <3>3. k = 1 /\ Len(front) >= 1
      BY <1>1
    <3>4. Len(selected) >= 1
      BY <1>7
    <3>5. selected[1] = d /\ 1 \in DOMAIN selected
      BY <1>3, <1>7, <3>2, <3>3, <3>4
    <3> QED
      BY <2>3, <3>5 DEF Range
  <2>5. ~Before(deduped, d, e)
    BY <1>3, <1>8, <2>1, <2>2, <2>3, <2>4
  <2>6. Before(deduped, e, d)
    BY <1>2, <2>2, <2>3, <2>4, <2>5
  <2> QED
    BY <1>2, <2>2, <2>3, <2>4, <2>6
<1>17. ASSUME Overflow(selected, front, quota), NEW i \in DOMAIN left, left[i].scope # "other"
       PROVE  Len(InScope(selected, left[i].scope)) >= quota[left[i].scope]
  <2> DEFINE d == left[i]
             scope == d.scope
  <2>1. d \in Range(deduped) \ Range(selected) /\ scope \in Scopes
    <3>1. d \in Range(deduped) \ Range(selected)
      BY <1>10
    <3>2. d \in Event
      BY <1>2, <3>1, RangeIs
    <3> QED
      BY <1>17, <3>1, <3>2 DEF Event
  <2>2. Range(filled) \subseteq Range(selected)
    <3>1. CASE Len(selected) >= Len(filled)
      <4>1. ASSUME NEW k \in 1 .. Len(filled) PROVE filled[k] \in Range(selected)
        <5>1. k \in DOMAIN selected /\ selected[k] = filled[k]
          BY <1>3, <1>7, <3>1
        <5> QED
          BY <5>1 DEF Range
      <4> QED
        BY <1>4, <4>1, RangeIs
    <3>2. CASE Len(selected) < Len(filled)
      <4>1. ASSUME NEW k \in 1 .. Len(selected) PROVE selected[k] \in Range(filled)
        <5>1. k \in 1 .. Len(filled) /\ selected[k] = filled[k]
          BY <1>3, <1>7, <3>2
        <5> QED
          BY <1>4, <5>1, RangeIs
      <4>2. Range(selected) \subseteq Range(filled)
        BY <1>7, <4>1, RangeIs
      <4>3. \A e \in Range(selected) : e.id \notin Ids(front) => e \notin Range(front)
        BY <1>1, IdsAre
      <4>4. \A k \in DOMAIN selected : selected[k].scope = "other" => selected[k].id \in Ids(front)
        <5>1. \A k \in DOMAIN selected : selected[k] \in Range(selected)
          BY DEF Range
        <5> QED
          BY <1>4, <4>2, <4>3, <5>1 DEF Scopes
      <4>5. ASSUME NEW s \in Scopes
            PROVE  Len(InScope(Without(selected, front), s)) <= Allowed(front, s, quota)
        <5> DEFINE rest == Without(selected, front)
                   over == InScope(rest, s)
        <5>1. rest \in Seq(Event) /\ IsInjective(rest)
              /\ \A e \in Range(rest) : e \in Range(selected) /\ e.id \notin Ids(front)
          BY <1>7, OnlyRange DEF Without
        <5> HIDE DEF rest
        <5>2. over \in Seq(Event) /\ IsInjective(over) /\ Range(over) = {e \in Range(rest) : e.scope = s}
          BY <5>1, InScopeIs
        <5> HIDE DEF over
        <5>3. Range(over) \subseteq Range(Part(s))
          BY <1>4, <4>2, <4>3, <5>1, <5>2
        <5>4. Part(s) \in Seq(Event) /\ IsInjective(Part(s)) /\ Len(Part(s)) <= Allowed(front, s, quota)
              /\ Allowed(front, s, quota) \in Nat /\ Len(Part(s)) \in Nat
          BY <1>6
        <5>5. Len(over) <= Len(Part(s))
          BY <5>2, <5>3, <5>4, CountIs, FS_Subset
        <5>6. Len(over) \in Nat
          BY <5>2
        <5> QED
          BY <5>4, <5>5, <5>6 DEF over, rest
      <4>6. ASSUME NEW s \in Scopes
            PROVE  ~(Len(InScope(Without(selected, front), s)) > Less(quota[s], Len(InScope(front, s))))
        <5>1. Allowed(front, s, quota) = Less(quota[s], Len(InScope(front, s)))
          BY DEF Allowed
        <5>2. Allowed(front, s, quota) \in Nat /\ Len(InScope(Without(selected, front), s)) \in Nat
          <6>1. Without(selected, front) \in Seq(Event)
            BY <1>7, OnlyRange DEF Without
          <6> QED
            BY <1>6, <6>1, InScopeIs
        <5> QED
          BY <4>5, <5>1, <5>2
      <4>7. ~Overflow(selected, front, quota)
        BY <4>4, <4>6 DEF Overflow
      <4> QED
        BY <1>17, <4>7
    <3> QED
      BY <1>3, <1>7, <3>1, <3>2
  <2> HIDE DEF d
  <2>3. d \notin Range(Part(scope)) /\ d \notin Range(front)
    BY <1>4, <2>1, <2>2
  <2>4. Len(Part(scope)) = Allowed(front, scope, quota)
    BY <1>6, <2>1, <2>3
  <2> DEFINE mine == InScope(front, scope)
             got == InScope(selected, scope)
  <2>5. /\ Range(mine) = {e \in Range(front) : e.scope = scope}
        /\ Len(mine) \in Nat
        /\ IsFiniteSet(Range(mine)) /\ Cardinality(Range(mine)) = Len(mine)
    BY <1>1, InScopeIs, CountIs
  <2>6. /\ Range(got) = {e \in Range(selected) : e.scope = scope}
        /\ Len(got) \in Nat
        /\ IsFiniteSet(Range(got)) /\ Cardinality(Range(got)) = Len(got)
    BY <1>7, InScopeIs, CountIs
  <2>7. IsFiniteSet(Range(Part(scope))) /\ Cardinality(Range(Part(scope))) = Len(Part(scope))
    BY <1>6, <2>1, CountIs
  <2> HIDE DEF mine, got
  <2>8. Range(Part(scope)) \union Range(mine) \subseteq Range(got)
    BY <1>4, <1>6, <2>1, <2>2, <2>5, <2>6
  <2>9. Range(Part(scope)) \intersect Range(mine) = {}
    BY <1>6, <2>1, <2>5
  <2>10. Cardinality(Range(Part(scope)) \union Range(mine)) = Len(Part(scope)) + Len(mine)
    <3>1. Len(Part(scope)) \in Nat
      BY <1>6, <2>1
    <3>2. Cardinality(Range(Part(scope)) \union Range(mine))
            = Cardinality(Range(Part(scope))) + Cardinality(Range(mine))
                - Cardinality(Range(Part(scope)) \intersect Range(mine))
      BY <2>5, <2>7, FS_Union
    <3>3. Cardinality(Range(Part(scope)) \intersect Range(mine)) = 0
      BY <2>9, FS_EmptySet
    <3> QED
      BY <2>5, <2>7, <3>1, <3>2, <3>3
  <2>11. Len(got) >= Len(Part(scope)) + Len(mine)
    BY <2>6, <2>8, <2>10, FS_Subset
  <2>12. Allowed(front, scope, quota) + Len(mine) >= quota[scope]
    BY <2>1, <2>5 DEF Allowed, Less, mine
  <2> QED
    BY <1>6, <2>1, <2>4, <2>5, <2>6, <2>11, <2>12 DEF got, d
<1>18. Sound(selected, ranked, anchor, limit, quota)
  BY <1>11, <1>12, <1>13, <1>14, <1>15, <1>16, <1>17 DEF Sound, front, deduped, left
<1> QED
  BY <1>2, <1>5, <1>7, <1>18

-----------------------------------------------------------------------------
(***************************************************************************)
(* Ranking, and the candidates                                             *)
(***************************************************************************)
\* A rank orders the events of a set.
Orders(rank, S) ==
  /\ \A d \in S : ~Above(rank[d], rank[d])
  /\ \A d, e \in S : d # e => Above(rank[d], rank[e]) \/ Above(rank[e], rank[d])
  /\ \A d, e, f \in S : Above(rank[d], rank[e]) /\ Above(rank[e], rank[f]) => Above(rank[d], rank[f])

LEMMA DescendingIs ==
  ASSUME NEW S, IsFiniteSet(S), NEW rank, Orders(rank, S)
  PROVE  LET out == Descending(S, rank) IN
         /\ out \in Seq(S) /\ IsInjective(out) /\ Range(out) = S
         /\ \A i, j \in DOMAIN out : i < j => Above(rank[out[i]], rank[out[j]])
<1> DEFINE n == Cardinality(S)
           Higher(e) == {d \in S : Above(rank[d], rank[e])}
           place == [e \in S |-> Cardinality(Higher(e))]
           out == Descending(S, rank)
<1>1. n \in Nat
  BY FS_CardinalityType
<1>2. \A e \in S : IsFiniteSet(Higher(e)) /\ Cardinality(Higher(e)) \in Nat
  BY FS_Subset, FS_CardinalityType
<1>3. ASSUME NEW d \in S, NEW e \in S, Above(rank[d], rank[e])
      PROVE  Cardinality(Higher(d)) < Cardinality(Higher(e))
  <2>1. Higher(d) \subseteq Higher(e) /\ d \in Higher(e) /\ d \notin Higher(d)
    BY <1>3 DEF Orders
  <2> HIDE DEF Higher
  <2>2. Cardinality(Higher(d)) <= Cardinality(Higher(e))
        /\ (Cardinality(Higher(d)) = Cardinality(Higher(e)) => Higher(d) = Higher(e))
    BY <1>2, <2>1, FS_Subset
  <2> QED
    BY <1>2, <2>1, <2>2
<1>4. ASSUME NEW e \in S PROVE Cardinality(Higher(e)) \in 0 .. n - 1
  <2>1. Higher(e) \subseteq S /\ e \notin Higher(e)
    BY DEF Orders
  <2> HIDE DEF Higher
  <2>2. Cardinality(Higher(e)) <= n /\ (n = Cardinality(Higher(e)) => S = Higher(e))
    BY <2>1, FS_Subset
  <2> QED
    BY <1>1, <1>2, <2>1, <2>2
<1>5. place \in [S -> 0 .. n - 1]
  BY <1>4
<1>6. IsInjective(place)
  <2>1. SUFFICES ASSUME NEW d \in S, NEW e \in S, place[d] = place[e], d # e PROVE FALSE
    BY DEF IsInjective
  <2>2. Above(rank[d], rank[e]) \/ Above(rank[e], rank[d])
    BY <2>1 DEF Orders
  <2> HIDE DEF Higher
  <2> QED
    BY <1>2, <1>3, <2>1, <2>2
<1> HIDE DEF place, n
<1>7. IsFiniteSet(0 .. n - 1) /\ Cardinality(0 .. n - 1) = n
  BY <1>1, FS_Interval
<1>8. place \in Surjection(S, 0 .. n - 1)
  <2>1. place \in Injection(S, 0 .. n - 1)
    BY <1>5, <1>6 DEF Injection
  <2> QED
    BY <1>7, <2>1, FS_Injection DEF n
<1>9. \A k \in 0 .. n - 1 : \E e \in S : place[e] = k
  BY <1>8 DEF Surjection
<1>10. out = [i \in 1 .. n |-> CHOOSE e \in S : Cardinality(Higher(e)) = i - 1]
  BY DEF Descending, n
<1>11. \A e \in S : place[e] = Cardinality(Higher(e))
  BY DEF place
<1> HIDE DEF Higher, out
<1>12. ASSUME NEW i \in 1 .. n PROVE out[i] \in S /\ place[out[i]] = i - 1
  <2>1. \E e \in S : Cardinality(Higher(e)) = i - 1
    <3>1. i - 1 \in 0 .. n - 1
      BY <1>1
    <3> QED
      BY <1>9, <1>11, <3>1
  <2>2. out[i] = CHOOSE e \in S : Cardinality(Higher(e)) = i - 1
    BY <1>10
  <2>3. out[i] \in S /\ Cardinality(Higher(out[i])) = i - 1
    BY <2>1, <2>2
  <2> QED
    BY <1>11, <2>3
<1>13. DOMAIN out = 1 .. n
  BY <1>10
<1>14. out \in Seq(S)
  <2>1. out \in [1 .. n -> S]
    BY <1>10, <1>12, <1>13
  <2> QED
    BY <1>1, <2>1
<1>15. IsInjective(out)
  <2>1. SUFFICES ASSUME NEW i \in 1 .. n, NEW j \in 1 .. n, out[i] = out[j] PROVE i = j
    BY <1>13 DEF IsInjective
  <2>2. i - 1 = j - 1
    BY <1>12, <2>1
  <2> QED
    BY <1>1, <2>2
<1>16. Range(out) = S
  <2>1. Range(out) \subseteq S
    BY <1>12, <1>13 DEF Range
  <2>2. ASSUME NEW e \in S PROVE e \in Range(out)
    <3>1. place[e] \in 0 .. n - 1 /\ place[e] + 1 \in 1 .. n
      BY <1>1, <1>5
    <3>2. place[out[place[e] + 1]] = place[e] /\ out[place[e] + 1] \in S
      BY <1>1, <1>12, <3>1
    <3>3. out[place[e] + 1] = e
      BY <1>5, <1>6, <3>2 DEF IsInjective
    <3> QED
      BY <1>13, <3>1, <3>3 DEF Range
  <2> QED
    BY <2>1, <2>2
<1>17. ASSUME NEW i \in 1 .. n, NEW j \in 1 .. n, i < j
       PROVE  Above(rank[out[i]], rank[out[j]])
  <2>1. out[i] \in S /\ out[j] \in S /\ place[out[i]] = i - 1 /\ place[out[j]] = j - 1
    BY <1>12
  <2>2. out[i] # out[j]
    BY <1>1, <1>17, <2>1
  <2>3. ~Above(rank[out[j]], rank[out[i]])
    <3>1. SUFFICES ASSUME Above(rank[out[j]], rank[out[i]]) PROVE FALSE
      OBVIOUS
    <3>2. Cardinality(Higher(out[j])) < Cardinality(Higher(out[i]))
      BY <1>3, <2>1, <3>1
    <3> QED
      BY <1>1, <1>11, <1>17, <2>1, <3>2
  <2> QED
    BY <2>1, <2>2, <2>3 DEF Orders
<1> QED
  BY <1>13, <1>14, <1>15, <1>16, <1>17 DEF out

LEMMA AboveIs ==
  ASSUME NEW n \in Nat, NEW x \in [1 .. n -> Nat], NEW y
  PROVE  Above(x, y) <=> \E i \in 1 .. n : x[i] > y[i] /\ \A j \in 1 .. i - 1 : x[j] = y[j]
<1>1. DOMAIN x = 1 .. n
  OBVIOUS
<1> QED
  BY Zenon, <1>1 DEF Above

LEMMA AboveAbove ==
  ASSUME NEW n \in Nat, NEW x \in [1 .. n -> Nat], NEW y \in [1 .. n -> Nat],
         NEW z \in [1 .. n -> Nat], Above(x, y), Above(y, z)
  PROVE  Above(x, z)
<1>0. DOMAIN x = 1 .. n /\ DOMAIN y = 1 .. n
  OBVIOUS
<1>1. PICK i \in 1 .. n : x[i] > y[i] /\ \A j \in 1 .. i - 1 : x[j] = y[j]
  BY Zenon, <1>0 DEF Above
<1>2. PICK k \in 1 .. n : y[k] > z[k] /\ \A j \in 1 .. k - 1 : y[j] = z[j]
  BY Zenon, <1>0 DEF Above
<1>3. CASE i <= k
  <2>1. x[i] > z[i] /\ \A j \in 1 .. i - 1 : x[j] = z[j]
    BY <1>1, <1>2, <1>3
  <2> QED
    BY <2>1, AboveIs
<1>4. CASE k < i
  <2>1. x[k] > z[k] /\ \A j \in 1 .. k - 1 : x[j] = z[j]
    BY <1>1, <1>2, <1>4
  <2> QED
    BY <2>1, AboveIs
<1> QED
  BY <1>3, <1>4

\* Lists of numbers of one length, all different, are ordered by the first place in which
\* two of them differ.
LEMMA RanksOrder ==
  ASSUME NEW S, NEW n \in Nat, NEW rank, \A d \in S : rank[d] \in [1 .. n -> Nat],
         \A d, e \in S : rank[d] = rank[e] => d = e
  PROVE  Orders(rank, S)
<1>1. ASSUME NEW d \in S PROVE ~Above(rank[d], rank[d])
  <2> DEFINE x == rank[d]
  <2>1. x \in [1 .. n -> Nat]
    OBVIOUS
  <2> HIDE DEF x
  <2>2. \A i \in 1 .. n : ~(x[i] > x[i])
    BY <2>1
  <2>3. ~Above(x, x)
    BY <2>1, <2>2, AboveIs
  <2> QED
    BY <2>3 DEF x
<1>2. ASSUME NEW d \in S, NEW e \in S, d # e
      PROVE  Above(rank[d], rank[e]) \/ Above(rank[e], rank[d])
  <2> DEFINE x == rank[d]
             y == rank[e]
             A == {i \in 1 .. n : x[i] # y[i]}
  <2>1. x \in [1 .. n -> Nat] /\ y \in [1 .. n -> Nat] /\ x # y
    BY <1>2
  <2> HIDE DEF x, y
  <2>2. A # {} /\ A \subseteq Nat
    BY <2>1
  <2>3. PICK m \in A : \A i \in A : m <= i
    BY <2>2, LeastIs
  <2>4. m \in 1 .. n /\ x[m] # y[m] /\ \A j \in 1 .. m - 1 : x[j] = y[j]
    BY <2>3
  <2>5. Above(x, y) \/ Above(y, x)
    <3>1. CASE x[m] > y[m]
      BY <2>1, <2>4, <3>1, AboveIs
    <3>2. CASE y[m] > x[m]
      BY <2>1, <2>4, <3>2, AboveIs
    <3> QED
      BY <2>1, <2>4, <3>1, <3>2
  <2> QED
    BY <2>5 DEF x, y
<1>3. ASSUME NEW d \in S, NEW e \in S, NEW f \in S, Above(rank[d], rank[e]), Above(rank[e], rank[f])
      PROVE  Above(rank[d], rank[f])
  BY <1>3, AboveAbove
<1> QED
  BY <1>1, <1>2, <1>3 DEF Orders

LEMMA EventIs ==
  ASSUME NEW e \in Event
  PROVE  /\ e.id \in Nat \ {0} /\ e.raw \in Nat /\ e.key \in Nat /\ e.published \in Nat
         /\ e.fetched \in Nat /\ e.stock \in Nat /\ e.topic \in Nat
BY DEF Event

LEMMA NewestFirstIs ==
  ASSUME NEW S, S \subseteq Event, IsFiniteSet(S), \A d, e \in S : d.id = e.id => d = e
  PROVE  LET out == NewestFirst(S) IN
         out \in Seq(Event) /\ Unique(out) /\ Range(out) = S
<1> DEFINE rank == [e \in S |-> <<e.published, e.fetched, e.id>>]
           out == NewestFirst(S)
<1>1. \A d \in S : rank[d] \in [1 .. 3 -> Nat]
  BY EventIs
<1>2. \A d, e \in S : rank[d] = rank[e] => d = e
  <2> SUFFICES ASSUME NEW d \in S, NEW e \in S, rank[d] = rank[e] PROVE d.id = e.id
    OBVIOUS
  <2> QED
    BY rank[d][3] = rank[e][3]
<1> HIDE DEF rank
<1>3. Orders(rank, S)
  BY <1>1, <1>2, RanksOrder
<1>4. out = Descending(S, rank)
  BY DEF NewestFirst, rank
<1>5. out \in Seq(S) /\ IsInjective(out) /\ Range(out) = S
  BY <1>3, <1>4, DescendingIs
<1> HIDE DEF out
<1>6. out \in Seq(Event)
  BY <1>5
<1> QED
  BY <1>5, <1>6 DEF Unique, out

LEMMA RankedIs ==
  ASSUME NEW found \in Seq(Event), Unique(found), NEW anchor
  PROVE  LET pool == Ranked(found, anchor) IN
         pool \in Seq(Event) /\ Unique(pool) /\ Range(pool) = Range(found)
<1> DEFINE front == Anchor(found, anchor)
           Same(x, y) == IF x # 0 /\ x = y THEN 1 ELSE 0
           OfStock(e) == IF front = <<>> THEN 0 ELSE Same(front[1].stock, e.stock)
           OfTopic(e) == IF front = <<>> THEN 0 ELSE Same(front[1].topic, e.topic)
           S == Range(found)
           rank == [e \in S |-> <<OfStock(e), OfTopic(e), e.published, e.fetched, e.id>>]
           pool == Ranked(found, anchor)
<1>0. pool = Descending(S, rank)
  BY Zenon DEF Ranked
<1>1. S \subseteq Event /\ IsFiniteSet(S) /\ \A d, e \in S : d.id = e.id => d = e
  BY RangeIs, CountIs DEF Unique
<1>2. \A e \in S : OfStock(e) \in Nat /\ OfTopic(e) \in Nat
  OBVIOUS
<1> HIDE DEF OfStock, OfTopic, S, pool
<1>3. \A d \in S : rank[d] \in [1 .. 5 -> Nat]
  BY <1>1, <1>2, EventIs
<1>4. \A d, e \in S : rank[d] = rank[e] => d = e
  <2> SUFFICES ASSUME NEW d \in S, NEW e \in S, rank[d] = rank[e] PROVE d.id = e.id
    BY <1>1
  <2> QED
    BY rank[d][5] = rank[e][5]
<1> HIDE DEF rank
<1>5. Orders(rank, S)
  BY <1>3, <1>4, RanksOrder
<1>6. pool \in Seq(S) /\ IsInjective(pool) /\ Range(pool) = S
  BY <1>0, <1>1, <1>5, DescendingIs
<1>7. pool \in Seq(Event)
  BY <1>1, <1>6
<1> QED
  BY <1>1, <1>6, <1>7 DEF Unique, pool, S

LEMMA FrontStays ==
  ASSUME NEW front \in Seq(Event), NEW others \in Seq(Event), Len(front) = 1
  PROVE  LET out == FirstOfKeys(front, others) IN Len(out) >= 1 /\ out[1] = front[1]
<1>1. PICK h : Leads(h, FirstOfKeys(front, others), front, others, Len(others))
  BY FirstOfKeysIs
<1> QED
  BY <1>1 DEF Leads

LEMMA AtMostOne ==
  ASSUME NEW S, S \subseteq Event, \A d, e \in S : d = e
  PROVE  LET s == SetToSeq(S) IN
         s \in Seq(Event) /\ Range(s) = S /\ Len(s) <= 1 /\ (s = <<>> <=> S = {}) /\ (S # {} => Len(s) = 1)
<1> DEFINE s == SetToSeq(S)
<1>1. CASE S = {}
  <2>1. Cardinality(S) = 0
    BY <1>1, FS_EmptySet
  <2>2. s \in [1 .. 0 -> S]
    <3>1. [i \in 1 .. 0 |-> {}] \in [1 .. 0 -> S] /\ IsInjective([i \in 1 .. 0 |-> {}])
      BY DEF IsInjective
    <3> QED
      BY <2>1, <3>1 DEF SetToSeq
  <2>3. s = <<>>
    BY <2>2
  <2> HIDE DEF s
  <2>4. Range(s) = {}
    BY <2>3 DEF Range
  <2>5. s \in Seq(Event) /\ Len(s) = 0
    BY <2>3
  <2> QED
    BY <1>1, <2>3, <2>4, <2>5 DEF s
<1>2. CASE S # {}
  <2>1. PICK e \in S : S = {e}
    BY <1>2
  <2>2. Cardinality(S) = 1
    BY <2>1, FS_Singleton
  <2>3. s \in [1 .. 1 -> S]
    <3>1. [i \in 1 .. 1 |-> e] \in [1 .. 1 -> S] /\ IsInjective([i \in 1 .. 1 |-> e])
      BY DEF IsInjective
    <3> QED
      BY <2>2, <3>1 DEF SetToSeq
  <2> HIDE DEF s
  <2>4. s \in Seq(Event) /\ Len(s) = 1 /\ s[1] \in S /\ DOMAIN s = 1 .. 1
    BY <2>3
  <2>5. Range(s) = S
    BY <2>1, <2>4 DEF Range
  <2>6. s # <<>>
    BY <2>4
  <2> QED
    BY <1>2, <2>4, <2>5, <2>6 DEF s
<1> QED
  BY <1>1, <1>2

LEMMA CandidatesAre ==
  ASSUME NEW news, news \subseteq Event, IsFiniteSet(news), \A d, e \in news : d.id = e.id => d = e,
         NEW stock, NEW topic, NEW anchor \in Nat, NEW limit \in Nat, NEW poolLimit \in Nat,
         poolLimit >= limit
  PROVE  LET found == Candidates(news, stock, topic, anchor, limit, poolLimit)
             named == {e \in news : e.id = anchor}
         IN  /\ found \in Seq(Event) /\ Unique(found)
             /\ Range(found) \subseteq Latest({e \in news : Eligible(e, stock, topic)}) \union named
             /\ limit > 0 => named \subseteq Range(found)
<1> DEFINE found == Candidates(news, stock, topic, anchor, limit, poolLimit)
           named == {e \in news : e.id = anchor}
           latest == Latest({e \in news : Eligible(e, stock, topic)})
           rows == UpTo(poolLimit, NewestFirst(latest))
           front == SetToSeq(named)
           merged == FirstOfKeys(front, rows)
<1>1. found = IF anchor = 0 THEN rows
              ELSE IF front = <<>> THEN UpTo(limit, rows) ELSE UpTo(poolLimit, merged)
  BY DEF Candidates
<1>2. latest \subseteq news /\ IsFiniteSet(latest) /\ latest \subseteq Event
  <2>1. latest \subseteq news
    BY DEF Latest
  <2> HIDE DEF latest
  <2> QED
    BY <2>1, FS_Subset
<1>3. named \subseteq news /\ named \subseteq Event /\ (\A d, e \in named : d = e)
      /\ (anchor = 0 => named = {})
  BY EventIs
<1> HIDE DEF found, latest
<1>4. /\ NewestFirst(latest) \in Seq(Event) /\ Unique(NewestFirst(latest))
      /\ Range(NewestFirst(latest)) = latest
  BY <1>2, NewestFirstIs
<1>5. rows \in Seq(Event) /\ IsInjective(rows) /\ Range(rows) \subseteq latest
  BY <1>4, UpToIs DEF Unique
<1> HIDE DEF rows, named
<1>6. /\ front \in Seq(Event) /\ Range(front) = named /\ Len(front) <= 1
      /\ (front = <<>> <=> named = {}) /\ (named # {} => Len(front) = 1)
  BY <1>3, AtMostOne
<1> HIDE DEF front
<1>7. CASE anchor = 0
  <2>1. found = rows
    BY <1>1, <1>7
  <2> QED
    BY <1>2, <1>3, <1>5, <1>7, <2>1 DEF Unique, found, latest, named
<1>8. CASE anchor # 0 /\ front = <<>>
  <2>1. found = UpTo(limit, rows) /\ named = {}
    BY <1>1, <1>6, <1>8
  <2>2. found \in Seq(Event) /\ IsInjective(found) /\ Range(found) \subseteq Range(rows)
    BY <1>5, <2>1, UpToIs
  <2> QED
    BY <1>2, <1>5, <2>1, <2>2 DEF Unique, found, latest, named
<1>9. CASE anchor # 0 /\ front # <<>>
  <2>1. found = UpTo(poolLimit, merged) /\ Len(front) = 1
    BY <1>1, <1>6, <1>9
  <2>2. /\ merged \in Seq(Event) /\ Range(merged) \subseteq named \union latest
        /\ \A i, j \in DOMAIN merged : merged[i].key = merged[j].key => i = j
    BY <1>5, <1>6, FirstOfKeysList
  <2>3. Len(merged) >= 1 /\ merged[1] = front[1]
    BY <1>5, <1>6, <2>1, FrontStays
  <2> HIDE DEF merged
  <2>4. IsInjective(merged)
    BY <2>2 DEF IsInjective
  <2>5. /\ found \in Seq(Event) /\ IsInjective(found) /\ Range(found) \subseteq named \union latest
    BY <2>1, <2>2, <2>4, UpToIs
  <2>6. ASSUME limit > 0 PROVE named \subseteq Range(found)
    <3>1. Len(merged) \in Nat
      BY <2>2, RangeIs
    <3>2. /\ Len(found) = (IF poolLimit < Len(merged) THEN poolLimit ELSE Len(merged))
          /\ DOMAIN found = 1 .. Len(found)
          /\ \A i \in 1 .. Len(found) : found[i] = merged[i]
      BY <2>1, <2>2, UpToIs
    <3>3. 1 \in DOMAIN found /\ found[1] = front[1]
      BY <2>3, <2>6, <3>1, <3>2
    <3>4. front[1] \in Range(found)
      BY <3>3 DEF Range
    <3>5. front[1] \in named
      BY <1>6, <2>1, RangeIs
    <3> QED
      BY <1>3, <3>4, <3>5
  <2> QED
    BY <1>2, <1>3, <2>5, <2>6 DEF Unique, found, latest, named
<1> QED
  BY <1>7, <1>8, <1>9

LEMMA LatestIs ==
  ASSUME NEW S, S \subseteq Event, NEW e \in Latest(S)
  PROVE  e \in S /\ \A d \in S : d.raw = e.raw => d.fetched <= e.fetched
<1>1. e \in S /\ e \in Event
  BY DEF Latest
<1>2. ASSUME NEW d \in S, d.raw = e.raw PROVE d.fetched <= e.fetched
  <2> DEFINE x == <<e.fetched, e.published, e.id>>
             y == <<d.fetched, d.published, d.id>>
  <2>1. e.fetched \in Nat /\ d.fetched \in Nat
    BY <1>1, EventIs
  <2>2. CASE d = e
    BY <2>1, <2>2
  <2>3. CASE d # e
    <3>1. Above(x, y)
      BY <1>2, <2>3 DEF Latest
    <3>2. PICK i \in DOMAIN x : x[i] > y[i] /\ \A j \in 1 .. i - 1 : x[j] = y[j]
      BY Zenon, <3>1 DEF Above
    <3>3. i = 1 \/ x[1] = y[1]
      BY <3>2
    <3>4. x[1] = e.fetched /\ y[1] = d.fetched
      OBVIOUS
    <3> QED
      BY <2>1, <3>2, <3>3, <3>4
  <2> QED
    BY <2>2, <2>3
<1> QED
  BY <1>1, <1>2

LEMMA SelectionDraws ==
  ASSUME NEW news, news \subseteq Event, IsFiniteSet(news), \A d, e \in news : d.id = e.id => d = e,
         NEW stock, NEW topic, NEW anchor \in Nat, NEW limit \in Nat, NEW poolLimit \in Nat,
         poolLimit >= limit, NEW quota \in [Scopes -> Nat]
  PROVE  LET pool == Ranked(Candidates(news, stock, topic, anchor, limit, poolLimit), anchor)
             selected == SelectEvents(pool, anchor, limit, quota)
         IN  /\ pool \in Seq(Event) /\ selected \in Seq(Event)
             /\ Sound(selected, pool, anchor, limit, quota)
             /\ Drawn(selected, news, stock, topic, anchor, limit)
<1> DEFINE found == Candidates(news, stock, topic, anchor, limit, poolLimit)
           pool == Ranked(found, anchor)
           selected == SelectEvents(pool, anchor, limit, quota)
           named == {e \in news : e.id = anchor}
           seen == {e \in news : Eligible(e, stock, topic)}
           front == Anchor(pool, anchor)
<1>1. /\ found \in Seq(Event) /\ Unique(found)
      /\ Range(found) \subseteq Latest(seen) \union named
      /\ limit > 0 => named \subseteq Range(found)
  BY CandidatesAre
<1> HIDE DEF found
<1>2. pool \in Seq(Event) /\ Unique(pool) /\ Range(pool) = Range(found)
  BY <1>1, RankedIs
<1> HIDE DEF pool
<1>3. /\ Sound(selected, pool, anchor, limit, quota) /\ selected \in Seq(Event)
      /\ Range(selected) \subseteq Range(pool)
  BY <1>2, SelectionSound
<1> HIDE DEF selected
<1>4. ASSUME NEW i \in DOMAIN selected
      PROVE  \/ selected[i].id = anchor
             \/ /\ selected[i] \in seen
                /\ \A e \in seen : e.raw = selected[i].raw => e.fetched <= selected[i].fetched
  <2>1. selected[i] \in Range(selected)
    BY DEF Range
  <2>2. selected[i] \in Latest(seen) \union named
    BY <1>1, <1>2, <1>3, <2>1
  <2>3. seen \subseteq Event
    OBVIOUS
  <2> HIDE DEF seen
  <2>4. CASE selected[i] \in Latest(seen)
    BY <2>3, <2>4, LatestIs
  <2>5. CASE selected[i] \in named
    BY <2>5
  <2> QED
    BY <2>2, <2>4, <2>5
<1>5. ASSUME limit > 0, NEW e \in news, e.id = anchor
      PROVE  selected # <<>> /\ selected[1].id = anchor
  <2>1. e \in Range(pool)
    BY <1>1, <1>2, <1>5
  <2>2. /\ front \in Seq(Event) /\ Range(front) = {d \in Range(pool) : d.id = anchor}
        /\ Len(front) \in Nat
    BY <1>2, AnchorIs
  <2> HIDE DEF front
  <2>3. front # <<>> /\ Len(front) >= 1
    <3>1. e \in Range(front)
      BY <1>5, <2>1, <2>2
    <3>2. PICK i \in 1 .. Len(front) : front[i] = e
      BY <2>2, <3>1, RangeIs
    <3> QED
      BY <2>2, <3>2
  <2>4. front[1] \in Range(front) /\ Head(front) = front[1]
    BY <2>2, <2>3, RangeIs
  <2>5. Head(selected) = Head(front)
    BY <1>3, <1>5, <2>3 DEF Sound, front
  <2>6. selected # <<>>
    <3>1. SUFFICES ASSUME selected = <<>> PROVE FALSE
      OBVIOUS
    <3>2. Len(selected) = 0 /\ Keys(selected) = {}
      BY <3>1 DEF Keys
    <3>3. Keys(pool) \subseteq Keys(selected)
      BY <1>3, <1>5, <3>2 DEF Sound
    <3>4. e.key \in Keys(pool)
      BY <1>2, <2>1, IdsAre
    <3> QED
      BY <3>2, <3>3, <3>4
  <2>7. Head(selected) = selected[1]
    BY <1>3, <2>6
  <2> QED
    BY <2>2, <2>4, <2>5, <2>6, <2>7
<1>6. Drawn(selected, news, stock, topic, anchor, limit)
  BY <1>4, <1>5 DEF Drawn
<1> QED
  BY <1>2, <1>3, <1>6 DEF found, pool, selected

-----------------------------------------------------------------------------
(***************************************************************************)
(* The inductive invariant                                                 *)
(***************************************************************************)
Pcs == {"idle", "select", "link", "roles", "ask", "stream", "retry", "await", "decide",
        "finalize", "store", "publish", "failing", "error"}
RoleRun == [status : {"completed", "partial"}, web : WebStatuses]
Items == {"delta", "final", "unsupported", "other", "done"}
InboxEvents == {"status", "delta", "completed", "error"}

Typed ==
  /\ run \in Run
  /\ thread \in Thread
  /\ queue \in Seq(Items)
  /\ viewer \in [Viewers -> Viewer]
  /\ "status" \in DOMAIN row /\ row.status \in Statuses
  /\ "mode" \in DOMAIN row

\* While a run works the row is running, and a stored report goes with its end.
RowOK ==
  /\ run.pc \notin {"idle", "publish", "error"} => row.status = "running"
  /\ run.pc = "publish" => row.status = "completed"
  /\ run.pc = "error" => row.status = "failed" \/ unsaved
  /\ report.status # "none" <=> row.status = "completed"

Whole(text) ==
  \/ text = <<"answer">>
  \/ text = <<"cut">> /\ row.mode = "single"
  \/ thread.ended = "ok" /\ Len(text) = thread.sent
  \/ thread.ended = "unsupported"

\* How a stream of a given end is closed in the queue.
EndItem(ended) == IF ended = "ok" THEN "final" ELSE ended

\* f[1 .. n] are the pieces not taken, of "sent" with "taken" behind them, and then how
\* the stream ended, of which only a final response may be gone before "done" is.
Shape(f, n, taken, sent, ended, state) ==
  /\ taken <= sent /\ sent <= taken + n
  /\ state = "on" => sent = taken + n
  /\ ended = "none" => state = "on"
  /\ \A k \in 1 .. n : taken + k <= sent => f[k] = "delta"
  /\ \A k \in 1 .. n : sent < taken + k => f[k] = EndItem(ended) \/ f[k] = "done"
  /\ ended \in {"unsupported", "other"} =>
       sent < taken + n /\ \A k \in 1 .. n : taken + k = sent + 1 => f[k] = ended

QueueOK ==
  Shape(queue, Len(queue), Len(run.text), thread.sent, thread.ended, thread.state)

StreamOK ==
  /\ thread.state # "off" => run.pc \in {"stream", "retry", "await"}
  /\ thread.state = "on" => thread.ended = "none"
  /\ run.pc \in {"select", "link", "roles", "ask"} => run.text = <<>>
  /\ run.pc = "stream" => QueueOK
  /\ run.pc = "retry" => thread.ended = "unsupported"
  /\ run.pc \in {"await", "decide"} /\ Answered => thread.state # "on" /\ Whole(run.text)
  /\ run.pc \in {"finalize", "store"} /\ (\A r \in run.roles : r.status = "completed") =>
       Whole(run.text)
  /\ report.status = "ready" => Whole(report.text)

\* What an event stream was told, has read or is about to forward.
ViewOK ==
  \A v \in Viewers :
    /\ \/ viewer[v].told = "completed" \/ viewer[v].seen = "completed"
       \/ \E k \in DOMAIN viewer[v].inbox : viewer[v].inbox[k] = "completed"
       => row.status = "completed"
    /\ \/ viewer[v].told = "error" \/ viewer[v].seen = "failed"
       \/ \E k \in DOMAIN viewer[v].inbox : viewer[v].inbox[k] = "error"
       => row.status = "failed" \/ unsaved

Inv == Typed /\ RowOK /\ StreamOK /\ ViewOK

-----------------------------------------------------------------------------
(***************************************************************************)
(* Sequences                                                               *)
(***************************************************************************)
LEMMA AppendIs ==
  ASSUME NEW S, NEW q \in Seq(S), NEW x \in S
  PROVE  /\ Append(q, x) \in Seq(S) /\ Len(Append(q, x)) = Len(q) + 1 /\ Len(q) \in Nat
         /\ \A k \in 1 .. Len(q) : Append(q, x)[k] = q[k]
         /\ Append(q, x)[Len(q) + 1] = x
         /\ DOMAIN Append(q, x) = 1 .. Len(q) + 1 /\ DOMAIN q = 1 .. Len(q)
  OBVIOUS

LEMMA TailIs ==
  ASSUME NEW S, NEW q \in Seq(S), q # <<>>
  PROVE  /\ Tail(q) \in Seq(S) /\ Len(q) \in Nat /\ Len(q) = Len(Tail(q)) + 1
         /\ Len(Tail(q)) \in Nat
         /\ \A k \in 1 .. Len(Tail(q)) : Tail(q)[k] = q[k + 1]
         /\ Head(q) = q[1] /\ 1 \in 1 .. Len(q)
         /\ DOMAIN Tail(q) = 1 .. Len(Tail(q)) /\ DOMAIN q = 1 .. Len(q)
  OBVIOUS

LEMMA IdleIs == Idle \in Run /\ Idle.pc = "idle"
<1>1. <<>> \in Texts
  BY DEF Texts
<1>2. {} \in SUBSET RoleRun /\ 0 \in 0 .. Roles
  BY BoundsAssumption
<1> QED
  BY <1>1, <1>2 DEF Idle, Run, Results, RoleRun

LEMMA GoesIs ==
  ASSUME run \in Run, NEW pc \in Pcs, Goes(pc)
  PROVE  /\ run' \in Run /\ run'.pc = pc
         /\ run'.text = run.text /\ run'.roles = run.roles /\ run'.result = run.result
  BY DEF Goes, Run, Pcs

-----------------------------------------------------------------------------
(***************************************************************************)
(* Which actions write a variable                                          *)
(***************************************************************************)
LEMMA RunFrame ==
  ASSUME [Next]_vars
  PROVE
    \/ run' = run
    \/ Start \/ Restart \/ Select \/ StartReport \/ RunRole \/ PickDecision \/ AskWhole
    \/ OpenStream \/ Decide \/ Finalize \/ StoreReport \/ PublishCompleted
    \/ PersistFailure \/ PublishError \/ TakeDelta \/ TakeDone \/ TakeError \/ RetryPlain
    \/ AwaitThread \/ Raise \/ PersistFailureFails \/ Crash
  BY DEF Next, Pipeline, Streaming, ModelThread, Failures, vars, stream, Enqueue,
         LinkEvent, TakeFinal, ThreadSends, ThreadEnds, ThreadDone, OpenView, Watch,
         Hands, Subscribe, Forward, PollRow, Becomes

LEMMA RowFrame ==
  ASSUME [Next]_vars
  PROVE
    \/ row' = row
    \/ Select \/ LinkEvent \/ StartReport \/ TakeDelta \/ Decide \/ Finalize \/ Enqueue
    \/ Start \/ Restart \/ StoreReport \/ PersistFailure
  BY DEF Next, Pipeline, Streaming, ModelThread, Failures, vars, stream, RunRole,
         PickDecision, AskWhole, OpenStream, PublishCompleted, PublishError,
         TakeFinal, TakeDone, TakeError, RetryPlain, AwaitThread, ThreadSends,
         ThreadEnds, ThreadDone, Raise, PersistFailureFails, Crash, OpenView, Watch,
         Took, Waits, Hands, Subscribe, Forward, PollRow, Becomes

LEMMA ThreadFrame ==
  ASSUME [Next]_vars
  PROVE
    \/ thread' = thread
    \/ OpenStream \/ ThreadSends \/ ThreadEnds \/ ThreadDone \/ Crash
  BY DEF Next, Pipeline, Streaming, ModelThread, Failures, vars, stream, Enqueue,
         Start, Restart, Select, LinkEvent, StartReport, RunRole, PickDecision,
         AskWhole, Decide, Finalize, StoreReport, PublishCompleted, PersistFailure,
         PublishError, TakeDelta, TakeFinal, TakeDone, TakeError, RetryPlain,
         AwaitThread, Raise, PersistFailureFails, OpenView, Watch, Begin, Goes,
         Concludes, Shows, Took, Waits, Subscribe, Forward, PollRow, Becomes

LEMMA QueueFrame ==
  ASSUME [Next]_vars
  PROVE
    \/ queue' = queue
    \/ OpenStream \/ ThreadSends \/ ThreadEnds \/ ThreadDone \/ TakeDelta \/ TakeFinal
    \/ TakeDone \/ TakeError \/ Crash
  BY DEF Next, Pipeline, Streaming, ModelThread, Failures, vars, stream, Enqueue,
         Start, Restart, Select, LinkEvent, StartReport, RunRole, PickDecision,
         AskWhole, Decide, Finalize, StoreReport, PublishCompleted, PersistFailure,
         PublishError, RetryPlain, AwaitThread, Raise, PersistFailureFails, OpenView,
         Watch, Begin, Goes, Concludes, Shows, Waits, Subscribe, Forward, PollRow,
         Becomes

LEMMA ViewerFrame ==
  ASSUME [Next]_vars
  PROVE
    \/ viewer' = viewer
    \/ Start \/ Restart \/ TakeDelta \/ Decide \/ PublishCompleted \/ PublishError
    \/ Crash \/ OpenView
    \/ \E v \in Viewers : Watch(v)
  BY DEF Next, Pipeline, Streaming, ModelThread, Failures, vars, stream, Enqueue,
         Select, LinkEvent, StartReport, RunRole, PickDecision, AskWhole, OpenStream,
         Finalize, StoreReport, PersistFailure, TakeFinal, TakeDone, TakeError,
         RetryPlain, AwaitThread, ThreadSends, ThreadEnds, ThreadDone, Raise,
         PersistFailureFails, Goes, Took, Waits, Hands

LEMMA ReportFrame ==
  ASSUME [Next]_vars
  PROVE
    \/ report' = report
    \/ StoreReport
  BY DEF Next, Pipeline, Streaming, ModelThread, Failures, vars, stream, Enqueue,
         Start, Restart, Select, LinkEvent, StartReport, RunRole, PickDecision,
         AskWhole, OpenStream, Decide, Finalize, PublishCompleted, PersistFailure,
         PublishError, TakeDelta, TakeFinal, TakeDone, TakeError, RetryPlain,
         AwaitThread, ThreadSends, ThreadEnds, ThreadDone, Raise, PersistFailureFails,
         Crash, OpenView, Watch, Begin, Goes, Concludes, Shows, Took, Waits, Hands,
         Subscribe, Forward, PollRow, Becomes

LEMMA UnsavedFrame ==
  ASSUME [Next]_vars
  PROVE
    \/ unsaved' = unsaved
    \/ PersistFailureFails
  BY DEF Next, Pipeline, Streaming, ModelThread, Failures, vars, stream, Enqueue,
         Start, Restart, Select, LinkEvent, StartReport, RunRole, PickDecision,
         AskWhole, OpenStream, Decide, Finalize, StoreReport, PublishCompleted,
         PersistFailure, PublishError, TakeDelta, TakeFinal, TakeDone, TakeError,
         RetryPlain, AwaitThread, ThreadSends, ThreadEnds, ThreadDone, Raise, Crash,
         OpenView, Watch, Begin, Goes, Concludes, Shows, Took, Waits, Hands,
         Subscribe, Forward, PollRow, Becomes


-----------------------------------------------------------------------------
(***************************************************************************)
(* What a step does to the row and to the run                              *)
(***************************************************************************)
LEMMA StatusStep ==
  ASSUME "status" \in DOMAIN row, [Next]_vars
  PROVE  /\ "status" \in DOMAIN row'
         /\ \/ row'.status = row.status /\ ~StoreReport /\ ~PersistFailure /\ ~Enqueue
               /\ ~Start /\ ~Restart
            \/ Enqueue /\ row.status = "absent" /\ row'.status = "queued"
            \/ Start /\ row.status = "queued" /\ row'.status = "running"
            \/ Restart /\ row.status = "running" /\ row'.status = "running"
            \/ StoreReport /\ row'.status = "completed"
            \/ PersistFailure /\ row'.status = "failed"
<1> DEFINE Goal == /\ "status" \in DOMAIN row'
                   /\ \/ row'.status = row.status /\ ~StoreReport /\ ~PersistFailure
                         /\ ~Enqueue /\ ~Start /\ ~Restart
                      \/ Enqueue /\ row.status = "absent" /\ row'.status = "queued"
                      \/ Start /\ row.status = "queued" /\ row'.status = "running"
                      \/ Restart /\ row.status = "running" /\ row'.status = "running"
                      \/ StoreReport /\ row'.status = "completed"
                      \/ PersistFailure /\ row'.status = "failed"
<1>1. CASE Enqueue
  BY <1>1 DEF Enqueue
<1>2. CASE Start
  BY <1>2 DEF Start, Begin
<1>3. CASE Restart
  BY <1>3 DEF Restart, Begin
<1>4. CASE StoreReport
  BY <1>4 DEF StoreReport
<1>5. CASE PersistFailure
  BY <1>5 DEF PersistFailure
<1>6. ASSUME "status" \in DOMAIN row', row'.status = row.status,
             ~Enqueue, ~Start, ~Restart, ~StoreReport, ~PersistFailure
      PROVE  Goal
  BY <1>6
<1>7. CASE row' = row /\ ~Enqueue /\ ~Start /\ ~Restart /\ ~StoreReport /\ ~PersistFailure
  BY <1>6, <1>7
<1>8. ASSUME Select \/ LinkEvent \/ StartReport \/ TakeDelta \/ Decide \/ Finalize
      PROVE  "status" \in DOMAIN row' /\ row'.status = row.status
  BY <1>8 DEF Select, LinkEvent, StartReport, TakeDelta, Decide, Shows, Finalize
<1>9. \/ row' = row \/ Select \/ LinkEvent \/ StartReport \/ TakeDelta \/ Decide \/ Finalize
      \/ Enqueue \/ Start \/ Restart \/ StoreReport \/ PersistFailure
  BY RowFrame
<1> QED
  BY <1>1, <1>2, <1>3, <1>4, <1>5, <1>6, <1>7, <1>8, <1>9

LEMMA ModeStep ==
  ASSUME "mode" \in DOMAIN row, [Next]_vars
  PROVE  "mode" \in DOMAIN row' /\ row'.mode = row.mode
<1>1. CASE row' = row
  BY <1>1
<1>2. CASE Enqueue \/ Start \/ Restart \/ StoreReport \/ PersistFailure
  BY <1>2 DEF Enqueue, Start, Restart, Begin, StoreReport, PersistFailure
<1>3. CASE Select \/ LinkEvent \/ StartReport \/ TakeDelta \/ Decide \/ Finalize
  BY <1>3 DEF Select, LinkEvent, StartReport, TakeDelta, Decide, Shows, Finalize
<1> QED
  BY <1>1, <1>2, <1>3, RowFrame

\* How a step may move the run.
Rests    == run' = Idle /\ (PublishCompleted \/ PublishError \/ Crash)
Begins   == (Start \/ Restart) /\ run'.pc = "select" /\ run'.text = <<>>
Prepares == /\ run.pc \in {"select", "link", "roles"} /\ run'.pc \in {"link", "roles", "ask"}
            /\ run'.text = run.text
Asks     == /\ AskWhole /\ run.pc = "ask" /\ run'.pc = "decide"
            /\ Answered' => run'.text = <<"answer">>
Opens    == OpenStream /\ run.pc = "ask" /\ run'.pc = "stream" /\ run'.text = run.text
Reads    == /\ TakeDelta /\ run.pc = "stream" /\ run'.pc = "stream"
            /\ run'.text = Append(run.text, "chunk")
Closes   == /\ run'.pc = "await"
            /\ \/ run.pc = "retry" /\ RetryPlain
               \/ run.pc = "stream" /\ TakeDone
                  /\ (Answered' => \/ run'.text = run.text /\ run.text # <<>>
                                   \/ run'.text = <<"answer">>)
               \/ run.pc = "stream" /\ ~Answered' /\ (TakeDelta \/ TakeError)
Retries  == Took("unsupported") /\ run.pc = "stream" /\ run'.pc = "retry"
Awaits   == /\ run.pc = "await" /\ run'.pc = "decide" /\ thread.state = "off"
            /\ run'.text = run.text /\ run'.result = run.result
Decides  == /\ run.pc = "decide" /\ run'.pc \in {"finalize", "failing"}
            /\ (\A r \in run'.roles : r.status = "completed") =>
                 \/ run'.pc = "failing"
                 \/ Answered /\ run'.text = run.text
                 \/ run'.text = <<"cut">> /\ row.mode = "single"
Finishes == /\ run.pc = "finalize" /\ run'.pc = "store"
            /\ run'.text = run.text /\ run'.roles = run.roles
Stores   == StoreReport /\ run'.pc = "publish"
Fails    == /\ run.pc \in {"select", "link", "roles", "ask", "decide", "finalize", "store"}
            /\ run'.pc = "failing"
Errors   == run.pc = "failing" /\ run'.pc = "error" /\ (PersistFailure \/ PersistFailureFails)

Moves ==
  \/ run' = run \/ Rests \/ Begins \/ Prepares \/ Asks \/ Opens \/ Reads \/ Closes \/ Retries
  \/ Awaits \/ Decides \/ Finishes \/ Stores \/ Fails \/ Errors

LEMMA WebResults ==
  \A web : CallResults(web) \subseteq WebStatuses \union {"raised"}
  BY DEF CallResults, WebStatuses

LEMMA WaitsIs ==
  ASSUME run \in Run, NEW result \in Results, NEW text \in Texts, Waits(result, text)
  PROVE  /\ run' \in Run /\ run'.pc = "await" /\ run'.text = text /\ run'.result = result
  BY DEF Waits, Run

LEMMA RunStep ==
  ASSUME run \in Run, [Next]_vars
  PROVE  run' \in Run /\ Moves
<1> DEFINE Goal == run' \in Run /\ Moves
<1>0. run.text \in Texts /\ run.roles \subseteq RoleRun
      /\ <<>> \in Texts /\ <<"answer">> \in Texts /\ <<"rule">> \in Texts
      /\ <<"cut">> \in Texts
      /\ Append(run.text, "chunk") \in Texts
  BY DEF Run, Texts, RoleRun
<1>1. CASE run' = run
  BY <1>1 DEF Moves
<1>2. CASE Start \/ Restart
  <2>1. PICK inline \in BOOLEAN : run' = [Idle EXCEPT !.pc = "select", !.inline = inline]
    BY <1>2 DEF Start, Restart, Begin
  <2>2. run' \in Run /\ run'.pc = "select" /\ run'.text = <<>>
    BY <2>1, IdleIs DEF Run, Idle
  <2> QED
    BY <1>2, <2>2 DEF Moves, Begins
<1>3. CASE Select \/ StartReport \/ PickDecision
  <2>1. \E pc \in {"link", "roles", "ask"} :
          Goes(pc) /\ run.pc \in {"select", "link", "roles"}
    BY <1>3 DEF Select, StartReport, PickDecision, At
  <2> QED
    BY <2>1, GoesIs DEF Moves, Prepares, Pcs
<1>4. CASE RunRole
  <2>1. /\ run.pc = "roles" /\ run.role + 1 \in 0 .. Roles
        /\ \A outcome \in RoleOutcomes(row.web) : outcome \in RoleRun
    BY <1>4, BoundsAssumption, WebResults
    DEF RunRole, At, Run, RoleOutcomes, RoleRun, WebStatuses
  <2>2. PICK outcome \in RoleRun :
          run' = [run EXCEPT !.role = @ + 1, !.roles = @ \union {outcome}]
    BY <1>4, <2>1 DEF RunRole
  <2>3. run.roles \union {outcome} \in SUBSET RoleRun
    BY <1>0
  <2>4. run' \in Run /\ run'.pc = run.pc /\ run'.text = run.text
    BY <2>1, <2>2, <2>3 DEF Run, RoleRun
  <2> QED
    BY <2>1, <2>4 DEF Moves, Prepares
<1>5. CASE AskWhole
  <2>1. PICK result \in WebStatuses \union {"raised"} :
          run' = [run EXCEPT !.pc = "decide", !.result = result,
                             !.text = IF result = "raised" THEN <<>> ELSE <<"answer">>]
    BY <1>5, WebResults DEF AskWhole
  <2>2. /\ run' \in Run /\ run'.pc = "decide" /\ run'.result = result
        /\ run'.text = IF result = "raised" THEN <<>> ELSE <<"answer">>
    BY <1>0, <2>1 DEF Run, Results
  <2> QED
    BY <1>5, <2>2 DEF Moves, Asks, Answered, AskWhole, At, WebStatuses
<1>6. CASE OpenStream
  BY <1>6, GoesIs DEF OpenStream, At, Pcs, Moves, Opens
<1>7. CASE TakeDelta
  <2>1. run.pc = "stream"
    BY <1>7 DEF TakeDelta, Took, At
  <2>2. CASE run' = [run EXCEPT !.text = Append(@, "chunk")]
    <3>1. run' \in Run /\ run'.pc = "stream" /\ run'.text = Append(run.text, "chunk")
      BY <1>0, <2>1, <2>2 DEF Run
    <3> QED
      BY <1>7, <2>1, <3>1 DEF Moves, Reads
  <2>3. CASE Waits("broken", Append(run.text, "chunk"))
    BY <1>0, <1>7, <2>1, <2>3, WaitsIs DEF Moves, Closes, Results, Answered, WebStatuses
  <2> QED
    BY <1>7, <2>2, <2>3 DEF TakeDelta
<1>8. CASE TakeDone
  <2>1. run.pc = "stream"
    BY <1>8 DEF TakeDone, Took, At
  <2>2. \E result \in Results, text \in Texts :
          /\ Waits(result, text)
          /\ result \in WebStatuses =>
               (text = run.text /\ run.text # <<>>) \/ text = <<"answer">>
    BY <1>0, <1>8, WebResults DEF TakeDone, Results, WebStatuses
  <2> QED
    BY <1>8, <2>1, <2>2, WaitsIs DEF Moves, Closes, Answered
<1>9. CASE TakeError
  <2>1. run.pc = "stream"
    BY <1>9 DEF TakeError, Took, At
  <2>2. CASE Took("unsupported") /\ Goes("retry")
    BY <2>1, <2>2, GoesIs DEF Moves, Retries, Pcs
  <2>3. CASE Waits("raised", run.text)
    BY <1>0, <1>9, <2>1, <2>3, WaitsIs DEF Moves, Closes, Results, Answered, WebStatuses
  <2> QED
    BY <1>9, <2>2, <2>3 DEF TakeError
<1>10. CASE RetryPlain
  <2>1. \E result \in Results, text \in Texts : Waits(result, text)
    BY <1>0, <1>10 DEF RetryPlain, Results, WebStatuses
  <2>2. run.pc = "retry"
    BY <1>10 DEF RetryPlain, At
  <2> QED
    BY <1>10, <2>1, <2>2, WaitsIs DEF Moves, Closes
<1>11. CASE AwaitThread
  BY <1>11, GoesIs DEF AwaitThread, At, Pcs, Moves, Awaits
<1>12. CASE Decide
  <2>1. run.pc = "decide"
    BY <1>12 DEF Decide, At
  <2>2. ASSUME NEW text \in Texts, NEW status \in {"completed", "partial"},
               NEW web \in WebStatuses, Concludes(text, status, web),
               status = "completed" =>
                 \/ Answered /\ text = run.text
                 \/ text = <<"cut">> /\ row.mode = "single"
        PROVE  Goal
    <3>1. run.roles \union {[status |-> status, web |-> web]} \in SUBSET RoleRun
      BY <1>0, <2>2 DEF RoleRun
    <3>2. /\ run' \in Run /\ run'.pc = "finalize" /\ run'.text = text
          /\ [status |-> status, web |-> web] \in run'.roles
      BY <2>2, <3>1 DEF Concludes, Run, RoleRun
    <3>3. (\A r \in run'.roles : r.status = "completed") => status = "completed"
      BY <3>2
    <3> QED
      BY <2>1, <2>2, <3>2, <3>3 DEF Moves, Decides
  <2>3. CASE Goes("failing")
    BY <2>1, <2>3, GoesIs DEF Moves, Decides, Pcs
  <2>4. \/ Goes("failing")
        \/ Answered /\ Concludes(run.text, "completed", run.result)
        \/ /\ Answered /\ row.mode = "single"
           /\ Concludes(<<"cut">>, "completed", run.result)
        \/ \E web \in WebStatuses : Concludes(<<"rule">>, "partial", web)
    BY <1>12 DEF Decide, WebStatuses
  <2> QED
    BY <1>0, <2>2, <2>3, <2>4 DEF Answered
<1>13. CASE Finalize
  BY <1>13, GoesIs DEF Finalize, At, Pcs, Moves, Finishes
<1>14. CASE StoreReport
  BY <1>14, GoesIs DEF StoreReport, Pcs, Moves, Stores
<1>15. CASE PublishCompleted \/ PublishError \/ Crash
  BY <1>15, IdleIs DEF PublishCompleted, PublishError, Crash, Moves, Rests
<1>16. CASE PersistFailure \/ PersistFailureFails
  BY <1>16, GoesIs DEF PersistFailure, PersistFailureFails, At, Pcs, Moves, Errors
<1>17. CASE Raise
  BY <1>17, GoesIs DEF Raise, Pcs, Moves, Fails
<1> QED
  BY <1>1, <1>2, <1>3, <1>4, <1>5, <1>6, <1>7, <1>8, <1>9, <1>10, <1>11, <1>12, <1>13,
     <1>14, <1>15, <1>16, <1>17, RunFrame

-----------------------------------------------------------------------------
(***************************************************************************)
(* The row and the event streams                                           *)
(***************************************************************************)
LEMMA RowStep ==
  ASSUME Inv, [Next]_vars
  PROVE  /\ RowOK' /\ "status" \in DOMAIN row' /\ row'.status \in Statuses
         /\ row.status \in {"completed", "failed"} => row'.status = row.status
         /\ unsaved => unsaved'
<1>1. run \in Run /\ "status" \in DOMAIN row /\ row.status \in Statuses /\ RowOK
  BY DEF Inv, Typed
<1>2. run' \in Run /\ Moves
  BY <1>1, RunStep
<1>3. unsaved => unsaved'
  BY UnsavedFrame DEF PersistFailureFails
<1>4. StoreReport => /\ run.pc = "store" /\ run'.pc = "publish"
                     /\ report'.status \in {"ready", "partial"}
  BY <1>1, GoesIs DEF StoreReport, NewReport, At, Pcs
<1>5. PersistFailure => run.pc = "failing" /\ run'.pc = "error"
  BY <1>1, GoesIs DEF PersistFailure, At, Pcs
<1>6. StoreReport \/ report' = report
  BY ReportFrame
<1>7. Enqueue => run' = run
  BY DEF Enqueue
<1>8. Start \/ Restart => run.pc = "idle" /\ run'.pc = "select"
  BY IdleIs DEF Start, Restart, Begin, At, Idle
<1>9. RowOK'
  <2>1. CASE StoreReport
    BY <1>1, <1>4, <2>1, StatusStep DEF RowOK, PersistFailure, Enqueue, Start, Restart, Begin, At
  <2>2. CASE PersistFailure
    BY <1>1, <1>5, <1>6, <2>2, StatusStep DEF RowOK, StoreReport, Enqueue, Start, Restart, Begin, At
  <2>3. CASE Start \/ Restart
    <3>1. run.pc = "idle" /\ run'.pc = "select" /\ ~StoreReport /\ ~PersistFailure /\ ~Enqueue
      BY <1>4, <1>5, <1>7, <1>8, <2>3
    <3>2. row.status \in {"queued", "running"} /\ row'.status = "running" /\ report' = report
      BY <1>1, <1>6, <2>3, <3>1, StatusStep
    <3> QED
      BY <1>1, <3>1, <3>2 DEF RowOK
  <2>4. CASE Enqueue
    <3>1. ~StoreReport /\ ~PersistFailure /\ run' = run /\ ~Start /\ ~Restart
      BY <1>4, <1>5, <1>7, <1>8, <2>4
    <3>2. row.status = "absent" /\ row'.status = "queued" /\ report' = report
      BY <1>1, <1>6, <2>4, <3>1, StatusStep
    <3> QED
      BY <1>1, <1>3, <3>1, <3>2 DEF RowOK
  <2>5. CASE ~StoreReport /\ ~PersistFailure /\ ~Start /\ ~Restart /\ ~Enqueue
    <3>1. row'.status = row.status /\ report' = report
      BY <1>1, <1>6, <2>5, StatusStep
    <3>2. PersistFailureFails => unsaved'
      BY DEF PersistFailureFails
    <3>3. \/ run' = run
          \/ run'.pc = "idle"
          \/ run.pc \notin {"idle", "publish", "error"} /\ run'.pc \notin {"idle", "publish", "error"}
          \/ run'.pc = "error" /\ PersistFailureFails
      BY <1>2, <2>5, IdleIs
      DEF Moves, Rests, Begins, Prepares, Asks, Opens, Reads, Closes, Retries, Awaits, Decides,
          Finishes, Stores, Fails, Errors
    <3> QED
      BY <1>1, <1>3, <3>1, <3>2, <3>3 DEF RowOK
  <2> QED
    BY <2>1, <2>2, <2>3, <2>4, <2>5
<1>10. row.status \in {"completed", "failed"} => row'.status = row.status
  BY <1>1, <1>4, <1>5, StatusStep DEF RowOK
<1>11. row'.status \in Statuses
  BY <1>1, StatusStep DEF Statuses
<1> QED
  BY <1>1, <1>3, <1>9, <1>10, <1>11, StatusStep

\* What a viewer may have been told or be told next, given the row.
Truthful(w) ==
  /\ \/ w.told = "completed" \/ w.seen = "completed"
     \/ \E k \in DOMAIN w.inbox : w.inbox[k] = "completed"
     => row.status = "completed"
  /\ \/ w.told = "error" \/ w.seen = "failed"
     \/ \E k \in DOMAIN w.inbox : w.inbox[k] = "error"
     => row.status = "failed" \/ unsaved

LEMMA PublishIs ==
  ASSUME viewer \in [Viewers -> Viewer], NEW inline, NEW event \in InboxEvents,
         Publish(inline, event)
  PROVE  /\ viewer' \in [Viewers -> Viewer]
         /\ \A v \in Viewers :
              /\ viewer'[v].told = viewer[v].told /\ viewer'[v].seen = viewer[v].seen
              /\ \A k \in DOMAIN viewer'[v].inbox :
                   \/ k \in DOMAIN viewer[v].inbox /\ viewer'[v].inbox[k] = viewer[v].inbox[k]
                   \/ viewer'[v].inbox[k] = event
<1> DEFINE new(v) == IF inline /\ viewer[v].pc = "live"
                     THEN [viewer[v] EXCEPT !.inbox = Append(@, event)] ELSE viewer[v]
<1>1. ASSUME NEW v \in Viewers
      PROVE  /\ new(v) \in Viewer
             /\ new(v).told = viewer[v].told /\ new(v).seen = viewer[v].seen
             /\ \A k \in DOMAIN new(v).inbox :
                  \/ k \in DOMAIN viewer[v].inbox /\ new(v).inbox[k] = viewer[v].inbox[k]
                  \/ new(v).inbox[k] = event
  <2>1. viewer[v] \in Viewer
    OBVIOUS
  <2>2. viewer[v].inbox \in Seq(InboxEvents)
    BY <2>1 DEF Viewer, InboxEvents
  <2> DEFINE longer == Append(viewer[v].inbox, event)
  <2>3. /\ longer \in Seq(InboxEvents)
        /\ \A k \in DOMAIN longer : \/ k \in DOMAIN viewer[v].inbox /\ longer[k] = viewer[v].inbox[k]
                                    \/ longer[k] = event
    BY <2>2, AppendIs
  <2> HIDE DEF longer
  <2>4. [viewer[v] EXCEPT !.inbox = longer] \in Viewer
    BY <2>1, <2>3 DEF Viewer, InboxEvents
  <2>5. /\ [viewer[v] EXCEPT !.inbox = longer].inbox = longer
        /\ [viewer[v] EXCEPT !.inbox = longer].told = viewer[v].told
        /\ [viewer[v] EXCEPT !.inbox = longer].seen = viewer[v].seen
    BY <2>1 DEF Viewer
  <2>6. new(v) = viewer[v] \/ new(v) = [viewer[v] EXCEPT !.inbox = longer]
    BY DEF longer
  <2> QED
    BY <2>1, <2>3, <2>4, <2>5, <2>6
<1>2. viewer' = [v \in Viewers |-> new(v)]
  BY DEF Publish
<1> HIDE DEF new
<1> QED
  BY <1>1, <1>2

LEMMA ClosedIs ==
  ASSUME NEW told \in {"completed", "error", "lost"}
  PROVE  /\ Closed(told) \in Viewer /\ Closed(told).told = told
         /\ Closed(told).seen = "absent" /\ DOMAIN Closed(told).inbox = {}
  BY DEF Closed, Viewer, Statuses

LEMMA ViewStep ==
  ASSUME Inv, [Next]_vars
  PROVE  ViewOK' /\ viewer' \in [Viewers -> Viewer]
<1>1. /\ viewer \in [Viewers -> Viewer] /\ run \in Run /\ RowOK
      /\ \A v \in Viewers : Truthful(viewer[v])
  BY DEF Inv, Typed, ViewOK, Truthful
<1>2. /\ row.status \in {"completed", "failed"} => row'.status = row.status
      /\ unsaved => unsaved'
  BY RowStep
<1> DEFINE Goal == ViewOK' /\ viewer' \in [Viewers -> Viewer]
<1>3. \A v \in Viewers : Truthful(viewer[v])'
        <=> /\ \/ viewer'[v].told = "completed" \/ viewer'[v].seen = "completed"
               \/ \E k \in DOMAIN viewer'[v].inbox : viewer'[v].inbox[k] = "completed"
               => row'.status = "completed"
            /\ \/ viewer'[v].told = "error" \/ viewer'[v].seen = "failed"
               \/ \E k \in DOMAIN viewer'[v].inbox : viewer'[v].inbox[k] = "error"
               => row'.status = "failed" \/ unsaved'
  BY DEF Truthful
<1>4. ASSUME viewer' \in [Viewers -> Viewer], \A v \in Viewers : Truthful(viewer[v])'
      PROVE  Goal
  BY <1>4 DEF ViewOK, Truthful
<1>5. CASE viewer' = viewer
  BY <1>1, <1>2, <1>3, <1>4, <1>5 DEF Truthful
<1>6. ASSUME NEW inline, NEW event \in InboxEvents, Publish(inline, event),
             event = "completed" => row'.status = "completed",
             event = "error" => row'.status = "failed" \/ unsaved'
      PROVE  Goal
  <2>1. /\ viewer' \in [Viewers -> Viewer]
        /\ \A v \in Viewers :
              /\ viewer'[v].told = viewer[v].told /\ viewer'[v].seen = viewer[v].seen
              /\ \A k \in DOMAIN viewer'[v].inbox :
                   \/ k \in DOMAIN viewer[v].inbox /\ viewer'[v].inbox[k] = viewer[v].inbox[k]
                   \/ viewer'[v].inbox[k] = event
    BY <1>1, <1>6, PublishIs
  <2>2. \A v \in Viewers : Truthful(viewer[v])'
    BY <1>1, <1>2, <1>3, <1>6, <2>1 DEF Truthful
  <2> QED
    BY <1>4, <2>1, <2>2
<1>7. CASE Start \/ Restart
  BY <1>6, <1>7 DEF Start, Restart, Begin, InboxEvents
<1>8. CASE TakeDelta
  BY <1>5, <1>6, <1>8 DEF TakeDelta, InboxEvents
<1>9. CASE Decide
  BY <1>5, <1>6, <1>9 DEF Decide, Shows, InboxEvents
<1>10. CASE PublishCompleted
  BY <1>1, <1>6, <1>10 DEF PublishCompleted, At, RowOK, InboxEvents
<1>11. CASE PublishError
  BY <1>1, <1>6, <1>11 DEF PublishError, At, RowOK, InboxEvents
<1>12. CASE Crash
  <2>1. viewer' = [v \in Viewers |->
                    IF run.inline /\ viewer[v].pc \in {"loaded", "live"} THEN Closed("lost")
                    ELSE viewer[v]]
    BY <1>12 DEF Crash
  <2>2. \A v \in Viewers : viewer'[v] \in {viewer[v], Closed("lost")}
    BY <2>1
  <2>3. viewer' \in [Viewers -> Viewer]
    BY <1>1, <2>1, ClosedIs
  <2>4. \A v \in Viewers : Truthful(viewer[v])'
    BY <1>1, <1>2, <1>3, <2>2, ClosedIs DEF Truthful
  <2> QED
    BY <1>4, <2>3, <2>4
<1>13. ASSUME NEW v \in Viewers, NEW w \in Viewer, Becomes(v, w),
              row' = row, unsaved' = unsaved, Truthful(w)
       PROVE  Goal
  <2>1. /\ viewer' \in [Viewers -> Viewer] /\ viewer'[v] = w
        /\ \A x \in Viewers : x # v => viewer'[x] = viewer[x]
    BY <1>1, <1>13 DEF Becomes
  <2>2. \A x \in Viewers : Truthful(viewer[x])'
    BY <1>1, <1>3, <1>13, <2>1 DEF Truthful
  <2> QED
    BY <1>4, <2>1, <2>2
<1>14. ASSUME NEW v \in Viewers, NEW w \in Viewer, Truthful(w),
              NEW status, row.status = status \/ viewer[v].seen = status,
              Becomes(v, Shown(status, w)), row' = row, unsaved' = unsaved
       PROVE  Goal
  <2>1. status = "completed" => row.status = "completed"
    BY <1>1, <1>14 DEF Truthful
  <2>2. status = "failed" => row.status = "failed" \/ unsaved
    BY <1>1, <1>14 DEF Truthful
  <2>3. Shown(status, w) \in Viewer /\ Truthful(Shown(status, w))
    BY <1>14, <2>1, <2>2, ClosedIs DEF Shown, Truthful
  <2> QED
    BY <1>13, <1>14, <2>3
<1>15. \A v \in Viewers, pc \in {"loaded", "live"} :
         /\ [viewer[v] EXCEPT !.pc = pc] \in Viewer
         /\ Truthful([viewer[v] EXCEPT !.pc = pc])
  <2> SUFFICES ASSUME NEW v \in Viewers, NEW pc \in {"loaded", "live"}
               PROVE  /\ [viewer[v] EXCEPT !.pc = pc] \in Viewer
                      /\ Truthful([viewer[v] EXCEPT !.pc = pc])
    OBVIOUS
  <2>1. viewer[v] \in Viewer
    BY <1>1
  <2>2. /\ [viewer[v] EXCEPT !.pc = pc] \in Viewer
        /\ [viewer[v] EXCEPT !.pc = pc].told = viewer[v].told
        /\ [viewer[v] EXCEPT !.pc = pc].seen = viewer[v].seen
        /\ [viewer[v] EXCEPT !.pc = pc].inbox = viewer[v].inbox
    BY <2>1 DEF Viewer
  <2> QED
    BY <1>1, <2>2 DEF Truthful
<1>16. \A v \in Viewers :
         /\ [viewer[v] EXCEPT !.seen = row.status] \in Viewer
         /\ Truthful([viewer[v] EXCEPT !.seen = row.status])
  <2> SUFFICES ASSUME NEW v \in Viewers
               PROVE  /\ [viewer[v] EXCEPT !.seen = row.status] \in Viewer
                      /\ Truthful([viewer[v] EXCEPT !.seen = row.status])
    OBVIOUS
  <2>1. viewer[v] \in Viewer /\ row.status \in Statuses
    BY <1>1 DEF Inv, Typed
  <2>2. /\ [viewer[v] EXCEPT !.seen = row.status] \in Viewer
        /\ [viewer[v] EXCEPT !.seen = row.status].told = viewer[v].told
        /\ [viewer[v] EXCEPT !.seen = row.status].seen = row.status
        /\ [viewer[v] EXCEPT !.seen = row.status].inbox = viewer[v].inbox
    BY <2>1 DEF Viewer
  <2> QED
    BY <1>1, <2>2 DEF Truthful
<1>17. CASE OpenView
  <2>1. PICK v \in Viewers :
          Becomes(v, [viewer[v] EXCEPT !.pc = "loaded", !.seen = row.status])
    BY <1>17 DEF OpenView
  <2>2. /\ [viewer[v] EXCEPT !.pc = "loaded", !.seen = row.status] \in Viewer
        /\ Truthful([viewer[v] EXCEPT !.pc = "loaded", !.seen = row.status])
    <3> DEFINE w == [viewer[v] EXCEPT !.pc = "loaded", !.seen = row.status]
    <3>1. viewer[v] \in Viewer /\ row.status \in Statuses
      BY <1>1 DEF Inv, Typed
    <3>2. w \in Viewer /\ w.told = viewer[v].told /\ w.seen = row.status /\ w.inbox = viewer[v].inbox
      BY <3>1 DEF Viewer
    <3> QED
      BY <1>1, <3>2 DEF Truthful
  <2> QED
    BY <1>13, <1>17, <2>1, <2>2 DEF OpenView
<1>18. CASE \E v \in Viewers : Watch(v)
  <2>1. PICK v \in Viewers : Watch(v)
    BY <1>18
  <2>2. row' = row /\ unsaved' = unsaved
    BY <2>1 DEF Watch, Subscribe, Forward, PollRow
  <2>3. viewer[v] \in Viewer
    BY <1>1
  <2>4. CASE Subscribe(v)
    BY <1>14, <1>15, <2>2, <2>4 DEF Subscribe
  <2>5. CASE PollRow(v)
    BY <1>14, <1>16, <2>2, <2>5 DEF PollRow
  <2>6. CASE Forward(v)
    <3> DEFINE q == viewer[v].inbox
               event == Head(q)
    <3>1. q # <<>> /\ q \in Seq(InboxEvents)
      BY <2>3, <2>6 DEF Forward, Viewer, InboxEvents
    <3>2. 1 \in DOMAIN q /\ event = q[1]
      BY <3>1, TailIs
    <3>3. CASE event \in {"completed", "error"}
      <4>1. Becomes(v, Closed(event))
        BY <2>6, <3>3 DEF Forward
      <4>2. event = "completed" => row.status = "completed"
        BY <1>1, <3>2 DEF Truthful
      <4>3. event = "error" => row.status = "failed" \/ unsaved
        BY <1>1, <3>2 DEF Truthful
      <4>4. Truthful(Closed(event)) /\ Closed(event) \in Viewer
        BY <3>3, <4>2, <4>3, ClosedIs DEF Truthful
      <4> QED
        BY <1>13, <2>2, <4>1, <4>4
    <3>4. CASE event \notin {"completed", "error"}
      <4> DEFINE w == [viewer[v] EXCEPT !.inbox = Tail(q)]
      <4>1. Becomes(v, w)
        BY <2>6, <3>4 DEF Forward
      <4>2. /\ Tail(q) \in Seq(InboxEvents) /\ Len(Tail(q)) \in Nat /\ Len(q) = Len(Tail(q)) + 1
            /\ DOMAIN Tail(q) = 1 .. Len(Tail(q)) /\ DOMAIN q = 1 .. Len(q)
            /\ \A k \in 1 .. Len(Tail(q)) : Tail(q)[k] = q[k + 1]
        BY <3>1, TailIs
      <4>3. \A k \in DOMAIN Tail(q) : k + 1 \in DOMAIN q /\ Tail(q)[k] = q[k + 1]
        BY <4>2
      <4>4. w \in Viewer /\ w.told = viewer[v].told /\ w.seen = viewer[v].seen /\ w.inbox = Tail(q)
        BY <2>3, <4>2 DEF Viewer, InboxEvents
      <4>5. Truthful(w)
        BY <1>1, <4>3, <4>4 DEF Truthful
      <4> QED
        BY <1>13, <2>2, <4>1, <4>4, <4>5
    <3> QED
      BY <3>3, <3>4
  <2> QED
    BY <2>1, <2>4, <2>5, <2>6 DEF Watch
<1> QED
  BY <1>5, <1>7, <1>8, <1>9, <1>10, <1>11, <1>12, <1>17, <1>18, ViewerFrame

-----------------------------------------------------------------------------
(***************************************************************************)
(* The text and the thread                                                 *)
(***************************************************************************)
LEMMA ThreadStep ==
  ASSUME thread \in Thread, [Next]_vars
  PROVE  /\ thread' \in Thread
         /\ \/ thread' = thread /\ ~ThreadSends /\ ~ThreadEnds /\ ~ThreadDone /\ ~OpenStream
            \/ OpenStream /\ thread'.state = "on" /\ thread'.sent = 0 /\ thread'.ended = "none"
            \/ /\ ThreadSends /\ thread.state = "on" /\ thread'.state = "on"
               /\ thread'.sent = thread.sent + 1 /\ thread'.ended = thread.ended
            \/ /\ ThreadEnds /\ thread.state = "on" /\ thread'.state = "closing"
               /\ thread'.sent = thread.sent /\ thread'.ended \in {"ok", "unsupported", "other"}
            \/ /\ ThreadDone /\ thread.state = "closing" /\ thread'.state = "off"
               /\ thread'.sent = thread.sent /\ thread'.ended = thread.ended
            \/ /\ Crash /\ thread'.state = "off"
               /\ thread'.sent = thread.sent /\ thread'.ended = thread.ended
<1> DEFINE Goal ==
         /\ thread' \in Thread
         /\ \/ thread' = thread /\ ~ThreadSends /\ ~ThreadEnds /\ ~ThreadDone /\ ~OpenStream
            \/ OpenStream /\ thread'.state = "on" /\ thread'.sent = 0 /\ thread'.ended = "none"
            \/ /\ ThreadSends /\ thread.state = "on" /\ thread'.state = "on"
               /\ thread'.sent = thread.sent + 1 /\ thread'.ended = thread.ended
            \/ /\ ThreadEnds /\ thread.state = "on" /\ thread'.state = "closing"
               /\ thread'.sent = thread.sent /\ thread'.ended \in {"ok", "unsupported", "other"}
            \/ /\ ThreadDone /\ thread.state = "closing" /\ thread'.state = "off"
               /\ thread'.sent = thread.sent /\ thread'.ended = thread.ended
            \/ /\ Crash /\ thread'.state = "off"
               /\ thread'.sent = thread.sent /\ thread'.ended = thread.ended
<1>1. CASE OpenStream
  BY <1>1, BoundsAssumption DEF OpenStream, Thread, NoThread
<1>2. CASE ThreadSends
  BY <1>2, BoundsAssumption DEF ThreadSends, Thread
<1>3. CASE ThreadEnds
  <2>1. PICK end \in {"ok", "unsupported", "other"} :
          thread' = [thread EXCEPT !.state = "closing", !.ended = end]
    BY <1>3 DEF ThreadEnds
  <2>2. /\ thread' \in Thread /\ thread'.state = "closing" /\ thread'.sent = thread.sent
        /\ thread'.ended = end
    BY <2>1 DEF Thread
  <2> QED
    BY <1>3, <2>2 DEF ThreadEnds
<1>4. CASE ThreadDone
  BY <1>4 DEF ThreadDone, Thread
<1>5. CASE Crash
  BY <1>5 DEF Crash, Thread
<1>6. CASE thread' = thread /\ ~ThreadSends /\ ~ThreadEnds /\ ~ThreadDone /\ ~OpenStream
  BY <1>6
<1> QED
  BY <1>1, <1>2, <1>3, <1>4, <1>5, <1>6, ThreadFrame

LEMMA QueueType ==
  ASSUME queue \in Seq(Items), [Next]_vars
  PROVE  queue' \in Seq(Items)
<1>1. ASSUME NEW item \in Items, Hands(item) PROVE queue' \in Seq(Items)
  BY <1>1, AppendIs DEF Hands
<1>2. ASSUME NEW item \in Items, Took(item) PROVE queue' \in Seq(Items)
  BY <1>2, TailIs DEF Took
<1>3. CASE ThreadSends \/ ThreadEnds \/ ThreadDone
  BY <1>1, <1>3 DEF ThreadSends, ThreadEnds, ThreadDone, Items
<1>4. CASE TakeDelta \/ TakeFinal \/ TakeDone \/ TakeError
  <2>1. \E item \in Items : Took(item)
    BY <1>4 DEF TakeDelta, TakeFinal, TakeDone, TakeError, Items
  <2> QED
    BY <1>2, <2>1
<1>5. CASE OpenStream \/ Crash \/ queue' = queue
  <2>1. queue' = <<>> \/ queue' = queue
    BY <1>5 DEF OpenStream, Crash
  <2>2. <<>> \in Seq(Items)
    OBVIOUS
  <2> QED
    BY <2>1, <2>2
<1> QED
  BY <1>3, <1>4, <1>5, QueueFrame

LEMMA ShapeGrows ==
  ASSUME NEW f, NEW g, NEW n \in Nat, NEW t \in Nat, NEW s \in Nat, NEW e, NEW state,
         Shape(f, n, t, s, e, state), \A k \in 1 .. n : g[k] = f[k]
  PROVE  /\ state = "on" /\ e = "none" /\ g[n + 1] = "delta" => Shape(g, n + 1, t, s + 1, e, "on")
         /\ \A end \in {"ok", "unsupported", "other"} :
              state = "on" /\ g[n + 1] = EndItem(end) => Shape(g, n + 1, t, s, end, "closing")
         /\ state # "on" /\ g[n + 1] = "done" => Shape(g, n + 1, t, s, e, "off")
<1>1. \A k \in 1 .. n + 1 : k \in 1 .. n \/ k = n + 1
  OBVIOUS
<1>2. ASSUME state = "on", e = "none", g[n + 1] = "delta" PROVE Shape(g, n + 1, t, s + 1, e, "on")
  BY <1>1, <1>2 DEF Shape
<1>3. ASSUME NEW end \in {"ok", "unsupported", "other"}, state = "on", g[n + 1] = EndItem(end)
      PROVE  Shape(g, n + 1, t, s, end, "closing")
  <2>1. s = t + n /\ \A k \in 1 .. n : g[k] = "delta"
    BY <1>3 DEF Shape
  <2>2. end \in {"unsupported", "other"} => g[n + 1] = end
    BY <1>3 DEF EndItem
  <2> QED
    BY <1>1, <1>3, <2>1, <2>2 DEF Shape
<1>4. ASSUME state # "on", g[n + 1] = "done" PROVE Shape(g, n + 1, t, s, e, "off")
  BY <1>1, <1>4 DEF Shape
<1> QED
  BY <1>2, <1>3, <1>4

\* What the first item says of the stream.
LEMMA ShapeHead ==
  ASSUME NEW f, NEW n \in Nat, n >= 1, NEW t \in Nat, NEW s \in Nat,
         NEW e \in {"none", "ok", "unsupported", "other"}, NEW state,
         Shape(f, n, t, s, e, state)
  PROVE  /\ f[1] = "delta" => t + 1 <= s
         /\ f[1] # "delta" => t = s /\ state # "on"
         /\ f[1] \in {"done", "final"} => e = "ok"
         /\ f[1] \in {"unsupported", "other"} => e = f[1]
<1>1. 1 \in 1 .. n
  OBVIOUS
<1>2. CASE t + 1 <= s
  <2>1. f[1] = "delta"
    BY <1>1, <1>2 DEF Shape
  <2> QED
    BY <1>2, <2>1
<1>3. CASE ~(t + 1 <= s)
  <2>1. t = s /\ state # "on" /\ e # "none" /\ (f[1] = EndItem(e) \/ f[1] = "done")
    BY <1>1, <1>3 DEF Shape
  <2>2. e \in {"unsupported", "other"} => f[1] = e
    BY <1>1, <2>1 DEF Shape
  <2> QED
    BY <2>1, <2>2 DEF EndItem
<1> QED
  BY <1>2, <1>3

LEMMA ShapeShrinks ==
  ASSUME NEW f, NEW g, NEW n \in Nat, NEW t \in Nat, NEW s \in Nat,
         NEW e \in {"none", "ok", "unsupported", "other"}, NEW state,
         Shape(f, n + 1, t, s, e, state), \A k \in 1 .. n : g[k] = f[k + 1]
  PROVE  /\ f[1] = "delta" => Shape(g, n, t + 1, s, e, state)
         /\ f[1] = "final" => Shape(g, n, t, s, e, state)
<1>1. \A k \in 1 .. n : k + 1 \in 1 .. n + 1
  OBVIOUS
<1>2. ASSUME f[1] = "delta" PROVE Shape(g, n, t + 1, s, e, state)
  <2>1. t + 1 <= s
    BY <1>2, ShapeHead
  <2>2. /\ \A k \in 1 .. n : (t + 1) + k <= s => g[k] = "delta"
        /\ \A k \in 1 .. n : s < (t + 1) + k => g[k] = EndItem(e) \/ g[k] = "done"
        /\ e \in {"unsupported", "other"} =>
             s < (t + 1) + n /\ \A k \in 1 .. n : (t + 1) + k = s + 1 => g[k] = e
    BY <1>1 DEF Shape
  <2>3. s <= (t + 1) + n /\ (state = "on" => s = (t + 1) + n) /\ (e = "none" => state = "on")
    BY DEF Shape
  <2> QED
    BY <2>1, <2>2, <2>3 DEF Shape
<1>3. ASSUME f[1] = "final" PROVE Shape(g, n, t, s, e, state)
  <2>1. t = s /\ state # "on" /\ e = "ok"
    BY <1>3, ShapeHead
  <2>2. \A k \in 1 .. n : g[k] = EndItem(e) \/ g[k] = "done"
    BY <1>1, <2>1 DEF Shape
  <2> QED
    BY <2>1, <2>2 DEF Shape
<1> QED
  BY <1>2, <1>3

\* The queue of a run that reads a stream, as the lemmas above take it.
LEMMA QueueIs ==
  ASSUME Inv, run.pc = "stream"
  PROVE  /\ Shape(queue, Len(queue), Len(run.text), thread.sent, thread.ended,
                  thread.state)
         /\ thread \in Thread /\ queue \in Seq(Items) /\ run.text \in Texts
         /\ Len(queue) \in Nat /\ Len(run.text) \in Nat /\ thread.sent \in Nat
         /\ thread.ended \in {"none", "ok", "unsupported", "other"}
         /\ thread.state = "on" => thread.ended = "none"
  BY DEF Inv, Typed, StreamOK, QueueOK, Run, Texts, Thread

\* The thread adds to the end of the queue what has become of the stream.
LEMMA QueueGrows ==
  ASSUME Inv, run.pc = "stream", run' = run, ThreadSends \/ ThreadEnds \/ ThreadDone
  PROVE  QueueOK'
<1>0. /\ Shape(queue, Len(queue), Len(run.text), thread.sent, thread.ended,
               thread.state)
      /\ thread \in Thread /\ queue \in Seq(Items)
      /\ Len(queue) \in Nat /\ Len(run.text) \in Nat /\ thread.sent \in Nat
      /\ thread.state = "on" => thread.ended = "none"
  BY QueueIs
<1>1. ASSUME NEW item \in Items, Hands(item)
      PROVE  /\ Len(queue') = Len(queue) + 1 /\ queue'[Len(queue) + 1] = item
             /\ \A k \in 1 .. Len(queue) : queue'[k] = queue[k]
  BY <1>0, <1>1, AppendIs DEF Hands
<1>2. CASE ThreadSends
  <2>1. /\ thread'.sent = thread.sent + 1 /\ thread'.state = "on" /\ thread'.ended = "none"
        /\ thread.state = "on" /\ thread.ended = "none" /\ Hands("delta")
    BY <1>0, <1>2 DEF ThreadSends, Thread
  <2>2. Shape(queue', Len(queue) + 1, Len(run.text), thread.sent + 1, "none", "on")
    BY <1>0, <1>1, <2>1, ShapeGrows DEF Items
  <2> QED
    BY <1>1, <2>1, <2>2 DEF QueueOK, Items
<1>3. CASE ThreadEnds
  <2>1. PICK end \in {"ok", "unsupported", "other"} :
          /\ thread.state = "on" /\ thread.ended = "none"
          /\ thread'.sent = thread.sent /\ thread'.state = "closing" /\ thread'.ended = end
          /\ Hands(EndItem(end))
    BY <1>0, <1>3 DEF ThreadEnds, Thread, EndItem
  <2>2. EndItem(end) \in Items
    BY DEF EndItem, Items
  <2>3. Shape(queue', Len(queue) + 1, Len(run.text), thread.sent, end, "closing")
    BY SMTT(30), <1>0, <1>1, <2>1, <2>2, ShapeGrows
  <2> QED
    BY <1>1, <2>1, <2>2, <2>3 DEF QueueOK
<1>4. CASE ThreadDone
  <2>1. /\ thread.state = "closing" /\ thread'.sent = thread.sent /\ thread'.state = "off"
        /\ thread'.ended = thread.ended /\ Hands("done")
    BY <1>0, <1>4 DEF ThreadDone, Thread
  <2>2. Shape(queue', Len(queue) + 1, Len(run.text), thread.sent, thread.ended, "off")
    BY <1>0, <1>1, <2>1, ShapeGrows DEF Items
  <2> QED
    BY <1>1, <2>1, <2>2 DEF QueueOK, Items
<1> QED
  BY <1>2, <1>3, <1>4

LEMMA HeadIs ==
  ASSUME Inv, run.pc = "stream", NEW item, Took(item)
  PROVE  /\ item # "delta" => Len(run.text) = thread.sent /\ thread.state # "on"
         /\ item \in {"done", "final"} => thread.ended = "ok"
         /\ item \in {"unsupported", "other"} => thread.ended = item
<1>1. queue # <<>> /\ item = queue[1] /\ 1 \in 1 .. Len(queue) /\ Len(queue) >= 1
  BY QueueIs, TailIs DEF Took
<1> QED
  BY <1>1, QueueIs, ShapeHead

\* Taking a piece or the final response off the queue.
LEMMA QueueShrinks ==
  ASSUME Inv, run.pc = "stream", thread' = thread,
         \/ Took("delta") /\ run'.text = Append(run.text, "chunk")
         \/ Took("final") /\ run'.text = run.text
  PROVE  QueueOK'
<1>1. /\ queue # <<>> /\ queue' = Tail(queue) /\ queue \in Seq(Items)
  BY QueueIs DEF Took
<1>2. /\ Len(queue') \in Nat /\ Len(queue) = Len(queue') + 1
      /\ \A k \in 1 .. Len(queue') : queue'[k] = queue[k + 1]
      /\ Head(queue) = queue[1]
  BY <1>1, TailIs
<1>0. Shape(queue, Len(queue') + 1, Len(run.text), thread.sent, thread.ended, thread.state)
  BY <1>2, QueueIs
<1>3. CASE Took("delta") /\ run'.text = Append(run.text, "chunk")
  <2>1. Len(run'.text) = Len(run.text) + 1
    BY <1>3, QueueIs, AppendIs DEF Texts
  <2>2. queue[1] = "delta"
    BY <1>2, <1>3 DEF Took
  <2>3. Shape(queue', Len(queue'), Len(run.text) + 1, thread.sent, thread.ended,
              thread.state)
    BY ZenonT(40), <1>0, <1>2, <2>2, QueueIs, ShapeShrinks
  <2> QED
    BY <2>1, <2>3 DEF QueueOK
<1>4. CASE Took("final") /\ run'.text = run.text
  <2>1. queue[1] = "final"
    BY <1>2, <1>4 DEF Took
  <2>2. Shape(queue', Len(queue'), Len(run.text), thread.sent, thread.ended,
              thread.state)
    BY <1>0, <1>2, <2>1, QueueIs, ShapeShrinks
  <2> QED
    BY <1>4, <2>2 DEF QueueOK
<1> QED
  BY <1>3, <1>4

LEMMA StreamStep ==
  ASSUME Inv, [Next]_vars
  PROVE  StreamOK'
<1>1. /\ run \in Run /\ thread \in Thread /\ queue \in Seq(Items)
      /\ StreamOK /\ RowOK /\ RowOK'
  BY RowStep DEF Inv, Typed
<1>2. run' \in Run /\ Moves
  BY <1>1, RunStep
<1>3. thread' \in Thread /\ row'.mode = row.mode
  BY <1>1, ThreadStep, ModeStep DEF Inv, Typed
<1> USE <1>3
<1> DEFINE Rest == /\ thread'.state # "off" => run'.pc \in {"stream", "retry", "await"}
                   /\ thread'.state = "on" => thread'.ended = "none"
                   /\ run'.pc \in {"select", "link", "roles", "ask"} => run'.text = <<>>
                   /\ run'.pc = "stream" => QueueOK'
                   /\ run'.pc = "retry" => thread'.ended = "unsupported"
                   /\ run'.pc \in {"await", "decide"} /\ Answered' =>
                        thread'.state # "on" /\ Whole(run.text)'
                   /\ run'.pc \in {"finalize", "store"}
                      /\ (\A r \in run'.roles : r.status = "completed") => Whole(run.text)'
           Stored == report'.status = "ready" => Whole(report.text)'
\* A thread that is reading belongs to a run that waits for it.
<1>4. thread.state # "off" \/ OpenStream =>
        run.pc \notin {"idle", "publish", "error"} /\ run.pc # "store"
  BY <1>1 DEF StreamOK, OpenStream, At
<1>5. \/ thread'.sent = thread.sent /\ thread'.ended = thread.ended
      \/ run.pc \notin {"idle", "publish", "error", "store"}
  BY <1>1, <1>4, ThreadStep
<1>6. Stored
  <2>1. CASE StoreReport
    <3>1. /\ run.pc = "store" /\ report'.text = run.text
          /\ report'.status = "ready" => \A r \in run.roles : r.status = "completed"
      BY <2>1 DEF StoreReport, NewReport, At
    <3>2. Whole(run.text) /\ report'.status = "ready" => Whole(report.text)'
      BY <1>5, <3>1 DEF Whole
    <3> QED
      BY <1>1, <3>1, <3>2 DEF StreamOK
  <2>2. CASE report' = report
    <3> SUFFICES ASSUME report'.status = "ready" PROVE Whole(report.text)'
      OBVIOUS
    <3>1. Whole(report.text) /\ row.status = "completed"
      BY <1>1, <2>2 DEF StreamOK, RowOK
    <3>2. run.pc \in {"idle", "publish", "error"}
      BY <1>1, <3>1 DEF RowOK
    <3> QED
      BY <1>5, <2>2, <3>1, <3>2 DEF Whole
  <2> QED
    BY <2>1, <2>2, ReportFrame
<1>7. ASSUME run' = run PROVE Rest
  <2>1. CASE thread' = thread /\ ~ThreadSends /\ ~ThreadEnds /\ ~ThreadDone
    <3>1. run.pc = "stream" => QueueOK'
      <4>1. CASE queue' = queue
        BY <1>1, <1>7, <2>1, <4>1 DEF StreamOK, QueueOK
      <4>2. CASE TakeFinal
        BY <1>7, <2>1, <4>2, QueueShrinks DEF TakeFinal
      <4>3. ASSUME run.pc = "stream", OpenStream \/ TakeDelta \/ TakeDone \/ TakeError \/ Crash
            PROVE  FALSE
        <5>1. run.text \in Seq({"chunk", "answer", "cut", "rule"})
          BY <1>1 DEF Run, Texts
        <5>2. Append(run.text, "chunk") # run.text
          BY <5>1, AppendIs
        <5>3. \A result, text : Waits(result, text) => run'.pc = "await"
          BY <1>1 DEF Waits, Run
        <5>4. TakeDelta => run'.pc = "await" \/ run'.text = Append(run.text, "chunk")
          BY <1>1, <5>3 DEF TakeDelta, Run
        <5>5. TakeDone => run'.pc = "await"
          BY <5>3 DEF TakeDone
        <5>6. TakeError => run'.pc \in {"await", "retry"}
          BY <1>1, <5>3, GoesIs DEF TakeError, Pcs
        <5>7. ~OpenStream /\ ~Crash
          BY <1>7, <4>3, IdleIs DEF OpenStream, Crash, At
        <5> QED
          BY <1>7, <4>3, <5>2, <5>4, <5>5, <5>6, <5>7
      <4> QED
        BY <2>1, <4>1, <4>2, <4>3, QueueFrame
    <3> QED
      BY <1>1, <1>7, <2>1, <3>1 DEF StreamOK, Answered, Whole
  <2>2. CASE ThreadSends \/ ThreadEnds \/ ThreadDone
    <3>1. thread.state # "off" /\ run.pc \in {"stream", "retry", "await"}
      BY <1>1, <2>2 DEF StreamOK, ThreadSends, ThreadEnds, ThreadDone
    <3>2. run.pc = "stream" => QueueOK'
      BY <1>7, <2>2, QueueGrows
    <3>3. /\ thread'.state = "on" => thread'.ended = "none"
          /\ thread.state # "on" => thread'.state # "on"
          /\ thread.state # "on" => thread'.sent = thread.sent /\ thread'.ended = thread.ended
      <4>1. ~OpenStream
        BY <3>1 DEF OpenStream, At
      <4> QED
        BY <1>1, <2>2, <4>1, ThreadStep DEF StreamOK, ThreadSends, ThreadEnds, ThreadDone
    <3>4. run.pc = "retry" => thread.state # "on"
      BY <1>1 DEF StreamOK
    <3> QED
      BY <1>1, <1>7, <3>1, <3>2, <3>3, <3>4 DEF StreamOK, Answered, Whole
  <2>3. CASE Crash \/ OpenStream
    <3>1. CASE Crash
      BY <1>1, <1>7, <3>1, IdleIs DEF Crash, At
    <3>2. CASE OpenStream
      BY <1>1, <1>7, <3>2, GoesIs DEF OpenStream, At, Pcs
    <3> QED
      BY <2>3, <3>1, <3>2
  <2> QED
    BY <1>1, <2>1, <2>2, <2>3, ThreadStep
\* Any other step leaves the thread alone, but for the opening of a stream and a crash.
<1>8. ASSUME run' # run
      PROVE  \/ thread' = thread
             \/ run.pc = "ask" /\ run'.pc = "stream" /\ OpenStream
             \/ run'.pc = "idle" /\ Crash
  <2>1. ~ThreadSends /\ ~ThreadEnds /\ ~ThreadDone
    BY <1>8 DEF ThreadSends, ThreadEnds, ThreadDone
  <2>2. OpenStream => run.pc = "ask" /\ run'.pc = "stream"
    BY <1>1, GoesIs DEF OpenStream, At, Pcs
  <2>3. Crash => run'.pc = "idle"
    BY IdleIs DEF Crash
  <2> QED
    BY <1>1, <2>1, <2>2, <2>3, ThreadStep
<1>9. ASSUME Rests PROVE Rest
  <2>1. run'.pc = "idle"
    BY <1>9, IdleIs DEF Rests
  <2>2. CASE Crash
    BY <2>1, <2>2 DEF Crash, Thread, Inv, Typed
  <2>3. CASE PublishCompleted \/ PublishError
    <3>1. thread' = thread /\ run.pc \in {"publish", "error"}
      BY <2>3 DEF PublishCompleted, PublishError, At, stream
    <3> QED
      BY <1>1, <2>1, <3>1 DEF StreamOK
  <2> QED
    BY <1>9, <2>2, <2>3 DEF Rests
<1>10. ASSUME run' # run, thread.state = "off", thread' = thread, run'.pc \notin {"stream", "retry"},
              run'.pc \in {"select", "link", "roles", "ask"} => run'.text = <<>>,
              run'.pc \in {"await", "decide"} /\ Answered' => Whole(run'.text),
              run'.pc \in {"finalize", "store"}
                /\ (\A r \in run'.roles : r.status = "completed") => Whole(run'.text)
       PROVE  Rest
  BY <1>10 DEF Whole
<1>11. ASSUME Begins PROVE Rest
  <2>1. run.pc = "idle" /\ run'.pc = "select" /\ run'.text = <<>>
    BY <1>11 DEF Begins, Start, Restart, Begin, At
  <2>2. thread.state = "off" /\ thread' = thread
    BY <1>1, <1>8, <2>1 DEF StreamOK, Thread
  <2> QED
    BY <1>10, <2>1, <2>2
<1>12. ASSUME run' # run, run.pc \notin {"stream", "retry", "await"},
              run'.pc \notin {"stream", "idle"}
       PROVE  thread.state = "off" /\ thread' = thread
  BY <1>1, <1>8, <1>12 DEF StreamOK
<1>13. ASSUME Prepares /\ run' # run PROVE Rest
  BY <1>1, <1>10, <1>12, <1>13 DEF Prepares, StreamOK
<1>14. ASSUME Asks PROVE Rest
  BY <1>10, <1>12, <1>14 DEF Asks, Whole
<1>15. ASSUME Opens PROVE Rest
  <2>1. thread'.state = "on" /\ thread'.sent = 0 /\ thread'.ended = "none"
    BY <1>1, <1>15, ThreadStep DEF Opens, OpenStream, ThreadSends, ThreadEnds, ThreadDone, Crash, At
  <2>2. queue' = <<>> /\ run'.text = <<>> /\ run'.pc = "stream"
    BY <1>1, <1>15 DEF Opens, OpenStream, StreamOK
  <2>3. Len(queue') = 0 /\ Len(run'.text) = 0
    BY <2>2
  <2>4. QueueOK'
    BY <2>1, <2>3 DEF QueueOK, Shape
  <2> QED
    BY <2>1, <2>2, <2>4
<1>16. ASSUME Reads PROVE Rest
  <2>1. /\ run.pc = "stream" /\ run'.pc = "stream" /\ run'.text = Append(run.text, "chunk")
        /\ Took("delta") /\ thread' = thread
    BY <1>16 DEF Reads, TakeDelta
  <2>2. QueueOK'
    BY <2>1, QueueShrinks
  <2> QED
    BY <1>1, <2>1, <2>2 DEF StreamOK
<1>17. ASSUME Closes PROVE Rest
  <2>1. run'.pc = "await" /\ run.pc \in {"stream", "retry"} /\ run' # run
    BY <1>17 DEF Closes
  <2>2. thread' = thread
    BY <1>8, <2>1
  <2>3. thread.state = "on" => thread.ended = "none"
    BY <1>1 DEF StreamOK
  <2>4. CASE run.pc = "retry"
    BY <1>1, <2>1, <2>2, <2>3, <2>4 DEF StreamOK, Whole
  <2>5. CASE run.pc = "stream" /\ TakeDone
         /\ (Answered' => \/ run'.text = run.text /\ run.text # <<>>
                          \/ run'.text = <<"answer">>)
    <3>1. Len(run.text) = thread.sent /\ thread.state # "on" /\ thread.ended = "ok"
      BY <2>5, HeadIs DEF TakeDone
    <3> QED
      BY <2>1, <2>2, <2>3, <2>5, <3>1 DEF Whole
  <2>6. CASE ~Answered'
    BY <1>1, <2>1, <2>2, <2>3, <2>6
  <2> QED
    BY <1>17, <2>4, <2>5, <2>6 DEF Closes
<1>18. ASSUME Retries PROVE Rest
  <2>1. thread.ended = "unsupported" /\ run'.pc = "retry" /\ run.pc = "stream"
    BY <1>18, HeadIs DEF Retries
  <2>2. thread' = thread
    BY <1>8, <2>1
  <2> QED
    BY <1>1, <2>1, <2>2 DEF StreamOK
<1>19. ASSUME Awaits PROVE Rest
  <2>1. run.pc = "await" /\ run'.pc = "decide" /\ thread.state = "off" /\ thread' = thread
        /\ run'.text = run.text /\ (Answered' <=> Answered) /\ run' # run
    BY <1>8, <1>19 DEF Awaits, Answered
  <2> QED
    BY <1>1, <1>10, <2>1 DEF StreamOK
<1>20. ASSUME Decides PROVE Rest
  <2>1. /\ run.pc = "decide" /\ run'.pc \in {"finalize", "failing"} /\ run' # run
        /\ thread.state = "off" /\ thread' = thread
    BY <1>12, <1>20 DEF Decides
  <2>2. run'.pc = "finalize" /\ (\A r \in run'.roles : r.status = "completed") =>
          Whole(run'.text)
    BY <1>1, <1>20, <2>1 DEF Decides, StreamOK, Whole
  <2> QED
    BY <1>10, <2>1, <2>2
<1>21. ASSUME Finishes PROVE Rest
  BY <1>1, <1>10, <1>12, <1>21 DEF Finishes, StreamOK
<1>22. ASSUME Stores PROVE Rest
  BY <1>10, <1>12, <1>22 DEF Stores, StoreReport, At
<1>23. ASSUME Fails \/ Errors PROVE Rest
  BY <1>10, <1>12, <1>23 DEF Fails, Errors
<1>24. Rest
  BY <1>2, <1>7, <1>9, <1>11, <1>13, <1>14, <1>15, <1>16, <1>17, <1>18, <1>19, <1>20, <1>21,
     <1>22, <1>23 DEF Moves
<1> QED
  BY <1>6, <1>24 DEF StreamOK

-----------------------------------------------------------------------------
(***************************************************************************)
(* The theorems                                                            *)
(***************************************************************************)
LEMMA InitInv ==
  ASSUME Init
  PROVE  Inv
<1>1. run \in Run /\ run.pc = "idle"
  BY IdleIs DEF Init
<1>2. thread \in Thread /\ thread.state = "off" /\ queue \in Seq(Items)
  BY BoundsAssumption DEF Init, NoThread, Thread
<1>3. "status" \in DOMAIN row /\ row.status = "absent" /\ "mode" \in DOMAIN row
  BY DEF Init
<1>4. /\ viewer \in [Viewers -> Viewer]
      /\ \A v \in Viewers : /\ viewer[v].told = "none" /\ viewer[v].seen = "absent"
                            /\ DOMAIN viewer[v].inbox = {}
  BY DEF Init, Viewer, Statuses
<1>5. report.status = "none"
  BY DEF Init
<1>6. Typed
  BY <1>1, <1>2, <1>3, <1>4 DEF Typed, Statuses
<1> QED
  BY <1>1, <1>2, <1>3, <1>4, <1>5, <1>6 DEF Inv, RowOK, StreamOK, ViewOK

LEMMA InvStep ==
  ASSUME Inv, [Next]_vars
  PROVE  Inv'
<1>1. Typed'
  BY RunStep, ThreadStep, QueueType, RowStep, ModeStep, ViewStep DEF Inv, Typed
<1> QED
  BY <1>1, RowStep, ViewStep, StreamStep DEF Inv

LEMMA Invariance == Spec => []Inv
<1>1. Init => Inv
  BY InitInv
<1>2. Inv /\ [Next]_vars => Inv'
  BY InvStep
<1> QED
  BY <1>1, <1>2, PTL DEF Spec

\* A report marked ready has every piece the model sent before it ended without error, but
\* for the lines the single mode drops and what follows a refused web search, however the pieces and the run's reads of the queue are interleaved.
THEOREM ReadyReportIsWhole == Spec => []ReadyIsWhole
<1>1. Inv => ReadyIsWhole
  BY DEF Inv, StreamOK, Whole, ReadyIsWhole
<1> QED
  BY <1>1, Invariance, PTL

\* A thread that still reads the model's stream has its run waiting for it, on every
\* way out of the loop over the queue.
THEOREM ThreadsAreAwaited == Spec => []NoStrayThread
<1>1. Inv => NoStrayThread
  BY DEF Inv, StreamOK, NoStrayThread
<1> QED
  BY <1>1, Invariance, PTL

\* For any number of event streams, opened whenever: what one was told of the outcome
\* is what the row says, or a failure that could not be written.
THEOREM StreamsTellTheTruth == Spec => []ToldIsTrue
<1>1. Inv => ToldIsTrue
  BY DEF Inv, ViewOK, RowOK, ToldIsTrue
<1> QED
  BY <1>1, Invariance, PTL

LEMMA ContractInit ==
  ASSUME Init
  PROVE  Contract!Init
  BY DEF Init, Contract!Init

LEMMA ContractStep ==
  ASSUME Inv, [Next]_vars
  PROVE  [Contract!Next]_(Contract!cvars)
<1>1. run \in Run /\ "status" \in DOMAIN row /\ RowOK /\ RowOK'
  BY RowStep DEF Inv, Typed
<1> DEFINE phase   == [s \in {1} |-> row.status]
           stored  == [s \in {1} |-> IF report.status = "none" THEN {} ELSE {1}]
<1>2. CASE row'.status = row.status /\ ~StoreReport
  <2>1. report' = report
    BY <1>2, ReportFrame
  <2> QED
    BY <1>2, <2>1 DEF Contract!cvars
<1>3. CASE Restart /\ ~StoreReport
  <2>1. row'.status = row.status
    BY <1>3 DEF Restart, Begin
  <2> QED
    BY <1>2, <1>3, <2>1
<1>4. CASE Enqueue \/ Start
  <2>1. ~StoreReport
    <3>1. StoreReport => run'.pc = "publish" /\ run.pc = "store"
      BY <1>1, GoesIs DEF StoreReport, At, Pcs
    <3> QED
      BY <1>4, <3>1 DEF Enqueue, Start, Begin, At
  <2>2. report' = report
    BY <2>1, ReportFrame
  <2>3. CASE Enqueue
    <3>1. row.status = "absent" /\ row'.status = "queued"
      BY <1>1, <2>3 DEF Enqueue
    <3>2. Contract!Enqueue(1)
      BY <2>2, <3>1 DEF Contract!Enqueue, Contract!Becomes
    <3> QED
      BY <3>2 DEF Contract!Next
  <2>4. CASE Start
    <3>1. row.status = "queued" /\ row'.status = "running"
      BY <1>1, <2>4 DEF Start, Begin
    <3>2. Contract!Start(1)
      BY <2>2, <3>1 DEF Contract!Start, Contract!Becomes
    <3> QED
      BY <3>2 DEF Contract!Next
  <2> QED
    BY <1>4, <2>3, <2>4
<1>5. CASE StoreReport
  <2>1. /\ row.status = "running" /\ row'.status = "completed"
        /\ report.status = "none" /\ report'.status # "none"
    BY <1>1, <1>5 DEF StoreReport, At, RowOK
  <2>2. Contract!Complete(1)
    BY <2>1 DEF Contract!Complete, Contract!Becomes
  <2> QED
    BY <2>2 DEF Contract!Next
<1>6. CASE PersistFailure /\ ~StoreReport
  <2>1. row.status = "running" /\ row'.status = "failed" /\ report' = report
    BY <1>1, <1>6, ReportFrame DEF PersistFailure, At, RowOK
  <2>2. Contract!Fail(1)
    BY <2>1 DEF Contract!Fail, Contract!Becomes
  <2> QED
    BY <2>2 DEF Contract!Next
<1> QED
  BY <1>1, <1>2, <1>3, <1>4, <1>5, <1>6, StatusStep

\* A run with its stages, retries, reclaims and crashes shows a polling client one
\* outcome, with exactly one report or none.
THEOREM RunImplementsContract == Spec => ImplementsContract
<1>1. Init => Inv /\ Contract!Init
  BY InitInv, ContractInit
<1>2. Inv /\ [Next]_vars => Inv' /\ [Contract!Next]_(Contract!cvars)
  BY InvStep, ContractStep
<1> QED
  BY <1>1, <1>2, PTL DEF Spec, ImplementsContract, Contract!Spec

-----------------------------------------------------------------------------
(***************************************************************************)
(* The events of a run, and its types                                      *)
(***************************************************************************)

PickedOK ==
  /\ picked \in [feed : Feeds, pool : Seq(Event), events : Seq(Event)] \union {NothingPicked}
  /\ Len(picked.events) \in Nat /\ Len(picked.events) <= Limit
  /\ SelectionIsSound

\* What Typed leaves out of TypeOK.
Counted ==
  /\ row \in Row /\ report \in Report
  /\ unsaved \in BOOLEAN /\ faults \in 0 .. MaxFaults

LEMMA PickedFrame ==
  ASSUME [Next]_vars
  PROVE  picked' = picked \/ picked' = NothingPicked \/ Select
  BY DEF Next, Pipeline, Streaming, ModelThread, Failures, vars, stream, Enqueue,
         Start, Restart, LinkEvent, StartReport, RunRole, PickDecision, AskWhole,
         OpenStream, Decide, Finalize, StoreReport, PublishCompleted, PersistFailure,
         PublishError, TakeDelta, TakeFinal, TakeDone, TakeError, RetryPlain,
         AwaitThread, ThreadSends, ThreadEnds, ThreadDone, Raise, PersistFailureFails,
         Crash, OpenView, Watch, Begin, Subscribe, Forward, PollRow

LEMMA NothingIs ==
  ASSUME picked = NothingPicked
  PROVE  PickedOK
<1>1. Len(picked.events) = 0
  BY DEF NothingPicked
<1> QED
  BY <1>1, BoundsAssumption DEF PickedOK, SelectionIsSound

LEMMA PickedStep ==
  ASSUME PickedOK, [Next]_vars
  PROVE  PickedOK'
<1>1. CASE picked' = picked
  BY <1>1 DEF PickedOK, SelectionIsSound
<1>2. CASE picked' = NothingPicked
  <2>1. Len(picked'.events) = 0
    BY <1>2 DEF NothingPicked
  <2> QED
    BY <1>2, <2>1, BoundsAssumption DEF PickedOK, SelectionIsSound
<1>3. CASE Select
  <2>1. PICK feed \in Feeds :
          LET found == Candidates(feed.news, Stock, feed.topic, feed.anchor, Limit, PoolLimit)
              pool == Ranked(found, feed.anchor)
          IN  picked' = [feed |-> feed, pool |-> pool,
                         events |-> SelectEvents(pool, feed.anchor, Limit, Quota)]
    BY <1>3 DEF Select
  <2> DEFINE pool == Ranked(Candidates(feed.news, Stock, feed.topic, feed.anchor, Limit, PoolLimit),
                            feed.anchor)
             events == SelectEvents(pool, feed.anchor, Limit, Quota)
  <2>2. /\ feed.news \subseteq Event /\ IsFiniteSet(feed.news)
        /\ \A d, e \in feed.news : d.id = e.id => d = e
        /\ feed.anchor \in Nat /\ Quota \in [Scopes -> Nat]
        /\ Limit \in Nat /\ PoolLimit \in Nat /\ PoolLimit >= Limit
    BY FeedsAssumption, BoundsAssumption
  <2>3. picked' = [feed |-> feed, pool |-> pool, events |-> events]
    BY <2>1
  <2>4. /\ pool \in Seq(Event) /\ events \in Seq(Event)
        /\ Sound(events, pool, feed.anchor, Limit, Quota)
        /\ Drawn(events, feed.news, Stock, feed.topic, feed.anchor, Limit)
    BY <2>2, SelectionDraws
  <2> HIDE DEF pool, events
  <2>5. /\ picked' \in [feed : Feeds, pool : Seq(Event), events : Seq(Event)]
        /\ picked'.feed = feed /\ picked'.pool = pool /\ picked'.events = events
    BY <2>3, <2>4
  <2>6. Len(events) \in Nat /\ Len(events) <= Limit
    BY <2>4 DEF Sound
  <2>7. SelectionIsSound'
    BY <2>4, <2>5 DEF SelectionIsSound
  <2> QED
    BY <2>5, <2>6, <2>7 DEF PickedOK
<1> QED
  BY <1>1, <1>2, <1>3, PickedFrame

\* Whatever events are stored, of whatever scopes, keys and times, and whatever the limits
\* and the quotas: a run is given the events its selection promises, the anchor first
\* (load_recent_news_events and select_generation_analysis_events).
THEOREM SelectionKeepsPromise == Spec => []SelectionIsSound
<1>1. Init => PickedOK
  BY NothingIs DEF Init
<1>2. PickedOK /\ [Next]_vars => PickedOK'
  BY PickedStep
<1>3. PickedOK => SelectionIsSound
  BY DEF PickedOK
<1> QED
  BY <1>1, <1>2, <1>3, PTL DEF Spec

LEMMA CountedStep ==
  ASSUME Inv, Inv', PickedOK, Counted, [Next]_vars
  PROVE  Counted'
<1>0. /\ run \in Run /\ run'\in Run /\ row \in Row /\ report \in Report /\ Limit \in Nat
      /\ MaxFaults \in Nat
      /\ Len(picked.events) \in Nat /\ Len(picked.events) <= Limit
      /\ row.progress \in 0 .. Limit + 1 /\ row.total \in 0 .. Limit + 1 /\ row.preview \in Texts
      /\ run.text \in Texts /\ <<>> \in Texts /\ <<"chunk">> \in Texts /\ <<"rule">> \in Texts
      /\ <<"cut">> \in Texts
  BY BoundsAssumption DEF Inv, Typed, PickedOK, Counted, Row, Run, Texts
<1>1. row' \in Row
  <2>1. CASE row' = row
    BY <1>0, <2>1
  <2>2. CASE Enqueue \/ PersistFailure \/ Finalize
    <3>1. CASE Enqueue
      BY <1>0, <3>1 DEF Enqueue, Row, Statuses
    <3>2. CASE PersistFailure
      BY <1>0, <3>2 DEF PersistFailure, Row, Statuses, Stages
    <3>3. CASE Finalize
      BY <1>0, <3>3 DEF Finalize, Row, Stages
    <3> QED
      BY <2>2, <3>1, <3>2, <3>3
  <2>3. CASE Start \/ Restart
    <3>1. row' = [row EXCEPT !.status = "running", !.stage = "selecting_events",
                             !.progress = 0, !.total = 0, !.preview = <<>>]
      BY <2>3 DEF Start, Restart, Begin
    <3>2. 0 \in 0 .. Limit + 1
      BY <1>0
    <3>3. "running" \in Statuses /\ "selecting_events" \in Stages
      BY DEF Statuses, Stages
    <3> QED
      BY <1>0, <3>1, <3>2, <3>3 DEF Row
  <2>4. CASE Select
    <3>1. PickedOK'
      BY PickedStep
    <3>2. PICK total \in 0 .. Limit + 1 :
            row' = [row EXCEPT !.stage = "linking_events", !.total = total]
      <4>1. (IF picked'.events = <<>> THEN 1 ELSE Len(picked'.events)) \in 0 .. Limit + 1
        BY <1>0, <3>1 DEF PickedOK
      <4> QED
        BY <2>4, <4>1 DEF Select
    <3> QED
      BY <1>0, <3>2 DEF Row, Stages
  <2>5. CASE LinkEvent
    <3>1. row.progress + 1 \in 0 .. Limit + 1 /\ row' = [row EXCEPT !.progress = row.progress + 1]
      BY <1>0, <2>5 DEF LinkEvent
    <3> QED
      BY <1>0, <3>1 DEF Row
  <2>6. CASE StartReport
    BY <1>0, <2>6 DEF StartReport, Row, Stages
  <2>7. ASSUME NEW text \in Texts, row' = [row EXCEPT !.preview = row.preview \o text]
        PROVE  row' \in Row
    <3>1. row.preview \o text \in Texts
      BY <1>0 DEF Texts
    <3> QED
      BY <1>0, <2>7, <3>1 DEF Row
  <2>8. CASE TakeDelta
    <3>1. Append(row.preview, "chunk") \in Texts
      BY <1>0 DEF Texts
    <3>2. row' = row \/ row' = [row EXCEPT !.preview = Append(row.preview, "chunk")]
      BY <2>8 DEF TakeDelta
    <3> QED
      BY <1>0, <3>1, <3>2 DEF Row
  <2>9. CASE Decide
    <3>1. row' = row \/ Shows(<<"rule">>) \/ Shows(run.text) \/ Shows(<<"cut">>)
      BY <2>9 DEF Decide
    <3> QED
      BY <1>0, <2>7, <3>1 DEF Shows
  <2>10. CASE StoreReport
    BY <1>0, <2>10 DEF StoreReport, Row, Statuses, Stages
  <2> QED
    BY <2>1, <2>2, <2>3, <2>4, <2>5, <2>6, <2>8, <2>9, <2>10, RowFrame
<1>2. report' \in Report
  <2>1. NewReport \in Report
    <3>1. ReportWeb \in WebStatuses
      BY DEF ReportWeb, WebStatuses
    <3> QED
      BY <1>0, <3>1 DEF NewReport, Report
  <2> QED
    BY <1>0, <2>1, ReportFrame DEF StoreReport
<1>3. unsaved' \in BOOLEAN
  BY UnsavedFrame DEF PersistFailureFails, Counted
<1>4. faults' \in 0 .. MaxFaults
  <2>1. faults' = faults \/ Fault
    BY DEF Next, Pipeline, Streaming, ModelThread, Failures, vars, stream, Enqueue,
           Start, Restart, Select, LinkEvent, StartReport, RunRole, PickDecision, AskWhole,
           OpenStream, Decide, Finalize, StoreReport, PublishCompleted, PersistFailure,
           PublishError, TakeDelta, TakeFinal, TakeDone, TakeError, RetryPlain,
           AwaitThread, ThreadSends, ThreadEnds, ThreadDone, Raise, PersistFailureFails,
           Crash, OpenView, Watch, Begin, Subscribe, Forward, PollRow
  <2>2. faults \in 0 .. MaxFaults
    BY DEF Counted
  <2> QED
    BY <1>0, <2>1, <2>2 DEF Fault
<1> QED
  BY <1>1, <1>2, <1>3, <1>4 DEF Counted

\* Type correctness of a run, for any number of roles, pieces, faults and event streams.
THEOREM RunTypeCorrect == Spec => []TypeOK
<1> DEFINE All == Inv /\ PickedOK /\ Counted
<1>1. Init => All
  <2> SUFFICES ASSUME Init PROVE All
    OBVIOUS
  <2>1. PickedOK
    BY NothingIs DEF Init
  <2>2. Counted
    <3>1. <<>> \in Texts
      BY DEF Texts
    <3>2. 0 \in 0 .. Limit + 1 /\ 0 \in 0 .. MaxFaults
      BY BoundsAssumption
    <3>3. row \in [status : {"absent"}, stage : {"none"}, mode : {"single", "functional"},
                  web : BOOLEAN, progress : {0}, total : {0}, preview : {<<>>}]
      BY DEF Init
    <3>4. row \in Row
      BY <3>1, <3>2, <3>3 DEF Row, Statuses, Stages
    <3>5. report \in Report
      BY <3>1 DEF Init, Report, WebStatuses
    <3> QED
      BY <3>2, <3>4, <3>5 DEF Init, Counted
  <2> QED
    BY <2>1, <2>2, InitInv
<1>2. All /\ [Next]_vars => All'
  BY InvStep, PickedStep, CountedStep
<1>3. All => TypeOK
  BY DEF Inv, Typed, PickedOK, Counted, TypeOK, Items
<1> QED
  BY <1>1, <1>2, <1>3, PTL DEF Spec

-----------------------------------------------------------------------------
(***************************************************************************)
(* The analysis page.  The invariant adds to what is shown that a request  *)
(* of the load that counts is for the route.  Every action is one of two   *)
(* kinds of step: it begins a load, or stays in it and may take an answer  *)
(* (PageStep).                                                             *)
(***************************************************************************)
Loads == {"summary", "reports"}

\* Reports stay few enough to have a newest one.
FiniteReports ==
  /\ \A stock \in Stocks : IsFiniteSet(reports[stock])
  /\ IsFiniteSet(page.archives)

\* A request of the load that counts is for the route.
LoadsAreOfRoute ==
  \A c \in calls :
    c.kind \in Loads => c.n <= page.version /\ (c.n = page.version => c.stock = page.route)

PageInv ==
  PageTypeOK /\ FiniteReports /\ LoadsAreOfRoute /\ SettledIsOfRoute /\ EvidenceMatchesReport

-----------------------------------------------------------------------------
LEMMA FiniteHasGreatest ==
  ASSUME NEW S, S \subseteq Nat, S # {}, IsFiniteSet(S)
  PROVE  \E x \in S : \A y \in S : x >= y
<1> DEFINE Greatest(T) == \E x \in T : \A y \in T : x >= y
           Bad == {n \in Nat : \E T \in SUBSET Nat :
                     IsFiniteSet(T) /\ Cardinality(T) = n /\ T # {} /\ ~Greatest(T)}
<1>3. SUFFICES ASSUME Bad # {} PROVE FALSE
  <2>1. Cardinality(S) \in Nat
    BY FS_CardinalityType
  <2> QED
    BY <1>3, <2>1
<1>4. PICK n \in Bad : \A m \in Bad : n <= m
  <2>1. Bad \subseteq Nat
    OBVIOUS
  <2> HIDE DEF Bad
  <2> QED
    BY <1>3, <2>1, LeastIs
<1>5. PICK T \in SUBSET Nat :
        IsFiniteSet(T) /\ Cardinality(T) = n /\ T # {} /\ ~Greatest(T)
  BY <1>4
<1>6. PICK t \in T : TRUE
  BY <1>5
<1> DEFINE R == T \ {t}
<1>7. IsFiniteSet(R) /\ Cardinality(R) = n - 1 /\ n \in Nat /\ Cardinality(R) \in Nat
  BY <1>4, <1>5, <1>6, FS_RemoveElement, FS_CardinalityType
<1>8. n - 1 \notin Bad
  <2>1. ~(n <= n - 1)
    BY <1>7
  <2> HIDE DEF Bad
  <2> QED
    BY <1>4, <2>1
<1>9. R = {} \/ Greatest(R)
  <2>1. R \in SUBSET Nat
    OBVIOUS
  <2> QED
    BY <1>7, <1>8, <2>1
<1>10. Greatest(T)
  <2>1. CASE R = {}
    <3>1. \A y \in T : y = t
      BY <2>1
    <3>2. t \in Nat
      BY <1>6
    <3> QED
      BY <1>6, <3>1, <3>2
  <2>2. CASE Greatest(R)
    <3>1. PICK x \in R : \A y \in R : x >= y
      BY <2>2
    <3>2. x \in Nat /\ t \in Nat /\ x \in T /\ (\A y \in T : y \in Nat)
      BY <1>6
    <3>3. CASE x >= t
      BY <3>1, <3>2, <3>3
    <3>4. CASE t > x
      <4>1. \A y \in T : t >= y
        BY <3>1, <3>2, <3>4
      <4> QED
        BY <1>6, <4>1
    <3> QED
      BY <3>2, <3>3, <3>4
  <2> QED
    BY <1>9, <2>1, <2>2
<1> QED
  BY <1>5, <1>10

LEMMA NewestIs ==
  ASSUME NEW S, S \subseteq Nat, IsFiniteSet(S)
  PROVE  Newest(S) \in S \union {0}
<1>1. CASE S = {}
  BY <1>1 DEF Newest
<1>2. CASE S # {}
  BY <1>2, FiniteHasGreatest DEF Newest, Max
<1> QED
  BY <1>1, <1>2

LEMMA DisplayedIs ==
  ASSUME NEW p \in Page, IsFiniteSet(p.archives)
  PROVE  Displayed(p) \in Nat
<1>1. p.archives \subseteq Nat /\ p.summary.report \in Nat
  BY DEF Page
<1>2. IsFiniteSet(p.archives \union {p.summary.report})
  BY FS_AddElement
<1> QED
  BY <1>1, <1>2, NewestIs DEF Displayed

LEMMA MinIs == ASSUME NEW n \in Nat, NEW m \in Nat PROVE Min({n, m}) \in 0 .. m
<1>1. \E x \in {n, m} : \A y \in {n, m} : x <= y
  OBVIOUS
<1>2. Min({n, m}) \in {n, m} /\ \A y \in {n, m} : Min({n, m}) <= y
  BY <1>1 DEF Min
<1> QED
  BY <1>2

-----------------------------------------------------------------------------
(***************************************************************************)
(* What a step does to the page                                            *)
(***************************************************************************)
BeginsLoad ==
  /\ page'.version = page.version + 1
  /\ \A kind \in Loads : \E c \in calls' : c.kind = kind /\ c.n = page'.version
  /\ \A c \in calls' : c.kind \in Loads => c \in calls \/ (c.n = page'.version /\ c.stock = page'.route)

StillAsked(kind) == \A c \in calls : c.kind = kind => c \in calls' \/ c.n # page.version

StaysInLoad ==
  /\ page'.version = page.version /\ page'.route = page.route
  /\ \A c \in calls' : c.kind \in Loads => c \in calls
  /\ \/ page'.summary = page.summary /\ StillAsked("summary")
     \/ page'.summary.stock \in {page.route, None}
  /\ \/ page'.archives = page.archives /\ StillAsked("reports")
     \/ page'.archives \subseteq reports[page.route]

PageStep ==
  /\ page' \in Page /\ calls' \subseteq Call /\ IsFiniteSet(page'.archives)
  /\ page'.mounted => page.mounted /\ page'.evidence \in {0, Displayed(page')}
  /\ BeginsLoad \/ StaysInLoad
  /\ page.seeded = page.route /\ page'.route = page.route /\ page'.web # page.web => acts' # acts

\* Two pages that display the same reports of the same load.
SameView(p, q) ==
  /\ p.mounted = q.mounted /\ p.route = q.route /\ p.version = q.version
  /\ p.summary = q.summary /\ p.archives = q.archives
  /\ p.selected = q.selected /\ p.evidence = q.evidence

LEMMA SyncIs ==
  ASSUME NEW p \in Page, IsFiniteSet(p.archives), NEW pending, pending \subseteq Call,
         SyncEvidence(p, pending)
  PROVE  /\ page' \in Page
         /\ page'.mounted = p.mounted /\ page'.route = p.route /\ page'.version = p.version
         /\ page'.summary = p.summary /\ page'.archives = p.archives
         /\ page'.seeded = p.seeded /\ page'.web = p.web
         /\ page'.mounted => page'.evidence \in {0, Displayed(page')}
         /\ calls' \subseteq Call /\ pending \subseteq calls'
         /\ \A c \in calls' : c.kind \in Loads => c \in pending
<1>1. Displayed(p) \in Nat
  BY DisplayedIs
<1>2. p.route \in Stocks /\ p.evidenceToken \in Nat
  BY DEF Page
<1>3. CASE p.mounted /\ MustFetch(p)
  <2> DEFINE next == p.evidenceToken + 1
             c == [kind |-> "evidence", n |-> next, stock |-> p.route, arg |-> Displayed(p)]
  <2>1. next \in Nat /\ 0 \in Nat
    BY <1>2
  <2>2. /\ page' = [p EXCEPT !.evidence = 0, !.evidenceToken = next]
        /\ calls' = pending \union {c}
    BY <1>3 DEF SyncEvidence
  <2>3. c \in Call /\ c.kind \notin Loads
    BY <1>1, <1>2, <2>1 DEF Call, Loads
  <2> HIDE DEF next, c
  <2>4. page' \in Page
    BY <2>1, <2>2, Zenon DEF Page
  <2>5. /\ page'.mounted = p.mounted /\ page'.route = p.route /\ page'.version = p.version
        /\ page'.summary = p.summary /\ page'.archives = p.archives
        /\ page'.seeded = p.seeded /\ page'.web = p.web /\ page'.evidence = 0
    BY <2>2 DEF Page
  <2> QED
    BY <2>2, <2>3, <2>4, <2>5
<1>4. CASE ~(p.mounted /\ MustFetch(p))
  <2>1. /\ page' = [p EXCEPT !.evidence = IF p.mounted THEN Displayed(p) ELSE @]
        /\ calls' = pending
    BY <1>4 DEF SyncEvidence
  <2>2. /\ page' \in Page
        /\ page'.mounted = p.mounted /\ page'.route = p.route /\ page'.version = p.version
        /\ page'.summary = p.summary /\ page'.archives = p.archives
        /\ page'.selected = p.selected
        /\ page'.seeded = p.seeded /\ page'.web = p.web
        /\ p.mounted => page'.evidence = Displayed(p)
    BY <1>1, <2>1 DEF Page
  <2>3. Displayed(page') = Displayed(p)
    BY <2>2 DEF Displayed
  <2> QED
    BY <2>1, <2>2, <2>3
<1> QED
  BY <1>3, <1>4

\* Where the watcher is not called, what the page lists belongs to the report already shown.
LEMMA SyncIfChangedIs ==
  ASSUME NEW p \in Page, IsFiniteSet(p.archives), NEW pending, pending \subseteq Call,
         p.mounted => p.evidence \in {0, Displayed(page)}, SyncIfChanged(p, pending)
  PROVE  /\ page' \in Page
         /\ page'.mounted = p.mounted /\ page'.route = p.route /\ page'.version = p.version
         /\ page'.summary = p.summary /\ page'.archives = p.archives
         /\ page'.seeded = p.seeded /\ page'.web = p.web
         /\ page'.mounted => page'.evidence \in {0, Displayed(page')}
         /\ calls' \subseteq Call /\ pending \subseteq calls'
         /\ \A c \in calls' : c.kind \in Loads => c \in pending
<1>1. CASE SyncEvidence(p, pending)
  BY <1>1, SyncIs
<1>2. CASE ShownObject(p) = ShownObject(page) /\ page' = p /\ calls' = pending
  <2>1. Displayed(p) = Displayed(page)
    BY <1>2 DEF ShownObject
  <2> QED
    BY <1>2, <2>1
<1> QED
  BY <1>1, <1>2 DEF SyncIfChanged

\* A step that leaves the load, the shown report and its evidence alone.
LEMMA AsideStep ==
  ASSUME PageInv, page' \in Page, calls' \subseteq Call, SameView(page', page),
         page'.web = page.web \/ acts' # acts \/ page.seeded # page.route,
         \A c \in calls' : c.kind \in Loads => c \in calls,
         \A c \in calls : c.kind \in Loads => c \in calls' \/ Outdated(c)
  PROVE  PageStep
<1>1. Displayed(page') = Displayed(page)
  BY DEF Displayed, SameView
<1>2. StillAsked("summary") /\ StillAsked("reports")
  BY DEF StillAsked, Outdated, Loads
<1> QED
  BY <1>1, <1>2 DEF PageStep, StaysInLoad, PageInv, FiniteReports, EvidenceMatchesReport, SameView

LEMMA LoadingIs ==
  ASSUME NEW p \in Page
  PROVE  /\ Loading(p) \in Page /\ Loading(p).version = p.version + 1
         /\ Loading(p).mounted = p.mounted /\ Loading(p).route = p.route
         /\ Loading(p).summary = p.summary /\ Loading(p).archives = p.archives
         /\ Loading(p).selected = p.selected /\ Loading(p).evidence = p.evidence
         /\ Loading(p).web = p.web /\ Loading(p).seeded = p.seeded
<1> DEFINE next == p.version + 1
<1>1. next \in Nat
  BY DEF Page
<1>2. Loading(p) = [p EXCEPT !.version = next, !.loading = TRUE,
                             !.item = IF p.login = 0 THEN None ELSE @]
  BY DEF Loading
<1> HIDE DEF next
<1>3. Loading(p) \in Page
  BY <1>1, <1>2, Zenon DEF Page
<1>4. /\ Loading(p).version = next
      /\ Loading(p).mounted = p.mounted /\ Loading(p).route = p.route
      /\ Loading(p).summary = p.summary /\ Loading(p).archives = p.archives
      /\ Loading(p).selected = p.selected /\ Loading(p).evidence = p.evidence
      /\ Loading(p).web = p.web /\ Loading(p).seeded = p.seeded
  BY <1>2 DEF Page
<1> QED
  BY <1>3, <1>4 DEF next

LEMMA LoadCallsAre ==
  ASSUME NEW p \in Page
  PROVE  /\ LoadCalls(p) \subseteq Call
         /\ \A kind \in Loads : \E c \in LoadCalls(p) : c.kind = kind /\ c.n = p.version
         /\ \A c \in LoadCalls(p) : c.kind \in Loads => c.n = p.version /\ c.stock = p.route
<1>1. p.version \in Nat /\ p.route \in Stocks /\ p.login \in Nat
  BY DEF Page
<1> DEFINE Asked == {[kind |-> kind, n |-> p.version, stock |-> p.route, arg |-> 0] : kind \in Loads}
<1>2. LoadCalls(p) = Asked \union WatchlistCall(p)
  BY DEF LoadCalls, Loads
<1>3. WatchlistCall(p) \subseteq Call /\ \A c \in WatchlistCall(p) : c.kind \notin Loads
  BY <1>1 DEF WatchlistCall, Call, Loads
<1>4. \A c \in Asked : c \in Call /\ c.n = p.version /\ c.stock = p.route
  BY <1>1 DEF Call, Loads
<1>5. ASSUME NEW kind \in Loads PROVE \E c \in Asked : c.kind = kind /\ c.n = p.version
  <2> DEFINE c == [kind |-> kind, n |-> p.version, stock |-> p.route, arg |-> 0]
  <2>1. c \in Asked /\ c.kind = kind /\ c.n = p.version
    OBVIOUS
  <2> QED
    BY <2>1
<1> QED
  BY <1>2, <1>3, <1>4, <1>5

LEMMA StoppedIs ==
  ASSUME NEW p \in Page
  PROVE  Stopped(p) \in Page /\ SameView(Stopped(p), p) /\ Stopped(p).web = p.web
<1> DEFINE next == p.token + 1
<1>1. next \in Nat /\ 0 \in 0 .. Patience
  BY PageBoundsAssumption DEF Page
<1>2. Stopped(p) = [p EXCEPT !.token = next, !.seen = FALSE, !.quiet = 0]
  BY DEF Stopped
<1> HIDE DEF next
<1>3. Stopped(p) \in Page
  BY <1>1, <1>2, ZenonT(30) DEF Page
<1>4. SameView(Stopped(p), p) /\ Stopped(p).web = p.web
  BY <1>2 DEF Page, SameView
<1> QED
  BY <1>3, <1>4

LEMMA InvIs ==
  ASSUME PageInv
  PROVE  /\ page \in Page /\ calls \subseteq Call /\ acts \in Nat
         /\ page.route \in Stocks /\ page.login \in Nat /\ page.version \in Nat
         /\ page.token \in Nat
         /\ IsFiniteSet(page.archives)
<1>1. page \in Page /\ calls \subseteq Call /\ acts \in Nat /\ IsFiniteSet(page.archives)
  BY PageBoundsAssumption DEF PageInv, PageTypeOK, FiniteReports
<1> QED
  BY <1>1 DEF Page

LEMMA CallIs ==
  ASSUME NEW c \in Call
  PROVE  c.n \in Nat /\ c.stock \in Stocks /\ c.arg \in Nat
  BY DEF Call

LEMMA NoTimerIs ==
  ASSUME NEW pending
  PROVE  /\ NoTimer(pending) \subseteq pending
         /\ \A c \in pending : c.kind \in Loads => c \in NoTimer(pending)
  BY DEF NoTimer, Loads

LEMMA ReloadStep ==
  ASSUME PageInv, NEW p \in Page, NEW pending, pending \subseteq calls,
         SameView(p, page), p.web = page.web, Reload(p, pending)
  PROVE  PageStep
<1>1. page' = Loading(p) /\ calls' = pending \union LoadCalls(Loading(p))
  BY DEF Reload
<1>2. /\ page' \in Page /\ page'.version = page.version + 1
      /\ page'.mounted = page.mounted /\ page'.route = page.route
      /\ page'.summary = page.summary /\ page'.archives = page.archives
      /\ page'.selected = page.selected /\ page'.evidence = page.evidence
      /\ page'.web = page.web
  BY <1>1, LoadingIs DEF SameView
<1>3. /\ LoadCalls(page') \subseteq Call
      /\ \A kind \in Loads : \E c \in LoadCalls(page') : c.kind = kind /\ c.n = page'.version
      /\ \A c \in LoadCalls(page') :
           c.kind \in Loads => c.n = page'.version /\ c.stock = page'.route
  BY <1>2, LoadCallsAre
<1>4. calls' = pending \union LoadCalls(page')
  BY <1>1
<1>5. BeginsLoad
  BY <1>2, <1>3, <1>4 DEF BeginsLoad
<1>6. Displayed(page') = Displayed(page)
  BY <1>2 DEF Displayed
<1> QED
  BY <1>2, <1>3, <1>4, <1>5, <1>6, InvIs DEF PageStep, PageInv, EvidenceMatchesReport

LEMMA NavigateStep ==
  ASSUME PageInv, NEW stock \in Stocks, Navigate(stock)
  PROVE  PageStep
<1> DEFINE next == page.evidenceToken + 1
           q == [Stopped(page) EXCEPT
                   !.route = stock, !.streaming = FALSE, !.selected = 0, !.cache = {},
                   !.evidence = 0, !.evidenceToken = @ + 1, !.plan = None, !.web = FALSE,
                   !.seeded = None, !.item = None]
           p == Loading(q)
           pending == NoTimer(calls) \union LoadCalls(p)
<1>1. page.mounted /\ acts' = acts + 1 /\ SyncIfChanged(p, pending)
  BY DEF Navigate, Acts
<1>2. /\ q \in Page /\ q.version = page.version /\ q.evidence = 0
      /\ q.summary = page.summary /\ q.archives = page.archives
  <2> DEFINE r == Stopped(page)
             token == r.evidenceToken + 1
  <2>1. /\ r \in Page /\ r.version = page.version
        /\ r.summary = page.summary /\ r.archives = page.archives
    BY InvIs, StoppedIs DEF SameView
  <2>2. token \in Nat /\ 0 \in Nat /\ {} \in SUBSET Nat
    BY <2>1 DEF Page
  <2>3. q = [r EXCEPT
               !.route = stock, !.streaming = FALSE, !.selected = 0, !.cache = {},
               !.evidence = 0, !.evidenceToken = token, !.plan = None, !.web = FALSE,
               !.seeded = None, !.item = None]
    OBVIOUS
  <2> HIDE DEF r, token, q
  <2>4. q \in Page
    BY <2>1, <2>2, <2>3, Zenon DEF Page
  <2>5. /\ q.version = r.version /\ q.summary = r.summary /\ q.archives = r.archives
        /\ q.evidence = 0
    BY <2>1, <2>3 DEF Page
  <2> QED
    BY <2>1, <2>4, <2>5
<1> HIDE DEF q
<1>3. /\ p \in Page /\ p.version = page.version + 1 /\ p.evidence = 0
      /\ p.summary = page.summary /\ p.archives = page.archives
  BY <1>2, LoadingIs
<1> HIDE DEF p
<1>4. /\ LoadCalls(p) \subseteq Call
      /\ \A kind \in Loads : \E c \in LoadCalls(p) : c.kind = kind /\ c.n = p.version
      /\ \A c \in LoadCalls(p) : c.kind \in Loads => c.n = p.version /\ c.stock = p.route
  BY <1>3, LoadCallsAre
<1>5. pending \subseteq Call /\ \A c \in pending : c \in calls \/ c \in LoadCalls(p)
  BY <1>4, NoTimerIs, InvIs
<1>6. LoadCalls(p) \subseteq pending
  OBVIOUS
<1> HIDE DEF pending
<1>7. /\ page' \in Page
      /\ page'.mounted = p.mounted /\ page'.route = p.route /\ page'.version = p.version
      /\ page'.summary = p.summary /\ page'.archives = p.archives
      /\ page'.mounted => page'.evidence \in {0, Displayed(page')}
      /\ calls' \subseteq Call /\ pending \subseteq calls'
      /\ \A c \in calls' : c.kind \in Loads => c \in pending
  BY <1>1, <1>3, <1>5, InvIs, SyncIfChangedIs
<1>8. BeginsLoad
  BY <1>3, <1>4, <1>5, <1>6, <1>7 DEF BeginsLoad
<1> QED
  BY <1>1, <1>3, <1>7, <1>8, InvIs DEF PageStep

LEMMA LeaveStep ==
  ASSUME PageInv, Leave
  PROVE  PageStep
<1> DEFINE r == Stopped(page)
<1>1. r \in Page /\ SameView(r, page) /\ r.web = page.web
  BY InvIs, StoppedIs
<1>2. page' = [r EXCEPT !.mounted = FALSE] /\ calls' = NoTimer(calls)
  BY DEF Leave
<1> HIDE DEF r
<1>3. page' \in Page
  BY <1>1, <1>2, Zenon DEF Page
<1>4. /\ page'.version = page.version /\ page'.mounted = FALSE
      /\ page'.route = page.route /\ page'.summary = page.summary
      /\ page'.archives = page.archives /\ page'.web = page.web
  BY <1>1, <1>2 DEF Page, SameView
<1>5. StaysInLoad
  BY <1>2, <1>4, NoTimerIs DEF StaysInLoad, StillAsked, Loads
<1> QED
  BY <1>2, <1>3, <1>4, <1>5, NoTimerIs, InvIs DEF PageStep

LEMMA SelectReportStep ==
  ASSUME PageInv, NEW n \in page.archives, SelectReport(n)
  PROVE  PageStep
<1> DEFINE p == [page EXCEPT !.selected = n]
<1>1. p \in Page
  BY InvIs DEF Page
<1>2. /\ p.mounted = page.mounted /\ p.route = page.route /\ p.version = page.version
      /\ p.summary = page.summary /\ p.archives = page.archives /\ p.web = page.web
      /\ p.mounted => p.evidence \in {0, Displayed(page)}
  BY InvIs DEF Page, PageInv, EvidenceMatchesReport
<1>3. SyncIfChanged(p, calls)
  BY DEF SelectReport
<1> HIDE DEF p
<1>4. /\ page' \in Page
      /\ page'.mounted = p.mounted /\ page'.route = p.route /\ page'.version = p.version
      /\ page'.summary = p.summary /\ page'.archives = p.archives /\ page'.web = p.web
      /\ page'.mounted => page'.evidence \in {0, Displayed(page')}
      /\ calls' \subseteq Call /\ calls \subseteq calls'
      /\ \A c \in calls' : c.kind \in Loads => c \in calls
  BY <1>1, <1>2, <1>3, InvIs, SyncIfChangedIs
<1>5. StaysInLoad
  BY <1>2, <1>4 DEF StaysInLoad, StillAsked
<1> QED
  BY <1>2, <1>4, <1>5, InvIs DEF PageStep

LEMMA WatchlistCallIs ==
  ASSUME NEW p \in Page
  PROVE  WatchlistCall(p) \subseteq Call /\ \A c \in WatchlistCall(p) : c.kind \notin Loads
<1>1. p.version \in Nat /\ p.route \in Stocks /\ p.login \in Nat
  BY DEF Page
<1> QED
  BY <1>1 DEF WatchlistCall, Call, Loads

LEMMA ChangeLoginStep ==
  ASSUME PageInv, ChangeLogin
  PROVE  PageStep
<1>1. acts + 2 \in Nat /\ 0 \in Nat
  BY InvIs
<1>2. CASE page.login # 0
  <2>1. page' = [page EXCEPT !.login = 0, !.item = None, !.toggling = FALSE] /\ calls' = calls
    BY <1>2 DEF ChangeLogin
  <2>2. page' \in Page
    BY <1>1, <2>1, InvIs, Zenon DEF Page
  <2>3. SameView(page', page) /\ page'.web = page.web
    BY <2>1, InvIs DEF Page, SameView
  <2> QED
    BY <2>1, <2>2, <2>3, InvIs, AsideStep
<1>3. CASE page.login = 0
  <2> DEFINE login == acts + 2
  <2>1. page' = [page EXCEPT !.login = login] /\ calls' = calls \union WatchlistCall(page')
    BY <1>3 DEF ChangeLogin
  <2>2. login \in Nat
    BY <1>1
  <2> HIDE DEF login
  <2>3. page' \in Page
    BY <2>1, <2>2, InvIs DEF Page
  <2>4. SameView(page', page) /\ page'.web = page.web
    BY <2>1, InvIs DEF Page, SameView
  <2> QED
    BY <2>1, <2>3, <2>4, InvIs, WatchlistCallIs, AsideStep
<1> QED
  BY <1>2, <1>3

LEMMA SetWebSearchStep ==
  ASSUME PageInv, SetWebSearch
  PROVE  PageStep
<1>1. page' = [page EXCEPT !.web = ~@] /\ calls' = calls /\ acts' = acts + 1
  BY DEF SetWebSearch, Acts
<1>2. page' \in Page
  <2> DEFINE web == ~page.web
  <2>1. web \in BOOLEAN /\ page' = [page EXCEPT !.web = web]
    BY <1>1, InvIs DEF Page
  <2> HIDE DEF web
  <2> QED
    BY <2>1, InvIs, ZenonT(30) DEF Page
<1>3. SameView(page', page)
  BY <1>1, InvIs DEF Page, SameView
<1>4. acts' # acts
  BY <1>1, InvIs
<1> QED
  BY <1>1, <1>2, <1>3, <1>4, InvIs, AsideStep

\* A request that is no load is sent, and the page changes beside what it displays.
LEMMA AskStep ==
  ASSUME PageInv, NEW c, c \in Call, c.kind \notin Loads, NEW pending,
         pending \subseteq calls,
         \A d \in calls : d.kind \in Loads => d \in pending \/ Outdated(d),
         calls' = pending \union {c}, page' \in Page,
         SameView(page', page), page'.web = page.web
  PROVE  PageStep
  BY InvIs, AsideStep

LEMMA ToggleWatchlistStep ==
  ASSUME PageInv, ToggleWatchlist
  PROVE  PageStep
<1> DEFINE c == [kind |-> IF page.item = None THEN "follow" ELSE "unfollow",
                 n |-> acts, stock |-> page.route, arg |-> page.login]
<1>1. page' = [page EXCEPT !.toggling = TRUE] /\ calls' = calls \union {c}
  BY DEF ToggleWatchlist
<1>2. c \in Call /\ c.kind \notin Loads
  BY InvIs DEF Call, Loads
<1> HIDE DEF c
<1>3. page' \in Page
  BY <1>1, InvIs DEF Page
<1>4. SameView(page', page) /\ page'.web = page.web
  BY <1>1, InvIs DEF Page, SameView
<1> QED
  BY <1>1, <1>2, <1>3, <1>4, AskStep

LEMMA SameViewAsSelf == SameView(page, page)
  BY DEF SameView

LEMMA RefreshAnalysisStep ==
  ASSUME PageInv, RefreshAnalysis
  PROVE  PageStep
<1> DEFINE c == [kind |-> "plan", n |-> acts, stock |-> page.route, arg |-> 0]
<1>1. page' = page /\ calls' = calls \union {c}
  BY DEF RefreshAnalysis
<1>2. c \in Call /\ c.kind \notin Loads
  BY InvIs DEF Call, Loads
<1> HIDE DEF c
<1> QED
  BY <1>1, <1>2, InvIs, SameViewAsSelf, AskStep

LEMMA BeginAnalysisStep ==
  ASSUME PageInv, NEW pending, pending \subseteq calls,
         \A d \in calls : d.kind \in Loads => d \in pending \/ Outdated(d),
         BeginAnalysis(pending)
  PROVE  PageStep
<1> DEFINE r == Stopped(page)
           c == [kind |-> "create", n |-> page.token, stock |-> page.route, arg |-> 0]
<1>1. r \in Page /\ SameView(r, page) /\ r.web = page.web
  BY InvIs, StoppedIs
<1>2. /\ page' = [r EXCEPT !.streaming = TRUE, !.plan = None]
      /\ calls' = NoTimer(pending) \union {c}
  BY DEF BeginAnalysis
<1>3. c \in Call /\ c.kind \notin Loads
  BY InvIs DEF Call, Loads
<1> HIDE DEF r, c
<1>4. page' \in Page
  BY <1>1, <1>2, Zenon DEF Page
<1>5. SameView(page', page) /\ page'.web = page.web
  BY <1>1, <1>2 DEF Page, SameView
<1>6. /\ NoTimer(pending) \subseteq calls
      /\ \A d \in calls : d.kind \in Loads => d \in NoTimer(pending) \/ Outdated(d)
  BY NoTimerIs
<1> QED
  BY <1>2, <1>3, <1>4, <1>5, <1>6, AskStep

LEMMA ConfirmPlanStep == ASSUME PageInv, ConfirmPlan PROVE PageStep
  BY BeginAnalysisStep DEF ConfirmPlan

LEMMA CancelPlanStep ==
  ASSUME PageInv, CancelPlan
  PROVE  PageStep
<1>1. page' = [page EXCEPT !.plan = None] /\ calls' = calls
  BY DEF CancelPlan
<1>2. page' \in Page
  BY <1>1, InvIs DEF Page
<1>3. SameView(page', page) /\ page'.web = page.web
  BY <1>1, InvIs DEF Page, SameView
<1> QED
  BY <1>1, <1>2, <1>3, InvIs, AsideStep

-----------------------------------------------------------------------------
LEMMA DroppedStep ==
  ASSUME PageInv, NEW c \in calls, Dropped(c)
  PROVE  PageStep
<1>1. page' = page /\ calls' = calls \ {c} /\ Outdated(c)
  BY DEF Dropped
<1> QED
  BY <1>1, InvIs, SameViewAsSelf, AsideStep

LEMMA SummaryStep ==
  ASSUME PageInv, NEW c \in calls, Summary(c)
  PROVE  PageStep
<1>1. c \in Call /\ c.kind = "summary" /\ c.n = page.version
  BY InvIs DEF Summary, Accepted, Outdated
<1>2. c.stock = page.route /\ c.stock \in Stocks
  BY <1>1, CallIs DEF PageInv, LoadsAreOfRoute, Loads
<1>3. LatestReport(c.stock) \in Nat
  BY <1>2, NewestIs DEF LatestReport, PageInv, PageTypeOK, FiniteReports
<1>4. PICK summary \in {[stock |-> c.stock, report |-> LatestReport(c.stock)], NoSummary} :
        \/ SyncEvidence([page EXCEPT !.loading = FALSE, !.summary = summary], calls \ {c})
        \/ SyncIfChanged([page EXCEPT !.loading = FALSE, !.summary = summary], calls \ {c})
  BY DEF Summary
<1>5. summary \in [stock : Stocks \union {None}, report : Nat] /\ summary.stock \in {page.route, None}
  BY <1>2, <1>3, <1>4 DEF NoSummary
<1> DEFINE p == [page EXCEPT !.loading = FALSE, !.summary = summary]
<1>6. p \in Page
  BY <1>5, InvIs, Zenon DEF Page
<1>7. /\ p.mounted = page.mounted /\ p.route = page.route /\ p.version = page.version
      /\ p.summary = summary /\ p.archives = page.archives /\ p.web = page.web
      /\ p.mounted => p.evidence \in {0, Displayed(page)}
  BY InvIs DEF Page, PageInv, EvidenceMatchesReport
<1>8. SyncEvidence(p, calls \ {c}) \/ SyncIfChanged(p, calls \ {c})
  BY <1>4
<1> HIDE DEF p
<1>9. /\ page' \in Page
      /\ page'.mounted = p.mounted /\ page'.route = p.route /\ page'.version = p.version
      /\ page'.summary = p.summary /\ page'.archives = p.archives /\ page'.web = p.web
      /\ page'.mounted => page'.evidence \in {0, Displayed(page')}
      /\ calls' \subseteq Call /\ calls \ {c} \subseteq calls'
      /\ \A d \in calls' : d.kind \in Loads => d \in calls \ {c}
  BY <1>6, <1>7, <1>8, InvIs, SyncIs, SyncIfChangedIs
<1>10. StaysInLoad
  BY <1>1, <1>5, <1>7, <1>9 DEF StaysInLoad, StillAsked
<1> QED
  BY <1>7, <1>9, <1>10, InvIs DEF PageStep

LEMMA ReportsStep ==
  ASSUME PageInv, NEW c \in calls, Reports(c)
  PROVE  PageStep
<1>1. c \in Call /\ c.kind = "reports" /\ c.n = page.version
  BY InvIs DEF Reports, Accepted, Outdated
<1>2. c.stock = page.route /\ c.stock \in Stocks
  BY <1>1, CallIs DEF PageInv, LoadsAreOfRoute, Loads
<1>3. PICK archives \in {reports[page.route], {}} :
        SyncEvidence([page EXCEPT !.archives = archives], calls \ {c})
  BY <1>2 DEF Reports, Archive
<1>4. archives \in SUBSET Nat /\ IsFiniteSet(archives) /\ archives \subseteq reports[page.route]
  BY <1>2, <1>3, FS_EmptySet DEF PageInv, PageTypeOK, FiniteReports
<1> DEFINE p == [page EXCEPT !.archives = archives]
<1>5. p \in Page
  BY <1>4, InvIs DEF Page
<1>6. /\ p.mounted = page.mounted /\ p.route = page.route /\ p.version = page.version
      /\ p.summary = page.summary /\ p.archives = archives /\ p.web = page.web
  BY InvIs DEF Page
<1>7. SyncEvidence(p, calls \ {c})
  BY <1>3
<1> HIDE DEF p
<1>8. /\ page' \in Page
      /\ page'.mounted = p.mounted /\ page'.route = p.route /\ page'.version = p.version
      /\ page'.summary = p.summary /\ page'.archives = p.archives /\ page'.web = p.web
      /\ page'.mounted => page'.evidence \in {0, Displayed(page')}
      /\ calls' \subseteq Call /\ calls \ {c} \subseteq calls'
      /\ \A d \in calls' : d.kind \in Loads => d \in calls \ {c}
  BY <1>4, <1>5, <1>6, <1>7, InvIs, SyncIs
<1>9. StaysInLoad
  BY <1>1, <1>4, <1>6, <1>8 DEF StaysInLoad, StillAsked
<1> QED
  BY <1>4, <1>6, <1>8, <1>9, InvIs DEF PageStep

LEMMA WatchlistStep ==
  ASSUME PageInv, NEW c \in calls, Watchlist(c)
  PROVE  PageStep
<1>1. /\ c.kind = "watchlist" /\ c.stock = page.route /\ calls' = calls \ {c}
      /\ c.kind \notin Loads
  BY DEF Watchlist, Accepted, Outdated, Loads
<1>2. PICK item \in {c.stock, None}, web \in BOOLEAN, seeded \in {c.stock, page.seeded} :
        /\ page' = [page EXCEPT !.item = item, !.web = web, !.seeded = seeded]
        /\ page.seeded = page.route => web = page.web
  <2>1. page.web \in BOOLEAN /\ (c.stock \in watched \intersect WebStocks) \in BOOLEAN
    BY InvIs DEF Page
  <2>2. CASE page' = [page EXCEPT
                        !.item = IF c.stock \in watched THEN c.stock ELSE None,
                        !.web = IF page.seeded = c.stock THEN @
                                ELSE c.stock \in watched \intersect WebStocks,
                        !.seeded = c.stock]
    <3> DEFINE item == IF c.stock \in watched THEN c.stock ELSE None
               web == IF page.seeded = c.stock THEN page.web
                      ELSE c.stock \in watched \intersect WebStocks
    <3>1. page' = [page EXCEPT !.item = item, !.web = web, !.seeded = c.stock]
      BY <2>2
    <3>2. item \in {c.stock, None} /\ web \in BOOLEAN /\ (page.seeded = page.route => web = page.web)
      BY <1>1, <2>1
    <3> HIDE DEF item, web
    <3> QED
      BY <3>1, <3>2
  <2>3. CASE page' = [page EXCEPT !.item = None]
    <3>1. page' = [page EXCEPT !.item = None, !.web = page.web, !.seeded = page.seeded]
      BY <2>3, InvIs, Zenon DEF Page
    <3> QED
      BY <2>1, <3>1
  <2> QED
    BY <2>2, <2>3 DEF Watchlist
<1>3. page.seeded \in Stocks \union {None} /\ c.stock \in Stocks
  BY <1>1, InvIs DEF Page
<1>4. page' \in Page
  <2>1. item \in Stocks \union {None} /\ seeded \in Stocks \union {None}
    BY <1>2, <1>3
  <2> QED
    BY <1>2, <2>1, InvIs, Zenon DEF Page
<1>5. SameView(page', page) /\ page'.web = web
  BY <1>2, InvIs DEF Page, SameView
<1> QED
  BY <1>1, <1>2, <1>4, <1>5, InvIs, AsideStep

LEMMA EvidenceStep ==
  ASSUME PageInv, NEW c \in calls, Evidence(c)
  PROVE  PageStep
<1>1. /\ c \in Call /\ c.kind \notin Loads /\ c.arg = Displayed(page)
      /\ calls' = calls \ {c} /\ c.arg \in Nat
  BY InvIs, CallIs DEF Evidence, Accepted, Outdated, Loads
<1>2. PICK cache \in SUBSET Nat, evidence \in {0, c.arg} :
        page' = [page EXCEPT !.cache = cache, !.evidence = evidence]
  <2>1. page.cache \in SUBSET Nat
    BY InvIs DEF Page
  <2>2. CASE page' = [page EXCEPT !.cache = @ \union {c.arg}, !.evidence = c.arg]
    <3>1. page.cache \union {c.arg} \in SUBSET Nat
      BY <1>1, <2>1
    <3> QED
      BY <2>2, <3>1
  <2>3. CASE page' = [page EXCEPT !.evidence = 0]
    <3>1. page' = [page EXCEPT !.cache = page.cache, !.evidence = 0]
      BY <2>3, InvIs, Zenon DEF Page
    <3> QED
      BY <2>1, <3>1
  <2> QED
    BY <2>2, <2>3 DEF Evidence
<1>3. page' \in Page
  <2>1. evidence \in Nat
    BY <1>1
  <2> QED
    BY <1>2, <2>1, InvIs, Zenon DEF Page
<1>4. /\ page'.mounted = page.mounted /\ page'.route = page.route
      /\ page'.version = page.version /\ page'.summary = page.summary
      /\ page'.archives = page.archives /\ page'.selected = page.selected
      /\ page'.evidence = evidence /\ page'.web = page.web
  BY <1>2, InvIs DEF Page
<1>5. Displayed(page') = Displayed(page)
  BY <1>4 DEF Displayed
<1>6. StaysInLoad
  BY <1>1, <1>4 DEF StaysInLoad, StillAsked, Loads
<1> QED
  BY <1>1, <1>3, <1>4, <1>5, <1>6, InvIs DEF PageStep

LEMMA PlanStep ==
  ASSUME PageInv, NEW c \in calls, Plan(c)
  PROVE  PageStep
<1>1. c.kind \notin Loads /\ c.stock \in Stocks
  BY InvIs, CallIs DEF Plan, Accepted, Loads
<1>2. CASE page' = [page EXCEPT !.plan = c.stock] /\ calls' = calls \ {c}
  <2>1. page' \in Page
    BY <1>1, <1>2, InvIs DEF Page
  <2>2. SameView(page', page) /\ page'.web = page.web
    BY <1>2, InvIs DEF Page, SameView
  <2> QED
    BY <1>1, <1>2, <2>1, <2>2, InvIs, AsideStep
<1>3. CASE BeginAnalysis(calls \ {c})
  BY <1>1, <1>3, BeginAnalysisStep
<1> QED
  BY <1>2, <1>3 DEF Plan

LEMMA ToggledStep ==
  ASSUME PageInv, NEW c \in calls, Toggled(c)
  PROVE  PageStep
<1>1. c.kind \notin Loads /\ c.stock \in Stocks /\ calls' = calls \ {c}
  BY InvIs, CallIs DEF Toggled, Loads
<1>2. PICK item \in Stocks \union {None} :
        page' = [page EXCEPT !.toggling = FALSE, !.item = item]
  <2>1. CASE page' = [page EXCEPT !.toggling = FALSE,
                                  !.item = IF c.kind = "follow" THEN c.stock ELSE None]
    <3> DEFINE item == IF c.kind = "follow" THEN c.stock ELSE None
    <3>1. item \in Stocks \union {None} /\ page' = [page EXCEPT !.toggling = FALSE, !.item = item]
      BY <1>1, <2>1
    <3> HIDE DEF item
    <3> QED
      BY <3>1
  <2>2. CASE page' = [page EXCEPT !.toggling = FALSE]
    <3>1. page.item \in Stocks \union {None}
      BY InvIs DEF Page
    <3>2. page' = [page EXCEPT !.toggling = FALSE, !.item = page.item]
      BY <2>2, InvIs, Zenon DEF Page
    <3> QED
      BY <3>1, <3>2
  <2> QED
    BY <2>1, <2>2 DEF Toggled
<1>3. page' \in Page
  BY <1>2, InvIs, Zenon DEF Page
<1>4. SameView(page', page) /\ page'.web = page.web
  BY <1>2, InvIs DEF Page, SameView
<1> QED
  BY <1>1, <1>3, <1>4, InvIs, AsideStep

LEMMA CreatedStep ==
  ASSUME PageInv, NEW c \in calls, Created(c)
  PROVE  PageStep
<1>1. c.kind \notin Loads /\ c.stock \in Stocks
  BY InvIs, CallIs DEF Created, Accepted, Loads
<1> DEFINE p == [page EXCEPT !.streaming = FALSE]
<1>2. p \in Page /\ SameView(p, page) /\ p.web = page.web
  BY InvIs DEF Page, SameView
<1> HIDE DEF p
<1>3. CASE Reload(p, calls \ {c})
  BY <1>2, <1>3, ReloadStep
<1>4. ASSUME NEW s \in Sessions, page' = [page EXCEPT !.token = @ + 1],
             calls' = (calls \ {c}) \union {[kind |-> "status", n |-> page'.token,
                                             stock |-> c.stock, arg |-> s]}
      PROVE  PageStep
  <2> DEFINE token == page.token + 1
             d == [kind |-> "status", n |-> page'.token, stock |-> c.stock, arg |-> s]
  <2>1. token \in Nat /\ s \in Nat
    BY PageBoundsAssumption, InvIs DEF Sessions
  <2>2. page' = [page EXCEPT !.token = token]
    BY <1>4
  <2> HIDE DEF token
  <2>3. page' \in Page /\ page'.token \in Nat
    BY <2>1, <2>2, InvIs DEF Page
  <2>4. SameView(page', page) /\ page'.web = page.web
    BY <2>2, InvIs DEF Page, SameView
  <2>5. d \in Call /\ d.kind \notin Loads
    BY <1>1, <2>1, <2>3 DEF Call, Loads
  <2>6. calls' = (calls \ {c}) \union {d}
    BY <1>4
  <2> HIDE DEF d
  <2> QED
    BY <1>1, <2>3, <2>4, <2>5, <2>6, AskStep
<1>5. CASE page' = p /\ calls' = calls \ {c}
  BY <1>1, <1>2, <1>5, InvIs, AsideStep
<1> QED
  BY <1>3, <1>4, <1>5 DEF Created, p

\* The next poll is another call with the same token.
LEMMA PollAgainStep ==
  ASSUME PageInv, NEW c \in calls, c.kind \notin Loads, PollAgain(c)
  PROVE  PageStep
<1> DEFINE seen == page.seen \/ session[c.arg].status # "queued"
           quiet == IF Unmoved(c) THEN Min({page.quiet + 1, Patience}) ELSE 0
           d == [c EXCEPT !.kind = "timer"]
<1>1. page' = [page EXCEPT !.seen = seen, !.quiet = quiet] /\ calls' = (calls \ {c}) \union {d}
  BY DEF PollAgain
<1>2. seen \in BOOLEAN
  BY InvIs DEF Page
<1>3. quiet \in 0 .. Patience
  <2>1. page.quiet + 1 \in Nat /\ Patience \in Nat
    BY PageBoundsAssumption, InvIs DEF Page
  <2> QED
    BY <2>1, MinIs
<1>4. d \in Call /\ d.kind \notin Loads
  BY InvIs DEF Call, Loads
<1> HIDE DEF seen, quiet, d
<1>5. page' \in Page
  BY <1>1, <1>2, <1>3, InvIs, Zenon DEF Page
<1>6. SameView(page', page) /\ page'.web = page.web
  BY <1>1, InvIs DEF Page, SameView
<1> QED
  BY <1>1, <1>4, <1>5, <1>6, AskStep

LEMMA PollStep ==
  ASSUME PageInv, NEW c \in calls, Status(c)
  PROVE  PageStep
<1>1. c.kind \notin Loads
  BY DEF Status, Accepted, Loads
<1> DEFINE r == Stopped(page)
           p == [r EXCEPT !.streaming = FALSE]
<1>2. r \in Page /\ SameView(r, page) /\ r.web = page.web
  BY InvIs, StoppedIs
<1> HIDE DEF r
<1>3. p \in Page /\ SameView(p, page) /\ p.web = page.web
  BY <1>2 DEF Page, SameView
<1> HIDE DEF p
<1>4. /\ NoTimer(calls \ {c}) \subseteq calls
      /\ \A d \in calls : d.kind \in Loads => d \in NoTimer(calls \ {c})
  BY <1>1, NoTimerIs
<1>5. CASE PollAgain(c)
  BY <1>1, <1>5, PollAgainStep
<1>6. CASE PollCompletes(c)
  <2>1. Reload(p, NoTimer(calls \ {c}))
    BY <1>6 DEF PollCompletes, p, r
  <2> QED
    BY <1>3, <1>4, <2>1, ReloadStep
<1>7. CASE GiveUp(c)
  <2>1. page' = p /\ calls' = NoTimer(calls \ {c})
    BY <1>7 DEF GiveUp, p, r
  <2> QED
    BY <1>3, <1>4, <2>1, InvIs, AsideStep
<1> QED
  BY <1>5, <1>6, <1>7 DEF Status

LEMMA TimerFiresStep ==
  ASSUME PageInv, NEW c \in calls, TimerFires(c)
  PROVE  PageStep
<1> DEFINE d == [c EXCEPT !.kind = "status"]
<1>1. page' = page /\ calls' = (calls \ {c}) \union {d} /\ c.kind \notin Loads
  BY DEF TimerFires, Loads
<1>2. d \in Call /\ d.kind \notin Loads
  BY InvIs DEF Call, Loads
<1> HIDE DEF d
<1> QED
  BY <1>1, <1>2, InvIs, SameViewAsSelf, AskStep

LEMMA AnyPageStep ==
  ASSUME PageInv, [PageNext]_pageVars
  PROVE  PageStep
<1>1. CASE User
  BY <1>1, NavigateStep, LeaveStep, SelectReportStep, ChangeLoginStep, SetWebSearchStep,
     ToggleWatchlistStep, RefreshAnalysisStep, ConfirmPlanStep, CancelPlanStep DEF User
<1>2. ASSUME NEW c \in calls, Answer(c) PROVE PageStep
  BY <1>2, DroppedStep, SummaryStep, ReportsStep, WatchlistStep, EvidenceStep, PlanStep,
     ToggledStep, CreatedStep, PollStep, TimerFiresStep DEF Answer
<1>3. CASE page' = page /\ calls' = calls
  BY <1>3, InvIs, SameViewAsSelf, AsideStep
<1>4. ASSUME NEW s \in Sessions, Runs(s) \/ RunnerDies(s) \/ Reclaimed(s)
      PROVE  page' = page /\ calls' = calls
  BY <1>4 DEF Runs, SessionStarts, SessionCompletes, SessionFails, RunnerDies, Reclaimed, Turns
<1> QED
  BY <1>1, <1>2, <1>3, <1>4 DEF PageNext, pageVars

-----------------------------------------------------------------------------
\* Every stock's reports together have a newest one.
LEMMA AllReportsAre ==
  ASSUME PageInv
  PROVE  Newest(UNION {reports[stock] : stock \in Stocks}) \in Nat
<1> DEFINE lists == {reports[stock] : stock \in Stocks}
<1>1. /\ reports \in [Stocks -> SUBSET Nat]
      /\ \A stock \in Stocks : IsFiniteSet(reports[stock])
  BY DEF PageInv, PageTypeOK, FiniteReports
<1>2. reports \in Surjection(Stocks, lists)
  BY <1>1 DEF Surjection
<1>3. IsFiniteSet(lists)
  BY <1>2, StocksAssumption, FS_Surjection
<1>4. IsFiniteSet(UNION lists)
  BY <1>1, <1>3, FS_UNION
<1>5. UNION lists \subseteq Nat
  BY <1>1
<1> QED
  BY <1>4, <1>5, NewestIs

LEMMA StoredStep ==
  ASSUME PageInv, [PageNext]_pageVars
  PROVE  /\ reports' \in [Stocks -> SUBSET Nat]
         /\ \A stock \in Stocks :
              IsFiniteSet(reports'[stock]) /\ reports[stock] \subseteq reports'[stock]
<1>1. /\ reports \in [Stocks -> SUBSET Nat]
      /\ \A stock \in Stocks : IsFiniteSet(reports[stock])
  BY DEF PageInv, PageTypeOK, FiniteReports
<1>2. ASSUME NEW s \in Sessions, SessionCompletes(s)
      PROVE  /\ reports' \in [Stocks -> SUBSET Nat]
             /\ \A stock \in Stocks :
                  IsFiniteSet(reports'[stock]) /\ reports[stock] \subseteq reports'[stock]
  <2> DEFINE new == Newest(UNION {reports[stock] : stock \in Stocks}) + 1
  <2>1. new \in Nat
    BY AllReportsAre
  <2>2. reports' = [reports EXCEPT ![session[s].stock] = @ \union {new}]
    BY <1>2 DEF SessionCompletes
  <2> HIDE DEF new
  <2>3. \A stock \in Stocks : reports'[stock] \in {reports[stock], reports[stock] \union {new}}
    BY <1>1, <2>2
  <2>4. \A stock \in Stocks : IsFiniteSet(reports[stock] \union {new})
    BY <1>1, FS_AddElement
  <2>5. reports' \in [Stocks -> SUBSET Nat]
    BY <1>1, <2>1, <2>2
  <2> QED
    BY <1>1, <2>3, <2>4, <2>5
<1>3. reports' = reports \/ \E s \in Sessions : SessionCompletes(s)
  BY DEF PageNext, pageVars, server, User, Answer, Navigate, Leave, SelectReport, ChangeLogin,
         SetWebSearch, ToggleWatchlist, RefreshAnalysis, ConfirmPlan, CancelPlan, Dropped,
         Summary, Reports, Watchlist, Evidence, Plan, Toggled, Created, Status, TimerFires,
         Runs, SessionStarts, SessionFails, RunnerDies, Reclaimed
<1> QED
  BY <1>1, <1>2, <1>3

LEMMA SessionTyped ==
  ASSUME PageInv, [PageNext]_pageVars
  PROVE  session' \in [Sessions -> Session]
<1>1. session \in [Sessions -> Session]
  BY DEF PageInv, PageTypeOK
<1>2. ASSUME NEW s \in Sessions, NEW from,
             NEW to \in {"running", "silent", "completed", "failed"}, Turns(s, from, to)
      PROVE  session' \in [Sessions -> Session]
  <2>1. session' = [session EXCEPT ![s].status = to]
    BY <1>2 DEF Turns
  <2>2. [session[s] EXCEPT !.status = to] \in Session
    BY <1>1 DEF Session
  <2> QED
    BY <1>1, <2>1, <2>2
<1>3. ASSUME NEW c \in calls, Created(c)
      PROVE  session' \in [Sessions -> Session]
  <2>1. CASE session' = session
    BY <1>1, <2>1
  <2>2. ASSUME NEW s \in Sessions, session' = [session EXCEPT ![s].stock = c.stock]
        PROVE  session' \in [Sessions -> Session]
    <3>1. c.stock \in Stocks
      BY InvIs, CallIs
    <3>2. [session[s] EXCEPT !.stock = c.stock] \in Session
      BY <1>1, <3>1 DEF Session
    <3> QED
      BY <1>1, <2>2, <3>2
  <2> QED
    BY <1>3, <2>1, <2>2 DEF Created
<1>4. \/ session' = session
      \/ \E c \in calls : Created(c)
      \/ \E s \in Sessions : \E from, to \in {"queued", "running", "silent", "completed", "failed"} :
           to # "queued" /\ Turns(s, from, to)
  BY DEF PageNext, pageVars, server, User, Answer, Navigate, Leave, SelectReport, ChangeLogin,
         SetWebSearch, ToggleWatchlist, RefreshAnalysis, ConfirmPlan, CancelPlan, Dropped,
         Summary, Reports, Watchlist, Evidence, Plan, Toggled, Status, TimerFires,
         Runs, SessionStarts, SessionCompletes, SessionFails, RunnerDies, Reclaimed
<1> QED
  BY <1>1, <1>2, <1>3, <1>4

LEMMA RestTyped ==
  ASSUME PageInv, [PageNext]_pageVars
  PROVE  watched' \subseteq Stocks /\ acts' \in 0 .. MaxActs /\ failures' \in 0 .. MaxFailures
<1>1. watched \subseteq Stocks /\ acts \in 0 .. MaxActs /\ failures \in 0 .. MaxFailures
  BY DEF PageInv, PageTypeOK
<1>2. watched' = watched \/ \E c \in calls : Toggled(c)
  BY DEF PageNext, pageVars, server, User, Answer, Navigate, Leave, SelectReport, ChangeLogin,
         SetWebSearch, ToggleWatchlist, RefreshAnalysis, ConfirmPlan, CancelPlan, Dropped,
         Summary, Reports, Watchlist, Evidence, Plan, Created, Status, TimerFires, Turns,
         Runs, SessionStarts, SessionCompletes, SessionFails, RunnerDies, Reclaimed
<1>3. ASSUME NEW c \in calls, Toggled(c) PROVE watched' \subseteq Stocks
  BY <1>1, <1>3, InvIs, CallIs DEF Toggled
<1>4. acts' = acts \/ Acts
  BY DEF PageNext, pageVars, server, User, Answer, Navigate, Leave, SelectReport, ChangeLogin,
         SetWebSearch, ToggleWatchlist, RefreshAnalysis, ConfirmPlan, CancelPlan, Dropped,
         Summary, Reports, Watchlist, Evidence, Plan, Toggled, Created, Status, TimerFires,
         Turns, Runs, SessionStarts, SessionCompletes, SessionFails, RunnerDies, Reclaimed
<1>5. failures' = failures \/ Failure
  BY DEF PageNext, pageVars, server, User, Answer, Navigate, Leave, SelectReport, ChangeLogin,
         SetWebSearch, ToggleWatchlist, RefreshAnalysis, ConfirmPlan, CancelPlan, Dropped,
         Summary, Reports, Watchlist, Evidence, Plan, Toggled, Created, Status, TimerFires,
         Turns, Runs, SessionStarts, SessionCompletes, SessionFails, RunnerDies, Reclaimed
<1>6. acts' \in 0 .. MaxActs
  BY <1>1, <1>4, PageBoundsAssumption DEF Acts
<1>7. failures' \in 0 .. MaxFailures
  BY <1>1, <1>5, PageBoundsAssumption DEF Failure
<1> QED
  BY <1>1, <1>2, <1>3, <1>6, <1>7

LEMMA PageInitial == PageInit => PageInv
<1> SUFFICES ASSUME PageInit PROVE PageInv
  OBVIOUS
<1>1. PICK stock \in Stocks, login \in {0, 1} : page = Fresh(stock, login) /\ calls = LoadCalls(page)
  BY DEF PageInit
<1>2. /\ page \in Page /\ page.version = 1 /\ page.archives = {} /\ page.evidence = 0
      /\ page.summary.stock = None
  <2>1. 0 \in 0 .. Patience /\ 0 \in Nat /\ 1 \in Nat /\ login \in Nat
    BY PageBoundsAssumption
  <2>2. NoSummary \in [stock : Stocks \union {None}, report : Nat] /\ NoSummary.stock = None
    BY DEF NoSummary
  <2> QED
    BY <1>1, <2>1, <2>2 DEF Fresh, Page
<1>3. /\ calls \subseteq Call
      /\ \A c \in calls : c.kind \in Loads => c.n = page.version /\ c.stock = page.route
  BY <1>1, <1>2, LoadCallsAre
<1>4. PageTypeOK
  <2>1. /\ reports = Old
        /\ session = [s \in Sessions |-> [stock |-> None, status |-> "queued"]]
        /\ watched \subseteq Stocks /\ acts = 0 /\ failures = 0
    BY DEF PageInit
  <2>2. reports \in [Stocks -> SUBSET Nat]
    BY <2>1, ReportsAssumption
  <2>3. session \in [Sessions -> Session]
    BY <2>1 DEF Session
  <2> QED
    BY <1>2, <1>3, <2>1, <2>2, <2>3, PageBoundsAssumption DEF PageTypeOK
<1>5. FiniteReports
  BY <1>2, ReportsAssumption, FS_EmptySet DEF FiniteReports, PageInit
<1>6. LoadsAreOfRoute
  BY <1>2, <1>3 DEF LoadsAreOfRoute
<1>7. SettledIsOfRoute /\ EvidenceMatchesReport
  BY <1>2 DEF SettledIsOfRoute, EvidenceMatchesReport
<1> QED
  BY <1>4, <1>5, <1>6, <1>7 DEF PageInv

LEMMA PageInvStep == PageInv /\ [PageNext]_pageVars => PageInv'
<1> SUFFICES ASSUME PageInv, [PageNext]_pageVars PROVE PageInv'
  OBVIOUS
<1>1. PageStep
  BY AnyPageStep
<1>2. PageTypeOK' /\ FiniteReports'
  BY <1>1, StoredStep, SessionTyped, RestTyped DEF PageTypeOK, FiniteReports, PageStep
<1>3. page.version \in Nat /\ page'.version \in Nat /\ page.route \in Stocks
  BY <1>1, InvIs DEF PageStep, Page
<1>4. LoadsAreOfRoute'
  <2> SUFFICES ASSUME NEW c \in calls', c.kind \in Loads
               PROVE  /\ c.n <= page'.version
                      /\ c.n = page'.version => c.stock = page'.route
    BY DEF LoadsAreOfRoute
  <2>1. c \in Call /\ c.n \in Nat
    BY <1>1, CallIs DEF PageStep
  <2>2. c \in calls => c.n <= page.version /\ (c.n = page.version => c.stock = page.route)
    BY DEF PageInv, LoadsAreOfRoute
  <2>3. CASE BeginsLoad
    BY <1>3, <2>1, <2>2, <2>3 DEF BeginsLoad
  <2>4. CASE StaysInLoad
    BY <2>2, <2>4 DEF StaysInLoad
  <2> QED
    BY <1>1, <2>3, <2>4 DEF PageStep
<1>5. SettledIsOfRoute'
  <2> SUFFICES ASSUME page'.mounted
               PROVE  /\ ~Awaited("summary")' => page'.summary.stock \in {page'.route, None}
                      /\ ~Awaited("reports")' => page'.archives \subseteq reports'[page'.route]
    BY DEF SettledIsOfRoute
  <2>1. page.mounted
    BY <1>1 DEF PageStep
  <2>2. CASE BeginsLoad
    BY <2>2 DEF BeginsLoad, Awaited, Loads
  <2>3. CASE StaysInLoad
    <3>1. page'.version = page.version /\ page'.route = page.route
      BY <2>3 DEF StaysInLoad
    <3>2. \A kind : StillAsked(kind) /\ ~Awaited(kind)' => ~Awaited(kind)
      BY <3>1 DEF StillAsked, Awaited
    <3>3. ~Awaited("summary")' => page'.summary.stock \in {page'.route, None}
      BY <2>1, <2>3, <3>1, <3>2 DEF StaysInLoad, PageInv, SettledIsOfRoute
    <3>4. ~Awaited("reports")' => page'.archives \subseteq reports[page.route]
      BY <2>1, <2>3, <3>1, <3>2 DEF StaysInLoad, PageInv, SettledIsOfRoute
    <3>5. reports[page.route] \subseteq reports'[page.route]
      BY <1>3, StoredStep
    <3> QED
      BY <3>1, <3>3, <3>4, <3>5
  <2> QED
    BY <1>1, <2>2, <2>3 DEF PageStep
<1>6. EvidenceMatchesReport'
  BY <1>1 DEF PageStep, EvidenceMatchesReport, Displayed
<1> QED
  BY <1>2, <1>4, <1>5, <1>6 DEF PageInv

LEMMA AlwaysPageInv == PageSpec => []PageInv
  BY PageInitial, PageInvStep, PTL DEF PageSpec

\* Type correctness of the analysis page.
THEOREM PageTypeCorrect == PageSpec => []PageTypeOK
<1>1. PageInv => PageTypeOK
  BY DEF PageInv
<1> QED
  BY <1>1, AlwaysPageInv, PTL

\* For any number of stocks, routes, loads and late or failing answers: once the latest
\* load is answered, summary and archive are those of the route (loadSummary and
\* loadReports drop the answer to an older version).
THEOREM PageShowsItsRoute == PageSpec => []SettledIsOfRoute
<1>1. PageInv => SettledIsOfRoute
  BY DEF PageInv
<1> QED
  BY <1>1, AlwaysPageInv, PTL

\* The evidence listed belongs to the report displayed, or there is none
\* (syncActiveEvidence compares token and report when the answer arrives).
THEOREM EvidenceIsOfReport == PageSpec => []EvidenceMatchesReport
<1>1. PageInv => EvidenceMatchesReport
  BY DEF PageInv
<1> QED
  BY <1>1, AlwaysPageInv, PTL

\* Once the stock's default for web search is taken, only the user changes the choice
\* while the route stays (loadWatchlistState takes the default once per route).
THEOREM ChoiceIsKept == PageSpec => ChoiceStays
<1>1. PageInv /\ [PageNext]_pageVars =>
        (page.seeded = page.route /\ page'.route = page.route /\ page'.web # page.web
           => acts' # acts)
  BY AnyPageStep DEF PageStep
<1>2. PageInv /\ [PageNext]_pageVars =>
        [page.seeded = page.route /\ page'.route = page.route /\ page'.web # page.web
           => acts' # acts]_pageVars
  BY <1>1
<1> QED
  BY <1>2, AlwaysPageInv, PTL DEF PageSpec, ChoiceStays

=============================================================================
