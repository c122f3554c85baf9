-------------------------- MODULE PolicySyncProofs --------------------------
(***************************************************************************)
(* Theorems about PolicySync and PolicyDedup for every set of documents,   *)
(* providers, rows, synchronisations and projections and every number of   *)
(* faults.                                                                 *)
(*                                                                         *)
(* First the removal of duplicates, by induction over its loop; then the   *)
(* transactions.  The inductive invariant says of each one in flight what  *)
(* it has flushed and holds: a synchronisation holds exactly the rows it   *)
(* wrote, each with its own job and all attachments of what it stored      *)
(* there, and what is left makes up the rest of what was merged; a         *)
(* projection holds exactly the rows it marked, each of which has an event *)
(* already or gets one with the commit.                                    *)
(***************************************************************************)
EXTENDS PolicySync, TLAPS, WellFoundedInduction, FiniteSetTheorems

-----------------------------------------------------------------------------
(***************************************************************************)
(* Numbers                                                                 *)
(***************************************************************************)

LEMMA LeastIs ==
  ASSUME NEW A, A \subseteq Nat, A # {}
  PROVE  \E m \in A : \A n \in A : m <= n
<1> DEFINE Least == OpToRel(<, Nat)
<1>1. IsWellFoundedOn(Least, Nat)
  BY NatLessThanWellFounded
<1>2. \A m, n \in Nat : m < n => <<m, n>> \in Least
  BY DEF OpToRel
<1> HIDE DEF Least
<1>3. PICK m \in A : \A n \in A : <<n, m>> \notin Least
  BY <1>1, WFMin
<1>4. ASSUME NEW n \in A PROVE m <= n
  <2>1. m \in Nat /\ n \in Nat /\ <<n, m>> \notin Least
    BY <1>3
  <2>2. ~(n < m)
    BY <1>2, <2>1
  <2> QED
    BY <2>1, <2>2
<1> QED
  BY <1>4

LEMMA LeastOfNats ==
  ASSUME NEW S \in SUBSET Nat, S # {}
  PROVE  Min(S) \in S /\ \A n \in S : Min(S) <= n
BY LeastIs DEF Min

LEMMA NatSetInduction ==
  ASSUME NEW A, 0 \in A, \A n \in Nat : n \in A => n + 1 \in A
  PROVE  Nat \subseteq A
<1> DEFINE Bad == Nat \ A
<1>1. SUFFICES ASSUME Bad # {} PROVE FALSE
  OBVIOUS
<1>2. PICK n \in Bad : \A m \in Bad : n <= m
  <2>1. Bad \subseteq Nat
    OBVIOUS
  <2> HIDE DEF Bad
  <2> QED
    BY <1>1, <2>1, LeastIs
<1>3. n - 1 \in Nat /\ n - 1 < n /\ (n - 1) + 1 = n
  OBVIOUS
<1>4. n - 1 \notin Bad
  BY <1>2, <1>3
<1> QED
  BY <1>3, <1>4

-----------------------------------------------------------------------------
(***************************************************************************)
(* Merging.  Whether a document says all that others say together is kept  *)
(* when one more is merged into it, and when its parts are themselves      *)
(* merged of others.                                                       *)
(***************************************************************************)

\* x is a and b merged.
Joins(x, a, b) ==
  /\ x \in Document
  /\ x.title \in {a.title, b.title} /\ x.title >= a.title /\ x.title >= b.title
  /\ x.text \in {a.text, b.text} /\ x.text >= a.text /\ x.text >= b.text
  /\ x.no \in {a.no, b.no} /\ (x.no = 0 => a.no = 0 /\ b.no = 0)
  /\ \/ x.source = a.source /\ x.url = a.url
     \/ x.source = b.source /\ x.url = b.url
  /\ x.attached = a.attached \union b.attached

LEMMA MergeIs ==
  ASSUME NEW a \in Document, NEW b \in Document
  PROVE  Joins(Merge(a, b), a, b)
<1>1. ASSUME NEW p \in Document, NEW q \in Document
      PROVE  Joins(MergeInto(p, q), p, q)
  <2>1. ASSUME NEW m \in Nat, NEW n \in Nat
        PROVE  Max({m, n}) \in {m, n} /\ Max({m, n}) >= m /\ Max({m, n}) >= n
    BY DEF Max
  <2>2. ASSUME NEW m \in Nat, NEW n \in Nat
        PROVE  Or(m, n) \in {m, n} /\ (Or(m, n) = 0 => m = 0 /\ n = 0)
    BY DEF Or
  <2>3. /\ p.title \in Nat /\ q.title \in Nat /\ p.text \in Nat /\ q.text \in Nat
        /\ p.id \in Nat /\ q.id \in Nat /\ p.no \in Nat /\ q.no \in Nat
        /\ p.date \in Nat /\ q.date \in Nat
    BY DEF Document
  <2> DEFINE id == Or(p.id, q.id)
             no == Or(p.no, q.no)
             date == Or(p.date, q.date)
             title == Max({p.title, q.title})
             text == Max({p.text, q.text})
  <2>4. /\ id \in Nat /\ date \in Nat
        /\ no \in Nat /\ no \in {p.no, q.no} /\ (no = 0 => p.no = 0 /\ q.no = 0)
        /\ title \in Nat /\ title \in {p.title, q.title}
        /\ title >= p.title /\ title >= q.title
        /\ text \in Nat /\ text \in {p.text, q.text} /\ text >= p.text /\ text >= q.text
    BY <2>1, <2>2, <2>3
  <2>5. MergeInto(p, q) =
          [p EXCEPT !.id = id, !.no = no, !.date = date, !.title = title, !.text = text,
                    !.attached = p.attached \union q.attached]
    BY DEF MergeInto
  <2> HIDE DEF id, no, date, title, text
  <2> DEFINE x == MergeInto(p, q)
  <2>6. /\ x.title = title /\ x.text = text /\ x.no = no
        /\ x.source = p.source /\ x.url = p.url
        /\ x.attached = p.attached \union q.attached
    BY <2>5 DEF Document
  <2>7. x \in Document
    <3> DEFINE attached == p.attached \union q.attached
    <3>1. attached \in SUBSET Nat
      BY DEF Document
    <3> HIDE DEF attached
    <3>2. [p EXCEPT !.id = id, !.no = no, !.date = date, !.title = title, !.text = text,
                    !.attached = attached] \in Document
      BY <2>4, <3>1 DEF Document
    <3> QED
      BY <2>5, <3>2 DEF attached
  <2> HIDE DEF x
  <2>8. Joins(x, p, q)
    BY <2>4, <2>6, <2>7 DEF Joins
  <2> QED
    BY <2>8 DEF x
<1>2. CASE RightIsPrimary(a, b)
  BY <1>1, <1>2 DEF Merge, Joins
<1>3. CASE ~RightIsPrimary(a, b)
  BY <1>1, <1>3 DEF Merge
<1> QED
  BY <1>2, <1>3

LEMMA SaysOfOne ==
  ASSUME NEW f, NEW i, f[i] \in Document
  PROVE  SaysAll(f[i], f, {i})
BY DEF SaysAll, Document

LEMMA SaysOneMore ==
  ASSUME NEW w \in Document, NEW f, NEW I, NEW i, f[i] \in Document,
         \A k \in I : f[k] \in Document,
         SaysAll(w, f, I), NEW x, Joins(x, w, f[i])
  PROVE  SaysAll(x, f, I \union {i})
<1>1. /\ x.title \in Nat /\ w.title \in Nat /\ f[i].title \in Nat
      /\ x.text \in Nat /\ w.text \in Nat /\ f[i].text \in Nat
      /\ \A k \in I : f[k].title \in Nat /\ f[k].text \in Nat
  BY DEF Document, Joins
<1>2. x.attached = UNION {f[k].attached : k \in I \union {i}}
  <2>1. w.attached = UNION {f[k].attached : k \in I} /\ x.attached = w.attached \union f[i].attached
    BY DEF SaysAll, Joins
  <2> QED
    BY <2>1
<1>3. \A k \in I \union {i} : x.text >= f[k].text /\ x.title >= f[k].title
  BY <1>1 DEF SaysAll, Joins
<1>4. /\ \E k \in I \union {i} : x.text = f[k].text
      /\ \E k \in I \union {i} : x.title = f[k].title
  BY DEF SaysAll, Joins
<1>5. /\ \E k \in I \union {i} : x.no = f[k].no
      /\ x.no = 0 => \A k \in I \union {i} : f[k].no = 0
  BY DEF SaysAll, Joins
<1>6. \E k \in I \union {i} : x.source = f[k].source /\ x.url = f[k].url
  BY DEF SaysAll, Joins
<1> QED
  BY <1>2, <1>3, <1>4, <1>5, <1>6 DEF SaysAll

LEMMA SaysOfParts ==
  ASSUME NEW w \in Document, NEW f, NEW K, SaysAll(w, f, K),
         NEW docs, NEW G,
         \A k \in K : f[k] \in Document /\ SaysAll(f[k], docs, G[k]),
         \A k \in K : \A i \in G[k] : docs[i] \in Document
  PROVE  SaysAll(w, docs, UNION {G[k] : k \in K})
<1> DEFINE U == UNION {G[k] : k \in K}
<1>1. \A i \in U : \E k \in K : i \in G[k]
  OBVIOUS
<1>2. \A k \in K : \A i \in G[k] : i \in U
  OBVIOUS
<1> HIDE DEF U
<1>3. U # {}
  BY <1>2 DEF SaysAll
<1>4. w.attached = UNION {docs[i].attached : i \in U}
  <2>1. w.attached = UNION {f[k].attached : k \in K}
    BY DEF SaysAll
  <2>2. \A k \in K : f[k].attached = UNION {docs[i].attached : i \in G[k]}
    BY DEF SaysAll
  <2>3. ASSUME NEW a \in w.attached PROVE \E i \in U : a \in docs[i].attached
    <3>1. PICK k \in K : a \in f[k].attached
      BY <2>1, <2>3
    <3>2. PICK i \in G[k] : a \in docs[i].attached
      BY <2>2, <3>1
    <3> QED
      BY <1>2, <3>2
  <2>4. ASSUME NEW i \in U, NEW a \in docs[i].attached PROVE a \in w.attached
    <3>1. PICK k \in K : i \in G[k]
      BY <1>1
    <3>2. a \in f[k].attached
      BY <2>2, <2>4, <3>1
    <3> QED
      BY <2>1, <3>2
  <2> QED
    BY <2>3, <2>4
<1>5. ASSUME NEW i \in U PROVE w.text >= docs[i].text /\ w.title >= docs[i].title
  <2>1. PICK k \in K : i \in G[k]
    BY <1>1
  <2>2. /\ w.text >= f[k].text /\ f[k].text >= docs[i].text
        /\ w.title >= f[k].title /\ f[k].title >= docs[i].title
    BY <2>1 DEF SaysAll
  <2>3. /\ w.text \in Nat /\ f[k].text \in Nat /\ docs[i].text \in Nat
        /\ w.title \in Nat /\ f[k].title \in Nat /\ docs[i].title \in Nat
    BY <2>1 DEF Document
  <2> QED
    BY <2>2, <2>3
<1>6. \E i \in U : w.text = docs[i].text
  BY <1>2 DEF SaysAll
<1>7. \E i \in U : w.title = docs[i].title
  BY <1>2 DEF SaysAll
<1>8. \E i \in U : w.no = docs[i].no
  BY <1>2 DEF SaysAll
<1>9. w.no = 0 => \A i \in U : docs[i].no = 0
  BY <1>1 DEF SaysAll
<1>10. \E i \in U : w.source = docs[i].source /\ w.url = docs[i].url
  <2>1. PICK k \in K : w.source = f[k].source /\ w.url = f[k].url
    BY DEF SaysAll
  <2>2. PICK i \in G[k] : f[k].source = docs[i].source /\ f[k].url = docs[i].url
    BY DEF SaysAll
  <2> QED
    BY <1>2, <2>1, <2>2
<1> QED
  BY <1>3, <1>4, <1>5, <1>6, <1>7, <1>8, <1>9, <1>10 DEF SaysAll, U

-----------------------------------------------------------------------------
(***************************************************************************)
(* What is gathered from a new document and those it brings together.  The *)
(* recursion of Gather has a solution because each step needs only the one *)
(* before.                                                                 *)
(***************************************************************************)

\* The new document, as the one at place 0, and the kept ones.
Parts(d, kept) == [i \in 0 .. Len(kept) |-> IF i = 0 THEN d ELSE kept[i]]

Live(kept, places, m) == {i \in places : i <= m /\ kept[i] # Gone}

\* The recursion of Gather.
GatherAt(kept, d, places, m, F) ==
  IF m = 0 THEN d
  ELSE IF m \notin places \/ kept[m] = Gone THEN F[m - 1]
  ELSE IF m = Min(places) THEN Merge(kept[m], F[m - 1])
  ELSE Merge(F[m - 1], kept[m])

GatherUpTo(kept, d, places, n, F) == F = [m \in 0 .. n |-> GatherAt(kept, d, places, m, F)]

LEMMA GatherRecurs ==
  ASSUME NEW kept, Len(kept) \in Nat, NEW d, NEW places
  PROVE  \E F : GatherUpTo(kept, d, places, Len(kept), F) /\ Gather(kept, d, places) = F[Len(kept)]
<1> DEFINE n == Len(kept)
           At(m, F) == GatherAt(kept, d, places, m, F)
           whole == CHOOSE F : F = [m \in 0 .. n |-> At(m, F)]
           A == {k \in Nat : \E F : F = [m \in 0 .. k |-> At(m, F)]}
<1>1. Gather(kept, d, places) = whole[n]
  BY Zenon DEF Gather, GatherAt
<1>2. \A F, G, m : (m # 0 => F[m - 1] = G[m - 1]) => At(m, F) = At(m, G)
  BY Zenon DEF GatherAt
<1> HIDE DEF At
<1>3. 0 \in A
  <2> DEFINE F == [m \in 0 .. 0 |-> At(m, <<>>)]
  <2>1. \A m \in 0 .. 0 : At(m, <<>>) = At(m, F)
    <3>1. \A m \in 0 .. 0 : m = 0
      OBVIOUS
    <3> HIDE DEF F
    <3> QED
      BY <1>2, <3>1
  <2>2. F = [m \in 0 .. 0 |-> At(m, F)]
    BY <2>1
  <2> HIDE DEF F
  <2> QED
    BY <2>2
<1>4. ASSUME NEW k \in Nat, k \in A PROVE k + 1 \in A
  <2>1. PICK F : F = [m \in 0 .. k |-> At(m, F)]
    BY <1>4
  <2> DEFINE G == [m \in 0 .. k + 1 |-> At(m, F)]
  <2>2. \A m \in 0 .. k + 1 : m # 0 => m - 1 \in 0 .. k /\ m - 1 \in 0 .. k + 1
    OBVIOUS
  <2>3. \A m \in 0 .. k : F[m] = At(m, F)
    BY <2>1
  <2>4. \A m \in 0 .. k + 1 : G[m] = At(m, F)
    OBVIOUS
  <2>5. \A m \in 0 .. k + 1 : At(m, F) = At(m, G)
    <3> SUFFICES ASSUME NEW m \in 0 .. k + 1 PROVE At(m, F) = At(m, G)
      OBVIOUS
    <3> HIDE DEF G
    <3>1. m # 0 => F[m - 1] = G[m - 1]
      BY <2>2, <2>3, <2>4
    <3> QED
      BY <1>2, <3>1
  <2>6. G = [m \in 0 .. k + 1 |-> At(m, G)]
    BY <2>5
  <2> HIDE DEF G
  <2> QED
    BY <2>6
<1> HIDE DEF A
<1>5. n \in A
  BY <1>3, <1>4, NatSetInduction
<1>6. whole = [m \in 0 .. n |-> At(m, whole)]
  BY <1>5, Zenon DEF A
<1> HIDE DEF whole
<1> QED
  BY <1>1, <1>6 DEF At, GatherUpTo

LEMMA GatherIs ==
  ASSUME NEW kept \in Seq(Document \union {Gone}), NEW d \in Document, NEW places,
         places \subseteq 1 .. Len(kept)
  PROVE  /\ Gather(kept, d, places) \in Document
         /\ SaysAll(Gather(kept, d, places), Parts(d, kept),
                    {0} \union {i \in places : kept[i] # Gone})
<1> DEFINE f == Parts(d, kept)
           Says(w, m) == w \in Document /\ SaysAll(w, f, {0} \union Live(kept, places, m))
<1>1. Len(kept) \in Nat /\ \A i \in 1 .. Len(kept) : kept[i] # Gone => kept[i] \in Document
  OBVIOUS
<1>2. PICK whole : /\ GatherUpTo(kept, d, places, Len(kept), whole)
                   /\ Gather(kept, d, places) = whole[Len(kept)]
  BY <1>1, GatherRecurs
<1>3. \A m \in 0 .. Len(kept) : whole[m] = GatherAt(kept, d, places, m, whole)
  BY <1>2 DEF GatherUpTo
<1>4. \A i \in places : i \in Nat /\ i >= 1 /\ i <= Len(kept)
  BY <1>1
<1>5. f[0] = d /\ \A i \in 1 .. Len(kept) : f[i] = kept[i]
  BY <1>1 DEF Parts
<1> HIDE DEF f
<1> DEFINE A == {m \in Nat : m <= Len(kept) => Says(whole[m], m)}
<1>6. 0 \in A
  <2>1. Live(kept, places, 0) = {}
    <3>1. \A i \in places : ~(i <= 0)
      BY <1>4
    <3> QED
      BY <3>1 DEF Live
  <2>2. SaysAll(f[0], f, {0})
    BY <1>5, SaysOfOne
  <2>3. whole[0] = d
    BY <1>1, <1>3 DEF GatherAt
  <2>4. {0} \union Live(kept, places, 0) = {0}
    BY <2>1
  <2> QED
    BY <1>5, <2>2, <2>3, <2>4
<1>7. ASSUME NEW m \in Nat, m \in A PROVE m + 1 \in A
  <2>1. SUFFICES ASSUME m + 1 <= Len(kept) PROVE Says(whole[m + 1], m + 1)
    OBVIOUS
  <2>2. \A i \in places : i <= m + 1 <=> i <= m \/ i = m + 1
    BY <1>4
  <2>3. Says(whole[m], m)
    BY <1>1, <1>7, <2>1
  <2>4. whole[m + 1] = IF m + 1 \notin places \/ kept[m + 1] = Gone THEN whole[m]
                         ELSE IF m + 1 = Min(places) THEN Merge(kept[m + 1], whole[m])
                         ELSE Merge(whole[m], kept[m + 1])
    <3>1. m + 1 \in 0 .. Len(kept) /\ (m + 1) - 1 = m /\ m + 1 # 0
      BY <1>1, <2>1
    <3>2. whole[m + 1] = GatherAt(kept, d, places, m + 1, whole)
      BY <1>3, <3>1
    <3> QED
      BY <3>1, <3>2, Zenon DEF GatherAt
  <2>5. CASE m + 1 \notin places \/ kept[m + 1] = Gone
    <3>1. Live(kept, places, m + 1) = Live(kept, places, m)
      BY <2>2, <2>5 DEF Live
    <3> QED
      BY <2>3, <2>4, <2>5, <3>1
  <2>6. CASE m + 1 \in places /\ kept[m + 1] # Gone
    <3> DEFINE K == {0} \union Live(kept, places, m)
               i == m + 1
               w == whole[m]
               x == whole[i]
    <3>1. {0} \union Live(kept, places, m + 1) = K \union {i}
      <4>1. Live(kept, places, m + 1) = Live(kept, places, m) \union {m + 1}
        BY <2>2, <2>6 DEF Live
      <4> QED
        BY <4>1
    <3>2. x = Merge(w, kept[i]) \/ x = Merge(kept[i], w)
      BY <2>4, <2>6
    <3>3. kept[i] \in Document /\ f[i] = kept[i]
      BY <1>1, <1>5, <2>1, <2>6
    <3>4. \A k \in K : f[k] \in Document
      BY <1>1, <1>5 DEF Live
    <3>5. w \in Document /\ SaysAll(w, f, K)
      BY <2>3
    <3> HIDE DEF K, i, w, x
    <3>6. Joins(x, w, f[i])
      <4>1. CASE x = Merge(w, kept[i])
        BY <3>3, <3>5, <4>1, MergeIs
      <4>2. CASE x = Merge(kept[i], w)
        <5>1. Joins(x, kept[i], w)
          BY <3>3, <3>5, <4>2, MergeIs
        <5> QED
          BY <3>3, <5>1 DEF Joins
      <4> QED
        BY <3>2, <4>1, <4>2
    <3>7. SaysAll(x, f, K \union {i})
      BY <3>3, <3>4, <3>5, <3>6, SaysOneMore
    <3>8. x \in Document
      BY <3>6 DEF Joins
    <3> QED
      BY <3>1, <3>7, <3>8, Zenon DEF x, i
  <2> QED
    BY <2>5, <2>6
<1> HIDE DEF A
<1>8. Len(kept) \in A
  BY <1>1, <1>6, <1>7, NatSetInduction
<1>9. Live(kept, places, Len(kept)) = {i \in places : kept[i] # Gone}
  BY <1>4, Zenon DEF Live
<1>10. Says(whole[Len(kept)], Len(kept))
  BY <1>1, <1>8 DEF A
<1> QED
  BY <1>2, <1>9, <1>10 DEF f

-----------------------------------------------------------------------------
(***************************************************************************)
(* The loop.  A live document is found at its place under its title, its   *)
(* number and its address, which therefore belong to one place; every      *)
(* document so far has one live place, and a place says all its documents  *)
(* say.                                                                    *)
(***************************************************************************)

\* The keys that are those of one of the documents merged; the identifier need not be: it
\* may be adopted, and then counts for the source of the primary document.
MainKeys(d) ==
  {<<"title", d.title>>, <<"url", d.source, d.url>>}
  \union (IF d.no = 0 THEN {} ELSE {<<"no", d.no>>})

LEMMA KeysOfWhole ==
  ASSUME NEW w, NEW f, NEW I, SaysAll(w, f, I), NEW k \in MainKeys(w)
  PROVE  \E i \in I : k \in MainKeys(f[i])
<1>1. CASE k = <<"title", w.title>>
  BY <1>1 DEF SaysAll, MainKeys
<1>2. CASE k = <<"url", w.source, w.url>>
  BY <1>2 DEF SaysAll, MainKeys
<1>3. CASE k = <<"no", w.no>> /\ w.no # 0
  BY <1>3 DEF SaysAll, MainKeys
<1> QED
  BY <1>1, <1>2, <1>3 DEF MainKeys

LEMMA MainAmongAll ==
  ASSUME NEW w, NEW e
  PROVE  /\ MainKeys(w) \subseteq DedupKeys(w)
         /\ DedupKeys(w) \intersect MainKeys(e) \subseteq MainKeys(w)
<1>1. MainKeys(w) \subseteq DedupKeys(w)
  BY DEF MainKeys, DedupKeys
<1>2. ASSUME NEW k \in DedupKeys(w), k \in MainKeys(e) PROVE k \in MainKeys(w)
  <2>1. k # <<"source", w.source, w.id>>
    <3>1. k[1] \in {"title", "url", "no"}
      BY <1>2 DEF MainKeys
    <3> QED
      BY <3>1
  <2> QED
    BY <2>1 DEF MainKeys, DedupKeys
<1> QED
  BY <1>1, <1>2

\* A state of the loop: what is at a place is found under each of its main keys.
Sane(st) ==
  /\ st.kept \in Seq(Document \union {Gone})
  /\ \A k \in DOMAIN st.at : st.at[k] \in 1 .. Len(st.kept)
  /\ \A p \in 1 .. Len(st.kept) : st.kept[p] # Gone =>
       \A k \in MainKeys(st.kept[p]) : k \in DOMAIN st.at /\ st.at[k] = p

\* One turn of the loop, with the places P of what is known of d.
Absorbs(st, new, d, P, first, whole) ==
  /\ P = Known(st, d) /\ P \subseteq 1 .. Len(st.kept)
  /\ IF P = {} THEN first = Len(st.kept) + 1 ELSE first \in P
  /\ new.kept \in Seq(Document \union {Gone})
  /\ first \in 1 .. Len(new.kept) /\ new.kept[first] = whole
  /\ 1 .. Len(st.kept) \subseteq 1 .. Len(new.kept)
  /\ \A p \in 1 .. Len(new.kept) : p # first =>
       p \in 1 .. Len(st.kept) /\ new.kept[p] = IF p \in P THEN Gone ELSE st.kept[p]
  /\ new.at = Indexed(st.at, whole, first)
  /\ whole \in Document
  /\ SaysAll(whole, Parts(d, st.kept), {0} \union {i \in P : st.kept[i] # Gone})

LEMMA AbsorbIs ==
  ASSUME NEW st, Sane(st), NEW d \in Document
  PROVE  \E P, first, whole : Absorbs(st, Absorb(st, d), d, P, first, whole)
<1> DEFINE P == Known(st, d)
           n == Len(st.kept)
           first == IF P = {} THEN n + 1 ELSE Min(P)
           whole == Gather(st.kept, d, P)
           size == n + (IF P = {} THEN 1 ELSE 0)
           kept == [i \in 1 .. size |->
                      IF i = first THEN whole ELSE IF i \in P THEN Gone ELSE st.kept[i]]
           new == Absorb(st, d)
<1>1. n \in Nat /\ st.kept \in Seq(Document \union {Gone})
  BY DEF Sane
<1>2. P \subseteq 1 .. n
  BY DEF Known, Sane
<1>3. new = [kept |-> kept, at |-> Indexed(st.at, whole, first)]
  BY DEF Absorb
<1>4. SaysAll(whole, Parts(d, st.kept), {0} \union {i \in P : st.kept[i] # Gone})
  BY <1>1, <1>2, GatherIs
<1>5. whole \in Document
  BY <1>1, <1>2, GatherIs
<1>6. P # {} => Min(P) \in P
  <2>1. P \in SUBSET Nat
    BY <1>1, <1>2
  <2> HIDE DEF P
  <2> QED
    BY <2>1, LeastOfNats
<1>7. IF P = {} THEN first = n + 1 ELSE first \in P
  BY <1>6
<1> HIDE DEF P, first, whole, n, new
<1>8. size \in Nat /\ first \in 1 .. size /\ 1 .. n \subseteq 1 .. size
  <2>1. CASE P = {}
    BY <1>1, <1>7, <2>1
  <2>2. CASE P # {}
    <3>1. first \in 1 .. n
      BY <1>2, <1>7, <2>2
    <3>2. size = n
      BY <1>1, <2>2
    <3> QED
      BY <1>1, <3>1, <3>2
  <2> QED
    BY <2>1, <2>2
<1>9. \A p \in 1 .. size : p # first => p \in 1 .. n
  BY <1>1, <1>7
<1>10. \A i \in 1 .. n : st.kept[i] \in Document \union {Gone}
  BY <1>1 DEF n
<1>11. \A p \in 1 .. size : kept[p] \in Document \union {Gone}
  BY <1>5, <1>9, <1>10
<1> HIDE DEF size
<1>12. kept \in Seq(Document \union {Gone}) /\ Len(kept) = size
  <2>1. kept \in [1 .. size -> Document \union {Gone}]
    BY <1>11
  <2> HIDE DEF kept
  <2> QED
    BY <1>8, <2>1
<1>13. kept[first] = whole
  BY <1>8
<1>14. \A p \in 1 .. size : p # first => kept[p] = IF p \in P THEN Gone ELSE st.kept[p]
  OBVIOUS
<1> HIDE DEF kept
<1> DEFINE at == Indexed(st.at, whole, first)
<1> HIDE DEF at
<1>15. new.kept = kept /\ new.at = at
  BY <1>3 DEF at
<1>16. Absorbs(st, new, d, P, first, whole)
  BY <1>2, <1>4, <1>5, <1>7, <1>8, <1>9, <1>12, <1>13, <1>14, <1>15 DEF Absorbs, P, n, at
<1> QED
  BY <1>16 DEF new

LEMMA AbsorbSane ==
  ASSUME NEW st, NEW new, NEW d, NEW P, NEW first, NEW whole,
         Sane(st), Absorbs(st, new, d, P, first, whole)
  PROVE  Sane(new)
<1>1. new.at = Indexed(st.at, whole, first)
  BY DEF Absorbs
<1>2. /\ DOMAIN new.at = DOMAIN st.at \union DedupKeys(whole)
      /\ \A k \in DOMAIN new.at :
           new.at[k] = IF k \in DedupKeys(whole) THEN first ELSE st.at[k]
  BY <1>1 DEF Indexed
<1>3. \A k \in DOMAIN new.at : new.at[k] \in 1 .. Len(new.kept)
  BY <1>2 DEF Sane, Absorbs
<1>4. ASSUME NEW p \in 1 .. Len(new.kept), new.kept[p] # Gone, NEW k \in MainKeys(new.kept[p])
      PROVE  k \in DOMAIN new.at /\ new.at[k] = p
  <2>1. CASE p = first
    <3>1. k \in DedupKeys(whole)
      BY <1>4, <2>1, MainAmongAll DEF Absorbs
    <3> QED
      BY <1>2, <2>1, <3>1
  <2>2. CASE p # first
    <3>1. p \in 1 .. Len(st.kept) /\ p \notin P /\ new.kept[p] = st.kept[p]
      BY <1>4, <2>2 DEF Absorbs
    <3>2. k \in DOMAIN st.at /\ st.at[k] = p
      BY <1>4, <3>1 DEF Sane
    <3>3. ASSUME k \in DedupKeys(whole) PROVE FALSE
      <4>1. k \in MainKeys(whole)
        BY <1>4, <3>3, MainAmongAll
      <4> DEFINE L == {i \in P : st.kept[i] # Gone}
      <4>2. PICK i \in {0} \union L : k \in MainKeys(Parts(d, st.kept)[i])
        BY <4>1, KeysOfWhole DEF Absorbs
      <4>3. L \subseteq 1 .. Len(st.kept) /\ Len(st.kept) \in Nat
        BY DEF Absorbs, Sane
      <4>4. CASE i = 0
        <5>1. k \in MainKeys(d)
          BY <4>2, <4>3, <4>4 DEF Parts
        <5>2. k \in DedupKeys(d)
          BY <5>1, MainAmongAll
        <5>3. st.at[k] \in Known(st, d)
          BY <3>2, <5>2 DEF Known
        <5> QED
          BY <3>1, <3>2, <5>3 DEF Absorbs
      <4>5. CASE i # 0
        <5>1. i \in 1 .. Len(st.kept) /\ st.kept[i] # Gone /\ i \in P
          BY <4>2, <4>3, <4>5
        <5>2. k \in MainKeys(st.kept[i])
          BY <4>2, <4>3, <4>5, <5>1 DEF Parts
        <5>3. st.at[k] = i
          BY <5>1, <5>2 DEF Sane
        <5> QED
          BY <3>1, <3>2, <5>1, <5>3
      <4> QED
        BY <4>4, <4>5
    <3> QED
      BY <1>2, <3>2, <3>3
  <2> QED
    BY <2>1, <2>2
<1> QED
  BY <1>3, <1>4 DEF Sane, Absorbs


\* The first n documents are accounted for: g gives for each the place of the document it
\* was merged into, and what is at a place says all that the documents of it say.
Accounts(g, st, docs, n) ==
  /\ g \in [1 .. n -> 1 .. Len(st.kept)]
  /\ \A i \in 1 .. n : st.kept[g[i]] # Gone
  /\ \A p \in 1 .. Len(st.kept) : st.kept[p] # Gone =>
       SaysAll(st.kept[p], docs, {i \in 1 .. n : g[i] = p})

LEMMA AbsorbAccounts ==
  ASSUME NEW st, NEW new, NEW docs \in Seq(Document), NEW n \in Nat, n + 1 <= Len(docs),
         NEW P, NEW first, NEW whole, NEW g,
         Sane(st), Absorbs(st, new, docs[n + 1], P, first, whole), Accounts(g, st, docs, n)
  PROVE  \E h : Accounts(h, new, docs, n + 1)
<1> DEFINE d == docs[n + 1]
           L == {i \in P : st.kept[i] # Gone}
           h == [i \in 1 .. n + 1 |-> IF i = n + 1 \/ g[i] \in P THEN first ELSE g[i]]
<1>1. /\ Len(st.kept) \in Nat /\ 1 .. Len(st.kept) \subseteq 1 .. Len(new.kept)
      /\ first \in 1 .. Len(new.kept) /\ new.kept[first] = whole
      /\ P \subseteq 1 .. Len(st.kept)
      /\ (IF P = {} THEN first = Len(st.kept) + 1 ELSE first \in P)
      /\ whole \in Document
      /\ SaysAll(whole, Parts(d, st.kept), {0} \union L)
      /\ \A p \in 1 .. Len(new.kept) : p # first =>
           p \in 1 .. Len(st.kept) /\ new.kept[p] = IF p \in P THEN Gone ELSE st.kept[p]
  BY DEF Absorbs, Sane
<1>2. whole # Gone
  BY <1>1 DEF Document, Gone
<1>3. /\ \A i \in 1 .. n + 1 : i # n + 1 => i \in 1 .. n
      /\ \A i \in 1 .. n : i \in 1 .. n + 1 /\ i # n + 1
      /\ n + 1 \in 1 .. n + 1
      /\ \A i \in 1 .. n + 1 : docs[i] \in Document
  OBVIOUS
<1>4. \A i \in 1 .. n : g[i] \in 1 .. Len(st.kept) /\ st.kept[g[i]] # Gone
  BY DEF Accounts
<1>5. \A i \in 1 .. n + 1 : h[i] = IF i = n + 1 \/ g[i] \in P THEN first ELSE g[i]
  OBVIOUS
<1>6. h \in [1 .. n + 1 -> 1 .. Len(new.kept)]
  <2>1. \A i \in 1 .. n + 1 : h[i] \in 1 .. Len(new.kept)
    BY <1>1, <1>3, <1>4
  <2> QED
    BY <2>1
<1> HIDE DEF h
<1>7. \A i \in 1 .. n : g[i] = first => first \in P
  BY <1>1, <1>4
<1>8. \A i \in 1 .. n + 1 : h[i] = first <=> i = n + 1 \/ g[i] \in P
  BY <1>3, <1>5, <1>7
<1>9. \A i \in 1 .. n + 1 : h[i] # first => i \in 1 .. n /\ h[i] = g[i] /\ g[i] \notin P
  BY <1>3, <1>5
<1>10. ASSUME NEW i \in 1 .. n + 1 PROVE new.kept[h[i]] # Gone
  <2>1. CASE h[i] = first
    BY <1>1, <1>2, <2>1
  <2>2. CASE h[i] # first
    <3>1. i \in 1 .. n /\ h[i] = g[i] /\ g[i] \notin P
      BY <1>9, <2>2
    <3>2. h[i] \in 1 .. Len(new.kept)
      BY <1>6
    <3>3. new.kept[h[i]] = st.kept[h[i]]
      BY <1>1, <2>2, <3>1, <3>2
    <3> QED
      BY <1>4, <3>1, <3>3
  <2> QED
    BY <2>1, <2>2
<1>11. SaysAll(whole, docs, {i \in 1 .. n + 1 : h[i] = first})
  <2> DEFINE f == Parts(d, st.kept)
             K == {0} \union L
             G == [k \in K |-> IF k = 0 THEN {n + 1} ELSE {i \in 1 .. n : g[i] = k}]
  <2>1. f[0] = d /\ \A k \in L : f[k] = st.kept[k] /\ k # 0
    BY <1>1 DEF Parts
  <2>2. G[0] = {n + 1} /\ \A k \in L : G[k] = {i \in 1 .. n : g[i] = k}
    <3>1. 0 \in K /\ L \subseteq K
      OBVIOUS
    <3> HIDE DEF L, K
    <3> QED
      BY <2>1, <3>1
  <2>3. \A k \in L : st.kept[k] \in Document /\ SaysAll(st.kept[k], docs, {i \in 1 .. n : g[i] = k})
    <3>1. \A k \in L : k \in 1 .. Len(st.kept) /\ st.kept[k] # Gone
      BY <1>1
    <3>2. \A k \in 1 .. Len(st.kept) : st.kept[k] \in Document \union {Gone}
      BY DEF Sane
    <3> HIDE DEF L
    <3> QED
      BY <3>1, <3>2 DEF Accounts
  <2>4. d \in Document /\ SaysAll(d, docs, {n + 1})
    BY <1>3, SaysOfOne
  <2> HIDE DEF f, G
  <2>5. \A k \in K : f[k] \in Document /\ SaysAll(f[k], docs, G[k])
    BY <2>1, <2>2, <2>3, <2>4
  <2>6. \A k \in K : \A i \in G[k] : docs[i] \in Document
    BY <1>3, <2>2
  <2>7. SaysAll(whole, f, K)
    BY <1>1 DEF f
  <2>8. UNION {G[k] : k \in K} = {i \in 1 .. n + 1 : h[i] = first}
    <3>1. ASSUME NEW k \in K, NEW i \in G[k] PROVE i \in 1 .. n + 1 /\ h[i] = first
      BY <1>3, <1>8, <2>2, <3>1
    <3>2. ASSUME NEW i \in 1 .. n + 1, h[i] = first PROVE \E k \in K : i \in G[k]
      <4>1. CASE i = n + 1
        BY <2>2, <4>1
      <4>2. CASE i # n + 1
        <5>1. i \in 1 .. n /\ g[i] \in L
          BY <1>3, <1>4, <1>8, <3>2, <4>2
        <5> QED
          BY <2>2, <5>1
      <4> QED
        BY <4>1, <4>2
    <3> QED
      BY <3>1, <3>2
  <2> HIDE DEF K
  <2>9. SaysAll(whole, docs, UNION {G[k] : k \in K})
    BY <1>1, <2>5, <2>6, <2>7, SaysOfParts
  <2> QED
    BY <2>8, <2>9
<1>12. ASSUME NEW p \in 1 .. Len(new.kept), new.kept[p] # Gone, p # first
       PROVE  SaysAll(new.kept[p], docs, {i \in 1 .. n + 1 : h[i] = p})
  <2>1. p \in 1 .. Len(st.kept) /\ p \notin P /\ new.kept[p] = st.kept[p]
    BY <1>1, <1>12
  <2>2. \A i \in 1 .. n : g[i] = p => i \in 1 .. n + 1 /\ h[i] = p
    BY <1>3, <1>5, <2>1
  <2>3. {j \in 1 .. n + 1 : h[j] = p} = {j \in 1 .. n : g[j] = p}
    BY <1>9, <1>12, <2>2
  <2> QED
    BY <1>12, <2>1, <2>3 DEF Accounts
<1>13. Accounts(h, new, docs, n + 1)
  BY <1>1, <1>6, <1>10, <1>11, <1>12, Zenon DEF Accounts
<1> QED
  BY <1>13


LEMMA AbsorbedRecurs ==
  ASSUME NEW docs \in Seq(Document)
  PROVE  \E st : /\ st[0] = Nothing
                 /\ \A m \in 1 .. Len(docs) : st[m] = Absorb(st[m - 1], docs[m])
                 /\ Absorbed(docs) = st[Len(docs)]
<1> DEFINE n == Len(docs)
           At(m, F) == IF m = 0 THEN Nothing ELSE Absorb(F[m - 1], docs[m])
           st == CHOOSE F : F = [m \in 0 .. n |-> At(m, F)]
           A == {k \in Nat : \E F : F = [m \in 0 .. k |-> At(m, F)]}
<1>1. Absorbed(docs) = st[n]
  BY Zenon DEF Absorbed
<1>2. \A F, G, m : (m # 0 => F[m - 1] = G[m - 1]) => At(m, F) = At(m, G)
  BY Zenon
<1>3. \A F, m : (m = 0 => At(m, F) = Nothing) /\ (m # 0 => At(m, F) = Absorb(F[m - 1], docs[m]))
  BY Zenon
<1>4. n \in Nat
  OBVIOUS
<1> HIDE DEF At, n
<1>5. 0 \in A
  <2> DEFINE F == [m \in 0 .. 0 |-> At(m, <<>>)]
  <2>1. \A m \in 0 .. 0 : At(m, <<>>) = At(m, F)
    <3>1. \A m \in 0 .. 0 : m = 0
      OBVIOUS
    <3> HIDE DEF F
    <3> QED
      BY <1>2, <3>1
  <2>2. F = [m \in 0 .. 0 |-> At(m, F)]
    BY <2>1
  <2> HIDE DEF F
  <2> QED
    BY <2>2
<1>6. ASSUME NEW k \in Nat, k \in A PROVE k + 1 \in A
  <2>1. PICK F : F = [m \in 0 .. k |-> At(m, F)]
    BY <1>6
  <2> DEFINE G == [m \in 0 .. k + 1 |-> At(m, F)]
  <2>2. \A m \in 0 .. k + 1 : m # 0 => m - 1 \in 0 .. k /\ m - 1 \in 0 .. k + 1
    OBVIOUS
  <2>3. \A m \in 0 .. k : F[m] = At(m, F)
    BY <2>1
  <2>4. \A m \in 0 .. k + 1 : G[m] = At(m, F)
    OBVIOUS
  <2>5. \A m \in 0 .. k + 1 : At(m, F) = At(m, G)
    <3> SUFFICES ASSUME NEW m \in 0 .. k + 1 PROVE At(m, F) = At(m, G)
      OBVIOUS
    <3> HIDE DEF G
    <3>1. m # 0 => F[m - 1] = G[m - 1]
      BY <2>2, <2>3, <2>4
    <3> QED
      BY <1>2, <3>1
  <2>6. G = [m \in 0 .. k + 1 |-> At(m, G)]
    BY <2>5
  <2> HIDE DEF G
  <2> QED
    BY <2>6
<1> HIDE DEF A
<1>7. n \in A
  BY <1>4, <1>5, <1>6, NatSetInduction
<1>8. st = [m \in 0 .. n |-> At(m, st)]
  BY <1>7, Zenon DEF A
<1> HIDE DEF st
<1>9. st[0] = Nothing
  <2>1. st[0] = At(0, st)
    BY <1>4, <1>8
  <2> QED
    BY <1>3, <2>1
<1>10. ASSUME NEW m \in 1 .. n PROVE st[m] = Absorb(st[m - 1], docs[m])
  <2>1. m \in 0 .. n /\ m # 0
    BY <1>4
  <2>2. st[m] = At(m, st)
    BY <1>8, <2>1
  <2> QED
    BY <1>3, <2>1, <2>2
<1> QED
  BY <1>1, <1>9, <1>10, Zenon DEF n

\* The state of the loop after all documents.
LEMMA AbsorbedIs ==
  ASSUME NEW docs \in Seq(Document)
  PROVE  /\ Sane(Absorbed(docs))
         /\ \E g : Accounts(g, Absorbed(docs), docs, Len(docs))
<1>1. PICK st : /\ st[0] = Nothing
                /\ \A m \in 1 .. Len(docs) : st[m] = Absorb(st[m - 1], docs[m])
                /\ Absorbed(docs) = st[Len(docs)]
  BY AbsorbedRecurs
<1> DEFINE Done(m) == Sane(st[m]) /\ \E g : Accounts(g, st[m], docs, m)
           A == {m \in Nat : m <= Len(docs) => Done(m)}
<1>2. 0 \in A
  <2>1. Sane(Nothing)
    BY DEF Sane, Nothing
  <2>2. Accounts(<<>>, Nothing, docs, 0)
    BY DEF Accounts, Nothing
  <2> QED
    BY <1>1, <2>1, <2>2
<1>3. ASSUME NEW m \in Nat, m \in A PROVE m + 1 \in A
  <2>1. SUFFICES ASSUME m + 1 <= Len(docs) PROVE Done(m + 1)
    OBVIOUS
  <2>2. Len(docs) \in Nat /\ m + 1 \in 1 .. Len(docs) /\ (m + 1) - 1 = m
    BY <2>1
  <2>3. Done(m)
    BY <1>3, <2>1, <2>2
  <2>4. PICK g : Accounts(g, st[m], docs, m)
    BY <2>3
  <2>5. st[m + 1] = Absorb(st[m], docs[m + 1]) /\ docs[m + 1] \in Document
    BY <1>1, <2>2
  <2>6. PICK P, first, whole : Absorbs(st[m], st[m + 1], docs[m + 1], P, first, whole)
    BY <2>3, <2>5, AbsorbIs
  <2>7. Sane(st[m + 1])
    BY <2>3, <2>6, AbsorbSane
  <2>8. \E h : Accounts(h, st[m + 1], docs, m + 1)
    BY <2>1, <2>3, <2>4, <2>6, AbsorbAccounts
  <2> QED
    BY <2>7, <2>8
<1> HIDE DEF A, Done
<1>4. Len(docs) \in A /\ Len(docs) \in Nat
  BY <1>2, <1>3, NatSetInduction
<1>5. Done(Len(docs))
  BY <1>4 DEF A
<1> QED
  BY <1>1, <1>5 DEF Done

-----------------------------------------------------------------------------
(***************************************************************************)
(* What the removal of duplicates promises                                 *)
(***************************************************************************)

\* Every document went into one result, which says all that they say.
Merges(into, docs) ==
  /\ into \in [DOMAIN docs -> Deduped(docs)]
  /\ \A r \in Deduped(docs) : SaysAll(r, docs, {i \in DOMAIN docs : into[i] = r})

\* No two results share what identifies a document.
Distinct(results) ==
  \A r, q \in results :
    \/ r.title = q.title
    \/ r.no # 0 /\ r.no = q.no
    \/ r.source = q.source /\ r.url = q.url
    => r = q

LEMMA ResultsAre ==
  ASSUME NEW docs \in Seq(Document)
  PROVE  /\ Distinct(Deduped(docs))
         /\ Deduped(docs) \subseteq Document
         /\ \E into : Merges(into, docs)
<1> DEFINE kept == Absorbed(docs).kept
           at == Absorbed(docs).at
<1>1. PICK g : Accounts(g, Absorbed(docs), docs, Len(docs))
  BY AbsorbedIs
<1>2. /\ kept \in Seq(Document \union {Gone})
      /\ \A p \in 1 .. Len(kept) : kept[p] # Gone =>
           \A k \in MainKeys(kept[p]) : k \in DOMAIN at /\ at[k] = p
  BY AbsorbedIs DEF Sane
<1>3. /\ g \in [1 .. Len(docs) -> 1 .. Len(kept)]
      /\ \A i \in 1 .. Len(docs) : kept[g[i]] # Gone
      /\ \A p \in 1 .. Len(kept) : kept[p] # Gone =>
           SaysAll(kept[p], docs, {j \in 1 .. Len(docs) : g[j] = p})
  BY <1>1, Zenon DEF Accounts
<1>4. Deduped(docs) = {kept[p] : p \in {p \in 1 .. Len(kept) : kept[p] # Gone}}
  <2>1. DOMAIN kept = 1 .. Len(kept)
    BY <1>2
  <2>2. Deduped(docs) = {kept[p] : p \in DOMAIN kept} \ {Gone}
    BY Zenon DEF Deduped, Range
  <2> HIDE DEF kept
  <2> QED
    BY <2>1, <2>2
<1> HIDE DEF kept, at
<1>5. ASSUME NEW p \in 1 .. Len(kept), NEW q \in 1 .. Len(kept), kept[p] # Gone, kept[q] # Gone,
             NEW k \in MainKeys(kept[p]) \intersect MainKeys(kept[q])
      PROVE  p = q
  <2>1. at[k] = p /\ at[k] = q
    BY <1>2, <1>5, Zenon
  <2> QED
    BY <2>1
<1>6. ASSUME NEW p \in 1 .. Len(kept), NEW q \in 1 .. Len(kept), kept[p] # Gone, kept[q] # Gone,
             \/ kept[p].title = kept[q].title
             \/ kept[p].no # 0 /\ kept[p].no = kept[q].no
             \/ kept[p].source = kept[q].source /\ kept[p].url = kept[q].url
      PROVE  p = q
  <2>1. CASE kept[p].title = kept[q].title
    <3>1. <<"title", kept[p].title>> \in MainKeys(kept[p]) \intersect MainKeys(kept[q])
      BY <2>1 DEF MainKeys
    <3> QED
      BY <1>5, <1>6, <3>1
  <2>2. CASE kept[p].no # 0 /\ kept[p].no = kept[q].no
    <3>1. <<"no", kept[p].no>> \in MainKeys(kept[p]) \intersect MainKeys(kept[q])
      BY <2>2 DEF MainKeys
    <3> QED
      BY <1>5, <1>6, <3>1
  <2>3. CASE kept[p].source = kept[q].source /\ kept[p].url = kept[q].url
    <3>1. <<"url", kept[p].source, kept[p].url>> \in MainKeys(kept[p]) \intersect MainKeys(kept[q])
      BY <2>3 DEF MainKeys
    <3> QED
      BY <1>5, <1>6, <3>1
  <2> QED
    BY <1>6, <2>1, <2>2, <2>3
<1>7. Distinct(Deduped(docs))
  BY <1>4, <1>6 DEF Distinct
<1>8. Deduped(docs) \subseteq Document
  <2>1. \A p \in 1 .. Len(kept) : kept[p] \in Document \union {Gone}
    BY <1>2
  <2> QED
    BY <1>4, <2>1
<1> DEFINE n == Len(docs)
           into == [i \in 1 .. n |-> kept[g[i]]]
<1>9. DOMAIN docs = 1 .. n
  OBVIOUS
<1> HIDE DEF n
<1>10. \A i \in 1 .. n : g[i] \in 1 .. Len(kept) /\ kept[g[i]] # Gone /\ into[i] = kept[g[i]]
  BY <1>3 DEF n
<1>11. into \in [1 .. n -> Deduped(docs)]
  BY <1>4, <1>10
<1> HIDE DEF into
<1>12. ASSUME NEW r \in Deduped(docs) PROVE SaysAll(r, docs, {j \in 1 .. n : into[j] = r})
  <2>1. PICK p \in 1 .. Len(kept) : kept[p] # Gone /\ r = kept[p]
    BY <1>4
  <2>2. \A j \in 1 .. n : into[j] = r <=> g[j] = p
    <3> SUFFICES ASSUME NEW j \in 1 .. n, into[j] = r PROVE g[j] = p
      BY <1>10, <2>1
    <3>1. kept[g[j]] = kept[p] /\ kept[g[j]] # Gone /\ g[j] \in 1 .. Len(kept)
      BY <1>10, <2>1
    <3> QED
      BY <1>6, <2>1, <3>1
  <2>3. {j \in 1 .. n : into[j] = r} = {j \in 1 .. n : g[j] = p}
    BY <2>2
  <2>4. SaysAll(kept[p], docs, {j \in 1 .. n : g[j] = p})
    BY <1>3, <2>1 DEF n
  <2> QED
    BY <2>1, <2>3, <2>4
<1>13. Merges(into, docs)
  BY <1>9, <1>11, <1>12, Zenon DEF Merges
<1> QED
  BY <1>7, <1>8, <1>13

\* dedupe_policy_documents of any list: every document is part of one result, a result says
\* all that its documents say and nothing else, and no two share a number, a title or an
\* address.
THEOREM DedupSound ==
  ASSUME NEW docs \in Seq(Document)
  PROVE  DedupIsSound(docs)
<1> DEFINE results == Deduped(docs)
<1>1. PICK into : Merges(into, docs)
  BY ResultsAre
<1>2. \E f \in [DOMAIN docs -> results] :
        \A r \in results : SaysAll(r, docs, {i \in DOMAIN docs : f[i] = r})
  BY <1>1, Zenon DEF Merges
<1>3. Distinct(results)
  BY ResultsAre
<1> HIDE DEF results
<1> QED
  BY <1>2, <1>3, Zenon DEF DedupIsSound, Distinct, results

-----------------------------------------------------------------------------
(***************************************************************************)
(* What is listed is merged                                                *)
(***************************************************************************)

\* The members of a finite set of numbers can be listed in their order.
Lists(s, S, n) ==
  /\ s \in [1 .. n -> S]
  /\ Range(s) = S
  /\ \A i, j \in DOMAIN s : i < j => s[i] < s[j]

LEMMA OrderExists ==
  ASSUME NEW S \in SUBSET Nat, IsFiniteSet(S)
  PROVE  \E s : Lists(s, S, Cardinality(S))
<1> DEFINE A == {n \in Nat : \A T \in SUBSET Nat :
                   IsFiniteSet(T) /\ Cardinality(T) = n => \E s : Lists(s, T, n)}
<1>1. 0 \in A
  <2>1. ASSUME NEW T \in SUBSET Nat, IsFiniteSet(T), Cardinality(T) = 0
        PROVE  \E s : Lists(s, T, 0)
    <3>1. T = {}
      BY <2>1, FS_EmptySet
    <3>2. Lists(<<>>, {}, 0)
      BY DEF Lists, Range
    <3> QED
      BY <3>1, <3>2
  <2> QED
    BY <2>1
<1>2. ASSUME NEW n \in Nat, n \in A PROVE n + 1 \in A
  <2>1. SUFFICES ASSUME NEW T \in SUBSET Nat, IsFiniteSet(T), Cardinality(T) = n + 1
                 PROVE  \E s : Lists(s, T, n + 1)
    OBVIOUS
  <2>2. T # {}
    BY <2>1, FS_EmptySet
  <2> DEFINE least == Min(T)
             U == T \ {least}
  <2>3. least \in T /\ \A d \in T : least <= d
    BY <2>2, LeastOfNats
  <2> HIDE DEF least
  <2>4. U \in SUBSET Nat /\ IsFiniteSet(U) /\ Cardinality(U) = n
    <3>1. IsFiniteSet(U) /\ Cardinality(U) = IF least \in T THEN Cardinality(T) - 1
                                             ELSE Cardinality(T)
      BY <2>1, FS_RemoveElement, Zenon
    <3>2. Cardinality(U) = n
      BY <2>1, <2>3, <3>1
    <3> QED
      BY <3>1, <3>2
  <2>5. PICK s : Lists(s, U, n)
    BY <1>2, <2>4
  <2>6. /\ s \in [1 .. n -> U]
        /\ \A d \in U : \E i \in 1 .. n : s[i] = d
        /\ \A i, j \in 1 .. n : i < j => s[i] < s[j]
    BY <2>5 DEF Lists, Range
  <2> DEFINE t == [i \in 1 .. n + 1 |-> IF i = 1 THEN least ELSE s[i - 1]]
  <2>7. \A i \in 1 .. n + 1 : i # 1 => i - 1 \in 1 .. n
    OBVIOUS
  <2>8. \A i \in 1 .. n + 1 : i # 1 => t[i] = s[i - 1] /\ t[i] \in U
    BY <2>6, <2>7
  <2>9. t[1] = least /\ DOMAIN t = 1 .. n + 1
    OBVIOUS
  <2>10. t \in [1 .. n + 1 -> T]
    BY <2>3, <2>8, <2>9
  <2> HIDE DEF t
  <2>11. \A d \in T : \E i \in 1 .. n + 1 : t[i] = d
    <3> SUFFICES ASSUME NEW d \in T PROVE \E i \in 1 .. n + 1 : t[i] = d
      OBVIOUS
    <3>1. CASE d = least
      BY <2>9, <3>1
    <3>2. CASE d \in U
      <4>1. PICK i \in 1 .. n : s[i] = d
        BY <2>6, <3>2
      <4>2. i + 1 \in 1 .. n + 1 /\ i + 1 # 1 /\ (i + 1) - 1 = i
        OBVIOUS
      <4> QED
        BY <2>8, <4>1, <4>2
    <3> QED
      BY <3>1, <3>2
  <2>12. Range(t) = T
    BY <2>9, <2>10, <2>11 DEF Range
  <2>13. ASSUME NEW i \in 1 .. n + 1, NEW j \in 1 .. n + 1, i < j PROVE t[i] < t[j]
    <3>1. j # 1 /\ t[j] = s[j - 1] /\ t[j] \in U
      BY <2>8, <2>13
    <3>2. CASE i = 1
      <4>1. t[j] \in Nat /\ least \in Nat /\ least <= t[j] /\ least # t[j]
        BY <2>3, <3>1
      <4> QED
        BY <2>9, <3>2, <4>1
    <3>3. CASE i # 1
      <4>1. t[i] = s[i - 1] /\ i - 1 \in 1 .. n /\ j - 1 \in 1 .. n /\ i - 1 < j - 1
        BY <2>7, <2>8, <2>13, <3>1, <3>3
      <4> QED
        BY <2>6, <3>1, <4>1
    <3> QED
      BY <3>2, <3>3
  <2>14. Lists(t, T, n + 1)
    BY <2>9, <2>10, <2>12, <2>13 DEF Lists
  <2> QED
    BY <2>14
<1> HIDE DEF A
<1>3. Cardinality(S) \in Nat
  BY FS_CardinalityType
<1>4. Cardinality(S) \in A
  BY <1>1, <1>2, <1>3, NatSetInduction
<1> QED
  BY <1>4 DEF A

\* What is merged is what was listed.
LEMMA ListingIs ==
  ASSUME NEW listed \in SUBSET Docs
  PROVE  /\ Listing(listed) \in Seq(Document)
         /\ \A d \in listed : \E i \in DOMAIN Listing(listed) : Listing(listed)[i] = DocOf[d]
         /\ \A i \in DOMAIN Listing(listed) : \E d \in listed : Listing(listed)[i] = DocOf[d]
<1> DEFINE n == Cardinality(listed)
           order == CHOOSE s \in [1 .. n -> listed] :
                      /\ Range(s) = listed
                      /\ \A i, j \in DOMAIN s : i < j => s[i] < s[j]
<1>1. IsFiniteSet(listed) /\ listed \in SUBSET Nat /\ n \in Nat
  BY DocsAssumption, FS_Subset, FS_CardinalityType
<1>2. \E s : Lists(s, listed, n)
  BY <1>1, OrderExists
<1>3. Listing(listed) = [i \in DOMAIN order |-> DocOf[order[i]]]
  BY DEF Listing
<1>4. order \in [1 .. n -> listed] /\ Range(order) = listed
  BY <1>2, Zenon DEF Lists
<1> HIDE DEF order
<1>5. \A i \in 1 .. n : order[i] \in listed /\ DocOf[order[i]] \in Document
  BY <1>4, DocOfAssumption
<1>6. \A d \in listed : \E i \in 1 .. n : order[i] = d
  BY <1>4 DEF Range
<1>7. DOMAIN order = 1 .. n
  BY <1>4
<1> HIDE DEF n
<1>8. Listing(listed) \in [1 .. n -> Document]
  BY <1>3, <1>5, <1>7
<1>9. Listing(listed) \in Seq(Document)
  BY <1>1, <1>8
<1>10. \A i \in 1 .. n : Listing(listed)[i] = DocOf[order[i]]
  BY <1>3, <1>7
<1>11. DOMAIN Listing(listed) = 1 .. n
  BY <1>8
<1> QED
  BY <1>5, <1>6, <1>9, <1>10, <1>11

\* What is merged is made of what was listed.
LEMMA MergedIs ==
  ASSUME NEW s, sync[s].listed \in SUBSET Docs
  PROVE  /\ Merged(s) \subseteq Document
         /\ sync[s].listed = {} => Merged(s) = {}
<1> DEFINE docs == Listing(sync[s].listed)
<1>1. /\ docs \in Seq(Document)
      /\ \A i \in DOMAIN docs : \E d \in sync[s].listed : docs[i] = DocOf[d]
  BY ListingIs
<1>2. PICK into : Merges(into, docs)
  BY <1>1, ResultsAre
<1>3. Deduped(docs) \subseteq Document
  BY <1>1, ResultsAre
<1>4. ASSUME NEW r \in Deduped(docs) PROVE \E i \in DOMAIN docs : TRUE
  BY <1>2 DEF Merges, SaysAll
<1> HIDE DEF docs
<1> QED
  BY <1>1, <1>3, <1>4 DEF Merged, docs

-----------------------------------------------------------------------------
(***************************************************************************)
(* The inductive invariant                                                 *)
(***************************************************************************)

InFlight(s) == sync[s].pc \in {"look", "url", "flush"}

\* Where a synchronisation stands, and what it can have in its hands there.
FetchFacts(s) ==
  /\ sync[s].pc = "idle" => sync[s].listed = {}
  /\ sync[s].pc \in {"idle", "fetch"} => sync[s].persisted = {}
  /\ ~InFlight(s) => sync[s].wrote = NoRows
  /\ sync[s].pc \in {"url", "flush"} => sync[s].doc \in sync[s].left
  /\ sync[s].pc # "done" => job[s] = "none"

\* What it has flushed, and what is left of what it has to store.
WriteFacts(s) ==
  /\ \A t \in Rows : sync[s].wrote[t].stored =>
       /\ sync[s].wrote[t].job = s
       /\ sync[s].persisted # {}
       /\ sync[s].wrote[t].projected => event[t] # {}
       /\ row[t].attached \subseteq sync[s].wrote[t].attached
  /\ InFlight(s) =>
       \A r \in Merged(s) : r \in sync[s].left \/ \E t \in Rows : <<r, t>> \in sync[s].persisted
  /\ InFlight(s) =>
       \A r \in Document, t \in Rows : <<r, t>> \in sync[s].persisted =>
         sync[s].wrote[t].stored /\ r.attached \subseteq sync[s].wrote[t].attached
  /\ \A t \in Rows : docLock[t] = s <=> sync[s].wrote[t].stored

\* What a projection has listed, added and marked.
ProjFacts(p) ==
  /\ proj[p].pc = "idle" => proj[p] = NewProj
  /\ proj[p].left \union proj[p].added \subseteq Stored
  /\ proj[p].pc = "flush" => proj[p].at \in proj[p].left
  /\ proj[p].found => proj[p].pc = "flush" /\ event[proj[p].at] # {}
  /\ \A t \in proj[p].marked : t \in proj[p].added \/ event[t] # {}
  /\ \A t \in Rows : docLock[t] = p <=> t \in proj[p].marked
  /\ \A t \in Rows : eventLock[t] = p => proj[p].pc # "idle"

RowFacts ==
  \A t \in Rows :
    /\ row[t].stored => row[t].job \in Syncs /\ job[row[t].job] \in {"success", "partial"}
    /\ row[t].projected => event[t] # {}
    /\ event[t] # {} => row[t].stored

JobFacts == \A s \in Syncs : job[s] # "none" => LeftItsRows(s)

IInv ==
  /\ TypeOK
  /\ \A s \in Syncs : FetchFacts(s) /\ WriteFacts(s)
  /\ \A p \in Projectors : ProjFacts(p)
  /\ RowFacts
  /\ JobFacts

-----------------------------------------------------------------------------
(***************************************************************************)
(* Frames                                                                  *)
(***************************************************************************)

LEMMA MergedKept ==
  ASSUME NEW s, sync'[s].listed = sync[s].listed
  PROVE  Merged(s)' = Merged(s)
BY DEF Merged

LEMMA NoRowIsRow ==
  /\ NoRow \in Row /\ NoRows \in [Rows -> Row]
  /\ \A t \in Rows : NoRows[t] = NoRow /\ ~NoRows[t].stored
<1>1. NoRow \in Row /\ ~NoRow.stored
  BY DEF NoRow, Row
<1> QED
  BY <1>1 DEF NoRows

LEMMA NewSyncIsSync == NewSync \in Sync
BY NoRowIsRow DEF NewSync, Sync

LEMMA NewProjIsProj == NewProj \in Proj
BY DEF NewProj, Proj

\* What another transaction's step leaves to a synchronisation.
LEMMA SyncKept ==
  ASSUME NEW s \in Syncs, FetchFacts(s), WriteFacts(s), sync'[s] = sync[s],
         job'[s] = job[s], \A t \in Rows : event[t] \subseteq event'[t],
         \A t \in Rows : docLock'[t] = s <=> docLock[t] = s,
         \A t \in Rows : docLock[t] = s => row'[t].attached = row[t].attached
  PROVE  FetchFacts(s)' /\ WriteFacts(s)'
<1>1. Merged(s)' = Merged(s)
  BY MergedKept
<1>2. FetchFacts(s)'
  BY DEF FetchFacts, InFlight
<1>3. WriteFacts(s)'
  <2>1. ASSUME NEW t \in Rows, sync[s].wrote[t].stored
        PROVE  /\ sync[s].wrote[t].projected => event'[t] # {}
               /\ row'[t].attached \subseteq sync[s].wrote[t].attached
    BY <2>1 DEF WriteFacts
  <2> QED
    BY <1>1, <2>1 DEF WriteFacts, InFlight
<1> QED
  BY <1>2, <1>3

\* What another transaction's step leaves to a projection.
LEMMA ProjKept ==
  ASSUME NEW p \in Projectors, ProjFacts(p), proj'[p] = proj[p], Stored \subseteq Stored',
         \A t \in Rows : event[t] \subseteq event'[t],
         proj[p].at \in Rows \/ ~proj[p].found,
         proj[p].marked \subseteq Rows,
         \A t \in Rows : docLock'[t] = p <=> docLock[t] = p,
         \A t \in Rows : eventLock'[t] = p => eventLock[t] = p
  PROVE  ProjFacts(p)'
BY DEF ProjFacts

\* A job's rows stay, whoever writes them.
LEMMA RowsStay ==
  ASSUME NEW s \in Syncs, LeftItsRows(s), Stored \subseteq Stored',
         sync'[s].listed = sync[s].listed, sync'[s].persisted = sync[s].persisted,
         \A t \in Rows : row[t].attached \subseteq row'[t].attached
  PROVE  LeftItsRows(s)'
<1>1. Merged(s)' = Merged(s)
  BY MergedKept
<1>2. ASSUME NEW r \in Merged(s)
      PROVE  \E t \in Stored' : /\ <<r, t>> \in sync'[s].persisted
                                /\ r.attached \subseteq row'[t].attached
  <2>1. PICK t \in Stored : <<r, t>> \in sync[s].persisted /\ r.attached \subseteq row[t].attached
    BY DEF LeftItsRows
  <2>2. t \in Rows
    BY DEF Stored
  <2> QED
    BY <2>1, <2>2
<1> QED
  BY <1>1, <1>2 DEF LeftItsRows

\* The step of a synchronisation that commits nothing: rows, events and jobs stay.
LEMMA SyncFrame ==
  ASSUME IInv, NEW s \in Syncs, UNCHANGED <<row, event, job, eventLock, proj>>,
         sync' \in [Syncs -> Sync], docLock' \in [Rows -> Txs \union {None}],
         faults' \in 0 .. MaxFaults,
         \A t \in Syncs \ {s} : sync'[t] = sync[t],
         \A x \in Txs \ {s} : \A t \in Rows : docLock'[t] = x <=> docLock[t] = x,
         FetchFacts(s)', WriteFacts(s)', job[s] = "none"
  PROVE  IInv'
<1>1. TypeOK'
  BY DEF IInv, TypeOK
<1>2. \A z \in Syncs : FetchFacts(z)' /\ WriteFacts(z)'
  <2> SUFFICES ASSUME NEW z \in Syncs \ {s} PROVE FetchFacts(z)' /\ WriteFacts(z)'
    OBVIOUS
  <2>1. FetchFacts(z) /\ WriteFacts(z)
    BY DEF IInv
  <2>2. \A t \in Rows : docLock'[t] = z <=> docLock[t] = z
    BY DEF Txs
  <2> QED
    BY <2>1, <2>2, SyncKept
<1>3. \A p \in Projectors : ProjFacts(p)'
  <2> SUFFICES ASSUME NEW p \in Projectors PROVE ProjFacts(p)'
    OBVIOUS
  <2>1. p \in Txs \ {s}
    BY ProcessAssumption DEF Txs
  <2>2. ProjFacts(p) /\ proj[p] \in Proj
    BY DEF IInv, TypeOK
  <2> QED
    BY <2>1, <2>2 DEF ProjFacts, Stored
<1>4. RowFacts'
  BY DEF IInv, RowFacts
<1>5. JobFacts'
  <2> SUFFICES ASSUME NEW z \in Syncs, job'[z] # "none" PROVE LeftItsRows(z)'
    BY DEF JobFacts
  <2>1. z # s /\ LeftItsRows(z)
    BY DEF IInv, JobFacts
  <2>2. Stored' = Stored
    BY DEF Stored
  <2> QED
    BY <2>1, <2>2, RowsStay
<1> QED
  BY <1>1, <1>2, <1>3, <1>4, <1>5 DEF IInv

\* The step of a projection that commits nothing.
LEMMA ProjFrame ==
  ASSUME IInv, NEW p \in Projectors, UNCHANGED <<row, event, job, sync>>,
         proj' \in [Projectors -> Proj], docLock' \in [Rows -> Txs \union {None}],
         eventLock' \in [Rows -> Projectors \union {None}],
         faults' \in 0 .. MaxFaults,
         \A q \in Projectors \ {p} : proj'[q] = proj[q],
         \A x \in Txs \ {p} : \A t \in Rows : docLock'[t] = x <=> docLock[t] = x,
         \A q \in Projectors \ {p} : \A t \in Rows : eventLock'[t] = q => eventLock[t] = q,
         ProjFacts(p)'
  PROVE  IInv'
<1>1. TypeOK'
  BY DEF IInv, TypeOK
<1>2. \A s \in Syncs : FetchFacts(s)' /\ WriteFacts(s)'
  <2> SUFFICES ASSUME NEW s \in Syncs PROVE FetchFacts(s)' /\ WriteFacts(s)'
    OBVIOUS
  <2>1. s \in Txs \ {p}
    BY ProcessAssumption DEF Txs
  <2>2. FetchFacts(s) /\ WriteFacts(s)
    BY DEF IInv
  <2> QED
    BY <2>1, <2>2, SyncKept
<1>3. \A q \in Projectors : ProjFacts(q)'
  <2> SUFFICES ASSUME NEW q \in Projectors \ {p} PROVE ProjFacts(q)'
    OBVIOUS
  <2>1. q \in Txs \ {p}
    BY DEF Txs
  <2>2. ProjFacts(q)
    BY DEF IInv
  <2> QED
    BY <2>1, <2>2 DEF ProjFacts, Stored
<1>4. RowFacts'
  BY DEF IInv, RowFacts
<1>5. JobFacts'
  BY RowsStay DEF IInv, JobFacts, Stored
<1> QED
  BY <1>1, <1>2, <1>3, <1>4, <1>5 DEF IInv

-----------------------------------------------------------------------------
(***************************************************************************)
(* Each step keeps it                                                      *)
(***************************************************************************)

LEMMA InitIInv == Init => IInv
<1> SUFFICES ASSUME Init PROVE IInv
  OBVIOUS
<1>1. TypeOK
  BY NoRowIsRow, NewSyncIsSync, NewProjIsProj, FaultsAssumption
     DEF Init, TypeOK, Events, JobStatuses
<1>2. ASSUME NEW s \in Syncs PROVE FetchFacts(s) /\ WriteFacts(s)
  <2>1. /\ sync[s] = NewSync /\ NewSync.pc = "idle" /\ NewSync.listed = {}
        /\ NewSync.persisted = {} /\ NewSync.wrote = NoRows
    BY DEF Init, NewSync
  <2>2. s # None
    BY ProcessAssumption
  <2> QED
    BY <2>1, <2>2, NoRowIsRow DEF Init, FetchFacts, WriteFacts, InFlight
<1>3. ASSUME NEW p \in Projectors PROVE ProjFacts(p)
  BY ProcessAssumption DEF Init, ProjFacts, NewProj
<1>4. RowFacts /\ JobFacts
  BY DEF Init, RowFacts, JobFacts, NoRow, NoRows
<1> QED
  BY <1>1, <1>2, <1>3, <1>4 DEF IInv

LEMMA SkipSyncInv == ASSUME IInv, NEW s \in Syncs, SkipSync(s) PROVE IInv'
<1>1. /\ sync[s] \in Sync /\ FetchFacts(s) /\ WriteFacts(s) /\ sync[s].pc = "idle"
      /\ sync' = [sync EXCEPT ![s] = [sync[s] EXCEPT !.pc = "done"]]
  BY DEF SkipSync, IInv, TypeOK
<1>2. /\ sync' \in [Syncs -> Sync]
      /\ \A z \in Syncs \ {s} : sync'[z] = sync[z]
      /\ sync'[s].pc = "done" /\ sync'[s].listed = {} /\ sync'[s].wrote = NoRows
  BY <1>1 DEF IInv, TypeOK, Sync, FetchFacts, InFlight
<1>3. /\ UNCHANGED <<row, event, docLock, eventLock, proj, faults>>
      /\ job' = [job EXCEPT ![s] = "success"]
      /\ job' \in [Syncs -> JobStatuses] /\ job[s] = "none"
      /\ \A z \in Syncs \ {s} : job'[z] = job[z]
      /\ \A z \in Syncs : job[z] \in {"success", "partial"} => job'[z] = job[z]
  BY <1>1 DEF SkipSync, IInv, TypeOK, JobStatuses, FetchFacts
<1>4. TypeOK'
  BY <1>2, <1>3 DEF IInv, TypeOK
<1>5. ASSUME NEW z \in Syncs PROVE FetchFacts(z)' /\ WriteFacts(z)'
  <2>1. CASE z = s
    <3>1. \A t \in Rows : docLock[t] # s
      BY <1>1, NoRowIsRow DEF WriteFacts, FetchFacts, InFlight
    <3> QED
      BY <2>1, <1>2, <1>3, <3>1, NoRowIsRow DEF FetchFacts, WriteFacts, InFlight
  <2>2. CASE z # s
    BY <2>2, <1>2, <1>3, SyncKept DEF IInv
  <2> QED
    BY <2>1, <2>2
<1>6. ASSUME NEW p \in Projectors PROVE ProjFacts(p)'
  BY <1>3 DEF IInv, ProjFacts, Stored
<1>7. RowFacts'
  BY <1>3 DEF IInv, RowFacts
<1>8. JobFacts'
  <2> SUFFICES ASSUME NEW z \in Syncs, job'[z] # "none" PROVE LeftItsRows(z)'
    BY DEF JobFacts
  <2>1. CASE z = s
    <3>1. Merged(s) = {} /\ Merged(s)' = Merged(s)
      BY <1>1, <1>2, MergedIs, MergedKept DEF FetchFacts
    <3> QED
      BY <2>1, <3>1 DEF LeftItsRows
  <2>2. CASE z # s
    BY <2>2, <1>2, <1>3, RowsStay DEF IInv, JobFacts, Stored
  <2> QED
    BY <2>1, <2>2
<1> QED
  BY <1>4, <1>5, <1>6, <1>7, <1>8 DEF IInv

\* Before the first flush nothing is written and nobody waits.
LEMMA FetchSteps ==
  ASSUME IInv, NEW s \in Syncs, NEW new \in Sync,
         sync[s].pc \in {"idle", "fetch"}, sync' = [sync EXCEPT ![s] = new],
         \/ new.pc = "fetch"
         \/ new.pc = "look" /\ new.left = Merged(s) /\ new.listed = sync[s].listed,
         new.wrote = sync[s].wrote, new.persisted = sync[s].persisted,
         UNCHANGED <<row, event, job, docLock, eventLock, proj, faults>>
  PROVE  IInv'
<1>1. sync[s] \in Sync /\ FetchFacts(s) /\ WriteFacts(s)
  BY DEF IInv, TypeOK
<1>2. /\ sync' \in [Syncs -> Sync] /\ sync'[s] = new
      /\ \A z \in Syncs \ {s} : sync'[z] = sync[z]
  BY DEF IInv, TypeOK
<1>3. /\ new.wrote = NoRows /\ new.persisted = {} /\ job[s] = "none"
      /\ \A t \in Rows : docLock[t] # s
  BY <1>1, NoRowIsRow DEF FetchFacts, WriteFacts, InFlight
<1>4. FetchFacts(s)'
  BY <1>2, <1>3 DEF FetchFacts, InFlight
<1>5. new.pc = "look" => Merged(s)' = new.left
  BY <1>2, MergedKept
<1>6. WriteFacts(s)'
  BY <1>2, <1>3, <1>5, NoRowIsRow DEF WriteFacts, InFlight
<1> QED
  BY <1>2, <1>3, <1>4, <1>6, SyncFrame DEF IInv, TypeOK

LEMMA StartSyncInv == ASSUME IInv, NEW s \in Syncs, StartSync(s) PROVE IInv'
<1> DEFINE new == [sync[s] EXCEPT !.pc = "fetch", !.todo = Providers]
<1>1. sync[s] \in Sync /\ sync[s].pc = "idle" /\ sync' = [sync EXCEPT ![s] = new]
  BY DEF StartSync, IInv, TypeOK
<1>2. /\ new \in Sync /\ new.pc = "fetch" /\ new.wrote = sync[s].wrote
      /\ new.persisted = sync[s].persisted
  BY <1>1 DEF Sync
<1> HIDE DEF new
<1> QED
  BY <1>1, <1>2, FetchSteps DEF StartSync

LEMMA FetchProviderInv == ASSUME IInv, NEW s \in Syncs, FetchProvider(s) PROVE IInv'
<1>1. sync[s] \in Sync /\ sync[s].pc = "fetch"
  BY DEF FetchProvider, IInv, TypeOK
<1>2. PICK p \in sync[s].todo, raised \in {0, 1} :
        \E L \in SUBSET {d \in Docs : DocOf[d].source = p} :
          sync' = [sync EXCEPT ![s].todo = @ \ {p}, ![s].listed = @ \union L,
                               ![s].failed = @ + raised]
  BY DEF FetchProvider
<1>3. PICK L \in SUBSET Docs :
        sync' = [sync EXCEPT ![s].todo = @ \ {p}, ![s].listed = @ \union L,
                             ![s].failed = @ + raised]
  BY <1>2
<1> DEFINE new == [sync[s] EXCEPT !.todo = @ \ {p}, !.listed = @ \union L,
                                  !.failed = @ + raised]
<1>4. sync' = [sync EXCEPT ![s] = new]
  BY <1>3 DEF IInv, TypeOK
<1>5. /\ new \in Sync /\ new.pc = "fetch" /\ new.wrote = sync[s].wrote
      /\ new.persisted = sync[s].persisted
  <2>1. /\ sync[s].todo \ {p} \in SUBSET Providers
        /\ sync[s].listed \union L \in SUBSET Docs
        /\ sync[s].failed + raised \in Nat
    BY <1>1 DEF Sync
  <2> QED
    BY <1>1, <2>1 DEF Sync
<1> HIDE DEF new
<1> QED
  BY <1>1, <1>4, <1>5, FetchSteps DEF FetchProvider

LEMMA DedupeAllInv == ASSUME IInv, NEW s \in Syncs, DedupeAll(s) PROVE IInv'
<1> DEFINE new == [sync[s] EXCEPT !.pc = "look", !.left = Merged(s)]
<1>1. sync[s] \in Sync /\ sync[s].pc = "fetch" /\ sync' = [sync EXCEPT ![s] = new]
  BY DEF DedupeAll, IInv, TypeOK
<1>2. Merged(s) \in SUBSET Document
  BY <1>1, MergedIs DEF Sync
<1>3. /\ new \in Sync /\ new.pc = "look" /\ new.wrote = sync[s].wrote
      /\ new.persisted = sync[s].persisted /\ new.left = Merged(s)
      /\ new.listed = sync[s].listed
  BY <1>1, <1>2 DEF Sync
<1> HIDE DEF new
<1> QED
  BY <1>1, <1>3, FetchSteps DEF DedupeAll

\* A look-up changes nothing but where the synchronisation stands and what it holds.
LEMMA LookUps ==
  ASSUME IInv, NEW s \in Syncs, NEW new \in Sync,
         InFlight(s), sync' = [sync EXCEPT ![s] = new],
         new.pc \in {"url", "flush"}, new.doc \in new.left, new.left = sync[s].left,
         new.listed = sync[s].listed, new.wrote = sync[s].wrote,
         new.persisted = sync[s].persisted,
         UNCHANGED <<row, event, job, docLock, eventLock, proj, faults>>
  PROVE  IInv'
<1>1. sync[s] \in Sync /\ FetchFacts(s) /\ WriteFacts(s)
  BY DEF IInv, TypeOK
<1>2. /\ sync' \in [Syncs -> Sync] /\ sync'[s] = new
      /\ \A z \in Syncs \ {s} : sync'[z] = sync[z]
  BY DEF IInv, TypeOK
<1>3. job[s] = "none"
  BY <1>1 DEF FetchFacts, InFlight
<1>4. FetchFacts(s)'
  BY <1>2, <1>3 DEF FetchFacts, InFlight
<1>5. Merged(s)' = Merged(s)
  BY <1>2, MergedKept
<1>6. WriteFacts(s)'
  BY <1>1, <1>2, <1>5 DEF WriteFacts, InFlight
<1> QED
  BY <1>2, <1>3, <1>4, <1>6, SyncFrame DEF IInv, TypeOK

LEMMA ReadIsRow ==
  ASSUME IInv, NEW s \in Syncs, NEW t \in Rows
  PROVE  /\ Read(s, t) \in Row
         /\ Read(s, t).projected => event[t] # {}
         /\ row[t].attached \subseteq Read(s, t).attached
         /\ sync[s].wrote[t].stored => Read(s, t) = sync[s].wrote[t]
<1>1. sync[s].wrote[t] \in Row /\ row[t] \in Row /\ WriteFacts(s)
  BY DEF IInv, TypeOK, Sync
<1> QED
  BY <1>1 DEF Read, IInv, RowFacts, WriteFacts

\* The row is found, or there is none.
LEMMA FoundOrNot ==
  ASSUME IInv, NEW s \in Syncs, InFlight(s), NEW r \in sync[s].left,
         \/ sync' = [sync EXCEPT ![s].pc = "url", ![s].doc = r]
         \/ sync' = [sync EXCEPT ![s].pc = "flush", ![s].doc = r]
         \/ \E t \in Rows : Find(s, r, t),
         UNCHANGED <<row, event, job, docLock, eventLock, proj, faults>>
  PROVE  IInv'
<1>1. sync[s] \in Sync /\ r \in Document
  BY DEF IInv, TypeOK, Sync
<1>2. ASSUME NEW pc \in {"url", "flush"}, sync' = [sync EXCEPT ![s].pc = pc, ![s].doc = r]
      PROVE  IInv'
  <2> DEFINE new == [sync[s] EXCEPT !.pc = pc, !.doc = r]
  <2>1. sync' = [sync EXCEPT ![s] = new]
    BY <1>2 DEF IInv, TypeOK
  <2>2. /\ new \in Sync /\ new.pc = pc /\ new.doc = r /\ new.left = sync[s].left
        /\ new.listed = sync[s].listed /\ new.wrote = sync[s].wrote
        /\ new.persisted = sync[s].persisted
    BY <1>1 DEF Sync
  <2> HIDE DEF new
  <2> QED
    BY <2>1, <2>2, LookUps
<1>3. ASSUME NEW t \in Rows, Find(s, r, t) PROVE IInv'
  <2> DEFINE new == [sync[s] EXCEPT !.pc = "flush", !.doc = r, !.target = t,
                                    !.seen = Loaded(s, t)]
  <2>1. sync' = [sync EXCEPT ![s] = new]
    BY <1>3 DEF Find, IInv, TypeOK
  <2>2. Loaded(s, t) \in [Rows -> Row]
    <3>1. Read(s, t) \in Row /\ sync[s].seen \in [Rows -> Row]
      BY <1>1, ReadIsRow DEF Sync
    <3> QED
      BY <3>1 DEF Loaded
  <2>3. /\ new \in Sync /\ new.pc = "flush" /\ new.doc = r /\ new.left = sync[s].left
        /\ new.listed = sync[s].listed /\ new.wrote = sync[s].wrote
        /\ new.persisted = sync[s].persisted
    BY <1>1, <2>2 DEF Sync
  <2> HIDE DEF new
  <2> QED
    BY <2>1, <2>3, LookUps
<1> QED
  BY <1>2, <1>3

LEMMA LookUpByIdInv == ASSUME IInv, NEW s \in Syncs, LookUpById(s) PROVE IInv'
<1>1. PICK r \in NextToStore(sync[s].left) :
        IF ById(s, r) = {}
          THEN sync' = [sync EXCEPT ![s].pc = "url", ![s].doc = r]
          ELSE \E t \in ById(s, r) : Find(s, r, t)
  BY DEF LookUpById
<1>2. r \in sync[s].left /\ InFlight(s)
  BY DEF NextToStore, LookUpById, InFlight
<1>3. \/ sync' = [sync EXCEPT ![s].pc = "url", ![s].doc = r]
      \/ \E t \in Rows : Find(s, r, t)
  BY <1>1 DEF ById
<1> QED
  BY <1>2, <1>3, FoundOrNot DEF LookUpById

LEMMA LookUpByUrlInv == ASSUME IInv, NEW s \in Syncs, LookUpByUrl(s) PROVE IInv'
<1>1. PICK r \in sync[s].left :
        /\ sync[s].pc \in {"look", "url"}
        /\ IF ByUrl(s, r) = {}
             THEN sync' = [sync EXCEPT ![s].pc = "flush", ![s].doc = r]
             ELSE \E t \in ByUrl(s, r) : Find(s, r, t)
  BY DEF LookUpByUrl
<1>2. InFlight(s)
  BY <1>1 DEF InFlight
<1>3. \/ sync' = [sync EXCEPT ![s].pc = "flush", ![s].doc = r]
      \/ \E t \in Rows : Find(s, r, t)
  BY <1>1 DEF ByUrl
<1> QED
  BY <1>2, <1>3, FoundOrNot DEF LookUpByUrl

\* What is written is a row of the document's job, with nothing taken from the row it
\* overwrites but the marks and attachments of that row.
LEMMA OverwrittenIs ==
  ASSUME IInv, NEW s \in Syncs, NEW t \in Rows, sync[s].doc \in Document
  PROVE  /\ Overwritten(s, t) \in Row /\ Held(s, t) \in Row
         /\ Overwritten(s, t).stored
         /\ Overwritten(s, t).job = s
         /\ Overwritten(s, t).projected => event[t] # {}
         /\ row[t].attached \subseteq Overwritten(s, t).attached
         /\ sync[s].doc.attached \subseteq Overwritten(s, t).attached
         /\ sync[s].wrote[t].stored =>
              sync[s].wrote[t].attached \subseteq Overwritten(s, t).attached
<1> DEFINE r == sync[s].doc
           was == Read(s, t)
           old == sync[s].seen[t]
           id == IF r.id = old.id THEN was.id ELSE r.id
           url == IF r.url = old.url THEN was.url ELSE r.url
           projected == was.projected /\ ~old.projected
           attached == was.attached \union r.attached
           w == Overwritten(s, t)
<1>1. /\ was \in Row /\ (was.projected => event[t] # {})
      /\ row[t].attached \subseteq was.attached
      /\ sync[s].wrote[t].stored => was = sync[s].wrote[t]
  BY ReadIsRow
<1>2. old \in Row
  BY DEF IInv, TypeOK, Sync
<1>3. /\ r.id \in Nat /\ r.url \in Nat /\ r.source \in Nat /\ r.attached \in SUBSET Nat
      /\ r.id = r.id
  BY DEF Document
<1>4. w = [was EXCEPT !.stored = TRUE, !.source = r.source, !.job = s, !.id = id, !.url = url,
                      !.projected = projected, !.attached = attached]
  BY DEF Overwritten
<1> HIDE DEF was, old
<1>5. /\ id \in Nat /\ url \in Nat /\ projected \in BOOLEAN /\ attached \in SUBSET Nat
      /\ projected => event[t] # {}
      /\ row[t].attached \subseteq attached /\ r.attached \subseteq attached
      /\ was.attached \subseteq attached
  BY <1>1, <1>2, <1>3 DEF Row
<1> HIDE DEF id, url, projected, attached
<1>6. /\ w \in Row /\ w.stored /\ w.job = s /\ w.projected = projected
      /\ w.attached = attached
  BY <1>1, <1>3, <1>4, <1>5 DEF Row
<1>7. Held(s, t) \in Row
  <2>1. Held(s, t) = [w EXCEPT !.id = r.id, !.url = r.url, !.projected = FALSE]
    BY DEF Held
  <2> HIDE DEF w, r
  <2> QED
    BY <1>3, <1>6, <2>1 DEF Row
<1> QED
  BY <1>1, <1>5, <1>6, <1>7

LEMMA FlushDocumentInv == ASSUME IInv, NEW s \in Syncs, FlushDocument(s) PROVE IInv'
<1>1. sync[s] \in Sync /\ FetchFacts(s) /\ WriteFacts(s) /\ sync[s].pc = "flush"
  BY DEF IInv, TypeOK, FlushDocument
<1>2. PICK t \in Target(s) : /\ Ahead(s, t) = {}
                             /\ docLock' = [docLock EXCEPT ![t] = s]
                             /\ Flushed(s, t)
  BY DEF FlushDocument
<1> DEFINE r == sync[s].doc
           seen == [sync[s].seen EXCEPT ![t] = Held(s, t)]
           w == [sync[s].wrote EXCEPT ![t] = Overwritten(s, t)]
           persisted == sync[s].persisted \union {<<r, t>>}
           new == [sync[s] EXCEPT !.pc = "look", !.doc = None, !.target = None,
                                  !.left = @ \ {r}, !.seen = seen, !.wrote = w,
                                  !.persisted = persisted]
<1>3. sync' = [sync EXCEPT ![s] = new]
  BY <1>2 DEF Flushed, IInv, TypeOK
<1>4. /\ t \in Rows /\ r \in sync[s].left /\ r \in Document
      /\ docLock[t] \in {None, s}
  <2>1. t \in Rows
    BY <1>1 DEF Target, Sync
  <2>2. docLock[t] \in Txs \union {None} /\ docLock[t] \notin Txs \ {s}
    BY <1>2, <2>1 DEF Ahead, IInv, TypeOK
  <2> QED
    BY <1>1, <2>1, <2>2 DEF FetchFacts, Sync
<1>5. /\ Overwritten(s, t) \in Row /\ Held(s, t) \in Row
      /\ Overwritten(s, t).stored
      /\ Overwritten(s, t).job = s
      /\ Overwritten(s, t).projected => event[t] # {}
      /\ row[t].attached \subseteq Overwritten(s, t).attached
      /\ r.attached \subseteq Overwritten(s, t).attached
      /\ sync[s].wrote[t].stored =>
           sync[s].wrote[t].attached \subseteq Overwritten(s, t).attached
  BY <1>4, OverwrittenIs
<1>6. /\ seen \in [Rows -> Row] /\ w \in [Rows -> Row]
      /\ persisted \in SUBSET (Document \X Rows) /\ <<r, t>> \in persisted
      /\ w[t] = Overwritten(s, t)
      /\ \A u \in Rows \ {t} : w[u] = sync[s].wrote[u]
  BY <1>1, <1>4, <1>5 DEF Sync
<1>7. \A q, u : <<q, u>> \in persisted => <<q, u>> \in sync[s].persisted \/ (q = r /\ u = t)
  OBVIOUS
<1>8. sync[s].persisted \subseteq persisted
  OBVIOUS
<1> HIDE DEF seen, w, persisted
<1>9. /\ new \in Sync /\ new.pc = "look" /\ new.left = sync[s].left \ {r}
      /\ new.listed = sync[s].listed /\ new.wrote = w /\ new.persisted = persisted
  BY <1>1, <1>6 DEF Sync
<1> HIDE DEF new
<1>10. /\ sync' \in [Syncs -> Sync] /\ sync'[s] = new
       /\ \A z \in Syncs \ {s} : sync'[z] = sync[z]
  BY <1>3, <1>9 DEF IInv, TypeOK
<1>11. /\ docLock' \in [Rows -> Txs \union {None}]
       /\ docLock'[t] = s /\ \A u \in Rows \ {t} : docLock'[u] = docLock[u]
  BY <1>2, <1>4 DEF IInv, TypeOK, Txs
<1>12. /\ UNCHANGED <<row, event, job, eventLock, proj, faults>>
       /\ job[s] = "none" /\ faults' \in 0 .. MaxFaults
  BY <1>1 DEF FlushDocument, FetchFacts, IInv, TypeOK
<1>13. FetchFacts(s)'
  BY <1>9, <1>10, <1>12 DEF FetchFacts, InFlight
<1>14. WriteFacts(s)'
  <2>1. Merged(s)' = Merged(s)
    BY <1>9, <1>10, MergedKept
  <2>2. \A u \in Rows : w[u].stored <=> (u = t \/ sync[s].wrote[u].stored)
    BY <1>5, <1>6
  <2>3. \A u \in Rows : w[u].stored =>
          /\ w[u].job = s
          /\ persisted # {}
          /\ w[u].projected => event[u] # {}
          /\ row[u].attached \subseteq w[u].attached
    BY <1>1, <1>5, <1>6 DEF WriteFacts
  <2>4. \A q \in Merged(s) : q \in sync[s].left \ {r} \/ \E u \in Rows : <<q, u>> \in persisted
    BY <1>1, <1>4, <1>6, <1>8 DEF WriteFacts, InFlight
  <2>5. ASSUME NEW q \in Document, NEW u \in Rows, <<q, u>> \in persisted
        PROVE  w[u].stored /\ q.attached \subseteq w[u].attached
    <3>1. CASE q = r /\ u = t
      BY <3>1, <1>5, <1>6
    <3>2. CASE <<q, u>> \in sync[s].persisted
      <4>1. sync[s].wrote[u].stored /\ q.attached \subseteq sync[s].wrote[u].attached
        BY <3>2, <1>1 DEF WriteFacts, InFlight
      <4> QED
        BY <4>1, <1>5, <1>6
    <3> QED
      BY <2>5, <3>1, <3>2, <1>7
  <2>6. \A u \in Rows : docLock'[u] = s <=> w[u].stored
    BY <1>1, <1>11, <2>2 DEF WriteFacts
  <2> QED
    BY <1>9, <1>10, <1>12, <2>1, <2>3, <2>4, <2>5, <2>6 DEF WriteFacts, InFlight
<1>15. \A x \in Txs \ {s} : \A u \in Rows : docLock'[u] = x <=> docLock[u] = x
  BY <1>4, <1>11, ProcessAssumption DEF Txs
<1> QED
  BY <1>10, <1>11, <1>12, <1>13, <1>14, <1>15, SyncFrame

\* What the end of a transaction leaves of the locks.
LEMMA ReleasedIs ==
  ASSUME IInv, NEW x \in Txs, docLock' = Released(docLock, x)
  PROVE  /\ docLock' \in [Rows -> Txs \union {None}]
         /\ \A t \in Rows : docLock'[t] # x
         /\ \A y \in Txs \ {x} : \A t \in Rows : docLock'[t] = y <=> docLock[t] = y
BY ProcessAssumption DEF Released, IInv, TypeOK, Txs

\* An abort gives back what was locked; what was flushed is gone with it.
LEMMA AbortSyncInv ==
  ASSUME IInv, NEW s \in Syncs, InFlight(s), AbortSync(s), faults' \in 0 .. MaxFaults
  PROVE  IInv'
<1> DEFINE new == [NewSync EXCEPT !.pc = "done"]
<1>1. /\ new \in Sync /\ new.pc = "done" /\ new.wrote = NoRows
  BY NewSyncIsSync DEF NewSync, Sync
<1>2. sync' = [sync EXCEPT ![s] = new] /\ docLock' = Released(docLock, s)
  BY DEF AbortSync
<1> HIDE DEF new
<1>3. /\ sync' \in [Syncs -> Sync] /\ sync'[s] = new
      /\ \A z \in Syncs \ {s} : sync'[z] = sync[z]
  BY <1>1, <1>2 DEF IInv, TypeOK
<1>4. s \in Txs /\ FetchFacts(s) /\ job[s] = "none"
  BY DEF Txs, IInv, FetchFacts, InFlight
<1>5. /\ docLock' \in [Rows -> Txs \union {None}]
      /\ \A t \in Rows : docLock'[t] # s
      /\ \A y \in Txs \ {s} : \A t \in Rows : docLock'[t] = y <=> docLock[t] = y
  BY <1>2, <1>4, ReleasedIs
<1>6. FetchFacts(s)'
  BY <1>1, <1>3 DEF FetchFacts, InFlight
<1>7. WriteFacts(s)'
  BY <1>1, <1>3, <1>5, NoRowIsRow DEF WriteFacts, InFlight
<1> QED
  BY <1>3, <1>4, <1>5, <1>6, <1>7, SyncFrame DEF AbortSync

LEMMA CommitSyncInv == ASSUME IInv, NEW s \in Syncs, CommitSync(s) PROVE IInv'
<1> DEFINE new == [NewSync EXCEPT !.pc = "done", !.listed = sync[s].listed,
                                  !.persisted = sync[s].persisted]
<1>1. /\ sync[s] \in Sync /\ FetchFacts(s) /\ WriteFacts(s) /\ InFlight(s)
      /\ sync[s].left = {} /\ job[s] = "none"
  BY DEF IInv, TypeOK, CommitSync, InFlight, FetchFacts
<1>2. /\ new \in Sync /\ new.pc = "done" /\ new.wrote = NoRows
      /\ new.listed = sync[s].listed /\ new.persisted = sync[s].persisted
  BY <1>1, NewSyncIsSync DEF NewSync, Sync
<1>3. sync' = [sync EXCEPT ![s] = new]
  BY DEF CommitSync
<1> HIDE DEF new
<1>4. /\ sync' \in [Syncs -> Sync] /\ sync'[s] = new
      /\ \A z \in Syncs \ {s} : sync'[z] = sync[z]
      /\ \A z \in Syncs : /\ sync'[z].listed = sync[z].listed
                          /\ sync'[z].persisted = sync[z].persisted
  BY <1>2, <1>3 DEF IInv, TypeOK
<1>5. docLock' = Released(docLock, s) /\ UNCHANGED <<event, eventLock, proj, faults>>
  BY DEF CommitSync
<1>6. /\ docLock' \in [Rows -> Txs \union {None}]
      /\ \A t \in Rows : docLock'[t] # s
      /\ \A y \in Txs \ {s} : \A t \in Rows : docLock'[t] = y <=> docLock[t] = y
  BY <1>5, ReleasedIs DEF Txs
<1>7. \A t \in Rows : /\ row'[t] = Read(s, t)
                      /\ Read(s, t) = IF sync[s].wrote[t].stored THEN sync[s].wrote[t] ELSE row[t]
                      /\ row[t].attached \subseteq row'[t].attached
                      /\ docLock[t] # s => row'[t] = row[t]
  <2>1. \A t \in Rows : row'[t] = Read(s, t)
    BY DEF CommitSync
  <2> QED
    BY <1>1, <2>1, ReadIsRow DEF Read, WriteFacts
<1>8. row' \in [Rows -> Row]
  BY ReadIsRow DEF CommitSync
<1>9. /\ job' \in [Syncs -> JobStatuses] /\ job'[s] = StatusOf(s)
      /\ \A z \in Syncs \ {s} : job'[z] = job[z]
  <2>1. StatusOf(s) \in JobStatuses
    BY DEF StatusOf, JobStatuses
  <2> QED
    BY <2>1 DEF CommitSync, IInv, TypeOK
<1>10. Stored \subseteq Stored'
  BY <1>7 DEF Stored
<1>11. TypeOK'
  BY <1>4, <1>5, <1>6, <1>8, <1>9 DEF IInv, TypeOK
<1>12. ASSUME NEW z \in Syncs PROVE FetchFacts(z)' /\ WriteFacts(z)'
  <2>1. CASE z = s
    <3>1. FetchFacts(s)'
      BY <1>2, <1>4 DEF FetchFacts, InFlight
    <3>2. WriteFacts(s)'
      BY <1>2, <1>4, <1>6, NoRowIsRow DEF WriteFacts, InFlight
    <3> QED
      BY <2>1, <3>1, <3>2
  <2>2. CASE z # s
    <3>1. /\ FetchFacts(z) /\ WriteFacts(z)
          /\ \A t \in Rows : docLock'[t] = z <=> docLock[t] = z
          /\ \A t \in Rows : docLock[t] = z => row'[t].attached = row[t].attached
      BY <2>2, <1>6, <1>7 DEF IInv, Txs
    <3> QED
      BY <2>2, <1>4, <1>5, <1>9, <3>1, SyncKept
  <2> QED
    BY <2>1, <2>2
<1>13. ASSUME NEW p \in Projectors PROVE ProjFacts(p)'
  <2>1. ProjFacts(p) /\ p \in Txs \ {s}
    BY ProcessAssumption DEF IInv, Txs
  <2> QED
    BY <1>5, <1>6, <1>10, <2>1 DEF ProjFacts
<1>14. \A t \in Rows : sync[s].wrote[t].stored => job'[s] \in {"success", "partial"}
  BY <1>1, <1>9 DEF WriteFacts, StatusOf
<1>15. RowFacts'
  <2> SUFFICES ASSUME NEW t \in Rows
               PROVE  /\ row'[t].stored =>
                           row'[t].job \in Syncs /\ job'[row'[t].job] \in {"success", "partial"}
                      /\ row'[t].projected => event'[t] # {}
                      /\ event'[t] # {} => row'[t].stored
    BY DEF RowFacts
  <2>1. CASE sync[s].wrote[t].stored
    <3>1. row'[t] = sync[s].wrote[t]
      BY <2>1, <1>7
    <3> QED
      BY <2>1, <3>1, <1>1, <1>5, <1>14 DEF WriteFacts
  <2>2. CASE ~ sync[s].wrote[t].stored
    <3>1. row'[t] = row[t]
      BY <2>2, <1>7
    <3>2. row[t].stored => row[t].job # s
      BY <1>1 DEF IInv, RowFacts
    <3> QED
      BY <3>1, <3>2, <1>5, <1>9 DEF IInv, RowFacts
  <2> QED
    BY <2>1, <2>2
<1>16. JobFacts'
  <2> SUFFICES ASSUME NEW z \in Syncs, job'[z] # "none" PROVE LeftItsRows(z)'
    BY DEF JobFacts
  <2>1. CASE z = s
    <3>1. Merged(s)' = Merged(s) /\ Merged(s) \subseteq Document
      BY <1>1, <1>4, MergedKept, MergedIs DEF Sync
    <3>2. ASSUME NEW r \in Merged(s)
          PROVE  \E t \in Stored' : /\ <<r, t>> \in sync'[s].persisted
                                    /\ r.attached \subseteq row'[t].attached
      <4>1. PICK t \in Rows : <<r, t>> \in sync[s].persisted
        BY <1>1 DEF WriteFacts
      <4>2. sync[s].wrote[t].stored /\ r.attached \subseteq sync[s].wrote[t].attached
        BY <1>1, <3>1, <4>1 DEF WriteFacts
      <4>3. row'[t] = sync[s].wrote[t]
        BY <1>7, <4>2
      <4> QED
        BY <1>4, <4>1, <4>2, <4>3 DEF Stored
    <3> QED
      BY <2>1, <3>1, <3>2 DEF LeftItsRows
  <2>2. CASE z # s
    BY <2>2, <1>4, <1>7, <1>9, <1>10, RowsStay DEF IInv, JobFacts
  <2> QED
    BY <2>1, <2>2
<1> QED
  BY <1>11, <1>12, <1>13, <1>15, <1>16 DEF IInv

LEMMA ListDocumentsInv == ASSUME IInv, NEW p \in Projectors, ListDocuments(p) PROVE IInv'
<1>1. proj[p] = NewProj /\ ProjFacts(p) /\ proj \in [Projectors -> Proj]
  BY DEF ListDocuments, IInv, ProjFacts, TypeOK
<1> DEFINE ready == {t \in Stored : row[t].projected}
<1>2. proj' = [proj EXCEPT ![p] = [NewProj EXCEPT !.pc = "look", !.left = Stored,
                                                  !.ready = ready]]
  BY <1>1 DEF ListDocuments
<1>3. proj' \in [Projectors -> Proj]
  <2>1. [NewProj EXCEPT !.pc = "look", !.left = Stored, !.ready = ready] \in Proj
    BY DEF NewProj, Proj, IInv, TypeOK, Stored
  <2> QED
    BY <1>1, <1>2, <2>1
<1>4. /\ proj'[p].pc = "look" /\ proj'[p].left = Stored /\ proj'[p].added = {}
      /\ proj'[p].found = FALSE /\ proj'[p].marked = {}
      /\ \A q \in Projectors \ {p} : proj'[q] = proj[q]
  BY <1>1, <1>2 DEF NewProj
<1>5. proj[p].marked = {} /\ proj[p].pc = "idle"
  BY <1>1 DEF NewProj
<1>6. ProjFacts(p)'
  <2>1. Stored' = Stored /\ docLock' = docLock /\ eventLock' = eventLock
    BY DEF ListDocuments, Stored
  <2> QED
    BY <1>1, <1>4, <1>5, <2>1 DEF ProjFacts
<1> QED
  BY <1>3, <1>4, <1>6, ProjFrame DEF ListDocuments, IInv, TypeOK

LEMMA LookUpEventInv == ASSUME IInv, NEW p \in Projectors, LookUpEvent(p) PROVE IInv'
<1>1. proj[p] \in Proj /\ ProjFacts(p) /\ proj \in [Projectors -> Proj] /\ proj[p].pc = "look"
  BY DEF LookUpEvent, IInv, TypeOK
<1>2. PICK t \in AtHand(p) :
        proj' = [proj EXCEPT ![p] = [proj[p] EXCEPT !.pc = "flush", !.at = t,
                                                    !.found = (event[t] # {})]]
  BY <1>1 DEF LookUpEvent
<1>3. t \in proj[p].left /\ t \in Rows
  BY <1>1 DEF AtHand, Proj
<1>4. proj' \in [Projectors -> Proj]
  <2>1. [proj[p] EXCEPT !.pc = "flush", !.at = t, !.found = (event[t] # {})] \in Proj
    BY <1>1, <1>3 DEF Proj
  <2> QED
    BY <1>1, <1>2, <2>1
<1>5. /\ proj'[p].pc = "flush" /\ proj'[p].at = t /\ (proj'[p].found <=> event[t] # {})
      /\ proj'[p].left = proj[p].left /\ proj'[p].added = proj[p].added
      /\ proj'[p].marked = proj[p].marked
      /\ \A q \in Projectors \ {p} : proj'[q] = proj[q]
  BY <1>1, <1>2 DEF Proj
<1>6. ProjFacts(p)'
  <2>1. /\ Stored' = Stored /\ docLock' = docLock /\ eventLock' = eventLock /\ event' = event
    BY DEF LookUpEvent, Stored
  <2> QED
    BY <1>1, <1>3, <1>5, <2>1 DEF ProjFacts
<1> QED
  BY <1>4, <1>5, <1>6, ProjFrame DEF LookUpEvent, IInv, TypeOK

LEMMA FlushEventInv == ASSUME IInv, NEW p \in Projectors, FlushEvent(p) PROVE IInv'
<1> DEFINE t == proj[p].at
           A == IF proj[p].found THEN proj[p].added ELSE proj[p].added \union {t}
           M == IF Marks(p) THEN proj[p].marked \union {t} ELSE proj[p].marked
           new == [proj[p] EXCEPT !.pc = "look", !.at = None, !.found = FALSE,
                                  !.left = @ \ {t}, !.added = A, !.marked = M]
<1>1. proj[p] \in Proj /\ ProjFacts(p) /\ proj \in [Projectors -> Proj] /\ proj[p].pc = "flush"
  BY DEF FlushEvent, IInv, TypeOK
<1>2. t \in proj[p].left /\ t \in Rows /\ t \in Stored
  BY <1>1 DEF ProjFacts, Proj
<1>3. proj' = [proj EXCEPT ![p] = new]
  BY <1>1 DEF FlushEvent
<1>4. A \subseteq Rows /\ M \subseteq Rows
  BY <1>1, <1>2 DEF Proj
<1>5. /\ A \subseteq proj[p].added \union {t} /\ proj[p].added \subseteq A
      /\ (~ proj[p].found => t \in A)
      /\ M \subseteq proj[p].marked \union {t} /\ proj[p].marked \subseteq M
      /\ (t \in M <=> Marks(p) \/ t \in proj[p].marked)
  OBVIOUS
<1>6. /\ docLock' \in [Rows -> Txs \union {None}]
      /\ \A u \in Rows : docLock'[u] = IF Marks(p) /\ u = t THEN p ELSE docLock[u]
      /\ Marks(p) => docLock[t] = None
  BY <1>2 DEF FlushEvent, MayFlush, IInv, TypeOK, Txs
<1>7. /\ eventLock' \in [Rows -> Projectors \union {None}]
      /\ \A u \in Rows : eventLock'[u] = p \/ eventLock'[u] = eventLock[u]
  BY <1>2 DEF FlushEvent, IInv, TypeOK
<1> HIDE DEF A, M
<1>8. proj' \in [Projectors -> Proj]
  <2>1. new \in Proj
    BY <1>1, <1>4 DEF Proj
  <2> QED
    BY <1>1, <1>3, <2>1
<1>9. /\ proj'[p].pc = "look" /\ proj'[p].found = FALSE /\ proj'[p].left = proj[p].left \ {t}
      /\ proj'[p].added = A /\ proj'[p].marked = M
      /\ \A q \in Projectors \ {p} : proj'[q] = proj[q]
  BY <1>1, <1>3 DEF Proj
<1> HIDE DEF t, new
<1>10. ProjFacts(p)'
  <2>1. Stored' = Stored /\ event' = event
    BY DEF FlushEvent, Stored
  <2>2. proj[p].left \union A \subseteq Stored
    BY <1>1, <1>2, <1>5 DEF ProjFacts
  <2>3. proj[p].found => event[t] # {}
    BY <1>1 DEF ProjFacts, t
  <2>4. \A u \in M : u \in A \/ event[u] # {}
    BY <1>1, <1>5, <2>3 DEF ProjFacts
  <2>5. \A u \in Rows : docLock'[u] = p <=> u \in M
    BY <1>1, <1>2, <1>5, <1>6 DEF ProjFacts
  <2> QED
    BY <1>9, <2>1, <2>2, <2>4, <2>5 DEF ProjFacts
<1>11. \A x \in Txs \ {p} : \A u \in Rows : docLock'[u] = x <=> docLock[u] = x
  BY <1>2, <1>6, ProcessAssumption DEF Txs
<1> QED
  BY <1>6, <1>7, <1>8, <1>9, <1>10, <1>11, ProjFrame DEF FlushEvent, IInv, TypeOK

\* The exception gives back what was locked and forgets what was flushed.
LEMMA AbortProjectionInv ==
  ASSUME IInv, NEW p \in Projectors, AbortProjection(p), faults' \in 0 .. MaxFaults
  PROVE  IInv'
<1>1. proj \in [Projectors -> Proj] /\ proj' = [proj EXCEPT ![p] = NewProj]
  BY DEF AbortProjection, IInv, TypeOK
<1>2. proj' \in [Projectors -> Proj]
  BY <1>1, NewProjIsProj
<1>3. /\ docLock' = Released(docLock, p) /\ eventLock' = Released(eventLock, p)
      /\ row' = row /\ event' = event
  BY DEF AbortProjection
<1>4. /\ docLock' \in [Rows -> Txs \union {None}]
      /\ eventLock' \in [Rows -> Projectors \union {None}]
      /\ \A t \in Rows : docLock'[t] # p /\ eventLock'[t] # p
      /\ \A x \in Txs \ {p} : \A t \in Rows : docLock'[t] = x <=> docLock[t] = x
      /\ \A x \in Txs \ {p} : \A t \in Rows : eventLock'[t] = x => eventLock[t] = x
  BY <1>3, ProcessAssumption DEF Released, IInv, TypeOK, Txs
<1>5. ProjFacts(p)'
  BY <1>1, <1>4 DEF ProjFacts, NewProj
<1>6. Projectors \ {p} \subseteq Txs \ {p}
  BY DEF Txs
<1> QED
  BY <1>1, <1>2, <1>4, <1>5, <1>6, ProjFrame DEF AbortProjection

LEMMA CommitProjectionInv == ASSUME IInv, NEW p \in Projectors, CommitProjection(p) PROVE IInv'
<1>1. /\ proj[p] \in Proj /\ ProjFacts(p) /\ proj \in [Projectors -> Proj]
      /\ proj' = [proj EXCEPT ![p] = NewProj]
  BY DEF CommitProjection, IInv, TypeOK
<1>2. proj' \in [Projectors -> Proj]
  BY <1>1, NewProjIsProj
<1>3. /\ docLock' = Released(docLock, p) /\ eventLock' = Released(eventLock, p)
      /\ UNCHANGED <<job, sync, faults>>
  BY DEF CommitProjection
<1>4. /\ docLock' \in [Rows -> Txs \union {None}]
      /\ eventLock' \in [Rows -> Projectors \union {None}]
      /\ \A t \in Rows : docLock'[t] # p /\ eventLock'[t] # p
      /\ \A x \in Txs \ {p} : \A t \in Rows : docLock'[t] = x <=> docLock[t] = x
      /\ \A x \in Txs \ {p} : \A t \in Rows : eventLock'[t] = x => eventLock[t] = x
  BY <1>3, ProcessAssumption DEF Released, IInv, TypeOK, Txs
<1>5. /\ event' \in [Rows -> Events]
      /\ \A t \in Rows : event[t] \subseteq event'[t] /\ (t \in proj[p].added => event'[t] # {})
      /\ \A t \in Rows \ proj[p].added : event'[t] = event[t]
  BY DEF CommitProjection, IInv, TypeOK, Events
<1>6. /\ row' \in [Rows -> Row]
      /\ \A t \in Rows : row'[t].stored = row[t].stored /\ row'[t].job = row[t].job
      /\ \A t \in Rows : row'[t].attached = row[t].attached
      /\ \A t \in Rows : row'[t].projected => row[t].projected \/ t \in proj[p].marked
  BY DEF CommitProjection, IInv, TypeOK, Row
<1>7. Stored' = Stored
  BY <1>6 DEF Stored
<1>8. TypeOK'
  BY <1>2, <1>3, <1>4, <1>5, <1>6 DEF IInv, TypeOK
<1>9. ASSUME NEW s \in Syncs PROVE FetchFacts(s)' /\ WriteFacts(s)'
  <2>1. s \in Txs \ {p} /\ FetchFacts(s) /\ WriteFacts(s)
    BY ProcessAssumption DEF IInv, Txs
  <2> QED
    BY <1>3, <1>4, <1>5, <1>6, <2>1, SyncKept
<1>10. ASSUME NEW q \in Projectors PROVE ProjFacts(q)'
  <2>1. CASE q = p
    BY <2>1, <1>1, <1>4 DEF ProjFacts, NewProj
  <2>2. CASE q # p
    <3>1. q \in Txs \ {p} /\ ProjFacts(q) /\ proj[q] \in Proj /\ proj'[q] = proj[q]
      BY <2>2, <1>1 DEF IInv, Txs, TypeOK
    <3>2. proj[q].at \in Rows \/ ~ proj[q].found
      BY <3>1, ProcessAssumption DEF ProjFacts, Proj, NewProj
    <3>3. proj[q].marked \subseteq Rows
      BY <3>1 DEF Proj
    <3> QED
      BY <1>4, <1>5, <1>7, <3>1, <3>2, <3>3, ProjKept
  <2> QED
    BY <2>1, <2>2
<1>11. RowFacts'
  <2> SUFFICES ASSUME NEW t \in Rows
               PROVE  /\ row'[t].stored =>
                           row'[t].job \in Syncs /\ job'[row'[t].job] \in {"success", "partial"}
                      /\ row'[t].projected => event'[t] # {}
                      /\ event'[t] # {} => row'[t].stored
    BY DEF RowFacts
  <2>1. row'[t].stored => row'[t].job \in Syncs /\ job'[row'[t].job] \in {"success", "partial"}
    BY <1>3, <1>6 DEF IInv, RowFacts
  <2>2. row'[t].projected => event'[t] # {}
    BY <1>1, <1>5, <1>6 DEF IInv, RowFacts, ProjFacts
  <2>3. event'[t] # {} => row'[t].stored
    BY <1>1, <1>5, <1>6 DEF IInv, RowFacts, ProjFacts, Stored
  <2> QED
    BY <2>1, <2>2, <2>3
<1>12. JobFacts'
  BY <1>3, <1>6, <1>7, RowsStay DEF IInv, JobFacts
<1> QED
  BY <1>8, <1>9, <1>10, <1>11, <1>12 DEF IInv

LEMMA StepIInv == IInv /\ [Next]_vars => IInv'
<1> SUFFICES ASSUME IInv, [Next]_vars PROVE IInv'
  OBVIOUS
<1>1. faults \in 0 .. MaxFaults /\ MaxFaults \in Nat
  BY FaultsAssumption DEF IInv, TypeOK
<1>2. ASSUME NEW s \in Syncs, SkipSync(s) \/ StartSync(s) \/ SyncStep(s) PROVE IInv'
  <2>1. ASSUME InsertConflicts(s) PROVE IInv'
    BY <1>1, <2>1, AbortSyncInv DEF InsertConflicts, InFlight
  <2> QED
    BY <1>2, <2>1, SkipSyncInv, StartSyncInv, FetchProviderInv, DedupeAllInv,
       LookUpByIdInv, LookUpByUrlInv, FlushDocumentInv, CommitSyncInv DEF SyncStep
<1>3. ASSUME NEW s \in Syncs, SyncFails(s) PROVE IInv'
  <2>1. InFlight(s) /\ AbortSync(s)
    BY <1>3 DEF SyncFails, InFlight
  <2>2. faults' \in 0 .. MaxFaults
    BY <1>1, <1>3 DEF SyncFails
  <2> QED
    BY <2>1, <2>2, AbortSyncInv
<1>4. ASSUME NEW p \in Projectors, ListDocuments(p) \/ ProjStep(p) PROVE IInv'
  <2>1. ASSUME TwoEventsFound(p) PROVE IInv'
    BY <1>1, <2>1, AbortProjectionInv DEF TwoEventsFound
  <2> QED
    BY <1>4, <2>1, ListDocumentsInv, LookUpEventInv, FlushEventInv, CommitProjectionInv
       DEF ProjStep
<1>5. ASSUME NEW p \in Projectors, ProjectionFails(p) PROVE IInv'
  <2>1. AbortProjection(p)
    BY <1>5 DEF ProjectionFails
  <2>2. faults' \in 0 .. MaxFaults
    BY <1>1, <1>5 DEF ProjectionFails
  <2> QED
    BY <2>1, <2>2, AbortProjectionInv
<1>6. CASE UNCHANGED vars
  <2>1. Stored' = Stored
    BY <1>6 DEF vars, Stored
  <2>2. \A s \in Syncs : FetchFacts(s)' /\ WriteFacts(s)'
    BY <1>6, SyncKept DEF vars, IInv
  <2>3. JobFacts'
    BY <1>6, <2>1, RowsStay DEF vars, IInv, JobFacts
  <2> QED
    BY <1>6, <2>1, <2>2, <2>3 DEF vars, IInv, TypeOK, ProjFacts, RowFacts
<1> QED
  BY <1>2, <1>3, <1>4, <1>5, <1>6 DEF Next

-----------------------------------------------------------------------------
(***************************************************************************)
(* Theorems                                                                *)
(***************************************************************************)

LEMMA Invariance == Spec => []IInv
BY InitIInv, StepIInv, PTL DEF Spec

\* Every variable keeps to its type, whatever the providers list and whatever fails.
THEOREM TypeCorrect == Spec => []TypeOK
<1>1. IInv => TypeOK
  BY DEF IInv
<1> QED
  BY <1>1, Invariance, PTL

\* A stored document names a committed job that did not fail, a committed job has left a
\* row with all its attachments for each document it merged, a projected document has its
\* event and an event its document: however rows are taken over and moved, and however
\* synchronisations and projections overlap, conflict and abort.
THEOREM DocumentsAgree == Spec => []StoresAgree
<1>1. IInv => StoresAgree
  BY DEF IInv, StoresAgree, RowFacts, JobFacts, Stored
<1> QED
  BY <1>1, Invariance, PTL

\* No end of a transaction leaves a write behind that others would wait for.
THEOREM LocksAreOfTheLiving == Spec => []NobodyWaitsForTheDead
<1>1. ASSUME IInv PROVE NobodyWaitsForTheDead
  <2>1. ASSUME NEW t \in Rows, NEW s \in Syncs, docLock[t] = s
        PROVE  sync[s].pc \in {"look", "url", "flush"}
    <3>1. sync[s].wrote[t].stored /\ FetchFacts(s)
      BY <1>1, <2>1 DEF IInv, WriteFacts
    <3>2. sync[s].wrote # NoRows
      BY <3>1, NoRowIsRow
    <3> QED
      BY <3>1, <3>2 DEF FetchFacts, InFlight
  <2>2. ASSUME NEW t \in Rows, NEW p \in Projectors, docLock[t] = p PROVE proj[p].pc # "idle"
    BY <1>1, <2>2 DEF IInv, ProjFacts, NewProj
  <2>3. ASSUME NEW t \in Rows, eventLock[t] # None PROVE proj[eventLock[t]].pc # "idle"
    BY <1>1, <2>3 DEF IInv, TypeOK, ProjFacts
  <2> QED
    BY <2>1, <2>2, <2>3 DEF NobodyWaitsForTheDead
<1> QED
  BY <1>1, Invariance, PTL

\* What a transaction has not committed is its own: a row written by a synchronisation in
\* flight, with that run's job on it, is neither marked by a projection nor written by
\* another run, so the write of one transaction is never committed by another.
OneWriterPerRow ==
  \A t \in Rows, s \in Syncs : sync[s].wrote[t].stored =>
    /\ \A p \in Projectors : t \notin proj[p].marked
    /\ \A z \in Syncs \ {s} : ~sync[z].wrote[t].stored

THEOREM WritersAreAlone == Spec => []OneWriterPerRow
<1>1. IInv => OneWriterPerRow
  BY ProcessAssumption DEF IInv, OneWriterPerRow, WriteFacts, ProjFacts
<1> QED
  BY <1>1, Invariance, PTL

=============================================================================
