---------------------------- MODULE PolicyDedup ----------------------------
(***************************************************************************)
(* Several sites publish one policy.  dedupe_policy_documents goes once    *)
(* through the documents of a synchronisation, merges those that share a   *)
(* number, a title, an identifier of their source or an address, and       *)
(* remembers under which of these each merged document is found.           *)
(*                                                                         *)
(* A text counts by its length, a title too: of two the longer is kept.    *)
(* The fields a document adopts from its duplicate only where it has none  *)
(* are represented by number and identifier, the lists that are united by  *)
(* its attachments.                                                        *)
(***************************************************************************)
EXTENDS Naturals, FiniteSets, SequencesExt

\* 0 stands for a missing identifier, number or date; no document is without an address.
Document == [source : Nat, id : Nat, url : Nat \ {0}, no : Nat, title : Nat, date : Nat,
             text : Nat, attached : SUBSET Nat]

\* The place of a document that was merged into an earlier one.
Gone == [source |-> 0, id |-> 0, url |-> 0, no |-> 0, title |-> 0, date |-> 0, text |-> 0,
         attached |-> {}]

DedupKeys(d) ==
  {<<"title", d.title>>, <<"url", d.source, d.url>>}
  \union (IF d.no = 0 THEN {} ELSE {<<"no", d.no>>})
  \union (IF d.id = 0 THEN {} ELSE {<<"source", d.source, d.id>>})

Quality(d) == d.text + 20 * Cardinality(d.attached) + (IF d.date = 0 THEN 0 ELSE 10)

\* The richer document is the primary one, then the later, then the one met first.
RightIsPrimary(left, right) ==
  \/ Quality(right) > Quality(left)
  \/ Quality(right) = Quality(left) /\ right.date > left.date

Or(m, n) == IF m = 0 THEN n ELSE m

MergeInto(primary, secondary) ==
  [primary EXCEPT !.id = Or(@, secondary.id), !.no = Or(@, secondary.no),
                  !.date = Or(@, secondary.date),
                  !.title = Max({@, secondary.title}), !.text = Max({@, secondary.text}),
                  !.attached = @ \union secondary.attached]

Merge(left, right) ==
  IF RightIsPrimary(left, right) THEN MergeInto(right, left) ELSE MergeInto(left, right)

-----------------------------------------------------------------------------
\* "kept" the documents in their places, "at" the place known for each key.
Nothing == [kept |-> <<>>, at |-> <<>>]

Known(st, d) == {st.at[k] : k \in DedupKeys(d) \intersect DOMAIN st.at}

Indexed(at, d, place) ==
  [k \in DOMAIN at \union DedupKeys(d) |-> IF k \in DedupKeys(d) THEN place ELSE at[k]]

\* The places whose documents a new one brings together are merged into the first.
Gather(kept, d, places) ==
  LET whole[i \in 0 .. Len(kept)] ==
        IF i = 0 THEN d
        ELSE IF i \notin places \/ kept[i] = Gone THEN whole[i - 1]
        ELSE IF i = Min(places) THEN Merge(kept[i], whole[i - 1])
        ELSE Merge(whole[i - 1], kept[i])
  IN  whole[Len(kept)]

\* One turn of the loop.  A document that nothing is known of gets a new place.
Absorb(st, d) ==
  LET places == Known(st, d)
      first == IF places = {} THEN Len(st.kept) + 1 ELSE Min(places)
      whole == Gather(st.kept, d, places)
  IN  [kept |-> [i \in 1 .. Len(st.kept) + (IF places = {} THEN 1 ELSE 0) |->
                   IF i = first THEN whole
                   ELSE IF i \in places THEN Gone ELSE st.kept[i]],
       at |-> Indexed(st.at, whole, first)]

Absorbed(docs) ==
  LET st[n \in 0 .. Len(docs)] == IF n = 0 THEN Nothing ELSE Absorb(st[n - 1], docs[n])
  IN  st[Len(docs)]

Deduped(docs) == Range(Absorbed(docs).kept) \ {Gone}

-----------------------------------------------------------------------------
\* The result r is what the documents at the places I say together: all their attachments,
\* the longest text and title, a number if one of them has any, the address of one.
SaysAll(r, docs, I) ==
  /\ I # {}
  /\ r.attached = UNION {docs[i].attached : i \in I}
  /\ \A i \in I : r.text >= docs[i].text /\ r.title >= docs[i].title
  /\ \E i \in I : r.text = docs[i].text
  /\ \E i \in I : r.title = docs[i].title
  /\ \E i \in I : r.no = docs[i].no
  /\ r.no = 0 => \A i \in I : docs[i].no = 0
  /\ \E i \in I : r.source = docs[i].source /\ r.url = docs[i].url

\* Every document is part of one result, every result is what its documents say together,
\* and no two results share a number, a title or an address of their source, however the
\* documents were chained.
DedupIsSound(docs) ==
  LET results == Deduped(docs) IN
  /\ \E into \in [DOMAIN docs -> results] :
       \A r \in results : SaysAll(r, docs, {i \in DOMAIN docs : into[i] = r})
  /\ \A r, q \in results :
       \/ r.title = q.title
       \/ r.no # 0 /\ r.no = q.no
       \/ r.source = q.source /\ r.url = q.url
       => r = q

=============================================================================
