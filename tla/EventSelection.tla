--------------------------- MODULE EventSelection ---------------------------
(***************************************************************************)
(* Which of the stored events an analysis is given.  The candidates are    *)
(* the latest of each group among the events of the stock, of policies and *)
(* of the hot topics; ranked, the anchor comes first, one event of each    *)
(* logical key, a quota for each scope, the rest by rank until the limit.  *)
(***************************************************************************)
EXTENDS Naturals, Sequences, FiniteSets, SequencesExt

Scopes == {"stock", "policy", "hot"}

\* "raw" is the cluster the event belongs to or, without one, its own columns, by which
\* the database groups events; "key" is the same with the texts trimmed.  "fetched" stands
\* for the times of fetch and creation and the source's priority; 0 is no event, no stock, no topic.
Event == [id : Nat \ {0}, scope : Scopes \union {"other"}, raw : Nat, key : Nat,
          published : Nat, fetched : Nat, stock : Nat, topic : Nat]

Ids(events) == {events[i].id : i \in DOMAIN events}
Keys(events) == {events[i].key : i \in DOMAIN events}
UpTo(n, events) == SubSeq(events, 1, IF n < Len(events) THEN n ELSE Len(events))

\* The first place in which two events differ decides.
Above(x, y) == \E i \in DOMAIN x : x[i] > y[i] /\ \A j \in 1 .. i - 1 : x[j] = y[j]

\* The members of a finite set, the highest first, by the rank of each.
Descending(events, rank) ==
  [i \in 1 .. Cardinality(events) |->
     CHOOSE e \in events : Cardinality({d \in events : Above(rank[d], rank[e])}) = i - 1]

\* The events that are wanted, in the order they have.
Only(events, wanted) ==
  LET kept[n \in 0 .. Len(events)] ==
        IF n = 0 THEN <<>>
        ELSE IF events[n] \in wanted THEN Append(kept[n - 1], events[n]) ELSE kept[n - 1]
  IN  kept[Len(events)]

InScope(events, scope) == Only(events, {e \in Range(events) : e.scope = scope})
Without(events, others) == Only(events, {e \in Range(events) : e.id \notin Ids(others)})

\* Of the events in front and then the others, the first of each key.
FirstOfKeys(front, others) ==
  LET kept[n \in 0 .. Len(others)] ==
        IF n = 0 THEN front
        ELSE IF others[n].key \in Keys(kept[n - 1]) THEN kept[n - 1]
        ELSE Append(kept[n - 1], others[n])
  IN  kept[Len(others)]

-----------------------------------------------------------------------------
\* load_recent_news_events: without a topic every hot event counts.
Eligible(e, stock, topic) ==
  \/ e.scope = "stock" /\ e.stock = stock
  \/ e.scope = "policy"
  \/ e.scope = "hot" /\ topic \in {0, e.topic}

\* Of each group the event fetched last.
Latest(events) ==
  {e \in events : \A d \in events : d.raw = e.raw /\ d # e =>
     Above(<<e.fetched, e.published, e.id>>, <<d.fetched, d.published, d.id>>)}

NewestFirst(events) ==
  Descending(events, [e \in events |-> <<e.published, e.fetched, e.id>>])

\* The anchor is taken from all events and stands for its key.  Without the event it
\* names the pool is no larger than the limit.
Candidates(news, stock, topic, anchor, limit, poolLimit) ==
  LET rows == UpTo(poolLimit, NewestFirst(Latest({e \in news : Eligible(e, stock, topic)})))
      front == SetToSeq({e \in news : e.id = anchor})
  IN  IF anchor = 0 THEN rows
      ELSE IF front = <<>> THEN UpTo(limit, rows)
      ELSE UpTo(poolLimit, FirstOfKeys(front, rows))

\* <<>> if the session has no anchor or the anchor is not among the candidates.
Anchor(ranked, anchor) == Only(ranked, {e \in Range(ranked) : e.id = anchor})

\* Events of the anchor's stock first, then of its topic, then the newest.
Ranked(candidates, anchor) ==
  LET front == Anchor(candidates, anchor)
      Same(x, y) == IF x # 0 /\ x = y THEN 1 ELSE 0
      OfStock(e) == IF front = <<>> THEN 0 ELSE Same(front[1].stock, e.stock)
      OfTopic(e) == IF front = <<>> THEN 0 ELSE Same(front[1].topic, e.topic)
  IN  Descending(Range(candidates),
                 [e \in Range(candidates) |->
                    <<OfStock(e), OfTopic(e), e.published, e.fetched, e.id>>])

\* The anchor in front, then of the events that share a key the one ranked highest.
Dedupe(ranked, anchor) == FirstOfKeys(Anchor(ranked, anchor), ranked)

Less(m, n) == IF m > n THEN m - n ELSE 0

\* The first events of a scope, as many as the anchor leaves of its quota.
Quotas(deduped, front, scope, quota) ==
  UpTo(Less(quota[scope], Len(InScope(front, scope))),
       InScope(Without(deduped, front), scope))

\* The anchor, the quotas one scope after the other, and the rest by rank.
Chosen(events, front, quota) ==
  LET filled == front \o Quotas(events, front, "stock", quota)
                      \o Quotas(events, front, "policy", quota)
                      \o Quotas(events, front, "hot", quota)
  IN  filled \o Without(events, filled)

\* Mutant: the events of one key are not reduced to one.
SelectEvents_ForgetsKeys(ranked, anchor, limit, quota) ==
  UpTo(limit, Chosen(ranked, Anchor(ranked, anchor), quota))

SelectEvents(ranked, anchor, limit, quota) ==
  UpTo(limit, Chosen(Dedupe(ranked, anchor), Anchor(ranked, anchor), quota))

-----------------------------------------------------------------------------
\* Events beyond what the quota of their scope, less the anchor, allows.
Overflow(selected, front, quota) ==
  \/ \E i \in DOMAIN selected : selected[i].scope = "other" /\ selected[i].id \notin Ids(front)
  \/ \E scope \in Scopes :
       Len(InScope(Without(selected, front), scope))
         > Less(quota[scope], Len(InScope(front, scope)))

Before(events, d, e) == \E i, j \in DOMAIN events : i < j /\ events[i] = d /\ events[j] = e

\* What the selection promises: the anchor is kept, no two events share a key, none of
\* the events that stand for their keys is left out while there is room, nor for one of its
\* scope that is ranked below it, nor for one beyond its quota unless its own scope has had
\* its share.
Sound(selected, ranked, anchor, limit, quota) ==
  LET front == Anchor(ranked, anchor)
      left == Without(Dedupe(ranked, anchor), selected)
  IN  /\ Len(selected) <= limit
      /\ limit > 0 /\ front # <<>> => Head(selected) = Head(front)
      /\ Cardinality(Keys(selected)) = Len(selected)
      /\ Ids(selected) \subseteq Ids(ranked)
      /\ Len(selected) < limit => Keys(ranked) \subseteq Keys(selected)
      /\ \A i \in DOMAIN left, j \in DOMAIN selected :
           left[i].scope = selected[j].scope /\ selected[j].id # anchor =>
             Before(ranked, selected[j], left[i])
      /\ Overflow(selected, front, quota) =>
           \A i \in DOMAIN left :
             left[i].scope # "other" =>
               Len(InScope(selected, left[i].scope)) >= quota[left[i].scope]

\* The same of the stored events: an event is the anchor or the latest of its group that
\* the session may see, and an anchor that is stored is never lost to the pool's limit.
Drawn(selected, news, stock, topic, anchor, limit) ==
  LET seen == {e \in news : Eligible(e, stock, topic)}
  IN  /\ \A i \in DOMAIN selected :
           \/ selected[i].id = anchor
           \/ /\ selected[i] \in seen
              /\ \A e \in seen : e.raw = selected[i].raw => e.fetched <= selected[i].fetched
      /\ limit > 0 /\ (\E e \in news : e.id = anchor) => selected # <<>> /\ selected[1].id = anchor

=============================================================================
