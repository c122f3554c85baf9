---------------------------- MODULE MCReportRun ----------------------------
(* One session with up to four stored events, one role before the decision. *)
EXTENDS ReportRun, TLC

MCQuota == [scope \in {"stock", "policy", "hot"} |-> IF scope = "hot" THEN 0 ELSE 1]

E(id, scope, raw, key, published, fetched, stock, topic) ==
  [id |-> id, scope |-> scope, raw |-> raw, key |-> key, published |-> published,
   fetched |-> fetched, stock |-> stock, topic |-> topic]

\* Two events of the stock, one of another stock and a policy.
Plain == {E(1, "stock", 1, 1, 1, 1, 1, 0), E(2, "stock", 2, 2, 2, 1, 1, 0),
          E(3, "stock", 3, 3, 3, 1, 2, 0), E(4, "policy", 4, 4, 1, 1, 0, 0)}

\* A group fetched twice, the older one published last, and a key shared by two groups.
Repeated == {E(1, "stock", 1, 1, 3, 1, 1, 0), E(2, "stock", 1, 1, 1, 2, 1, 0),
             E(3, "policy", 3, 1, 2, 1, 0, 0), E(4, "policy", 4, 4, 1, 1, 0, 0)}

\* Hot events of two topics, a policy that shares the key of one, an event of no scope.
Hot == {E(1, "hot", 1, 1, 3, 1, 0, 1), E(2, "hot", 2, 2, 2, 1, 0, 2),
        E(3, "policy", 3, 2, 1, 1, 0, 2), E(4, "other", 4, 4, 1, 1, 0, 2)}

Feed(news, topic, anchor) == [news |-> news, topic |-> topic, anchor |-> anchor]

\* Anchor 9 is not stored.
MCFeeds ==
  {Feed({}, 0, 0), Feed(Plain, 0, 0), Feed(Plain, 0, 1), Feed(Plain, 0, 3), Feed(Plain, 0, 9),
   Feed(Repeated, 0, 0), Feed(Repeated, 0, 1), Feed(Repeated, 0, 3),
   Feed(Hot, 0, 0), Feed(Hot, 1, 2), Feed(Hot, 1, 4)}

=============================================================================
