---------------------------- MODULE MCPolicySync ----------------------------
(***************************************************************************)
(* Documents 1 and 2 are two policies of one site, document 3 is the first *)
(* policy on a second site, with a poorer text and the identifier that the *)
(* second policy has on the first site: merged, the two policies claim one *)
(* row.                                                                    *)
(***************************************************************************)
EXTENDS PolicySync

MCDocOf ==
  [d \in Docs |-> [source |-> IF d = 3 THEN 2 ELSE 1, id |-> IF d = 1 THEN 0 ELSE 1,
                   url |-> d, no |-> 0, title |-> IF d = 2 THEN 2 ELSE 1, date |-> 1,
                   text |-> 3 - d, attached |-> IF d = 2 THEN {} ELSE {d}]]

\* Runs are alike, and so are requests.
Symmetry == Permutations(Syncs) \union Permutations(Projectors)

\* Every list of up to four documents of two sites that may share numbers, titles,
\* identifiers, addresses and attachments in any combination.
Candidate(d) ==
  {[source |-> d % 2, id |-> id, url |-> IF no = 2 THEN 1 ELSE d, no |-> no, title |-> title,
    date |-> 0, text |-> text, attached |-> IF text = 0 THEN {} ELSE {id}]
     : id \in {0, 1}, no \in {0, 1, 2}, title \in {1, 2}, text \in {0, 9}}

ASSUME DedupAssumption ==
  \A d1 \in Candidate(1), d2 \in Candidate(2), d3 \in Candidate(3) :
    /\ DedupIsSound(<<d1, d2, d3>>)
    /\ \A d4 \in {d \in Candidate(4) : d.text = 9} : DedupIsSound(<<d1, d2, d3, d4>>)

=============================================================================
