------------------------------- MODULE Search -------------------------------
(***************************************************************************)
(* Finding the chunks nearest to a query, with either vector store: the    *)
(* brute-force one compares every vector, the sqlite-vec one asks its      *)
(* index for a few candidates of each knowledge base and merges them.  The *)
(* index orders by Euclidean distance and the score is the cosine: with    *)
(* vectors of length one, which the supported models return, both order    *)
(* alike.  The retrieval metrics of the evaluation package count hits in   *)
(* the documents found.                                                    *)
(*                                                                         *)
(* The state is what is stored; a search is a function of it.  A score is  *)
(* a number; 0 stands for the cosine of vectors that cannot be compared.   *)
(***************************************************************************)
EXTENDS Integers, Sequences, FiniteSets, SequencesExt, Lists

CONSTANTS
  Bases,      \* knowledge bases
  Scores,     \* similarities to the query
  MaxChunks   \* bound: chunks stored

VARIABLES
  index,  \* the chunks in the order they were stored: [base, doc, score]
  lost    \* indexed chunks whose row is gone from the chunks table

searchVars == <<index, lost>>

Ids == DOMAIN index

SearchTypeOK ==
  /\ index \in Seq([base : Bases, doc : 1 .. 2, score : Scores]) /\ lost \subseteq Ids

Init == index = <<>> /\ lost = {}

StoreChunk(base, doc, score) ==
  /\ Len(index) < MaxChunks
  /\ index' = Append(index, [base |-> base, doc |-> doc, score |-> score])
  /\ UNCHANGED lost

\* A deletion that reached the chunks table and not the index (bound: one).
LoseRow(c) ==
  /\ lost' = lost \cup {c}
  /\ UNCHANGED index

Next ==
  \/ \E base \in Bases, doc \in 1 .. 2, score \in Scores : StoreChunk(base, doc, score)
  \/ \E c \in Ids : lost = {} /\ LoseRow(c)

Spec == Init /\ [][Next]_searchVars

-----------------------------------------------------------------------------
TopK(k, default) == IF k <= 0 THEN default ELSE k
Shortest(n, s)   == SubSeq(s, 1, IF Len(s) < n THEN Len(s) ELSE n)
Better(c, d)     == index[c].score > index[d].score
\* An order of the candidates by score; sort.Slice leaves equal ones in any order.
Before(c, d)     == Better(c, d) \/ (index[c].score = index[d].score /\ c < d)
Ranked(cs)       == Sorted(cs, Before)

\* BruteForceVectorStore.Search
BruteForce(bases, k, threshold) ==
  Shortest(TopK(k, 10), Ranked({c \in Ids : index[c].base \in bases /\ index[c].score >= threshold}))

\* Variant: the candidates of all knowledge bases share one limit.
VecSearchOneLimit(bases, k, threshold) ==
  LET found == ToSet(Shortest(TopK(k, 10), [i \in 1 .. Len(index) |-> i]))
  IN Shortest(TopK(k, 10), Ranked({c \in found : index[c].base \in bases /\ index[c].score >= threshold}))

\* SQLiteVecStore.Search: k + |bases| candidates of each base, then threshold, order, limit.
VecSearch(bases, k, threshold) ==
  LET n == TopK(k, 10)
      Candidates(b) == ToSet(Shortest(n + Cardinality(bases), Ranked({c \in Ids : index[c].base = b})))
      found == {c \in UNION {Candidates(b) : b \in bases} : index[c].score >= threshold}
  IN Shortest(n, Ranked(found))

\* KnowledgeStore.Search leaves out what has no row any more; it does not look for more.
Loaded(found) == Filter(found, LAMBDA c : c \notin lost)

\* countHits: the distinct relevant documents among the first k found.
Hits(found, relevant, k) ==
  Cardinality({index[c].doc : c \in ToSet(Shortest(k, found))} \cap relevant)
FirstHit(found, relevant) ==
  LET at == {i \in DOMAIN found : index[found[i]].doc \in relevant}
  IN IF at = {} THEN 0 ELSE CHOOSE i \in at : \A j \in at : i <= j

-----------------------------------------------------------------------------
Queries == {q \in (SUBSET Bases) \X (0 .. 2) \X Scores : q[1] # {}}

ScoresOf(found) == [i \in DOMAIN found |-> index[found[i]].score]

\* Both stores return equally good chunks for a query: what the best k of all asked
\* bases are does not depend on how the candidates are collected (vecstore.go:89).
StoresAgree ==
  \A q \in Queries : ScoresOf(BruteForce(q[1], q[2], q[3])) = ScoresOf(VecSearch(q[1], q[2], q[3]))

\* A result is left out only for better ones, for the limit, or because its row is gone
\* (then fewer than k are returned although others would qualify, knowledge.go:272).
BestAreFound ==
  \A q \in Queries :
    LET found == VecSearch(q[1], q[2], q[3]) IN
    \A c \in Ids \ ToSet(found) :
      index[c].base \in q[1] /\ index[c].score >= q[3] =>
        Len(found) = TopK(q[2], 10) /\ \A d \in ToSet(found) : ~Better(c, d)

\* The metrics agree: there is a hit in the first k exactly if the first hit is among
\* them, and recall never exceeds one though a document is found through several chunks
\* (metrics.go:84 counts a document once).
MetricsAgree ==
  \A relevant \in SUBSET (1 .. 2), k \in 1 .. MaxChunks :
    LET found == Loaded(BruteForce(Bases, 0, 0)) IN
    /\ (Hits(found, relevant, k) > 0) = (FirstHit(found, relevant) \in 1 .. k)
    /\ Hits(found, relevant, k) <= Cardinality(relevant)

SearchConsistent == StoresAgree /\ BestAreFound /\ MetricsAgree

=============================================================================
