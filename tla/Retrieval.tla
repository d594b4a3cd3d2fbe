------------------------------ MODULE Retrieval ------------------------------
(***************************************************************************)
(* The retrieval arms of app/retrieval: lexical and dense search, fusion,  *)
(* query expansion and reranking with coverage of compared documents.      *)
(*                                                                         *)
(* Scoring is external.  A corpus c tells what the arms compute from:      *)
(*   c.doc         the document of each chunk; chunks are ordered numbers  *)
(*   c.synthetic   the synthetic documents                                 *)
(*   c.windows     the chunk of each vector of the window index, which     *)
(*                 holds several of a long chunk; the plain one holds one  *)
(*   c.lexical, c.embedding, c.window, c.relevance                         *)
(*                 a query's scores for chunks, their vectors, the         *)
(*                 windows, and for chunks read with the query             *)
(*   c.expanded    the expansion of a query, itself if no rule applies     *)
(* A request r has a query, top_k, filters and whether its words compare.  *)
(* All results are sequences of items, best first.                         *)
(***************************************************************************)
EXTENDS Integers, Sequences, FiniteSets, SequencesExt, FiniteSetsExt

CONSTANTS
    RrfK,            \* DEFAULT_RRF_K
    DepthFactor,     \* DEFAULT_DEPTH_MULTIPLIER
    OverFetch,       \* candidates a filtered dense search fetches per hit
    MinFetch,        \* and at least
    RerankDepth      \* DEFAULT_RERANK_DEPTH

ASSUME RetrievalAssumption ==
    /\ RrfK \in Nat /\ DepthFactor \in Nat \ {0}
    /\ OverFetch \in Nat \ {0} /\ MinFetch \in Nat /\ RerankDepth \in Nat

NoRank == 0
Item(chunk, bm25, dense) == [chunk |-> chunk, bm25_rank |-> bm25, dense_rank |-> dense]

\* A corpus, and the scores it has for a query.
IsCorpus(c) == c.doc \in Seq(Range(c.doc)) /\ c.windows \in Seq(DOMAIN c.doc)
IsScored(c, query) ==
    /\ c.lexical[query] \in [DOMAIN c.doc -> Int]
    /\ c.embedding[query] \in [DOMAIN c.doc -> Int]
    /\ c.relevance[query] \in [DOMAIN c.doc -> Int]
    /\ c.window[query] \in [DOMAIN c.windows -> Int]

Take(s, n) == [i \in 1 .. Min({n, Len(s)}) |-> s[i]]
ChunksOf(items) == {items[i].chunk : i \in DOMAIN items}

\* The domain of ahead as a sequence: ahead tells what is before each of it.
InOrder(ahead) ==
    [n \in 1 .. Cardinality(DOMAIN ahead) |->
       CHOOSE x \in DOMAIN ahead : Cardinality(ahead[x]) = n - 1]

\* The members of S by descending score, then by number.
Ranked(S, score) ==
    InOrder([x \in S |-> {y \in S : score[y] > score[x] \/ (score[y] = score[x] /\ y < x)}])

\* The elements at some of the places of a sequence, in its order.
ElementsAt(s, places) ==
    LET order == InOrder([i \in places |-> {j \in places : j < i}])
    IN  [n \in DOMAIN order |-> s[order[n]]]

-----------------------------------------------------------------------------
(***************************************************************************)
(* Filters, and the arms that score.                                       *)
(***************************************************************************)

Unfiltered == [documents |-> {}, scoped |-> FALSE, exclude_synthetic |-> FALSE]

\* apply_filters
Passes(c, chunk, filters) ==
    /\ filters.scoped => c.doc[chunk] \in filters.documents
    /\ ~(filters.exclude_synthetic /\ c.doc[chunk] \in c.synthetic)

\* A chunk that does not score contributes nothing.
Bm25Search(c, query, k, filters) ==
    LET score == c.lexical[query]
        hits == Ranked({x \in DOMAIN c.doc : score[x] > 0 /\ Passes(c, x, filters)}, score)
    IN  [i \in 1 .. Min({k, Len(hits)}) |-> Item(hits[i], i, NoRank)]

\* The filter is applied to what was fetched.
DenseSearch(c, query, k, filters) ==
    LET fetch == IF filters = Unfiltered THEN k
                 ELSE Min({Len(c.doc), Max({k * OverFetch, MinFetch})})
        fetched == Take(Ranked(DOMAIN c.doc, c.embedding[query]), fetch)
        hits == ElementsAt(fetched, {i \in DOMAIN fetched : Passes(c, fetched[i], filters)})
    IN  [i \in 1 .. Min({k, Len(hits)}) |-> Item(hits[i], NoRank, i)]

\* Mutant: windows are fetched like chunks.
WindowsFetchedUpTo(c, k) == Min({Len(c.windows), k * OverFetch})

WindowsFetched(c, k) == Len(c.windows)

\* All windows are scored; a chunk counts with its best one.
WindowedSearch(c, query, k, filters) ==
    LET ordered == Take(Ranked(DOMAIN c.windows, c.window[query]), WindowsFetched(c, k))
        seen == {c.windows[v] : v \in Range(ordered)}
        best == [x \in seen |-> Max({c.window[query][v] :
                                     v \in {w \in Range(ordered) : c.windows[w] = x}})]
        hits == Ranked({x \in seen : Passes(c, x, filters)}, best)
    IN  [i \in 1 .. Min({k, Len(hits)}) |-> Item(hits[i], NoRank, i)]

-----------------------------------------------------------------------------
(***************************************************************************)
(* Fusion of two lists, as every caller does.  Scores are fractions: sums   *)
(* of 1/(RrfK + rank).                                                     *)
(***************************************************************************)

RankIn(list, chunk) == CHOOSE i \in DOMAIN list : list[i].chunk = chunk

Share(list, chunk) ==
    IF chunk \in ChunksOf(list) THEN [num |-> 1, den |-> RrfK + RankIn(list, chunk)]
    ELSE [num |-> 0, den |-> 1]

Higher(p, q) == p.num * q.den > q.num * p.den

\* Mutant: only the best rank counts.
RrfScoreOfBest(a, b, chunk) ==
    IF Higher(Share(b, chunk), Share(a, chunk)) THEN Share(b, chunk) ELSE Share(a, chunk)

RrfScore(a, b, chunk) ==
    LET p == Share(a, chunk)
        q == Share(b, chunk)
    IN  [num |-> p.num * q.den + q.num * p.den, den |-> p.den * q.den]

\* A fused item keeps the first component rank a list has for it.
Merged(a, b, chunk) ==
    LET found(list) == IF chunk \in ChunksOf(list) THEN list[RankIn(list, chunk)]
                       ELSE Item(chunk, NoRank, NoRank)
        first(n, m) == IF n # NoRank THEN n ELSE m
    IN  Item(chunk, first(found(a).bm25_rank, found(b).bm25_rank),
                    first(found(a).dense_rank, found(b).dense_rank))

Fuse(a, b) ==
    LET chunks == ChunksOf(a) \cup ChunksOf(b)
        score == [x \in chunks |-> RrfScore(a, b, x)]
        order == InOrder([x \in chunks |->
                   {y \in chunks : \/ Higher(score[y], score[x])
                                   \/ ~ Higher(score[x], score[y]) /\ y < x}])
    IN  [n \in DOMAIN order |-> Merged(a, b, order[n])]

VectorSearch(c, query, k, filters, windowed) ==
    IF windowed THEN WindowedSearch(c, query, k, filters) ELSE DenseSearch(c, query, k, filters)

\* RrfHybridRetriever over the lexical and a dense arm: what it fuses is
\* deeper than what it returns.
HybridSearch(c, query, k, filters, windowed) ==
    LET depth == k * DepthFactor
    IN  Take(Fuse(Bm25Search(c, query, depth, filters),
                  VectorSearch(c, query, depth, filters, windowed)), k)

-----------------------------------------------------------------------------
(***************************************************************************)
(* Reranking.                                                              *)
(***************************************************************************)

ComparisonDocuments(r) ==
    IF r.comparison /\ r.filters.scoped /\ Cardinality(r.filters.documents) > 1
    THEN r.filters.documents ELSE {}

\* The hybrid search of a query, and of its expansion with
\* QueryExpandedRetriever.
BaseSearch(arm, c, query, k, filters) ==
    LET hybrid(q) == HybridSearch(c, q, k, filters, arm.windowed)
    IN  IF arm.expand /\ c.expanded[query] # query
        THEN Take(Fuse(hybrid(query), hybrid(c.expanded[query])), k)
        ELSE hybrid(query)

\* A place <<i, p>> is the i-th of pool p.
PoolPlaces(pools) ==
    {z \in (1 .. RerankDepth) \X DOMAIN pools : z[1] <= Len(pools[z[2]])}

\* Mutant: the pool is filled document by document.
RoundRobinInOrder(pools) ==
    LET order == InOrder([z \in PoolPlaces(pools) |-> {y \in PoolPlaces(pools) :
                            y[2] < z[2] \/ (y[2] = z[2] /\ y[1] < z[1])}])
    IN  Take([n \in DOMAIN order |-> pools[order[n][2]][order[n][1]]], RerankDepth)

\* The best of each pool, the second of each, and so on.
RoundRobin(pools) ==
    LET order == InOrder([z \in PoolPlaces(pools) |-> {y \in PoolPlaces(pools) :
                            y[1] < z[1] \/ (y[1] = z[1] /\ y[2] < z[2])}])
    IN  Take([n \in DOMAIN order |-> pools[order[n][2]][order[n][1]]], RerankDepth)

\* retrieve_candidates: a comparison searches each of its documents.
Candidates(arm, c, r) ==
    LET documents == IF arm.balance THEN SetToSeq(ComparisonDocuments(r)) ELSE <<>>
        scopes == IF documents = <<>> THEN <<r.filters>>
                  ELSE [i \in DOMAIN documents |->
                          [r.filters EXCEPT !.documents = {documents[i]}]]
    IN  RoundRobin([i \in DOMAIN scopes |->
                      BaseSearch(arm, c, r.query, RerankDepth, scopes[i])])

\* The k least of a set of numbers.
Least(S, k) == {i \in S : Cardinality({j \in S : j < i}) < k}

\* The best hit of each document first, up to k, then the best of the rest;
\* in the order of the ranking.
SelectWithCoverage(c, ranked, documents, k) ==
    LET leads == {i \in DOMAIN ranked :
                    /\ c.doc[ranked[i].chunk] \in documents
                    /\ \A j \in 1 .. i - 1 : c.doc[ranked[j].chunk] # c.doc[ranked[i].chunk]}
        reserved == Least(leads, k)
        others == Least(DOMAIN ranked \ reserved, k - Cardinality(reserved))
    IN  ElementsAt(ranked, reserved \cup others)

Reranked(candidates, relevance) ==
    LET order == Ranked(ChunksOf(candidates), relevance)
    IN  [i \in DOMAIN order |-> candidates[RankIn(candidates, order[i])]]

\* CrossEncoderReranker.search
RerankedSearch(arm, c, r) ==
    LET query == IF arm.expand THEN c.expanded[r.query] ELSE r.query
        documents == IF arm.balance THEN ComparisonDocuments(r) ELSE {}
    IN  SelectWithCoverage(c, Reranked(Candidates(arm, c, r), c.relevance[query]),
                           documents, r.top_k)

\* build_retriever: what each name stands for.
Arm(search, windowed, balance, expand) ==
    [search |-> search, windowed |-> windowed, balance |-> balance, expand |-> expand]
ArmNames == {"bm25", "dense", "rrf_hybrid", "rrf_hybrid_rerank", "coverage_rerank",
             "windowed_rerank", "windowed_coverage_rerank", "legal_query_rerank",
             "legal_query_coverage_rerank"}
ArmOf(name) ==
    LET balance == name \in {"coverage_rerank", "windowed_coverage_rerank",
                             "legal_query_coverage_rerank"}
        windowed == name \in {"windowed_rerank", "windowed_coverage_rerank"}
        expand == name \in {"legal_query_rerank", "legal_query_coverage_rerank"}
    IN  IF name \in {"bm25", "dense", "rrf_hybrid"} THEN Arm(name, FALSE, FALSE, FALSE)
        ELSE Arm("rerank", windowed, balance, expand)

Search(name, c, r) ==
    LET arm == ArmOf(name)
    IN  CASE arm.search = "bm25" -> Bm25Search(c, r.query, r.top_k, r.filters)
          [] arm.search = "dense" -> DenseSearch(c, r.query, r.top_k, r.filters)
          [] arm.search = "rrf_hybrid" ->
               HybridSearch(c, r.query, r.top_k, r.filters, FALSE)
          [] OTHER -> RerankedSearch(arm, c, r)

-----------------------------------------------------------------------------
(***************************************************************************)
(* What a search promises, of the results of every arm.                    *)
(***************************************************************************)

\* Whatever the arm, a search returns at most top_k chunks, none twice and
\* none outside the filters.
StaysInScope(c, r, results) ==
    \A found \in Range(results) :
        /\ Len(found) <= r.top_k
        /\ Cardinality(ChunksOf(found)) = Len(found)
        /\ \A x \in ChunksOf(found) : Passes(c, x, r.filters)

\* A windowed search returns the best chunks of its scope: none of the scope
\* that is left out has a better window than one that is returned.
WindowsAreExhaustive(c, r, found) ==
    LET scope == {x \in Range(c.windows) : Passes(c, x, r.filters)}
        best == [x \in scope |-> Max({c.window[r.query][v] :
                                      v \in {w \in DOMAIN c.windows : c.windows[w] = x}})]
    IN  /\ Len(found) = Min({r.top_k, Cardinality(scope)})
        /\ \A x \in ChunksOf(found), y \in scope \ ChunksOf(found) : best[y] <= best[x]

\* A chunk that two arms found outweighs one that only one of them found when
\* it is among the first RrfK + 1 of both, or in one of them no lower than the
\* other is found.  Deeper in both it may not.
RanksOf(lists, x) == {RankIn(list, x) : list \in {m \in lists : x \in ChunksOf(m)}}
Outweighs(lists, x, y) ==
    \/ \A n \in RanksOf(lists, x) : n <= RrfK + 1
    \/ \E n \in RanksOf(lists, x) : \A m \in RanksOf(lists, y) : n <= m

\* It then comes first, and the result does not depend on the order of the
\* arms.
AgreementWins(a, b, fused) ==
    LET both == ChunksOf(a) \cap ChunksOf(b)
    IN  /\ \A i, j \in DOMAIN fused :
             /\ fused[i].chunk \in both /\ fused[j].chunk \notin both
             /\ Outweighs({a, b}, fused[i].chunk, fused[j].chunk)
             => i < j
        /\ fused = Fuse(b, a)
        /\ \A i \in DOMAIN fused :
             LET rank(list) == IF fused[i].chunk \in ChunksOf(list)
                               THEN RankIn(list, fused[i].chunk) ELSE NoRank
             IN  fused[i].bm25_rank = rank(a) /\ fused[i].dense_rank = rank(b)

\* The fusions of the lexical and a dense arm, as deep as those are searched:
\* for the request, and for the pool that is reranked.
Fusions(c, r) ==
    {[lists |-> l, fused |-> Fuse(l[1], l[2])] :
       l \in {<<Bm25Search(c, r.query, k * DepthFactor, r.filters),
                VectorSearch(c, r.query, k * DepthFactor, r.filters, windowed)>> :
                k \in {r.top_k, RerankDepth}, windowed \in BOOLEAN}}

\* A comparison with room for its documents returns a chunk of each one the
\* arm finds anything in, although a longer contract may hold all of the best.
ComparisonsCover(c, r, results) ==
    \A name \in ArmNames :
        LET arm == ArmOf(name)
            documents == ComparisonDocuments(r)
            findable(d) == BaseSearch(arm, c, r.query, RerankDepth,
                                      [r.filters EXCEPT !.documents = {d}]) # <<>>
        IN  arm.balance /\ Cardinality(documents) <= Min({r.top_k, RerankDepth})
            => \A d \in documents :
                 findable(d) => \E x \in ChunksOf(results[name]) : c.doc[x] = d

===============================================================================
