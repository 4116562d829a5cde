------------------------------- MODULE Search -------------------------------
(***************************************************************************)
(* A search of the knowledge base: searchInFolders over documents, and     *)
(* searchChunksInFolders over chunks, with its lexical route, its vector   *)
(* route, their fusion by reciprocal rank and the page that is cut from    *)
(* the result.                                                             *)
(*                                                                         *)
(* A search is three reads of the database with an upstream call between   *)
(* them; edits and deletions run beside it.  A row is known by what the    *)
(* search looks at: whether it is ready and in a folder of the searcher,   *)
(* how well its words match the query, how near its vector is.  Edits give *)
(* a text new rows, so a row never changes, it only goes.                  *)
(***************************************************************************)
EXTENDS Integers, Sequences, FiniteSets, SequencesExt, FiniteSetsExt

CONSTANTS Ids,        \* row ids, in the order they were given
          None,
          Scores,     \* of a match, lexical or by vector
          TopK,       \* embedVecTopK: candidates of a route that are fused
          K,          \* rrfK
          ScanLimit,  \* embedScanLimit
          DefaultSize, MaxSize,
          Word,       \* an int is -Word..Word - 1
          Asked,      \* the page numbers and sizes that are asked for
          MaxChanges  \* edits and deletions

ASSUME SearchAssumption ==
  /\ Ids \subseteq Nat /\ IsFiniteSet(Ids)
  /\ Scores \subseteq Nat /\ None \notin Scores
  /\ {TopK, K, ScanLimit, DefaultSize, MaxSize, Word} \subseteq Nat \ {0}
  /\ Asked \subseteq -Word..(Word - 1)
  /\ MaxChanges \in Nat

VARIABLES rows,     \* [visible, lex, vec] of every row, None without it
          fresh,    \* ids that are still to be given
          changes,
          pc,       \* of the search
          level,    \* what is searched: documents or chunks
          lex,      \* the candidates of the lexical route, best first
          vec,      \* those of the vector route
          all,      \* the ranking
          asked,    \* page, size
          answer    \* total, items
searchVars == <<rows, fresh, changes, pc, level, lex, vec, all, asked, answer>>

Rows == [visible : {TRUE}, lex : Scores \cup {None}, vec : Scores \cup {None}]
          \cup {[visible |-> FALSE, lex |-> Max(Scores), vec |-> Max(Scores)]}
Unasked == [page |-> 0, size |-> 0]
NoAnswer == [total |-> -1, items |-> <<>>]

SearchInit ==
  /\ \E S \in {S \in SUBSET Ids : \A i \in Ids \ S : \A j \in S : j < i} :
       /\ rows \in {r \in [Ids -> Rows \cup {None}] :
                       \A i \in Ids : r[i] = None <=> i \notin S}
       /\ fresh = Ids \ S
  /\ changes = 0
  /\ pc = "lexical" /\ level \in {"documents", "chunks"}
  /\ lex = <<>> /\ vec = <<>> /\ all = <<>>
  /\ asked = Unasked /\ answer = NoAnswer

-----------------------------------------------------------------------------
\* By score, best first, and by id where it is the same (sort.SliceStable): a
\* place is the number of those that are better.
Better(score, a, b) == \/ score[a] > score[b]
                       \/ score[a] = score[b] /\ a < b
Ahead(S, score, i) == {j \in S : Better(score, j, i)}
Ranked(S, score) ==
  [r \in 1..Cardinality(S) |->
     CHOOSE i \in S : Cardinality(Ahead(S, score, i)) = r - 1]
First(s, n) == SubSeq(s, 1, Min({Len(s), n}))

Visible == {i \in Ids : rows[i] # None /\ rows[i].visible}
Matching == {i \in Visible : rows[i].lex # None}
Near == {i \in Visible : rows[i].vec # None}

\* lexicalCandidates, or the candidates of searchInFolders.
ReadLexical ==
  /\ pc = "lexical"
  /\ lex' = Ranked(Matching, [i \in Matching |-> rows[i].lex])
  /\ \/ /\ level = "chunks" /\ pc' = "vector" /\ UNCHANGED all
     \/ /\ level = "documents" /\ pc' = "page" /\ all' = lex'
  /\ UNCHANGED <<rows, fresh, changes, level, vec, asked, answer>>

\* vectorHits: the newest ScanLimit vectors are compared.
Scanned == {i \in Near : Cardinality({j \in Near : j > i}) < ScanLimit}
ReadVector ==
  /\ pc = "vector"
  /\ vec' = First(Ranked(Scanned, [i \in Scanned |-> rows[i].vec]), TopK)
  /\ pc' = "fuse"
  /\ UNCHANGED <<rows, fresh, changes, level, lex, all, asked, answer>>

\* No embedder, no model, or an upstream that fails: lexical only.
LexicalOnly ==
  /\ pc = "vector"
  /\ pc' = "fuse"
  /\ UNCHANGED <<rows, fresh, changes, level, lex, vec, all, asked, answer>>

-----------------------------------------------------------------------------
Place(s, i) == CHOOSE r \in DOMAIN s : s[r] = i

\* Reciprocal rank fusion; fractions are brought to a common denominator.
Product[n \in 0..TopK] == IF n = 0 THEN 1 ELSE (K + n) * Product[n - 1]
Part(s, i) ==
  IF i \in ToSet(s) THEN Product[TopK] \div (K + Place(s, i)) ELSE 0
Fused(a, b, S) == Ranked(S, [i \in S |-> Part(a, i) + Part(b, i)])

\* Rows of the vector route alone are read now, and those that are gone by
\* now are left out.
Loaded(S) == {i \in S : i \in ToSet(lex) \/ rows[i] # None}

Fuse ==
  /\ pc = "fuse"
  /\ all' = IF vec = <<>> THEN lex
            ELSE LET top == First(lex, TopK)
                 IN Fused(top, vec, Loaded(ToSet(top) \cup ToSet(vec)))
  /\ pc' = "page"
  /\ UNCHANGED <<rows, fresh, changes, level, lex, vec, asked, answer>>

-----------------------------------------------------------------------------
\* The page: clamped, and computed in the width of an int.
Wrapped(n) == ((n + Word) % (2 * Word)) - Word
Page(p) == IF p < 1 THEN 1 ELSE p
Size(s) == IF s <= 0 THEN DefaultSize ELSE IF s > MaxSize THEN MaxSize ELSE s
(* A plausible bug, the twin of the next definition; see UploadQueue.      *)

\* Pages counted from 0.
StartFromZero(p, s) == Wrapped(Page(p) * Size(s))

Start(p, s) == Wrapped(Wrapped(Page(p) - 1) * Size(s))
Slice(s, start, end) == SubSeq(s, start + 1, Min({Len(s), end}))

AnswerPage(p, s) ==
  /\ pc = "page" /\ Start(p, s) >= 0
  /\ asked' = [page |-> p, size |-> s]
  /\ answer' = [total |-> Len(all),
                items |-> IF Start(p, s) >= Len(all) THEN <<>>
                          ELSE Slice(all, Start(p, s), Start(p, s) + Size(s))]
  /\ pc' = "done"
  /\ UNCHANGED <<rows, fresh, changes, level, lex, vec, all>>

\* A negative start is an index out of range: the handler panics.
Panic(p, s) ==
  /\ pc = "page" /\ Start(p, s) < 0
  /\ asked' = [page |-> p, size |-> s]
  /\ pc' = "panicked"
  /\ UNCHANGED <<rows, fresh, changes, level, lex, vec, all, answer>>

-----------------------------------------------------------------------------
(* Meanwhile (ReplaceChunks, DeleteKBDocument): rows go, and an edited text*)
(* comes back under an id that was never used.                             *)
Change(i) ==
  /\ rows[i] # None /\ changes < MaxChanges
  /\ changes' = changes + 1
  /\ \/ rows' = [rows EXCEPT ![i] = None] /\ UNCHANGED fresh
     \/ /\ fresh # {}
        /\ rows' = [rows EXCEPT ![i] = None, ![Min(fresh)] = rows[i]]
        /\ fresh' = fresh \ {Min(fresh)}
  /\ UNCHANGED <<pc, level, lex, vec, all, asked, answer>>

SearchNext == \/ ReadLexical \/ ReadVector \/ LexicalOnly \/ Fuse
              \/ \E p, s \in Asked : AnswerPage(p, s) \/ Panic(p, s)
              \/ \E i \in Ids : Change(i)

SearchSpec == SearchInit /\ [][SearchNext]_searchVars

-----------------------------------------------------------------------------
Leads(s, a, b) ==    \* a is in s, and b is behind it or not in s
  a \in ToSet(s) /\ (b \in ToSet(s) => Place(s, a) < Place(s, b))
Agreed(top) == ToSet(First(top, K + 1)) \cap ToSet(First(vec, K + 1))

(* "chunks both routes agree on rank first" (SearchChunks): among the      *)
(* first K + 1 of each, a chunk of both is ahead of every chunk of one;    *)
(* further down a chunk of both may be behind the best of one.  And where  *)
(* the routes agree on an order of two chunks, so does the ranking.        *)
Prefer(top, a, b) ==
  \/ a \in Agreed(top) /\ b \notin ToSet(top) \cap ToSet(vec)
  \/ Leads(top, a, b) /\ (Leads(vec, a, b) \/ {a, b} \cap ToSet(vec) = {})
  \/ Leads(vec, a, b) /\ {a, b} \cap ToSet(top) = {}
RoutesAgree ==
  pc = "page" /\ level = "chunks" /\ vec # <<>> =>
    \A a, b \in ToSet(all) :
      a # b /\ Prefer(First(lex, TopK), a, b) => Place(all, a) < Place(all, b)

(* The ranking holds no row twice, every match of the lexical route when   *)
(* that is all there is, its best TopK otherwise, and nothing that neither *)
(* route has found; nothing of the vectors is lost but what is deleted.    *)
RankingIsComplete ==
  pc \in {"page", "done"} =>
    /\ IsInjective(all)
    /\ vec = <<>> => ToSet(all) = ToSet(lex)
    /\ ToSet(First(lex, TopK)) \subseteq ToSet(all)
    /\ ToSet(all) \subseteq ToSet(lex) \cup ToSet(vec)
    /\ \A i \in ToSet(vec) : rows[i] # None => i \in ToSet(all)

(* "ordering and totals always agree" (searchInFolders): page p of size s  *)
(* is rows (p - 1) s + 1 to p s of the ranking, so that pages do not       *)
(* overlap and leave nothing out, whatever is asked for, as long as the    *)
(* first of these numbers is an int.                                       *)
PagesAgree ==
  LET p == Page(asked.page)
      s == Size(asked.size)
  IN pc \in {"done", "panicked"} /\ (p - 1) * s < Word =>
       /\ pc = "done"
       /\ answer.total = Len(all)
       /\ ToSet(answer.items) = {i \in ToSet(all) : (p - 1) * s < Place(all, i)
                                                  /\ Place(all, i) <= p * s}
       /\ IsInjective(answer.items)
       /\ \A i, j \in ToSet(answer.items) : Place(all, i) < Place(all, j) =>
            Place(answer.items, i) < Place(answer.items, j)

SearchHolds == RoutesAgree /\ RankingIsComplete /\ PagesAgree

(* What makes it inductive.  A row of the vector route that is gone never  *)
(* comes back: what changes is given an id that no search has seen.        *)
SearchTypeOK ==
  /\ rows \in [Ids -> Rows \cup {None}] /\ fresh \subseteq Ids
  /\ changes \in 0..MaxChanges
  /\ pc \in {"lexical", "vector", "fuse", "page", "done", "panicked"}
  /\ level \in {"documents", "chunks"}
  /\ lex \in Seq(Ids) /\ vec \in Seq(Ids) /\ all \in Seq(Ids)
  /\ asked \in [page : Asked \cup {0}, size : Asked \cup {0}]
  /\ answer \in [total : Nat \cup {-1}, items : Seq(Ids)]
RoutesAreRead ==
  /\ pc = "lexical" => lex = <<>>
  /\ pc \in {"lexical", "vector"} => vec = <<>>
  /\ pc \in {"vector", "fuse"} => level = "chunks"
RoutesAreRankings ==
  /\ IsInjective(lex) /\ IsInjective(vec) /\ Len(vec) <= TopK
NewIdsAreUnseen ==
  \A i \in fresh : rows[i] = None /\ i \notin ToSet(vec)
SearchInv ==
  SearchTypeOK /\ RoutesAreRead /\ RoutesAreRankings /\ NewIdsAreUnseen /\ SearchHolds
=============================================================================
