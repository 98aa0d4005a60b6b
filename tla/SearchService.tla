---------------------------- MODULE SearchService ----------------------------
(***************************************************************************)
(* The search of services/search_service.py: by the words that a query     *)
(* shares with a tool, by the terms that occur in its text, or both; and   *)
(* the record and the counts that are kept of it.  Scores are in parts of  *)
(* Unit, those of a hybrid search in tenths of these.                      *)
(***************************************************************************)
EXTENDS Sequences, FiniteSets, Naturals, SequencesExt

CONSTANTS Words,        \* words of queries and texts
          Inside,       \* pairs of words: the first occurs in the second
          NumTools,     \* tools of _get_available_tools
          MaxTerms,     \* bound: terms of a query
          Threshold,    \* similarity_threshold, in parts of Unit
          Unit,         \* what every number of words here divides
          MaxSearches   \* bound: searches

VARIABLES text,     \* the words of each tool's name, description and tags
          asked,    \* the last search
          results,  \* its answer: a set of hits
          history,  \* the status of each search
          total, successful, failed   \* search_metrics

vars == <<text, asked, results, history, total, successful, failed>>

Offered == 1..NumTools
Queries == UNION {[1..n -> Words] : n \in 0..MaxTerms}
Types == {"semantic", "keyword", "hybrid"}

Init ==
  /\ text \in [Offered -> SUBSET Words]
  /\ asked = [query |-> <<>>, type |-> "none", max |-> 0] /\ results = {}
  /\ history = <<>>
  /\ total = 0 /\ successful = 0 /\ failed = 0

(* _calculate_similarity: shared words over all words.                     *)
Similarity(query, t) ==
  LET terms == ToSet(query) IN
  IF terms = {} \/ text[t] = {} THEN 0
  ELSE (Unit * Cardinality(terms \cap text[t])) \div Cardinality(terms \cup text[t])

(* A term counts as often as the query has it, and also inside of a word.  *)
Occurs(term, t) == \E w \in text[t] : w = term \/ <<term, w>> \in Inside
Hits(query, t) == Cardinality({i \in DOMAIN query : Occurs(query[i], t)})
KeywordScore(query, t) == IF query = <<>> THEN 0 ELSE (Unit * Hits(query, t)) \div Len(query)

(* What a search finds: a tool, its score, and its place in the list before *)
(* it is sorted.                                                           *)
Hit == [id : Offered, score : 0..(10 * Unit), place : Nat]
Ids(found) == {r.id : r \in found}

(* sort() is stable: of equal scores the one that came first stays first.  *)
Before(q, r) == q.score > r.score \/ (q.score = r.score /\ q.place < r.place)
Rank(r, found) == Cardinality({q \in found : Before(q, r)})

(* mutant: one hit more than there is room for *)
Top_more(found, max) == {r \in found : Rank(r, found) <= max}

(* The first max of the list.                                              *)
Top(found, max) == {r \in found : Rank(r, found) < max}

Similar(query) ==
  {[id |-> t, score |-> Similarity(query, t), place |-> t] :
      t \in {t \in Offered : Similarity(query, t) >= Threshold}}
SemanticSearch(query, max) == Top(Similar(query), max)

Matching(query) ==
  {[id |-> t, score |-> KeywordScore(query, t), place |-> t] :
      t \in {t \in Offered : KeywordScore(query, t) > 0}}
KeywordSearch(query, max) == Top(Matching(query), max)

(* _hybrid_search joins what both have kept: a tool that both found has    *)
(* seven parts of one score and three of the other; one that the words     *)
(* alone have found keeps its whole score, one of the terms alone three    *)
(* parts of it.                                                            *)
Combined(query, semantic, keyword, t) ==
  IF t \notin Ids(keyword) THEN 10 * Similarity(query, t)
  ELSE IF t \notin Ids(semantic) THEN 3 * KeywordScore(query, t)
  ELSE 7 * Similarity(query, t) + 3 * KeywordScore(query, t)

RankOf(t, found) == Rank(CHOOSE r \in found : r.id = t, found)

(* The results of the words come first, then what the terms alone found.   *)
PlaceOf(semantic, keyword, t) ==
  IF t \in Ids(semantic) THEN RankOf(t, semantic) ELSE Cardinality(semantic) + RankOf(t, keyword)

Joined(query, semantic, keyword) ==
  {[id |-> t, score |-> Combined(query, semantic, keyword, t),
    place |-> PlaceOf(semantic, keyword, t)] : t \in Ids(semantic) \cup Ids(keyword)}

HybridSearch(query, max) ==
  Top(Joined(query, SemanticSearch(query, max), KeywordSearch(query, max)), max)

Answer(query, type, max) ==
  CASE type = "semantic" -> SemanticSearch(query, max)
    [] type = "keyword" -> KeywordSearch(query, max)
    [] type = "hybrid" -> HybridSearch(query, max)

(* search_tools; nothing in it waits.                                      *)
SearchTools(query, type, max) ==
  /\ Len(history) < MaxSearches
  /\ asked' = [query |-> query, type |-> type, max |-> max]
  /\ results' = Answer(query, type, max)
  /\ history' = Append(history, "completed")
  /\ total' = total + 1 /\ successful' = successful + 1
  /\ UNCHANGED <<text, failed>>

(* A type that there is not.                                               *)
SearchFails ==
  /\ Len(history) < MaxSearches
  /\ asked' = [query |-> <<>>, type |-> "none", max |-> 0] /\ results' = {}
  /\ history' = Append(history, "failed")
  /\ total' = total + 1 /\ failed' = failed + 1
  /\ UNCHANGED <<text, successful>>

(* get_search_history, get_search_metrics, get_search_statistics           *)
Look == UNCHANGED vars

Next ==
  \/ \E query \in Queries, type \in Types, max \in Offered : SearchTools(query, type, max)
  \/ SearchFails
  \/ Look

Spec == Init /\ [][Next]_vars
-----------------------------------------------------------------------------
TypeOK ==
  /\ text \in [Offered -> SUBSET Words]
  /\ asked.query \in Queries /\ asked.type \in Types \cup {"none"} /\ asked.max \in 0..NumTools
  /\ results \subseteq Hit /\ history \in Seq({"completed", "failed"})
  /\ total \in Nat /\ successful \in Nat /\ failed \in Nat

(* A search gives no tool twice and no more than were asked for; what it   *)
(* leaves out for want of room is no better than what it gives.  Of a      *)
(* hybrid search this is said of what both searches had room for.          *)
ResultsAreBest ==
  LET query == asked.query IN
  /\ Cardinality(results) <= asked.max /\ \A r, s \in results : r.id = s.id => r = s
  /\ asked.type = "semantic" => \A t \in Offered \ Ids(results), r \in results :
        Similarity(query, t) <= r.score
  /\ asked.type = "keyword" => \A t \in Offered \ Ids(results), r \in results :
        KeywordScore(query, t) <= r.score
  /\ asked.type = "hybrid" /\ asked.max = NumTools =>
        \A t \in Offered : Similarity(query, t) >= Threshold => t \in Ids(results)

(* To be found by its terms too does not cost a tool its place: in a hybrid *)
(* search it scores no less than by its words alone.  (With a term twice   *)
(* in the query it may; and with a threshold below three tenths one whose  *)
(* words were left out for want of room comes in by its terms.)            *)
TermsDoNotHurt ==
  asked.type = "hybrid" /\ IsInjective(asked.query) /\ 3 * Unit <= 10 * Threshold =>
    \A r \in results :
      Similarity(asked.query, r.id) >= Threshold => r.score >= 10 * Similarity(asked.query, r.id)

(* The counts are those of the record.                                     *)
CountsMatchRecord ==
  /\ total = Len(history) /\ total = successful + failed
  /\ failed = Cardinality({i \in DOMAIN history : history[i] = "failed"})

SearchIsSound == ResultsAreBest /\ TermsDoNotHurt /\ CountsMatchRecord
=============================================================================
