------------------------------ MODULE Vocabulary ------------------------------
(***************************************************************************)
(* Vocabulary::build: the words of the corpus in lower case, counted,      *)
(* those that are too rare left out, the rest sorted by how frequent they  *)
(* are and numbered in this order.  The order of the words in the corpus   *)
(* plays no part, so a corpus is how often each spelling occurs in it.     *)
(***************************************************************************)
EXTENDS Naturals, Sequences, SequencesExt, FiniteSetsExt, Functions

CONSTANTS
    Spellings,      \* the words as the corpus spells them
    Lower,          \* Lower[s]: s in lower case
    MinCounts,      \* the values of min_count
    MaxSizes,       \* the values of max_size
    MaxOccurs       \* bound: how often a spelling occurs

\* What a string is that was not read.
EmptyWord == ""

\* A word has a letter at least.
ASSUME VocabularyAssumption ==
    /\ IsFiniteSet(Spellings) /\ EmptyWord \notin Spellings
    /\ Lower \in [Spellings -> Spellings]
    /\ \A s \in Spellings : Lower[Lower[s]] = Lower[s]
    /\ MinCounts \subseteq Nat /\ MaxSizes \subseteq Nat /\ MaxOccurs \in Nat

VARIABLES
    stage,          \* where the program is
    corpus,         \* corpus[s]: how often the input file has s
    min_count, max_size,
    counts,         \* counts[w] of build
    vec,            \* vec of build: <<word, count>>, those not added yet
    freq, atoi, itoa

vocabVars == <<corpus, min_count, max_size, counts, vec, freq, atoi, itoa>>

NoWords == << >>

VocabInit ==
    /\ stage = "count"
    /\ corpus \in [Spellings -> 0 .. MaxOccurs]
    /\ min_count \in MinCounts /\ max_size \in MaxSizes
    /\ counts = NoWords /\ vec = << >>
    /\ freq = NoWords /\ atoi = NoWords /\ itoa = NoWords

\* ++counts[lower(word)] for all words of all lines
Folded(s) == Lower[s]

\* The words that split finds in the lines of the file.
Occurring == {s \in Spellings : corpus[s] > 0}

Count ==
    /\ stage = "count"
    /\ counts' = [w \in {Folded(s) : s \in Occurring} |->
                    SumFunctionOnSet(corpus, {s \in Occurring : Folded(s) = w})]
    /\ stage' = "keep"
    /\ UNCHANGED <<corpus, min_count, max_size, vec, freq, atoi, itoa>>

\* w.second >= this->min_count
Frequent == {w \in DOMAIN counts : counts[w] >= min_count}

\* std::sort leaves equal counts in any order.  (The mutant sorts upwards.)
Sorted_Upwards(ws) == \A i, j \in DOMAIN ws : i < j => counts[ws[i]] <= counts[ws[j]]
Sorted(ws) == \A i, j \in DOMAIN ws : i < j => counts[ws[i]] >= counts[ws[j]]

\* copy_if, sort and erase; then build(vec) clears the three maps.
Keep ==
    /\ stage = "keep"
    /\ \E ws \in SetToSeqs(Frequent) :
         /\ Sorted(ws)
         /\ vec' = [k \in 1 .. Min({max_size, Len(ws)}) |-> <<ws[k], counts[ws[k]]>>]
    /\ freq' = NoWords /\ atoi' = NoWords /\ itoa' = NoWords
    /\ stage' = "add"
    /\ UNCHANGED <<corpus, min_count, max_size, counts>>

size == Cardinality(DOMAIN itoa)

Put(f, x, y) == [z \in DOMAIN f \cup {x} |-> IF z = x THEN y ELSE f[z]]

add ==
    /\ stage = "add" /\ vec # << >>
    /\ LET w == Head(vec)[1]
       IN  /\ freq' = Put(freq, w, Head(vec)[2] + (IF w \in DOMAIN freq THEN freq[w] ELSE 0))
           /\ atoi' = Put(atoi, w, size)
           /\ itoa' = Put(itoa, size, w)
    /\ vec' = Tail(vec)
    /\ UNCHANGED <<stage, corpus, min_count, max_size, counts>>

Built ==
    /\ stage = "add" /\ vec = << >>
    /\ stage' = "train"
    /\ UNCHANGED vocabVars

Build == Count \/ Keep \/ add \/ Built
-----------------------------------------------------------------------------
InCorpus(w) == SumFunctionOnSet(corpus, {s \in Spellings : Lower[s] = w})

(***************************************************************************)
(* The vocabulary that training uses: ids are 0, 1, ... without a gap and  *)
(* say the same as words; a word of a smaller id is at least as frequent,  *)
(* and so is every word that is kept as one that is not; a word is left    *)
(* out only because it is too rare or the vocabulary is full               *)
(* (vocabulary.cpp:33-62).  All words are those of the corpus in lower     *)
(* case; what CoMat::lookup makes of another spelling is not part of this. *)
(***************************************************************************)
WordsByFrequency ==
    stage = "train" =>
      /\ DOMAIN itoa = 0 .. size - 1
      /\ atoi = [w \in Range(itoa) |-> CHOOSE i \in DOMAIN itoa : itoa[i] = w]
      /\ \A w \in DOMAIN atoi : freq[w] = InCorpus(w) /\ freq[w] >= min_count
      /\ \A v, w \in DOMAIN atoi : atoi[v] < atoi[w] => InCorpus(v) >= InCorpus(w)
      /\ \A w \in Range(Lower) \ DOMAIN atoi :
           \/ InCorpus(w) < Max({min_count, 1})
           \/ size = max_size /\ \A v \in DOMAIN atoi : InCorpus(v) >= InCorpus(w)
==============================================================================
