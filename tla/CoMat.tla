-------------------------------- MODULE CoMat --------------------------------
(***************************************************************************)
(* CoMat::build: one pass over the corpus that turns every pair of words   *)
(* at most Window apart into a weighted co-occurrence.  Frequent pairs are *)
(* counted in the table of BigramTable, here the counters of PairCounts.   *)
(* The others are collected in a list, which is sorted and written to a    *)
(* temporary file of its own whenever it grows to OverflowLength.  At the  *)
(* end the rest of the list and the table are written too; MergeFiles      *)
(* reads the files back.                                                   *)
(*                                                                         *)
(* A corpus is one line of text: the sequence of its words, each a word id *)
(* or Oov for a word that is not in the vocabulary, and whether a blank    *)
(* follows the last word.  Corpora of several lines are left out: see      *)
(* Slide.                                                                  *)
(***************************************************************************)
EXTENDS HighPairs, CoRecords, SequencesExt

CONSTANTS
  Window, OverflowLength,  \* members of CoMat, as are those of HighPairs
  Unit,     \* integer that stands for the weight 1.0
  MaxFid,   \* bound on fidCounter
  Corpora,  \* the corpora, see above
  Oov,      \* a word that the vocabulary does not have
  Empty     \* the empty string

ASSUME BuildAssumption ==
  /\ VocabSize \in Nat /\ MaxProduct \in Nat \ {0}
  /\ Window \in Nat \ {0} /\ OverflowLength \in Nat \ {0}
  /\ Unit \in Nat /\ MaxFid \in Nat /\ MaxWeight \in Nat
  /\ Oov \notin Ids /\ Empty \notin Ids \cup {Oov}
  /\ \A text \in Corpora :
       text.words \in Seq(Ids \cup {Oov}) /\ text.trail \in BOOLEAN

Fids == 0 .. MaxFid

VARIABLES
  corpus, next, eof,    \* the input stream: its text, the next word, eof()
  center, id, exists,   \* the members of the same names
  win,                  \* ids and flags
  k,                    \* loop variable over win, counted from 1
  low, lowCount, fid,   \* low_cooccur, lowCount, fidCounter
  files,                \* temp.bin_<fid>
  counts, emitted, closed,  \* the table: see PairCounts
  pc

text == <<corpus, next, eof>>
word == <<center, id, exists>>
table == <<counts, emitted, closed>>
vars == <<text, word, win, k, low, lowCount, fid, files, table, pc>>

Pairs == INSTANCE PairCounts

(* A loop that asks a stream other than the one it reads for the end. *)
AtEof_OtherStream(n) == FALSE

(* eof() after the attempt to read word n. *)
AtEof(n) ==
  \/ n > Len(corpus.words)
  \/ n = Len(corpus.words) /\ ~ corpus.trail

(* Opening temp.bin_0 and reading the first word, whose id and flag are    *)
(* 0 and false without a look at the vocabulary.                           *)
Init ==
  /\ corpus \in Corpora
  /\ next = 2
  /\ eof = AtEof(1)
  /\ center = Empty
  /\ id = 0
  /\ exists = FALSE
  /\ win = <<[id |-> 0, flag |-> FALSE]>>
  /\ k = 1
  /\ low = << >>
  /\ lowCount = 0
  /\ fid = 0
  /\ files = [f \in Fids |-> << >>]
  /\ Pairs!Init
  /\ pc = "head"

-----------------------------------------------------------------------------
(* CoMat::write_chunk sorts the list, which keeps the order of records of  *)
(* one cell, and takes its head off, one after the other.  A head equal to *)
(* the LAST record of the list is added to it, any other is written; so    *)
(* only the records of the greatest cell are merged.                       *)

(* The places of the records of s, in the order they have when sorted. *)
Orders(s) ==
  {p \in Bijection(DOMAIN s, DOMAIN s) :
     \A m, n \in DOMAIN s :
       m < n => \/ Precedes(s[p[m]], s[p[n]])
                \/ SameCell(s[p[m]], s[p[n]]) /\ p[m] < p[n]}

Chunk(s, p) ==
  LET last  == s[p[Len(s)]]
      first == Min({n \in DOMAIN s : SameCell(s[p[n]], last)})
  IN  IF s = << >> THEN << >>
      ELSE Append([n \in 1 .. first - 1 |-> s[p[n]]],
                  [last EXCEPT !.weight = WeightOf(s, last.i, last.j)])

-----------------------------------------------------------------------------
(* CoMat::build *)

(* A flush after which the records stay in the list. *)
FlushChunk_KeepsList ==
  /\ pc = "head" /\ ~ eof
  /\ lowCount >= OverflowLength
  /\ fid < MaxFid
  /\ \E p \in Orders(low) : files' = [files EXCEPT ![fid] = Chunk(low, p)]
  /\ lowCount' = 0
  /\ fid' = fid + 1
  /\ UNCHANGED <<text, word, win, k, low, table, pc>>

FlushChunk ==
  /\ pc = "head" /\ ~ eof
  /\ lowCount >= OverflowLength
  /\ fid < MaxFid
  /\ \E p \in Orders(low) : files' = [files EXCEPT ![fid] = Chunk(low, p)]
  /\ low' = << >>
  /\ lowCount' = 0
  /\ fid' = fid + 1
  /\ UNCHANGED <<text, word, win, k, table, pc>>

(* lookup leaves id alone when the word is not in the vocabulary. *)
Lookup(x) == IF x = Oov THEN id ELSE x

(* input >> center, and lookup.  A failed extraction leaves center alone:  *)
(* after a trailing blank the last word is a center once more.             *)
ReadCenter ==
  /\ pc = "head" /\ ~ eof
  /\ lowCount < OverflowLength
  /\ eof' = AtEof(next)
  /\ IF next <= Len(corpus.words)
     THEN center' = corpus.words[next] /\ next' = next + 1
     ELSE UNCHANGED <<center, next>>
  /\ IF center' = Empty
     THEN UNCHANGED <<id, exists, k, pc>>
     ELSE /\ exists' = (center' # Oov)
          /\ id' = Lookup(center')
          /\ k' = 1
          /\ pc' = "pairs"
  /\ UNCHANGED <<corpus, win, low, lowCount, fid, files, table>>

(* 1.0 / (ids.size() - i), for n words and the m-th, counted from 1. *)
Weight(n, m) == Unit \div (n - m + 1)

(* One round of the loop over the context words. *)
PairContext ==
  /\ pc = "pairs" /\ exists
  /\ k <= Len(win)
  /\ k' = k + 1
  /\ LET w == Weight(Len(win), k)
     IN  CASE ~ win[k].flag ->
                UNCHANGED <<low, lowCount, table>>
           [] win[k].flag /\ IsHigh(id, win[k].id) ->
                /\ Pairs!Add(id, win[k].id, w)
                /\ UNCHANGED <<low, lowCount>>
           [] OTHER ->
                /\ low' = Append(low, Rec(id, win[k].id, w))
                /\ lowCount' = lowCount + 1
                /\ UNCHANGED table
  /\ UNCHANGED <<text, word, win, fid, files, pc>>

(* The oldest word is dropped one word late. *)
Slid_Late(s, x) == IF Len(s) > Window THEN Append(Tail(s), x) ELSE Append(s, x)

Slid(s, x) == IF Len(s) >= Window THEN Append(Tail(s), x) ELSE Append(s, x)

(* sliding_window.  Its branch for a line break is left out: the corpus is *)
(* one line.  The code never takes it, whatever the corpus: the test looks *)
(* at the member input, which is never opened, while build reads from a    *)
(* local stream of that name.                                              *)
Slide ==
  /\ pc = "pairs"
  /\ exists => k > Len(win)
  /\ win' = Slid(win, [id |-> id, flag |-> exists])
  /\ pc' = "head"
  /\ UNCHANGED <<text, word, k, low, lowCount, fid, files, table>>

(* foverflow has been open on temp.bin_0 since before the loop and stands  *)
(* at its beginning: it overwrites what a chunk of the loop put there.     *)
WriteRest ==
  /\ pc = "head" /\ eof
  /\ \E p \in Orders(low) :
       LET rest == Chunk(low, p)
       IN  files' = [files EXCEPT ![0] = rest \o SubSeq(@, Len(rest) + 1, Len(@))]
  /\ low' = << >>
  /\ pc' = "rest"
  /\ UNCHANGED <<text, word, win, k, lowCount, fid, table>>

(* write_high_cooccur truncates temp.bin_<fid> and writes the table to it. *)
WriteHigh ==
  /\ pc = "rest"
  /\ LET present == {p \in Ids \X Ids : counts[p] > 0}
     IN  emitted' = SetToSortSeq({Rec(p[1], p[2], counts[p]) : p \in present},
                                 Precedes)
  /\ Pairs!Emit
  /\ files' = [files EXCEPT ![fid] = emitted']
  /\ pc' = "built"
  /\ UNCHANGED <<text, word, win, k, low, lowCount, fid>>

Next ==
  \/ FlushChunk
  \/ ReadCenter
  \/ PairContext
  \/ Slide
  \/ WriteRest
  \/ WriteHigh

Spec == Init /\ [][Next]_vars /\ WF_vars(Next)

-----------------------------------------------------------------------------
TypeOK ==
  /\ corpus \in Corpora
  /\ next \in Nat /\ eof \in BOOLEAN
  /\ center \in Ids \cup {Oov, Empty}
  /\ id \in Ids \cup {0} /\ exists \in BOOLEAN
  /\ win \in Seq([id : Ids \cup {0}, flag : BOOLEAN])
  /\ k \in Nat /\ lowCount \in Nat /\ fid \in Fids
  /\ Len(low) <= OverflowLength - 1 + Window
  /\ pc \in {"head", "pairs"} => lowCount = Len(low)
  /\ low \in Seq([i : Ids, j : Ids, weight : Nat])
  /\ files \in [Fids -> Seq([i : Ids, j : Ids, weight : Nat])]
  /\ pc \in {"head", "pairs", "rest", "built"}

(* The words that take part: the first one never does, and the last one is *)
(* a center twice when a blank follows it.                                 *)
Centers ==
  LET n == Len(corpus.words)
  IN  IF corpus.trail /\ n >= 2
      THEN Append(corpus.words, corpus.words[n]) ELSE corpus.words

(* How many of them have been centers already, the first one included. *)
Done == IF eof THEN Len(Centers) ELSE next - 1

(* The pairs of positions at most Window apart that co-occur as (i, j); all *)
(* are on the one line of the corpus.                                      *)
Occurrences(i, j) ==
  {p \in (2 .. Done) \X (2 .. Done) :
     /\ p[2] < p[1] /\ p[1] <= p[2] + Window
     /\ Centers[p[1]] = i /\ Centers[p[2]] = j}

Expected(i, j) ==
  SumFunction([p \in Occurrences(i, j) |-> Unit \div (p[1] - p[2])])

InFiles(i, j) == SumFunction([f \in Fids |-> WeightOf(files[f], i, j)])

Gathered(i, j) == counts[<<i, j>>] + WeightOf(low, i, j) + InFiles(i, j)

(* In a corpus of one line, whenever a center is finished, the table, the  *)
(* list and the chunks written so far add up to the co-occurrences of the  *)
(* words read so far: nothing is lost or counted twice by the window, by   *)
(* the two kinds of storage or by the flushes in between.  All the while   *)
(* the types hold, and the list stays within its limit and the records of  *)
(* one more center.                                                        *)
GatheredIsExpected ==
  /\ TypeOK
  /\ pc = "head" => \A i, j \in Ids : Gathered(i, j) = Expected(i, j)

(* At the end the files hold every frequent pair in full, and no pair with *)
(* more than its weight, although two streams write to temp.bin_0 and the  *)
(* table may replace the rest of the list.                                 *)
FilesFaithful ==
  pc = "built" => \A i, j \in Ids :
    /\ InFiles(i, j) <= Expected(i, j)
    /\ IsHigh(i, j) => InFiles(i, j) = Expected(i, j)

(* The build ends, however many words the corpus has. *)
BuildEnds == <>(pc = "built")

-----------------------------------------------------------------------------
(* "merging the frequent and the infrequent triples gives the co-occurrence*)
(* matrix" (cooccur.cpp:8): no triple is lost on the way to the files.     *)
NothingLost ==
  pc = "built" => \A i, j \in Ids : InFiles(i, j) = Expected(i, j)
=============================================================================
