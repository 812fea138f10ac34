------------------------------ MODULE ModelFiles ------------------------------
(***************************************************************************)
(* The word vectors from a training process to those who read its files:   *)
(* Glove::train and Train::to_txt write log/, Data::init of both servers   *)
(* reads it, at any time, and Glove::load reads it back.  log/ is empty at *)
(* first.  The words are saved in log/vocab.txt, but loaded from vocab.txt *)
(* in the working directory, which nothing in the program writes: whoever  *)
(* runs it has to put a copy there, else load ends at its assertion.       *)
(*                                                                         *)
(* Loading is by the same object, which keeps its words, or by a new one.  *)
(* The query afterwards and the server share no state: one goes first.     *)
(***************************************************************************)
EXTENDS TopWords

CONSTANTS
    EmbedSize,      \* embed_size of the process that trains
    LoadSizes,      \* embed_size of the process that loads
    Asked           \* how many nearest words are asked for

ASSUME SizesAssumption ==
    EmbedSize \in Nat \ {0} /\ LoadSizes \subseteq Nat \ {0} /\ Asked \subseteq Nat

VARIABLES
    W1,             \* [m, n, data]: rows, columns, and data_ row by row
    log,            \* [meta, wordvec, vocab]: the files, NoFile or their lines
    vocab_txt,      \* vocab.txt in the working directory
    reader,         \* Data::init: "off", "word", "vector", "up", "aborted"
    line,           \* vocab of Data::init
    data,           \* m of Data
    rest            \* Vocabulary::load: the lines from where the stream stands

fileVars == <<W1, log, vocab_txt, reader, line, data, rest>>
vars == <<stage, vocabVars, topVars, fileVars>>

NoFile == [exists |-> FALSE, lines |-> << >>]
Written(lines) == [exists |-> TRUE, lines |-> lines]

Init ==
    /\ VocabInit /\ TopInit
    /\ W1 = [m |-> 0, n |-> 0, data |-> << >>]
    /\ log = [meta |-> NoFile, wordvec |-> NoFile, vocab |-> NoFile]
    /\ vocab_txt = NoFile
    /\ reader = "off" /\ line = EmptyWord /\ data = << >>
    /\ rest = << >>
-----------------------------------------------------------------------------
\* What training leaves in a row: column j of the vector of the word that CoMat
\* finds under id i.
Trained(i, j) == <<CHOOSE w \in DOMAIN atoi : atoi[w] = i, j>>

\* The rest of Glove::train, after the vocabulary: vocab_size = voca.size().
\* (The locals of build are gone, and the corpus is not read again.)
Train ==
    /\ stage = "train"
    /\ W1' = [m |-> size, n |-> EmbedSize,
              data |-> [k \in 1 .. size * EmbedSize |->
                          Trained((k - 1) \div EmbedSize, (k - 1) % EmbedSize)]]
    /\ stage' = "meta"
    /\ counts' = NoWords /\ corpus' = [s \in Spellings |-> 0]
    /\ UNCHANGED <<min_count, max_size, vec, freq, atoi, itoa, topVars>>
    /\ UNCHANGED <<log, vocab_txt, reader, line, data, rest>>

at(i, j) == W1.data[i * W1.n + j + 1]

Step(from, to) == stage = from /\ stage' = to
ToTxt == UNCHANGED <<vocabVars, topVars, W1, vocab_txt, reader, line, data, rest>>

WriteMeta ==
    /\ Step("meta", "openVectors")
    /\ log' = [log EXCEPT !.meta = Written(<<EmbedSize>>)]
    /\ ToTxt

OpenVectors ==
    /\ Step("openVectors", "vectors")
    /\ log' = [log EXCEPT !.wordvec = Written(<< >>)]
    /\ ToTxt

\* os << W1->at(i, j): what was written can be in the file at any time from now on,
\* with or without the values after it.
NextCell ==
    LET ls == log.wordvec.lines
    IN  IF ls = << >> \/ Len(Last(ls)) = W1.n
          THEN <<Len(ls), 0>>
          ELSE <<Len(ls) - 1, Len(Last(ls))>>

WithCell(ls, i, j) ==
    IF j = 0 THEN Append(ls, <<at(i, j)>>) ELSE [ls EXCEPT ![i + 1] = Append(@, at(i, j))]

WriteCell ==
    /\ Step("vectors", "vectors")
    /\ LET i == NextCell[1]
           j == NextCell[2]
       IN  /\ i < W1.m
           /\ log' = [log EXCEPT !.wordvec.lines = WithCell(@, i, j)]
    /\ ToTxt

\* The vectors are closed before the words are opened (the mutant does not wait for the
\* vectors).
VectorsWritten_Any == TRUE
VectorsWritten == NextCell[1] = W1.m

OpenWords ==
    /\ Step("vectors", "words") /\ VectorsWritten
    /\ log' = [log EXCEPT !.vocab = Written(<< >>)]
    /\ ToTxt

\* v[i]
WordOfRow(i) == itoa[i]

WriteWord ==
    /\ Step("words", "words")
    /\ Len(log.vocab.lines) < W1.m
    /\ log' = [log EXCEPT !.vocab.lines = Append(@, WordOfRow(Len(@)))]
    /\ ToTxt

Saved ==
    /\ Step("words", "saved")
    /\ Len(log.vocab.lines) = W1.m
    /\ UNCHANGED log /\ ToTxt

-----------------------------------------------------------------------------
(***************************************************************************)
(* Data::init.  A getline finds what is in the file by then.               *)
(***************************************************************************)
Reading == UNCHANGED <<stage, vocabVars, topVars, W1, log, vocab_txt, rest>>

Before == {"count", "keep", "add", "train", "meta", "openVectors", "vectors", "words", "saved"}

OpenData ==
    /\ reader = "off"
    /\ stage \in Before
    /\ reader' = IF log.vocab.exists /\ log.wordvec.exists THEN "word" ELSE "aborted"
    /\ UNCHANGED <<line, data>> /\ Reading

\* The line that is read next.
ReadLine == Cardinality(DOMAIN data) + 1

ReadWord ==
    /\ reader = "word"
    /\ IF ReadLine \in DOMAIN log.vocab.lines
         THEN line' = log.vocab.lines[ReadLine] /\ reader' = "vector"
         ELSE line' = EmptyWord /\ reader' = "up"
    /\ UNCHANGED data /\ Reading

ReadVector ==
    /\ reader = "vector"
    /\ IF ReadLine \in DOMAIN log.wordvec.lines
         THEN data' = Put(data, line, log.wordvec.lines[ReadLine]) /\ reader' = "word"
         ELSE UNCHANGED data /\ reader' = "up"
    /\ line' = EmptyWord /\ Reading

-----------------------------------------------------------------------------
(***************************************************************************)
(* Glove::load.                                                            *)
(***************************************************************************)
LoadOnly == UNCHANGED <<corpus, min_count, max_size, counts, vec, topVars,
                        log, vocab_txt, reader, line, data>>

\* By hand: the saved words are copied to where load looks for them.
CopyWords ==
    /\ stage = "saved" /\ ~ vocab_txt.exists
    /\ vocab_txt' = log.vocab
    /\ UNCHANGED <<stage, vocabVars, topVars, W1, log, reader, line, data, rest>>

\* std::ifstream in("vocab.txt"); assert(in);
StartLoad ==
    /\ stage = "saved" /\ reader = "off"
    /\ vocab_txt.exists
    /\ stage' = "load"
    /\ rest' = vocab_txt.lines
    /\ \/ UNCHANGED <<freq, atoi, itoa>>
       \/ freq' = NoWords /\ atoi' = NoWords /\ itoa' = NoWords
    /\ UNCHANGED W1 /\ LoadOnly

LoadAborts ==
    /\ stage = "saved" /\ reader = "off"
    /\ ~ vocab_txt.exists
    /\ stage' = "aborted"
    /\ UNCHANGED <<vocabVars, topVars, fileVars>>

\* getline(in, temp) takes the line, and in >> temp the word of the next line, but not
\* the end of that line: an empty line is left for the next getline.  If there is no
\* next line, temp stays what getline has read.
\* (The mutant takes the word by getline alone.)
LoadedWord_Line(ls) == Head(ls)
LoadedWord(ls) == IF Len(ls) = 1 THEN Head(ls) ELSE ls[2]
After(ls) == IF Len(ls) = 1 THEN << >> ELSE <<EmptyWord>> \o Tail(Tail(ls))

\* id is the number of the round.
LoadId == Len(vocab_txt.lines) - Len(rest)

LoadWord ==
    /\ stage = "load" /\ rest # << >>
    /\ atoi' = Put(atoi, LoadedWord(rest), LoadId)
    /\ itoa' = Put(itoa, LoadId, LoadedWord(rest))
    /\ rest' = After(rest)
    /\ UNCHANGED <<stage, freq, W1>> /\ LoadOnly

\* The numbers of wordvec.txt one after the other: its lines are whole by now.
Numbers ==
    LET ls == log.wordvec.lines
    IN  [k \in 1 .. Len(ls) * EmbedSize |->
           ls[((k - 1) \div EmbedSize) + 1][((k - 1) % EmbedSize) + 1]]

\* vocab_size = voca.atoi.size(); Train::Train; load_model.  All numbers of the file are
\* taken one after the other, as long as they are fewer than itoa.size() * embed_size,
\* with the embed_size of the file.  Cells beyond data_ are kept at its end here.
Fits(k) == k <= size * log.meta.lines[1]

LoadModel ==
    /\ stage = "load" /\ rest = << >>
    /\ \E n \in LoadSizes :
         LET m == Cardinality(DOMAIN atoi)
             stored == {k \in DOMAIN Numbers : Fits(k)}
         IN  W1' = [m |-> m, n |-> n,
                    data |-> [k \in 1 .. Max({m * n, Cardinality(stored)}) |->
                                IF k \in stored THEN Numbers[k] ELSE <<EmptyWord, 0>>]]
    /\ stage' = "loaded"
    /\ UNCHANGED <<freq, atoi, itoa, rest>> /\ LoadOnly

-----------------------------------------------------------------------------
\* most_similary for a word of the vocabulary.
MostSimilary ==
    /\ stage \in {"saved", "loaded"} /\ reader = "off"
    /\ DOMAIN atoi # {}
    /\ \E n \in Asked : StartQuery(n, W1.m)
    /\ UNCHANGED <<vocabVars, fileVars>>

Glove ==
    \/ Build /\ UNCHANGED <<topVars, fileVars>>
    \/ Train
    \/ WriteMeta \/ OpenVectors \/ WriteCell \/ OpenWords \/ WriteWord \/ Saved
    \/ StartLoad \/ LoadAborts \/ LoadWord \/ LoadModel
    \/ MostSimilary
    \/ Query /\ UNCHANGED <<vocabVars, fileVars>>

Data == OpenData \/ ReadWord \/ ReadVector

Next == Glove \/ Data \/ CopyWords

Spec == Init /\ [][Next]_vars
-----------------------------------------------------------------------------
Vector(w) == [j \in 1 .. EmbedSize |-> <<w, j - 1>>]

\* The type invariant: the variables hold what the comments at their declaration say.
TypeOK ==
    /\ freq \in [DOMAIN freq -> Nat \ {0}] /\ DOMAIN freq \subseteq Range(Lower)
    /\ DOMAIN atoi \subseteq Range(Lower) \cup {EmptyWord} /\ Range(atoi) \subseteq Nat
    /\ DOMAIN itoa \subseteq Nat /\ Range(itoa) \subseteq DOMAIN atoi
    /\ heap \cup Range(top) \subseteq DOMAIN weight
    /\ Len(W1.data) >= W1.m * W1.n
    /\ \A k \in DOMAIN log.wordvec.lines : Len(log.wordvec.lines[k]) <= EmbedSize
    /\ DOMAIN data \subseteq Range(log.vocab.lines)
    /\ reader \in {"off", "word", "vector", "up", "aborted"}

(***************************************************************************)
(* A server has whole vectors only, each under the word it was trained     *)
(* for, at whatever moment it starts: to_txt closes the vectors before it  *)
(* opens the words, and Data::init reads a word before its vector          *)
(* (train.cpp:136-153, Data.cpp:18).  (And the variables have their types.)*)
(***************************************************************************)
ServedVectorsAreWhole == TypeOK /\ \A w \in DOMAIN data : data[w] = Vector(w)

(***************************************************************************)
(* Where the saved words were copied to vocab.txt, and the embed_size is   *)
(* that of the files, a new object that loads them has each vector under   *)
(* the word that came after its own, the first word is lost and the last   *)
(* vector is under the empty word; only a vocabulary of one word is loaded *)
(* as it was saved (vocabulary.cpp:111-123, train.cpp:257-263).            *)
(***************************************************************************)
LoadedOneOff ==
    (stage = "loaded" /\ freq = NoWords /\ W1.n = EmbedSize) =>
        \A i \in DOMAIN itoa :
            LET own == log.vocab.lines[i + 1]
            IN  /\ [j \in 1 .. EmbedSize |-> at(i, j - 1)] = Vector(own)
                /\ itoa[i] = IF Len(log.vocab.lines) = 1 THEN own
                             ELSE IF i + 1 = Len(log.vocab.lines) THEN EmptyWord
                             ELSE log.vocab.lines[i + 2]
==============================================================================
