------------------------------ MODULE MCCoBuild ------------------------------
EXTENDS CoBuild

CONSTANT MaxWords

Texts(n) == UNION {[1 .. m -> Ids \cup {Oov}] : m \in 0 .. n}

(* One word more, each the most frequent, the rarest or an unknown one. *)
LongTexts == [1 .. MaxWords + 1 -> {0, VocabSize - 1, Oov}]

(* Every line of at most MaxWords words, and the longer ones. *)
MCCorpora == [words : Texts(MaxWords) \cup LongTexts, trail : BOOLEAN]
==============================================================================
