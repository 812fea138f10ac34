------------------------------ MODULE HighPairs ------------------------------
(***************************************************************************)
(* Which pairs of words are frequent: the members of CoMat that say so,    *)
(* and the test of CoMat::build.  Word ids follow frequency, so a pair of  *)
(* small ids is frequent.                                                  *)
(***************************************************************************)
EXTENDS Integers

CONSTANTS
  VocabSize,   \* vocab_size
  MaxProduct,  \* max_product, a long long
  MaxWeight    \* bound on the weight a frequent pair gathers

Ids == 0 .. VocabSize - 1

(* The test with the id of the context, which counts from 0. *)
IsHigh_FromZero(i, j) == MaxProduct \div (i + 1) >= j

(* max_product / (id + 1) >= (ids[i] + 1) *)
IsHigh(i, j) == MaxProduct \div (i + 1) >= j + 1
==============================================================================
