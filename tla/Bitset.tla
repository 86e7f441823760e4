------------------------------- MODULE Bitset -------------------------------
(***************************************************************************)
(* porcupine/bitset.go: a set of operation ids in words of Width bits (64  *)
(* in the code), as checkSingle uses it: the operations linearized are set *)
(* and cleared one by one, and compared with those of cached               *)
(* configurations by hash first, then word by word.                        *)
(***************************************************************************)
EXTENDS Integers, Sequences, SequencesExt, FiniteSets, Bitwise

CONSTANT Width  \* the bits of a word

\* bitsetIndex; words are numbered from 1 here.
major(pos) == (pos \div Width) + 1
minor(pos) == pos % Width

newBitset(n) ==
  LET extra == IF n % Width # 0 THEN 1 ELSE 0
  IN [i \in 1 .. (n \div Width) + extra |-> 0]

set(b, pos) == [b EXCEPT ![major(pos)] = @ | (2^minor(pos))]

clear(b, pos) == [b EXCEPT ![major(pos)] = @ - (@ & (2^minor(pos)))]

get(b, pos) == (b[major(pos)] & (2^minor(pos))) # 0

OnesCount(w) == Cardinality({i \in 0 .. Width - 1 : (w & (2^i)) # 0})

popcnt(b) == FoldLeft(LAMBDA total, w : total + OnesCount(w), 0, b)

hash(b) == FoldLeft(LAMBDA h, w : h ^^ w, popcnt(b), b)

equals(b, b2) == Len(b) = Len(b2) /\ \A i \in DOMAIN b : b[i] = b2[i]
=============================================================================
