------------------------------ MODULE MCFatFs ------------------------------
(***************************************************************************)
(* FatFs on volumes of sectors of two bytes and clusters of two sectors.    *)
(* File A has any chain of one to three of the clusters of Free, the last  *)
(* but one of the volume among them, in any order, or one that is broken   *)
(* by the numbers 0 and 1, which are no clusters; and any size that needs  *)
(* the whole chain.  File C is a cluster of its own; file B has its entry   *)
(* in the second sector of the root directory.  With sectors this small    *)
(* every other entry of the FAT straddles two sectors.  And boot sectors of *)
(* every kind, sound or not, without files.  A name has two characters and *)
(* one.                                                                    *)
(***************************************************************************)
EXTENDS FatFs, FiniteSets, TLC

CONSTANTS
  Free,       \* the clusters of file A
  Sizes,      \* the sizes of file A
  EndOfChain  \* the mark of the last cluster of a chain

MCBpb == [sig |-> "55AA", bpersect |-> 2, rootent |-> 4, fatsect |-> 8, fattotsect |-> 35,
          rsvdsect |-> 1, fat_num |-> 2, sectperclust |-> 2]
LastClust == 9

Chains == {c \in UNION {[1 .. n -> Free] : n \in 1 .. 3} : Cardinality({c[k] : k \in DOMAIN c}) = Len(c)}

\* At the head of a chain the directory names them, further on the FAT does; in
\* both cases the FAT has clusters in their places.
Broken == {<<0, 3>>, <<1, 5>>, <<0, 3, 5>>, <<3, 1, 5>>, <<2, 5, 0>>}

MCVolume(chain, size) ==
  [ bpb |-> MCBpb,
    fat |-> [ c \in 1 .. LastClust + 1 |->
                IF \E k \in 1 .. Len(chain) - 1 : chain[k] = c - 1
                THEN chain[1 + CHOOSE k \in 1 .. Len(chain) - 1 : chain[k] = c - 1]
                ELSE EndOfChain ],
    dir |-> << [name |-> <<"A", " ", "A">>, clust |-> chain[1], size |-> size],
               [name |-> <<"A", "A", " ">>, clust |-> 6, size |-> 3],
               [name |-> <<" ", "A", " ">>, clust |-> 7, size |-> 2] >> ]

Odd ==
  { [ bpb |-> [sig |-> b[1], bpersect |-> b[2], rootent |-> b[3], fatsect |-> b[4],
               fattotsect |-> b[5], rsvdsect |-> 1, fat_num |-> b[6], sectperclust |-> b[7]],
      fat |-> <<>>, dir |-> <<>> ] :
      b \in {"55AA", "0000"} \X {2, 4} \X {0, 3} \X {0, 1, 5} \X {0, 4, 5, 12} \X {1, 2} \X {0, 1, 2} }

MCVolumes ==
  {MCVolume(q[1], q[2]) :
     q \in {r \in (Chains \cup Broken) \X Sizes : (r[2] + 3) \div 4 = Len(r[1])}} \cup Odd

MCPaths == UNION {[1 .. n -> {"a", "A", ".", "/", "*", " "}] : n \in 1 .. 4}
MCAsked == {<<"a", ".", "A">>, <<"A", "A", "/">>, <<" ", "A">>, <<"*">>}
=============================================================================
