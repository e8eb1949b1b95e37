------------------------------ MODULE MCAt45db ------------------------------
(***************************************************************************)
(* At45db with three pages of two bytes, each byte unlike the others, and  *)
(* a count that goes to five: reads of no byte, across pages, of a page    *)
(* and of as many bytes as make the count wrap.                            *)
(***************************************************************************)
EXTENDS At45db, TLC

MCContents == { 0 :> <<1, 2>> @@ 1 :> <<3, 4>> @@ 2 :> <<5, 6>> }

MCCall ==
  { [fn |-> "start"] }
    \cup { [fn |-> "read", blocks |-> FALSE, off |-> r[1], n |-> r[2]] : r \in {<<1, 3>>, <<0, 6>>, <<2, 0>>} }
    \cup { [fn |-> "read", blocks |-> TRUE, off |-> 2 * Block, n |-> Block] }
    \cup { [fn |-> "erase", whole |-> TRUE, page |-> 0, n |-> Pages, content |-> Erased],
           [fn |-> "erase", whole |-> FALSE, page |-> 2, n |-> 1, content |-> Erased],
           [fn |-> "write", page |-> 0, n |-> 2, content |-> <<7, 8>>] }
=============================================================================
