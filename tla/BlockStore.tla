----------------------------- MODULE BlockStore -----------------------------
(***************************************************************************)
(* What a store of pages promises: a call changes no page but those it     *)
(* names, each of them at once and only to what the call asks for, and     *)
(* returns when all of them are changed; a read returns what the store     *)
(* holds.  A call that is not sure, because the store was still at work     *)
(* when it came, may leave pages as they are and read anything.            *)
(***************************************************************************)
EXTENDS Naturals, Sequences

CONSTANTS
  Pages,      \* the number of pages
  Block,      \* the bytes of a page
  Call        \* what can be asked for: records with the fields below

\* fn is "start", "read", "erase" or "write"; a read names bytes, off and n; the
\* others name the pages page .. page + n - 1 and what they are to hold, content.

VARIABLES
  store,      \* the contents of each page
  call,       \* the call in progress, or the last one
  open,       \* whether it is in progress
  sure,       \* whether the store was at rest when it came
  answer      \* what it has read

blockstore == <<store, call, open, sure, answer>>

Byte(n) == store[n \div Block][1 + (n % Block)]
Named(c) == c.page .. c.page + c.n - 1

StoreInit == open = FALSE

Ask(c) ==
  /\ ~open
  /\ call' = c /\ open' = TRUE /\ sure' \in BOOLEAN
  /\ UNCHANGED <<store, answer>>

Change ==
  /\ open /\ call.fn \in {"erase", "write"}
  /\ \E pages \in SUBSET Named(call) :
       store' = [p \in DOMAIN store |-> IF p \in pages THEN call.content ELSE store[p]]
  /\ UNCHANGED <<call, open, sure, answer>>

\* What is read until the call returns is not said.
Fetch ==
  /\ open
  /\ UNCHANGED <<store, call, open, sure>>

Return ==
  /\ open
  /\ open' = FALSE
  /\ sure /\ call.fn = "read" => answer = [k \in 1 .. call.n |-> Byte(call.off + k - 1)]
  /\ sure /\ call.fn \in {"erase", "write"} => \A p \in Named(call) : store[p] = call.content
  /\ UNCHANGED <<store, call, sure, answer>>

StoreNext == (\E c \in Call : Ask(c)) \/ Change \/ Fetch \/ Return

StoreSpec == StoreInit /\ [][StoreNext]_blockstore

=============================================================================
