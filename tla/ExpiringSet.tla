---------------------------- MODULE ExpiringSet ----------------------------
(***************************************************************************)
(* What pumpkin_buffer (src/include/bitcoin/session.hpp) promises: it      *)
(* remembers the last MaxSize items stored, older ones expire, and exists  *)
(* tells whether an item is among those remembered.                        *)
(***************************************************************************)
EXTENDS Naturals, Sequences, SequencesExt

CONSTANTS Items, MaxSize

VARIABLE window   \* the items stored, oldest first, at most MaxSize of them

Exists(x) == x \in ToSet(window)

Store(x) ==
  window' = IF Len(window) < MaxSize THEN Append(window, x)
            ELSE Append(Tail(window), x)

Init == window = << >>

Next == \E x \in Items : Store(x)

Spec == Init /\ [][Next]_window
=============================================================================
