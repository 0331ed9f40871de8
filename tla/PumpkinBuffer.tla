--------------------------- MODULE PumpkinBuffer ---------------------------
(***************************************************************************)
(* pumpkin_buffer<Item> (src/include/bitcoin/session.hpp, lines 39-81):   *)
(* a std::set lookup_ for exists() beside a circular std::vector expiry_  *)
(* whose slot pointer_ is overwritten next once the vector is full.       *)
(*                                                                         *)
(* The session stores the hash of each transaction inventory it requests; *)
(* whether a caller first asks exists() (Guarded) is a constant of the    *)
(* model, since session.cpp is not part of this repository.               *)
(***************************************************************************)
EXTENDS Naturals, Sequences, SequencesExt

CONSTANTS
  Items,    \* the items that may be stored (hash_digest values)
  MaxSize,  \* max_size_
  Guarded   \* callers store only items for which exists() is false

ASSUME MaxSize \in Nat \ {0}

VARIABLES
  lookup,   \* lookup_
  expiry,   \* expiry_ (1-based here; slot pointer_ is expiry[pointer + 1])
  pointer   \* pointer_

vars == <<lookup, expiry, pointer>>

\* exists(item)
Exists(x) == x \in lookup

\* Mutant: the overwritten item is not erased from lookup_.
StoreKeepsErased(x) ==
  IF Len(expiry) < MaxSize
    THEN /\ lookup' = lookup \cup {x}
         /\ expiry' = Append(expiry, x)
         /\ UNCHANGED pointer
    ELSE /\ lookup' = lookup \cup {x}
         /\ expiry' = [expiry EXCEPT ![pointer + 1] = x]
         /\ pointer' = IF pointer + 1 = Len(expiry) THEN 0 ELSE pointer + 1

StoreWrapsLate(x) ==
  IF Len(expiry) < MaxSize
    THEN /\ lookup' = lookup \cup {x}
         /\ expiry' = Append(expiry, x)
         /\ UNCHANGED pointer
    ELSE /\ lookup' = (lookup \ {expiry[pointer + 1]}) \cup {x}
         /\ expiry' = [expiry EXCEPT ![pointer + 1] = x]
         /\ pointer' = IF pointer = Len(expiry) THEN 0 ELSE pointer + 1

\* store(item): fill the vector, then overwrite the slot at pointer_ after
\* erasing its old item from lookup_, and cycle pointer_.
Store(x) ==
  IF Len(expiry) < MaxSize
    THEN /\ lookup' = lookup \cup {x}
         /\ expiry' = Append(expiry, x)
         /\ UNCHANGED pointer
    ELSE /\ lookup' = (lookup \ {expiry[pointer + 1]}) \cup {x}
         /\ expiry' = [expiry EXCEPT ![pointer + 1] = x]
         /\ pointer' = IF pointer + 1 = Len(expiry) THEN 0 ELSE pointer + 1

\* A caller stores an item (after checking exists() if Guarded).
StoreItem ==
  \E x \in Items :
    /\ Guarded => ~Exists(x)
    /\ Store(x)

\* pumpkin_buffer(max_size)
Init ==
  /\ lookup = {}
  /\ expiry = << >>
  /\ pointer = 0

Next == StoreItem

Spec == Init /\ [][Next]_vars

(***************************************************************************)
(* Properties.                                                             *)
(***************************************************************************)
TypeOK ==
  /\ lookup \subseteq Items
  /\ expiry \in Seq(Items) /\ Len(expiry) <= MaxSize
  /\ pointer \in 0 .. MaxSize - 1

\* The items oldest first: once full, the slot at pointer_ holds the oldest.
Window ==
  IF Len(expiry) < MaxSize THEN expiry
  ELSE SubSeq(expiry, pointer + 1, Len(expiry)) \o SubSeq(expiry, 1, pointer)

Abstract == INSTANCE ExpiringSet WITH window <- Window

LookupMatchesWindow == \A x \in Items : Exists(x) <=> Abstract!Exists(x)

=============================================================================
