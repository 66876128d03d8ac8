---------------------------- MODULE IntrusiveList ----------------------------
(* The M*LIB intrusive lists of the event loop (ILIST_DEF): an element is   *)
(* on a list at most once, because the links are stored in the element.    *)
EXTENDS Naturals, Sequences, SequencesExt

(* A list without one of its (distinct) elements. *)
Unlink(s, e) ==
  IF Contains(s, e) THEN RemoveAt(s, CHOOSE k \in 1..Len(s) : s[k] = e) ELSE s

Distinct(s) == \A j, k \in 1..Len(s) : s[j] = s[k] => j = k
=============================================================================
