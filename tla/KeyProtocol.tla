----------------------------- MODULE KeyProtocol -----------------------------
(***************************************************************************)
(* The order in which the events of one key reach whoever subscribes to    *)
(* the input service, as input.c publishes them.  input.h (lines 17-21)    *)
(* describes the events and differs in one place: there Short comes after  *)
(* Release, while input.c publishes Short first and Release last.          *)
(***************************************************************************)
CONSTANT Keys

VARIABLE last  \* the last event published for each key

EventTypes == {"Press", "Long", "Repeat", "Short", "Release"}

(* What may come next.  A press is announced once.  It ends with Release:  *)
(* right after Short when it was a short one, or, after Long, alone.       *)
After == [Press   |-> {"Long", "Short"},
          Long    |-> {"Repeat", "Release"},
          Repeat  |-> {"Repeat", "Release"},
          Short   |-> {"Release"},
          Release |-> {"Press"}]

(* A key that is down at start-up counts as pressed. *)
Init == last \in [Keys -> {"Press", "Release"}]

Event(k) == \E e \in After[last[k]] : last' = [last EXCEPT ![k] = e]

(* A Repeat after a Repeat changes nothing here. *)
Next == \E k \in Keys : Event(k)

Spec == Init /\ [][Next]_last
=============================================================================
