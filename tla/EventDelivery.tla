---------------------------- MODULE EventDelivery ----------------------------
(***************************************************************************)
(* What an event loop promises to the code that subscribes to it, without  *)
(* items, lists, flags or notifications: callbacks of subscribed objects   *)
(* only, one at a time, a level callback only on a level that is not zero, *)
(* and none forgotten.  FuriEventLoop implements it.                       *)
(***************************************************************************)
EXTENDS Naturals

CONSTANTS Objects, Kinds, Capacity, Nil

VARIABLES
  count,    \* messages in each queue
  sub,      \* what each object is subscribed to, or Nil
  serving,  \* the object whose callback runs, or Nil
  phase     \* the loop: "idle", "running" or "stopped"

evars == <<count, sub, serving, phase>>

Level(o, d) == IF d = "In" THEN count[o] > 0 ELSE count[o] < Capacity

Ready(o) == sub[o] # Nil /\ ~sub[o].edge /\ Level(o, sub[o].dir)

EInit ==
  /\ count = [o \in Objects |-> 0]
  /\ sub = [o \in Objects |-> Nil]
  /\ serving = Nil
  /\ phase = "idle"

(* Any thread changes a queue at any time. *)
Change(o) ==
  /\ \E n \in {count[o] + 1, count[o] - 1, 0} \cap 0..Capacity :
       count' = [count EXCEPT ![o] = n]
  /\ UNCHANGED <<sub, serving, phase>>

Subscribe(o, k) ==
  /\ sub[o] = Nil
  /\ sub' = [sub EXCEPT ![o] = k]
  /\ UNCHANGED <<count, serving, phase>>

Unsubscribe(o) ==
  /\ sub[o] # Nil
  /\ sub' = [sub EXCEPT ![o] = Nil]
  /\ UNCHANGED <<count, serving, phase>>

Serve(o) ==
  /\ phase = "running" /\ serving = Nil
  /\ sub[o] # Nil
  /\ sub[o].edge \/ Ready(o)
  /\ serving' = o
  /\ UNCHANGED <<count, sub, phase>>

Return ==
  /\ serving # Nil
  /\ serving' = Nil
  /\ UNCHANGED <<count, sub, phase>>

(* A stop takes effect between two callbacks. *)
Switch ==
  /\ serving = Nil
  /\ \/ phase = "idle" /\ phase' \in {"running", "stopped"}
     \/ phase = "running" /\ phase' = "stopped"
  /\ UNCHANGED <<count, sub, serving>>

ENext ==
  \/ \E o \in Objects : Change(o) \/ Unsubscribe(o) \/ Serve(o)
  \/ \E o \in Objects, k \in Kinds : Subscribe(o, k)
  \/ Return \/ Switch

Promise ==
  \A o \in Objects :
    (phase = "running" /\ Ready(o)) ~> (serving = o \/ ~Ready(o) \/ phase = "stopped")

ESafety == EInit /\ [][ENext]_evars

ESpec == ESafety /\ Promise
=============================================================================
