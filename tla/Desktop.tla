------------------------------- MODULE Desktop -------------------------------
(***************************************************************************)
(* How an application is started and collected: the gui service            *)
(* (applications/services/gui/gui.c, view.c) hands keys to the view on     *)
(* top, the desktop service (applications/services/desktop/desktop.c)      *)
(* starts one application at a time in a thread of its own, and the init   *)
(* task that deletes the ended thread tells the desktop to collect it.     *)
(*                                                                         *)
(* Start requests and end notices share one short queue.  The gui task     *)
(* waits for room in it while it holds the gui lock, an application needs  *)
(* that lock to show and to remove its view, and the desktop frees a       *)
(* thread that two other tasks hold pointers to.                           *)
(*                                                                         *)
(* The event loops of the desktop and of the applications appear as what   *)
(* EventDelivery promises: the callback runs when a message is there.      *)
(***************************************************************************)
EXTENDS FuriThread

CONSTANT AppCapacity  \* DESKTOP_APP_MESSAGE_QUEUE_SIZE

ASSUME DesktopAssumption == AppCapacity \in Nat \ {0}

VARIABLES
  appq,     \* app_message_queue of the desktop, oldest first
  app,      \* DesktopApp: running, and the thread
  joining,  \* the desktop is in furi_thread_join
  gui,      \* what the gui task does under the gui lock, and to which thread
  views,    \* the application views on the gui's list, above the desktop's
  appPc,    \* where the function of each application is
  signal,   \* signal_callback and signal_context of each thread
  stop,     \* applications whose event loop was told to stop
  crashed   \* furi_crash, or a jump to a NULL pointer

appVars == <<appPc, signal, stop>>

vars == <<thread, task, scrubq, scrub, appq, app, joining, gui, views,
          appPc, signal, stop, crashed>>

Unlocked == [pc |-> "idle", thread |-> Nil]

Unset == [callback |-> FALSE, context |-> FALSE]

AppPcs == {"open", "callback", "context", "loop", "unset", "forget", "close", "done"}

Init ==
  /\ ThreadInit
  /\ appq = <<>>
  /\ app = [running |-> FALSE, thread |-> Nil]
  /\ joining = FALSE
  /\ gui = Unlocked
  /\ views = {}
  /\ appPc = [t \in Threads |-> "open"]
  /\ signal = [t \in Threads |-> Unset]
  /\ stop = {}
  /\ crashed = FALSE

GuiFree == gui.pc = "idle"

Post(m) == Len(appq) < AppCapacity /\ appq' = Append(appq, m)

(***************************************************************************)
(* The gui task.  An application's view is opaque: while there is one, the *)
(* desktop's view gets no key.                                             *)
(***************************************************************************)
(* gui_input, Ok pressed on the desktop: desktop_input asks for a start.   *)
GuiOk ==
  /\ GuiFree /\ views = {}
  /\ gui' = [pc |-> "post", thread |-> Nil]
  /\ UNCHANGED <<threadVars, appq, app, joining, views, appVars, crashed>>

(* Mutant: the type of the message is not set. *)
GuiPostUntyped ==
  /\ gui.pc = "post"
  /\ Post("")
  /\ gui' = Unlocked
  /\ UNCHANGED <<threadVars, app, joining, views, appVars, crashed>>

(* desktop_input puts without a time limit, under the gui lock. *)
GuiPost ==
  /\ gui.pc = "post"
  /\ Post("start")
  /\ gui' = Unlocked
  /\ UNCHANGED <<threadVars, app, joining, views, appVars, crashed>>

(* Back pressed on an application: furi_thread_signal finds a callback. *)
GuiBack(t) ==
  /\ GuiFree /\ t \in views
  /\ signal[t].callback
  /\ gui' = [pc |-> "signal", thread |-> t]
  /\ UNCHANGED <<threadVars, appq, app, joining, views, appVars, crashed>>

(* It reads the callback a second time (or has it in a register) and then  *)
(* the context: furi_event_loop_stop checks that it is not NULL.           *)
GuiSignal ==
  LET t == gui.thread IN
  /\ gui.pc = "signal"
  /\ \/ /\ signal[t].context
        /\ stop' = stop \union {t}
        /\ gui' = Unlocked
        /\ UNCHANGED crashed
     \/ /\ ~signal[t].callback \/ ~signal[t].context
        /\ crashed' = TRUE
        /\ UNCHANGED <<stop, gui>>
  /\ UNCHANGED <<threadVars, appq, app, joining, views, appPc, signal>>

(***************************************************************************)
(* The function of an application.                                         *)
(***************************************************************************)
AppStep(t, from, to) ==
  /\ task[t] = "running" /\ appPc[t] = from
  /\ appPc' = [appPc EXCEPT ![t] = to]
  /\ UNCHANGED <<threadVars, appq, app, joining, gui, crashed>>

(* gui_add_view, under the gui lock. *)
AppOpen(t) ==
  /\ GuiFree
  /\ AppStep(t, "open", "callback")
  /\ views' = views \union {t}
  /\ UNCHANGED <<signal, stop>>

(* furi_event_loop_run sets the signal callback and then its context. *)
AppSetCallback(t) ==
  /\ AppStep(t, "callback", "context")
  /\ signal' = [signal EXCEPT ![t].callback = TRUE]
  /\ UNCHANGED <<views, stop>>

AppSetContext(t) ==
  /\ AppStep(t, "context", "loop")
  /\ signal' = [signal EXCEPT ![t].context = TRUE]
  /\ UNCHANGED <<views, stop>>

(* The application ends itself, as the CPU application does. *)
AppExit(t) ==
  /\ task[t] = "running" /\ appPc[t] = "loop"
  /\ stop' = stop \union {t}
  /\ UNCHANGED <<threadVars, appq, app, joining, gui, views, appPc, signal, crashed>>

(* Mutant: the Stop flag is consumed with the others and not served. *)
AppStopDropped(t) ==
  /\ t \in stop
  /\ AppStep(t, "loop", "loop")
  /\ stop' = stop \ {t}
  /\ UNCHANGED <<views, signal>>

(* The loop sees the Stop flag, and the callback and context are cleared. *)
AppStopped(t) ==
  /\ t \in stop
  /\ AppStep(t, "loop", "unset")
  /\ stop' = stop \ {t}
  /\ UNCHANGED <<views, signal>>

AppUnsetCallback(t) ==
  /\ AppStep(t, "unset", "forget")
  /\ signal' = [signal EXCEPT ![t].callback = FALSE]
  /\ UNCHANGED <<views, stop>>

AppUnsetContext(t) ==
  /\ AppStep(t, "forget", "close")
  /\ signal' = [signal EXCEPT ![t].context = FALSE]
  /\ UNCHANGED <<views, stop>>

(* Mutant: the view stays on the gui's list. *)
AppCloseKeepView(t) ==
  /\ AppStep(t, "close", "done")
  /\ UNCHANGED <<views, signal, stop>>

(* gui_remove_view, under the gui lock. *)
AppClose(t) ==
  /\ GuiFree
  /\ AppStep(t, "close", "done")
  /\ views' = views \ {t}
  /\ UNCHANGED <<signal, stop>>

(***************************************************************************)
(* The thread and the init task, with the desktop's state callback.        *)
(***************************************************************************)
Body(t) ==
  /\ BodyStart(t) \/ (appPc[t] = "done" /\ BodyReturn(t)) \/ BodySuspend(t)
  /\ UNCHANGED <<appq, app, joining, gui, views, appVars, crashed>>

ScrubTask ==
  /\ Scrub
  /\ UNCHANGED <<appq, app, joining, gui, views, appVars, crashed>>

(* Mutant: the callback gives up when the queue is full. *)
ScrubPostOnce ==
  /\ ScrubNotify
  /\ appq' = IF Len(appq) < AppCapacity THEN Append(appq, "closed") ELSE appq
  /\ UNCHANGED <<app, joining, gui, views, appVars, crashed>>

(* desktop_app_thread_state_callback: waits for room. *)
ScrubPost ==
  /\ ScrubNotify
  /\ IF thread[scrub].callback THEN Post("closed") ELSE UNCHANGED appq
  /\ UNCHANGED <<app, joining, gui, views, appVars, crashed>>

(***************************************************************************)
(* The desktop, desktop_app_message_logic.                                 *)
(***************************************************************************)
Take(m) ==
  /\ ~joining
  /\ appq # <<>> /\ Head(appq) = m
  /\ appq' = Tail(appq)

(* Mutant: the request goes to the back of the queue, for later. *)
DesktopPostpone ==
  /\ ~joining /\ app.running
  /\ appq # <<>> /\ Head(appq) = "start"
  /\ appq' = Append(Tail(appq), "start")
  /\ UNCHANGED <<threadVars, app, joining, gui, views, appVars, crashed>>

(* A start request while an application runs is logged and forgotten. *)
DesktopRefuse ==
  /\ Take("start") /\ app.running
  /\ UNCHANGED <<threadVars, app, joining, gui, views, appVars, crashed>>

(* Mutant: the running flag is not looked at. *)
DesktopStartAlways(t) ==
  /\ Take("start")
  /\ Launch(t, TRUE)
  /\ app' = [running |-> TRUE, thread |-> t]
  /\ appPc' = [appPc EXCEPT ![t] = "open"]
  /\ signal' = [signal EXCEPT ![t] = Unset]
  /\ stop' = stop \ {t}
  /\ UNCHANGED <<joining, gui, views, crashed>>

DesktopStart(t) ==
  /\ Take("start") /\ ~app.running
  /\ Launch(t, TRUE)
  /\ app' = [running |-> TRUE, thread |-> t]
  /\ appPc' = [appPc EXCEPT ![t] = "open"]
  /\ signal' = [signal EXCEPT ![t] = Unset]
  /\ stop' = stop \ {t}
  /\ UNCHANGED <<joining, gui, views, crashed>>

(* An end notice without an application fails furi_check. *)
DesktopClosed ==
  /\ Take("closed")
  /\ joining' = app.running
  /\ crashed' = ~app.running
  /\ UNCHANGED <<threadVars, app, gui, views, appVars>>

DesktopCollect ==
  /\ joining
  /\ JoinFree(app.thread)
  /\ app' = [running |-> FALSE, thread |-> Nil]
  /\ joining' = FALSE
  /\ UNCHANGED <<appq, gui, views, appVars, crashed>>

(***************************************************************************)
(* Specification.  A crash ends everything.                                *)
(***************************************************************************)
AppNext(t) ==
  \/ AppOpen(t) \/ AppSetCallback(t) \/ AppSetContext(t) \/ AppExit(t)
  \/ AppStopped(t) \/ AppUnsetCallback(t) \/ AppUnsetContext(t) \/ AppClose(t)
  \/ Body(t)

DesktopNext ==
  DesktopRefuse \/ (\E t \in Threads : DesktopStart(t)) \/ DesktopClosed \/ DesktopCollect

GuiNext == GuiOk \/ GuiPost \/ (\E t \in Threads : GuiBack(t)) \/ GuiSignal

Next ==
  \/ /\ ~crashed
     /\ \/ GuiNext \/ DesktopNext \/ ScrubTask \/ ScrubPost
        \/ \E t \in Threads : AppNext(t)
  \/ crashed /\ UNCHANGED vars

Spec == Init /\ [][Next]_vars

(* Every task gets the processor.  Who waits for a lock or for room in a   *)
(* queue gets it when it is free again and again: the tasks that compete   *)
(* are of equal priority or wait for the next key press.  Nothing is       *)
(* assumed of the keys and of when an application ends by itself.          *)
Fairness ==
  /\ WF_vars(~crashed /\ DesktopNext)
  /\ WF_vars(~crashed /\ ScrubTask) /\ SF_vars(~crashed /\ ScrubPost)
  /\ SF_vars(~crashed /\ GuiPost) /\ WF_vars(~crashed /\ GuiSignal)
  /\ \A t \in Threads :
       /\ SF_vars(~crashed /\ AppOpen(t)) /\ SF_vars(~crashed /\ AppClose(t))
       /\ WF_vars(~crashed /\ (AppSetCallback(t) \/ AppSetContext(t) \/ AppStopped(t)
                                \/ AppUnsetCallback(t) \/ AppUnsetContext(t)))
       /\ WF_vars(~crashed /\ Body(t))

FairSpec == Spec /\ Fairness

(***************************************************************************)
(* Properties.                                                             *)
(***************************************************************************)
DesktopTypeOK ==
  /\ ThreadTypeOK
  /\ appq \in Seq({"start", "closed"})
  /\ app \in [running : BOOLEAN, thread : Threads \union {Nil}]
  /\ joining \in BOOLEAN
  /\ gui \in [pc : {"idle", "post", "signal"}, thread : Threads \union {Nil}]
  /\ views \subseteq Threads
  /\ appPc \in [Threads -> AppPcs]
  /\ signal \in [Threads -> [callback : BOOLEAN, context : BOOLEAN]]
  /\ stop \subseteq Threads
  /\ crashed \in BOOLEAN

(* The tasks that hold a pointer to an application's thread, the init task *)
(* that looks at its state callback and the gui task that signals it, find *)
(* it allocated, although the desktop frees it as soon as it can: a view   *)
(* is on the gui only while the function of its application runs.          *)
ForeignCallsFindThread ==
  /\ scrub # Nil => thread[scrub].alive
  /\ gui.pc = "signal" => gui.thread \in views
  /\ \A t \in views : task[t] = "running" /\ appPc[t] \notin {"open", "done"}

(* An end notice is on its way at one place at most: the init task, the    *)
(* queue, or the desktop that acts on it.                                  *)
AtMostOnce(s, e) == \A j, k \in 1..Len(s) : s[j] = e /\ s[k] = e => j = k

OneNotice ==
  /\ AtMostOnce(appq, "closed")
  /\ Contains(appq, "closed") => scrub = Nil /\ ~joining
  /\ joining => scrub = Nil

(* One application at a time: the desktop knows the only thread there is.  *)
(* An end notice is on its way exactly when that thread has stopped, so    *)
(* the desktop never acts on a stale notice, never waits for the init task *)
(* and never misses an end.                                                *)
OneApplication ==
  /\ app.running <=> app.thread # Nil
  /\ \A t \in Threads : thread[t].alive <=> app.thread = t
  /\ app.running => thread[app.thread].callback
  /\ OneNotice
  /\ Contains(appq, "closed") \/ scrub # Nil \/ joining
       <=> app.running /\ IsStopped(app.thread)

(* The assertion of furi_event_loop_stop: the signal handler of a loop is  *)
(* called with that loop.                                                  *)
SignalFindsLoop == ~crashed

(* An application whose function returns is collected, however many start  *)
(* requests compete for the queue.                                         *)
AppCollected ==
  \A t \in Threads : (task[t] = "exiting") ~> (~thread[t].alive \/ crashed)

(* An application that was told to stop ends. *)
StopEndsApp ==
  \A t \in Threads : (t \in stop /\ task[t] = "running") ~> (task[t] # "running" \/ crashed)

(* The gui task leaves the lock: it is never stuck with it behind the      *)
(* desktop, which may be waiting for an application that waits for it.     *)
GuiNeverStuck == (gui.pc # "idle") ~> (gui.pc = "idle" \/ crashed)

=============================================================================
