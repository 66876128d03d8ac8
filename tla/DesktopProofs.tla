---------------------------- MODULE DesktopProofs ----------------------------
(***************************************************************************)
(* Proofs about Desktop, for every number of blocks, every length of the   *)
(* two queues and any keys: the desktop's use of threads is a use that     *)
(* FuriThread describes, and one application runs at a time.               *)
(***************************************************************************)
EXTENDS Desktop, FuriThreadProofs

DesktopInv ==
  /\ DesktopTypeOK
  /\ TaskMatchesState
  /\ ForeignCallsFindThread
  /\ OneApplication

LEMMA DesktopInvInit == Init => DesktopInv
<1> SUFFICES ASSUME Init PROVE DesktopInv
  OBVIOUS
<1>1. ThreadTypeOK /\ TaskMatchesState
  BY ThreadInvInit DEF Init, ThreadInv
<1>2. DesktopTypeOK
  <2>1. appq \in Seq({"start", "closed"}) /\ views \subseteq Threads /\ stop \subseteq Threads
    BY DEF Init
  <2>2. /\ app \in [running : BOOLEAN, thread : Threads \union {Nil}]
        /\ gui \in [pc : {"idle", "post", "signal"}, thread : Threads \union {Nil}]
        /\ joining \in BOOLEAN /\ crashed \in BOOLEAN
    BY DEF Init, Unlocked
  <2>3. /\ appPc \in [Threads -> AppPcs]
        /\ signal \in [Threads -> [callback : BOOLEAN, context : BOOLEAN]]
    BY DEF Init, Unset, AppPcs
  <2> QED BY <1>1, <2>1, <2>2, <2>3 DEF DesktopTypeOK
<1>3. ForeignCallsFindThread
  BY DEF Init, ThreadInit, Unlocked, ForeignCallsFindThread
<1>4. OneApplication
  <2>1. /\ appq = <<>> /\ scrub = Nil /\ ~joining
        /\ ~app.running /\ app.thread = Nil
        /\ \A t \in Threads : ~thread[t].alive
    BY DEF Init, ThreadInit, Gone
  <2>2. AtMostOnce(appq, "closed") /\ ~Contains(appq, "closed")
    BY <2>1 DEF AtMostOnce, Contains
  <2> QED BY <2>1, <2>2, ThreadAssumption DEF OneApplication, OneNotice
<1> QED BY <1>1, <1>2, <1>3, <1>4 DEF DesktopInv

(***************************************************************************)
(* The end notices on the queue.                                           *)
(***************************************************************************)

(* Another message changes nothing. *)
LEMMA AppendOther ==
  ASSUME NEW S, NEW s \in Seq(S), NEW e, NEW m \in S, m # e, AtMostOnce(s, e)
  PROVE  AtMostOnce(Append(s, m), e) /\ (Contains(Append(s, m), e) <=> Contains(s, e))
<1> DEFINE a == Append(s, m)
<1>1. /\ Len(s) \in Nat /\ Len(a) = Len(s) + 1
      /\ \A i \in 1..Len(s) : a[i] = s[i]
      /\ a[Len(s) + 1] = m
  BY AppendProperties, LenProperties
<1> HIDE DEF a
<1> QED BY <1>1 DEF AtMostOnce, Contains, a

(* The first notice. *)
LEMMA AppendNotice ==
  ASSUME NEW S, NEW s \in Seq(S), NEW e \in S, ~Contains(s, e)
  PROVE  AtMostOnce(Append(s, e), e) /\ Contains(Append(s, e), e)
<1> DEFINE a == Append(s, e)
<1>1. /\ Len(s) \in Nat /\ Len(a) = Len(s) + 1
      /\ \A i \in 1..Len(s) : a[i] = s[i]
      /\ a[Len(s) + 1] = e
  BY AppendProperties, LenProperties
<1> HIDE DEF a
<1> QED BY <1>1 DEF AtMostOnce, Contains, a

(* Taking a message: the only notice, or something else. *)
LEMMA TakeNotice ==
  ASSUME NEW S, NEW s \in Seq(S), NEW e, s # <<>>, AtMostOnce(s, e)
  PROVE  /\ Tail(s) \in Seq(S)
         /\ AtMostOnce(Tail(s), e)
         /\ Head(s) = e => Contains(s, e) /\ ~Contains(Tail(s), e)
         /\ Head(s) # e => (Contains(Tail(s), e) <=> Contains(s, e))
<1> DEFINE t == Tail(s)
<1>1. /\ t \in Seq(S) /\ Len(t) = Len(s) - 1 /\ Len(s) \in Nat \ {0}
      /\ \A i \in 1..Len(t) : t[i] = s[i + 1]
  BY HeadTailProperties, EmptySeq
<1>2. Head(s) = s[1]
  BY <1>1
<1> HIDE DEF t
<1>3. AtMostOnce(t, e)
  BY <1>1 DEF AtMostOnce
<1>4. ASSUME Head(s) = e PROVE Contains(s, e) /\ ~Contains(t, e)
  BY <1>1, <1>2, <1>4 DEF AtMostOnce, Contains
<1>5. ASSUME Contains(t, e) PROVE Contains(s, e)
  BY <1>1, <1>5 DEF Contains
<1>6. ASSUME Contains(s, e), Head(s) # e PROVE Contains(t, e)
  <2>1. PICK k \in 1..Len(s) : s[k] = e
    BY <1>6 DEF Contains
  <2>2. k - 1 \in 1..Len(t) /\ t[k - 1] = e
    BY <2>1, <1>1, <1>2, <1>6
  <2> QED BY <2>2 DEF Contains
<1> QED BY <1>1, <1>3, <1>4, <1>5, <1>6 DEF t

(***************************************************************************)
(* Every step of the composition is a step of FuriThread or leaves the     *)
(* threads alone.                                                          *)
(***************************************************************************)
LEMMA DesktopStepIsThreadStep == DesktopInv /\ [Next]_vars => [ThreadNext]_threadVars
<1> SUFFICES ASSUME DesktopInv, [Next]_vars PROVE [ThreadNext]_threadVars
  OBVIOUS
<1>1. CASE GuiNext
  BY <1>1 DEF GuiNext, GuiOk, GuiPost, GuiBack, GuiSignal
<1>2. CASE DesktopNext
  <2>1. ASSUME NEW t \in Threads, DesktopStart(t) PROVE ThreadNext
    BY <2>1 DEF DesktopStart, ThreadNext
  <2>2. ASSUME DesktopCollect PROVE ThreadNext
    <3>1. app.thread \in Threads
      BY <2>2 DEF DesktopCollect, DesktopInv, DesktopTypeOK, OneApplication
    <3> QED BY <2>2, <3>1 DEF DesktopCollect, ThreadNext
  <2> QED BY <1>2, <2>1, <2>2 DEF DesktopNext, DesktopRefuse, DesktopClosed
<1>3. CASE ScrubTask \/ ScrubPost
  BY <1>3 DEF ScrubTask, ScrubPost, ThreadNext
<1>4. ASSUME NEW t \in Threads, AppNext(t) PROVE [ThreadNext]_threadVars
  <2>1. CASE Body(t)
    BY <2>1 DEF Body, ThreadNext
  <2> QED BY <1>4, <2>1 DEF AppNext, AppStep, AppOpen, AppSetCallback, AppSetContext, AppExit,
                            AppStopped, AppUnsetCallback, AppUnsetContext, AppClose
<1>5. CASE UNCHANGED vars
  BY <1>5 DEF vars, threadVars
<1> QED BY <1>1, <1>2, <1>3, <1>4, <1>5 DEF Next

LEMMA DesktopInvStep == DesktopInv /\ [Next]_vars => DesktopInv'
<1> SUFFICES ASSUME DesktopInv, [Next]_vars PROVE DesktopInv'
  OBVIOUS
<1>1. ThreadTypeOK' /\ TaskMatchesState'
  BY DesktopStepIsThreadStep, ThreadInvStep DEF DesktopInv, DesktopTypeOK, ThreadInv
<1> USE DEF DesktopInv

(* What a step that keeps one part of the state cannot disturb. *)
<1>2. ASSUME UNCHANGED <<thread, scrub, appq, app, joining>> PROVE OneApplication'
  BY <1>2 DEF OneApplication, OneNotice, IsStopped
<1>3. ASSUME UNCHANGED <<threadVars, gui, views, appPc>> PROVE ForeignCallsFindThread'
  BY <1>3 DEF ForeignCallsFindThread, threadVars

(* The gui task. *)
<1>4. CASE GuiOk
  <2>1. OneApplication'
    BY <1>2, <1>4 DEF GuiOk, threadVars
  <2>2. DesktopTypeOK'
    BY <1>1, <1>4, ThreadAssumption DEF GuiOk, DesktopTypeOK, appVars
  <2>3. ForeignCallsFindThread'
    BY <1>4 DEF GuiOk, ForeignCallsFindThread, threadVars, appVars
  <2> QED BY <1>1, <2>1, <2>2, <2>3
<1>5. CASE GuiPost
  <2>1. /\ appq \in Seq({"start", "closed"}) /\ appq' = Append(appq, "start")
        /\ gui' = Unlocked
        /\ UNCHANGED <<threadVars, app, joining, views, appVars, crashed>>
    BY <1>5 DEF GuiPost, Post, DesktopTypeOK
  <2>2. /\ appq' \in Seq({"start", "closed"})
        /\ AtMostOnce(appq', "closed")
        /\ Contains(appq', "closed") <=> Contains(appq, "closed")
    BY <2>1, AppendOther, AppendProperties DEF OneApplication, OneNotice
  <2>3. OneApplication'
    BY <2>1, <2>2 DEF OneApplication, OneNotice, IsStopped, threadVars
  <2>4. DesktopTypeOK'
    BY <1>1, <2>1, <2>2 DEF DesktopTypeOK, Unlocked, appVars
  <2>5. ForeignCallsFindThread'
    BY <2>1 DEF Unlocked, ForeignCallsFindThread, threadVars, appVars
  <2> QED BY <1>1, <2>3, <2>4, <2>5
<1>6. ASSUME NEW t \in Threads, GuiBack(t) PROVE DesktopInv'
  <2>1. OneApplication'
    BY <1>2, <1>6 DEF GuiBack, threadVars
  <2>2. DesktopTypeOK'
    BY <1>1, <1>6 DEF GuiBack, DesktopTypeOK, appVars
  <2>3. ForeignCallsFindThread'
    BY <1>6 DEF GuiBack, ForeignCallsFindThread, threadVars, appVars
  <2> QED BY <1>1, <2>1, <2>2, <2>3
<1>7. CASE GuiSignal
  <2>1. OneApplication'
    BY <1>2, <1>7 DEF GuiSignal, threadVars
  <2>2. gui.thread \in Threads
    BY <1>7 DEF GuiSignal, ForeignCallsFindThread, DesktopTypeOK
  <2>3. DesktopTypeOK'
    <3>1. UNCHANGED <<appq, app, joining, views, appPc, signal>>
      BY <1>7 DEF GuiSignal
    <3>2. stop' \subseteq Threads
      BY <1>7, <2>2 DEF GuiSignal, DesktopTypeOK
    <3>3. gui' = gui \/ gui' = Unlocked
      BY <1>7 DEF GuiSignal
    <3>4. crashed' \in BOOLEAN
      BY <1>7 DEF GuiSignal, DesktopTypeOK
    <3> QED BY <1>1, <3>1, <3>2, <3>3, <3>4 DEF DesktopTypeOK, Unlocked
  <2>4. ForeignCallsFindThread'
    BY <1>7 DEF GuiSignal, Unlocked, ForeignCallsFindThread, threadVars
  <2> QED BY <1>1, <2>1, <2>3, <2>4

(* The application. *)
<1>8. ASSUME NEW t \in Threads, AppNext(t), ~Body(t) PROVE DesktopInv'
  <2>1. UNCHANGED <<threadVars, appq, app, joining, gui, crashed>> /\ task[t] = "running"
    BY <1>8 DEF AppNext, AppStep, AppOpen, AppSetCallback, AppSetContext, AppExit,
                AppStopped, AppUnsetCallback, AppUnsetContext, AppClose
  <2>2. OneApplication'
    BY <1>2, <2>1 DEF threadVars
  <2>3. DesktopTypeOK'
    <3>1. appPc' \in [Threads -> AppPcs]
      BY <1>8 DEF AppNext, AppStep, AppOpen, AppSetCallback, AppSetContext, AppExit,
                  AppStopped, AppUnsetCallback, AppUnsetContext, AppClose, DesktopTypeOK, AppPcs
    <3>2. signal' \in [Threads -> [callback : BOOLEAN, context : BOOLEAN]]
      <4>1. CASE AppSetCallback(t) \/ AppUnsetCallback(t)
        <5>1. PICK b \in BOOLEAN : signal' = [signal EXCEPT ![t].callback = b]
          BY <4>1 DEF AppSetCallback, AppUnsetCallback
        <5> QED BY <5>1 DEF DesktopTypeOK
      <4>2. CASE AppSetContext(t) \/ AppUnsetContext(t)
        <5>1. PICK b \in BOOLEAN : signal' = [signal EXCEPT ![t].context = b]
          BY <4>2 DEF AppSetContext, AppUnsetContext
        <5> QED BY <5>1 DEF DesktopTypeOK
      <4>3. CASE signal' = signal
        BY <4>3 DEF DesktopTypeOK
      <4> QED BY <1>8, <4>1, <4>2, <4>3
              DEF AppNext, AppOpen, AppExit, AppStopped, AppClose
    <3>3. views' \subseteq Threads /\ stop' \subseteq Threads
      BY <1>8 DEF AppNext, AppStep, AppOpen, AppSetCallback, AppSetContext, AppExit,
                  AppStopped, AppUnsetCallback, AppUnsetContext, AppClose, DesktopTypeOK
    <3> QED BY <1>1, <2>1, <3>1, <3>2, <3>3 DEF DesktopTypeOK
  <2>4. ForeignCallsFindThread'
    <3>1. CASE AppOpen(t)
      BY <2>1, <3>1 DEF AppOpen, AppStep, GuiFree, ForeignCallsFindThread, DesktopTypeOK, threadVars
    <3>2. CASE AppClose(t)
      BY <2>1, <3>2 DEF AppClose, AppStep, GuiFree, ForeignCallsFindThread, DesktopTypeOK, threadVars
    <3>3. CASE ~AppOpen(t) /\ ~AppClose(t)
      <4>1. /\ views' = views
            /\ \/ appPc' = appPc
               \/ /\ appPc[t] # "done"
                  /\ \E p \in AppPcs \ {"open", "done"} : appPc' = [appPc EXCEPT ![t] = p]
        BY <1>8, <3>3 DEF AppNext, AppStep, AppSetCallback, AppSetContext, AppExit,
                          AppStopped, AppUnsetCallback, AppUnsetContext, AppPcs
      <4> QED BY <2>1, <4>1 DEF ForeignCallsFindThread, DesktopTypeOK, threadVars
    <3> QED BY <3>1, <3>2, <3>3
  <2> QED BY <1>1, <2>2, <2>3, <2>4
<1>9. ASSUME NEW t \in Threads, Body(t) PROVE DesktopInv'
  <2>1. UNCHANGED <<scrub, appq, app, joining, gui, views, appVars, crashed>>
    BY <1>9 DEF Body, BodyStart, BodyReturn, BodySuspend
  <2>2. DesktopTypeOK'
    BY <1>1, <2>1 DEF DesktopTypeOK, appVars
  <2>3. /\ \A u \in Threads : /\ thread'[u].alive = thread[u].alive
                              /\ thread'[u].callback = thread[u].callback
                              /\ thread'[u].state = "Stopped" <=> thread[u].state = "Stopped"
    <3>1. CASE BodySuspend(t)
      BY <3>1 DEF BodySuspend
    <3>2. CASE BodyStart(t) \/ BodyReturn(t)
      <4>1. task[t] # "none" /\ thread[t].state # "Stopped"
        BY <3>2 DEF BodyStart, BodyReturn, TaskMatchesState
      <4>2. \/ thread' = [thread EXCEPT ![t].state = "Running"]
            \/ thread' = [thread EXCEPT ![t].state = "Stopping"]
        BY <3>2 DEF BodyStart, BodyReturn
      <4> QED BY <4>1, <4>2 DEF DesktopTypeOK, ThreadTypeOK
    <3> QED BY <1>9, <3>1, <3>2 DEF Body
  <2>4. app.running => app.thread \in Threads
    BY DEF OneApplication, DesktopTypeOK
  <2>5. OneApplication'
    BY <2>1, <2>3, <2>4 DEF OneApplication, OneNotice, IsStopped
  <2>6. \A u \in views : task'[u] = "running"
    BY <1>9 DEF Body, BodyStart, BodyReturn, BodySuspend, DesktopTypeOK, ThreadTypeOK,
                ForeignCallsFindThread
  <2>7. ForeignCallsFindThread'
    BY <2>1, <2>3, <2>6, ThreadAssumption
       DEF ForeignCallsFindThread, DesktopTypeOK, ThreadTypeOK, appVars
  <2> QED BY <1>1, <2>2, <2>5, <2>7

(* The init task. *)
<1>10. CASE ScrubTask
  <2> DEFINE h == Head(scrubq)
  <2>1. UNCHANGED <<appq, app, joining, gui, views, appVars, crashed>>
    BY <1>10 DEF ScrubTask
  <2>2. /\ h \in Threads /\ scrub = Nil /\ scrub' = h
        /\ task[h] = "suspended"
        /\ task' = [task EXCEPT ![h] = "none"]
        /\ thread' = [thread EXCEPT ![h].state = "Stopped"]
    <3>1. scrubq \in Seq(Threads) /\ scrubq # <<>> /\ Distinct(scrubq)
      BY <1>10, DistinctIsInjective
         DEF ScrubTask, Scrub, DesktopTypeOK, ThreadTypeOK, TaskMatchesState
    <3>2. h \in Threads /\ Contains(scrubq, h)
      BY <3>1, TailContains
    <3> QED BY <1>10, <3>2 DEF ScrubTask, Scrub, TaskMatchesState
  <2> HIDE DEF h
  <2>3. thread[h].alive /\ ~IsStopped(h) /\ app.running /\ app.thread = h
    BY <2>2, ThreadAssumption DEF IsStopped, TaskMatchesState, OneApplication
  <2>4. ~Contains(appq, "closed") /\ ~joining
    BY <2>3 DEF OneApplication
  <2>5. /\ \A u \in Threads : thread'[u].alive = thread[u].alive
        /\ thread'[h].callback = thread[h].callback
        /\ thread'[h].state = "Stopped"
    BY <2>2 DEF DesktopTypeOK, ThreadTypeOK
  <2>6. DesktopTypeOK'
    BY <1>1, <2>1 DEF DesktopTypeOK, appVars
  <2>7. OneApplication'
    BY <2>1, <2>2, <2>3, <2>4, <2>5, ThreadAssumption DEF OneApplication, OneNotice, IsStopped
  <2>8. ForeignCallsFindThread'
    BY <2>1, <2>2, <2>3, <2>5 DEF ForeignCallsFindThread, DesktopTypeOK, ThreadTypeOK, appVars
  <2> QED BY <1>1, <2>6, <2>7, <2>8
<1>11. CASE ScrubPost
  <2>1. /\ scrub # Nil /\ scrub' = Nil
        /\ UNCHANGED <<thread, task, scrubq, app, joining, gui, views, appVars, crashed>>
    BY <1>11 DEF ScrubPost, ScrubNotify
  <2>2. thread[scrub].alive /\ scrub \in Threads /\ app.thread = scrub /\ app.running
    BY <2>1, ThreadAssumption
       DEF ForeignCallsFindThread, DesktopTypeOK, ThreadTypeOK, OneApplication
  <2>3. appq' = Append(appq, "closed") /\ ~Contains(appq, "closed") /\ ~joining
    BY <1>11, <2>1, <2>2 DEF ScrubPost, Post, OneApplication, OneNotice
  <2>4. /\ appq' \in Seq({"start", "closed"})
        /\ AtMostOnce(appq', "closed") /\ Contains(appq', "closed")
    BY <2>3, AppendNotice, AppendProperties DEF DesktopTypeOK
  <2>5. DesktopTypeOK'
    BY <1>1, <2>1, <2>4 DEF DesktopTypeOK, appVars
  <2>6. IsStopped(app.thread)
    BY <2>1, <2>2 DEF OneApplication
  <2>7. OneApplication'
    BY <2>1, <2>2, <2>3, <2>4, <2>6 DEF OneApplication, OneNotice, IsStopped
  <2>8. ForeignCallsFindThread'
    BY <2>1 DEF ForeignCallsFindThread, appVars
  <2> QED BY <1>1, <2>5, <2>7, <2>8

(* The desktop. *)
<1>12. ASSUME NEW m \in {"start", "closed"}, Take(m)
       PROVE  /\ appq' \in Seq({"start", "closed"})
              /\ AtMostOnce(appq', "closed")
              /\ m = "start" => (Contains(appq', "closed") <=> Contains(appq, "closed"))
              /\ m = "closed" => Contains(appq, "closed") /\ ~Contains(appq', "closed")
  BY <1>12, TakeNotice DEF Take, DesktopTypeOK, OneApplication, OneNotice
<1>13. CASE DesktopRefuse
  <2>1. /\ Take("start")
        /\ UNCHANGED <<threadVars, app, joining, gui, views, appVars, crashed>>
    BY <1>13 DEF DesktopRefuse
  <2>2. OneApplication'
    BY <1>12, <2>1 DEF OneApplication, OneNotice, IsStopped, threadVars
  <2>3. DesktopTypeOK'
    BY <1>1, <1>12, <2>1 DEF DesktopTypeOK, appVars
  <2>4. ForeignCallsFindThread'
    BY <1>3, <2>1 DEF appVars
  <2> QED BY <1>1, <2>2, <2>3, <2>4
<1>14. ASSUME NEW t \in Threads, DesktopStart(t) PROVE DesktopInv'
  <2>1. /\ Take("start") /\ ~app.running /\ ~joining
        /\ app' = [running |-> TRUE, thread |-> t]
        /\ UNCHANGED <<scrub, joining, gui, views, crashed>>
        /\ thread' = [thread EXCEPT ![t] = [alive |-> TRUE, state |-> "Starting",
                                            callback |-> TRUE]]
        /\ task' = [task EXCEPT ![t] = "created"]
        /\ appPc' = [appPc EXCEPT ![t] = "open"]
    BY <1>14 DEF DesktopStart, Take, Launch
  <2>2. /\ ~Contains(appq, "closed") /\ scrub = Nil
        /\ app.thread = Nil /\ \A u \in Threads : ~thread[u].alive
    BY <2>1, ThreadAssumption DEF OneApplication, DesktopTypeOK
  <2>3. /\ \A u \in Threads : thread'[u].alive <=> u = t
        /\ thread'[t].callback /\ thread'[t].state = "Starting"
    BY <2>1, <2>2 DEF DesktopTypeOK, ThreadTypeOK
  <2>4. OneApplication'
    BY <1>12, <2>1, <2>2, <2>3, ThreadAssumption DEF OneApplication, OneNotice, IsStopped
  <2>5. DesktopTypeOK'
    <3>1. signal' \in [Threads -> [callback : BOOLEAN, context : BOOLEAN]] /\ stop' \subseteq Threads
      BY <1>14 DEF DesktopStart, DesktopTypeOK, Unset
    <3>2. appPc' \in [Threads -> AppPcs]
      BY <2>1 DEF DesktopTypeOK, AppPcs
    <3>3. app' \in [running : BOOLEAN, thread : Threads \union {Nil}]
      BY <2>1
    <3> QED BY <1>1, <1>12, <2>1, <3>1, <3>2, <3>3 DEF DesktopTypeOK
  <2>6. t \notin views
    BY <2>2, <1>14 DEF DesktopStart, ForeignCallsFindThread, TaskMatchesState
  <2>7. ForeignCallsFindThread'
    BY <2>1, <2>2, <2>6 DEF ForeignCallsFindThread, DesktopTypeOK, ThreadTypeOK
  <2> QED BY <1>1, <2>4, <2>5, <2>7
<1>15. CASE DesktopClosed
  <2>1. /\ Take("closed") /\ ~joining
        /\ joining' = app.running /\ crashed' = ~app.running
        /\ UNCHANGED <<threadVars, app, gui, views, appVars>>
    BY <1>15 DEF DesktopClosed, Take
  <2>2. Contains(appq, "closed") /\ app.running /\ IsStopped(app.thread) /\ scrub = Nil
    BY <1>12, <2>1 DEF OneApplication, OneNotice
  <2>3. OneApplication'
    BY <1>12, <2>1, <2>2 DEF OneApplication, OneNotice, IsStopped, threadVars
  <2>4. DesktopTypeOK'
    BY <1>1, <1>12, <2>1, <2>2 DEF DesktopTypeOK, appVars
  <2>5. ForeignCallsFindThread'
    BY <1>3, <2>1 DEF appVars
  <2> QED BY <1>1, <2>3, <2>4, <2>5
<1>16. CASE DesktopCollect
  <2> DEFINE t == app.thread
  <2>1. /\ joining /\ IsStopped(t)
        /\ thread' = [thread EXCEPT ![t] = Gone]
        /\ app' = [running |-> FALSE, thread |-> Nil]
        /\ ~joining' /\ joining' \in BOOLEAN
        /\ UNCHANGED <<task, scrubq, scrub, appq, gui, views, appVars, crashed>>
    BY <1>16 DEF DesktopCollect, JoinFree
  <2>2. scrub = Nil /\ ~Contains(appq, "closed") /\ t \in Threads
    BY <2>1 DEF OneApplication, OneNotice, DesktopTypeOK
  <2>3. \A u \in Threads : ~thread'[u].alive
    BY <2>1, <2>2 DEF OneApplication, Gone, DesktopTypeOK, ThreadTypeOK
  <2> HIDE DEF t
  <2>4. OneApplication'
    BY <2>1, <2>2, <2>3, ThreadAssumption DEF OneApplication, OneNotice
  <2>5. DesktopTypeOK'
    BY <1>1, <2>1 DEF DesktopTypeOK, appVars
  <2>6. ForeignCallsFindThread'
    BY <2>1, <2>2 DEF ForeignCallsFindThread, appVars
  <2> QED BY <1>1, <2>4, <2>5, <2>6

<1>17. CASE UNCHANGED vars
  <2>1. OneApplication' /\ ForeignCallsFindThread'
    BY <1>2, <1>3, <1>17 DEF vars, threadVars
  <2>2. DesktopTypeOK'
    BY <1>1, <1>17 DEF vars, DesktopTypeOK
  <2> QED BY <1>1, <2>1, <2>2
<1>18. CASE GuiNext \/ DesktopNext \/ ScrubTask \/ ScrubPost \/ \E t \in Threads : AppNext(t)
  BY <1>18, <1>4, <1>5, <1>6, <1>7, <1>8, <1>9, <1>10, <1>11, <1>13, <1>14, <1>15, <1>16
     DEF GuiNext, DesktopNext
<1> QED BY <1>17, <1>18 DEF Next

(* The variables of the composition keep their types. *)
THEOREM DesktopTypeCorrect == Spec => []DesktopTypeOK
<1>1. DesktopInv => DesktopTypeOK
  BY DEF DesktopInv
<1> QED BY <1>1, DesktopInvInit, DesktopInvStep, PTL DEF Spec

(* The gui, the desktop and the applications use threads only as the       *)
(* owners, bodies and scrubbing that FuriThread describes: what is proved  *)
(* of FuriThread holds of the desktop's threads.                           *)
THEOREM DesktopRunsThreads == Spec => ThreadSpec
<1>1. Init => ThreadInit
  BY DEF Init
<1> QED BY <1>1, DesktopInvInit, DesktopInvStep, DesktopStepIsThreadStep, PTL
        DEF Spec, ThreadSpec

(* The scheduler never lists a task whose block the desktop may free. *)
THEOREM DesktopTaskMatchesState == Spec => []TaskMatchesState
BY DesktopRunsThreads, ThreadTaskMatchesState, PTL

(* The init task and the gui task find the thread they hold a pointer to,  *)
(* although the desktop frees it as soon as furi_thread_join returns.      *)
THEOREM ForeignCallsAreSafe == Spec => []ForeignCallsFindThread
<1>1. DesktopInv => ForeignCallsFindThread
  BY DEF DesktopInv
<1> QED BY <1>1, DesktopInvInit, DesktopInvStep, PTL DEF Spec

(* One application at a time, and an end notice for each that stopped. *)
THEOREM OneApplicationAtATime == Spec => []OneApplication
<1>1. DesktopInv => OneApplication
  BY DEF DesktopInv
<1> QED BY <1>1, DesktopInvInit, DesktopInvStep, PTL DEF Spec

=============================================================================
