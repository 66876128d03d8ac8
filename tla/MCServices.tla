----------------------------- MODULE MCServices -----------------------------
(***************************************************************************)
(* Ten parts of the system that share no state, checked in one run: part   *)
(* says which of them a behaviour is about, and the others stay as they    *)
(* began.                                                                  *)
(***************************************************************************)
EXTENDS ServiceCalls, HapticService, SerialControl, ExpanderMain,
        MemmgrHeap, LedService, GuiViews, TouchPad,
        FrameReceiver, CliEditor

CONSTANTS c1, c2, v1, v2, uart0, uart1, u1, u2,   \* model values
          desktopView, appView, menuView

VARIABLE part

Parts == {"calls", "haptic", "serial", "expander", "heap", "leds", "gui", "touch", "frames",
          "editor"}

MCClients == {c1, c2}
MCValues == {v1, v2}
MCPorts == {uart0, uart1}
MCUsers == {u1, u2}
MCOtherInputs == {"bq25792"}

MCWantedSizes == {1, 4, 5, 8}

MCLedMessages ==
  {[leds |-> {<<1, 1>>}, color |-> 1],
   [leds |-> {<<1, 2>>, <<2, 1>>}, color |-> 1],
   [leds |-> {<<1, 2>>}, color |-> Off],
   [leds |-> (1..2) \X (1..2), color |-> Off]}

MCViews == {desktopView, appView, menuView}
MCPriority == desktopView :> 0 @@ appView :> 50000 @@ menuView :> 100000
MCTransparent == {menuView}

MCCharacters == {" ", "a", "b"}
MCCommands == {<<"a", "b">>, <<"a", "b", "a">>, <<"b", "a", "a">>}

partVars ==
  <<part, callVars, hapticVars, serialVars, expanderVars, heapVars, ledVars, guiVars, touchVars,
    frameVars, editorVars>>

MCInit ==
  /\ part \in Parts
  /\ CallsInit /\ HapticInit /\ SerialInit /\ ExpanderInit
  /\ HeapInit /\ LedInit /\ GuiInit /\ TouchInit /\ FrameInit
  /\ EditorInit

Others(p) ==
  /\ p # "calls"    => UNCHANGED callVars
  /\ p # "haptic"   => UNCHANGED hapticVars
  /\ p # "serial"   => UNCHANGED serialVars
  /\ p # "expander" => UNCHANGED expanderVars
  /\ p # "heap"     => UNCHANGED heapVars
  /\ p # "leds"     => UNCHANGED ledVars
  /\ p # "gui"      => UNCHANGED guiVars
  /\ p # "touch"    => UNCHANGED touchVars
  /\ p # "frames"   => UNCHANGED frameVars
  /\ p # "editor"   => UNCHANGED editorVars

MCNext ==
  /\ \/ part = "calls"    /\ CallsNext
     \/ part = "haptic"   /\ HapticNext
     \/ part = "serial"   /\ SerialNext
     \/ part = "expander" /\ ExpanderNext
     \/ part = "heap"     /\ HeapNext
     \/ part = "leds"     /\ LedNext
     \/ part = "gui"      /\ GuiNext
     \/ part = "touch"    /\ TouchNext
     \/ part = "frames"   /\ FrameNext
     \/ part = "editor"   /\ EditorNext
  /\ UNCHANGED part /\ Others(part)

(* The fairness of each part, as its module has it.  A behaviour is about  *)
(* one part only: fairness of a disjunction is that of each disjunct.      *)
First ==
  \/ part = "calls"    /\ Serve
  \/ part = "haptic"   /\ HapticLoop
  \/ part = "expander" /\ ExpanderWorker
  \/ part = "touch"    /\ TouchLoop

Second ==
  \/ part = "calls"    /\ WaitUnlock(c1)
  \/ part = "haptic"   /\ Tick
  \/ part = "expander" /\ FusbService
  \/ part = "touch"    /\ WindowOpen

Third ==
  \/ part = "calls"    /\ WaitUnlock(c2)
  \/ part = "touch"    /\ WindowTimeout

MCFairness ==
  /\ WF_partVars(First /\ Others(part) /\ UNCHANGED part)
  /\ WF_partVars(Second /\ Others(part) /\ UNCHANGED part)
  /\ WF_partVars(Third /\ Others(part) /\ UNCHANGED part)
  /\ SF_partVars(part = "calls" /\ Put(c1) /\ Others(part) /\ UNCHANGED part)
  /\ SF_partVars(part = "calls" /\ Put(c2) /\ Others(part) /\ UNCHANGED part)

MCSpec == MCInit /\ [][MCNext]_partVars /\ MCFairness

(* The type invariants of the parts, and that a service is called only     *)
(* when its record is ready (furi_record_open).                            *)
PartsTypeOK ==
  /\ RecordUsedReady
  /\ CallsTypeOK /\ HapticTypeOK /\ SerialTypeOK /\ ExpanderTypeOK
  /\ HeapTypeOK /\ LedTypeOK /\ GuiTypeOK /\ TouchTypeOK /\ FrameTypeOK
  /\ EditorTypeOK
=============================================================================
