------------------------------ MODULE GuiViews ------------------------------
(***************************************************************************)
(* The views of the gui and the redraw of the screen: gui.c and view.c of  *)
(* src/applications/services/gui.  Owners of views add, remove and change  *)
(* them from their own threads; the gui task draws what it finds when its  *)
(* redraw flag is set.  No caller disables a view.                         *)
(***************************************************************************)
EXTENDS Integers, SequencesExt

CONSTANTS
  Views,        \* View instances
  Priority,     \* GuiViewPriority of each
  Transparent,  \* the views with is_transparent
  Ground        \* the desktop's view: on the list before keys come, never removed

ASSUME GuiAssumption ==
  /\ Ground \in Views \ Transparent
  /\ \A v \in Views : Priority[v] \in Int
  /\ \A v, w \in Views : v # w => Priority[v] # Priority[w]
  /\ \A v \in Views \ {Ground} : Priority[Ground] < Priority[v]

VARIABLES
  views,     \* gui->views
  attached,  \* the views whose view->gui is set
  debt,      \* what each owner has changed and not announced yet: list, model, none
  redraw,    \* redraw_flag
  guiPc,     \* wait, lock (flag cleared), layout, post
  todo,      \* the views still to lay out, by their place on the list
  frame,     \* the views laid out for the frame, and whether their model changed since
  screen     \* the same for the frame that the display shows

guiVars == <<views, attached, debt, redraw, guiPc, todo, frame, screen>>

GuiLocked == guiPc \in {"layout", "post"}   \* the gui task holds gui->mutex

GuiInit ==
  /\ views = <<Ground>> /\ attached = {Ground}
  /\ debt = [v \in Views |-> IF v = Ground THEN "list" ELSE "none"]
  /\ redraw = FALSE /\ guiPc = "wait" /\ todo = << >>
  /\ frame = << >> /\ screen = << >>

ByPriority(list) == \A i, j \in DOMAIN list : i < j => Priority[list[i]] < Priority[list[j]]

(* gui_add_view up to the release of the mutex: the view is pushed back    *)
(* and the list sorted; gui_update is to follow.                           *)
AddView(v) ==
  /\ v \notin attached /\ debt[v] = "none" /\ ~GuiLocked
  /\ \E i \in 1..Len(views) + 1 : views' = InsertAt(views, i, v)
  /\ ByPriority(views')
  /\ attached' = attached \cup {v}
  /\ debt' = [debt EXCEPT ![v] = "list"]
  /\ UNCHANGED <<redraw, guiPc, todo, frame, screen>>

RemoveView(v) ==
  /\ v \in attached \ {Ground} /\ debt[v] = "none" /\ ~GuiLocked
  /\ \E i \in DOMAIN views : views[i] = v /\ views' = RemoveAt(views, i)
  /\ attached' = attached \ {v}
  /\ debt' = [debt EXCEPT ![v] = "list"]
  /\ UNCHANGED <<redraw, guiPc, todo, frame, screen>>

(* The code of with_view_model in the owner's thread: the gui may be       *)
(* drawing, the model is not guarded by its lock.                          *)
Outdated(f, v) == [i \in DOMAIN f |-> IF f[i].view = v THEN [f[i] EXCEPT !.stale = TRUE] ELSE f[i]]

ModelChanges(v) ==
  /\ frame' = Outdated(frame, v)
  /\ screen' = Outdated(screen, v)

ChangeModel(v) ==
  /\ debt[v] = "none"
  /\ ModelChanges(v)
  /\ debt' = [debt EXCEPT ![v] = "model"]
  /\ UNCHANGED <<views, attached, redraw, guiPc, todo>>

(* gui_update after a change of the list; view_update after one of a      *)
(* model, which does nothing for a view without gui.                       *)
Update(v) ==
  /\ debt[v] # "none"
  /\ debt' = [debt EXCEPT ![v] = "none"]
  /\ redraw' = (redraw \/ debt[v] = "list" \/ v \in attached)
  /\ UNCHANGED <<views, attached, guiPc, todo, frame, screen>>

(* The views a key is offered to: from the top to the first that is        *)
(* opaque, which takes it at the latest.                                   *)
Offered ==
  {views[i] : i \in {j \in DOMAIN views : \A k \in j + 1..Len(views) : views[k] \in Transparent}}

(* gui_input: a view's input callback may change its model.  It runs in    *)
(* the gui task, between two redraws.                                      *)
GuiInput ==
  /\ guiPc = "wait"
  /\ \E v \in Offered : ModelChanges(v)
  /\ redraw' = TRUE
  /\ UNCHANGED <<views, attached, debt, guiPc, todo>>

(* gui_redraw_logic: the flag is cleared before anything is read. *)
RedrawBegin ==
  /\ guiPc = "wait" /\ redraw
  /\ redraw' = FALSE
  /\ guiPc' = "lock"
  /\ UNCHANGED <<views, attached, debt, todo, frame, screen>>

(* The topmost opaque view, and the transparent ones above it. *)
TopOpaque == {i \in DOMAIN views : /\ views[i] \notin Transparent
                                   /\ \A k \in i + 1..Len(views) : views[k] \in Transparent}

RedrawLock ==
  /\ guiPc = "lock"
  /\ todo' = IF TopOpaque = {} THEN << >>
             ELSE SubSeq(views, CHOOSE i \in TopOpaque : TRUE, Len(views))
  /\ guiPc' = "layout"
  /\ UNCHANGED <<views, attached, debt, redraw, frame, screen>>

(* view_layout of the next view reads its model. *)
Layout ==
  /\ guiPc = "layout" /\ todo # << >>
  /\ Head(todo) \in attached    \* furi_check(view->gui)
  /\ frame' = Append(frame, [view |-> Head(todo), stale |-> FALSE])
  /\ todo' = Tail(todo)
  /\ UNCHANGED <<views, attached, debt, redraw, guiPc, screen>>

Render ==
  /\ guiPc = "layout" /\ todo = << >>
  /\ guiPc' = "post"
  /\ UNCHANGED <<views, attached, debt, redraw, todo, frame, screen>>

(* Mutant: the flag is cleared when the frame is drawn. *)
PostLayoutClears ==
  /\ guiPc = "post"
  /\ redraw' = FALSE
  /\ screen' = frame /\ frame' = << >>
  /\ guiPc' = "wait"
  /\ UNCHANGED <<views, attached, debt, todo>>

(* view_post_layout, which may ask for another frame (a list that scrolls),*)
(* the write to the display and the release of the mutex.                  *)
PostLayout ==
  /\ guiPc = "post"
  /\ redraw' \in {redraw, TRUE}
  /\ screen' = frame /\ frame' = << >>
  /\ guiPc' = "wait"
  /\ UNCHANGED <<views, attached, debt, todo>>

GuiNext ==
  \/ \E v \in Views : AddView(v) \/ RemoveView(v) \/ ChangeModel(v) \/ Update(v)
  \/ GuiInput
  \/ RedrawBegin \/ RedrawLock \/ Layout \/ Render \/ PostLayout

GuiSpec == GuiInit /\ [][GuiNext]_guiVars

-----------------------------------------------------------------------------
GuiTypeOK ==
  /\ views \in Seq(Views) /\ todo \in Seq(Views)
  /\ attached \subseteq Views /\ debt \in [Views -> {"list", "model", "none"}]
  /\ redraw \in BOOLEAN
  /\ guiPc \in {"wait", "lock", "layout", "post"}
  /\ frame \in Seq([view : Views, stale : BOOLEAN]) /\ screen \in Seq([view : Views, stale : BOOLEAN])

(* What should be seen: the attached view of the highest priority that is  *)
(* opaque, and those above it.                                             *)
Visible == {v \in attached : \A w \in attached \ Transparent : Priority[w] <= Priority[v]}

(* No change is lost: when the gui is idle, its flag is clear and nobody   *)
(* has yet to set it, the screen shows the views that are on top, in order *)
(* of priority, with the last content of their models (gui_redraw_logic,   *)
(* gui_update, view_update).                                               *)
ScreenCurrent ==
  guiPc = "wait" /\ ~redraw /\ (\A v \in Views : debt[v] = "none") =>
    /\ {screen[i].view : i \in DOMAIN screen} = Visible
    /\ \A i \in DOMAIN screen : ~screen[i].stale
    /\ \A i, j \in DOMAIN screen : i < j => Priority[screen[i].view] < Priority[screen[j].view]
=============================================================================
