--------------------------- MODULE CliEditorProofs ---------------------------
(***************************************************************************)
(* Theorems about the command line: its editor (CliEditor), for every      *)
(* alphabet, every set of commands and every limit of the line, and the    *)
(* transport below it (CliVcp), for streams of any length.                 *)
(***************************************************************************)
EXTENDS CliEditor, CliVcp, SequenceLemmas

(* Min and Max of the community modules find the first and last place. *)
LEMMA LeastPlace ==
  ASSUME NEW S, S \subseteq Nat \ {0}, S # {}
  PROVE  Min(S) \in S /\ \A i \in S : Min(S) =< i
BY FirstPlace DEF Min

LEMMA GreatestPlace ==
  ASSUME NEW S, S \subseteq Nat, S # {}, NEW n \in Nat, \A i \in S : i =< n
  PROVE  Max(S) \in S /\ \A i \in S : i =< Max(S)
<1>1. \E k \in S : \A i \in S : k >= i
  BY LastPlace
<1>2. PICK b \in S : b = Max(S) /\ \A i \in S : b >= i
  BY <1>1 DEF Max
<1> QED BY <1>2

Editors == [line : Seq(Characters), last : Seq(Characters), cursor : Nat]

(* Without the blanks around it, a line is a line that is not longer.      *)
LEMMA NormalizedLine ==
  ASSUME NEW e \in Editors
  PROVE  /\ Normalized(e) \in Editors
         /\ Normalized(e).last = e.last
         /\ Normalized(e).cursor = Len(Normalized(e).line)
         /\ Len(Normalized(e).line) =< Len(e.line)
<1> DEFINE written == {i \in DOMAIN e.line : e.line[i] # Blank}
           line == IF written = {} THEN << >> ELSE SubSeq(e.line, Min(written), Max(written))
<1>1. e.line \in Seq(Characters) /\ Len(e.line) \in Nat /\ DOMAIN e.line = 1 .. Len(e.line)
  BY DEF Editors
<1>2. line \in Seq(Characters) /\ Len(line) =< Len(e.line)
  <2>1. CASE written = {}
    BY <1>1, <2>1
  <2>2. CASE written # {}
    <3>4. written \subseteq 1 .. Len(e.line)
      BY <1>1
    <3>5. written \subseteq Nat \ {0} /\ \A i \in written : i =< Len(e.line)
      BY <1>1, <3>4
    <3> HIDE DEF written
    <3>1. Min(written) \in written
      BY <2>2, <3>5, LeastPlace
    <3>2. Max(written) \in written
      BY <1>1, <2>2, <3>5, GreatestPlace
    <3>3. Min(written) \in 1 .. Len(e.line) /\ Max(written) \in 1 .. Len(e.line)
      BY <3>1, <3>2, <3>4
    <3> QED BY <1>1, <2>2, <3>3, SubSeqProperties
  <2> QED BY <2>1, <2>2
<1>3. Normalized(e) = [e EXCEPT !.line = line, !.cursor = Len(line)]
  BY DEF Normalized
<1> QED
  <2> HIDE DEF line
  <2>1. Normalized(e) = [line |-> line, last |-> e.last, cursor |-> Len(line)]
    BY <1>3 DEF Editors
  <2>2. Len(line) \in Nat /\ e.last \in Seq(Characters)
    BY <1>2 DEF Editors
  <2> QED BY <1>2, <2>1, <2>2 DEF Editors

(* What the names have in common is no longer than any of them.            *)
LEMMA CommonPart ==
  ASSUME NEW names, names \subseteq Commands, names # {}
  PROVE  /\ LongestCommonPrefix(names) \in Seq(Characters)
         /\ Len(LongestCommonPrefix(names)) =< LineLimit
<1> DEFINE Common == CommonPrefixes(names)
           Lengths == {Len(p) : p \in Common}
<1>1. names \subseteq Seq(Characters) /\ \A t \in names : Len(t) \in Nat /\ Len(t) =< LineLimit
  BY EditorAssumption
<1>2. ASSUME NEW p \in Common
      PROVE  p \in Seq(Characters) /\ Len(p) \in Nat /\ Len(p) =< LineLimit
  <2>1. PICK t \in names : \E l \in 0 .. Len(t) : p = SubSeq(t, 1, l)
    BY DEF CommonPrefixes, Prefixes
  <2>5. PICK l \in 0 .. Len(t) : p = SubSeq(t, 1, l)
    BY <2>1
  <2>2. t \in Seq(Characters) /\ Len(t) \in Nat /\ Len(t) =< LineLimit
    BY <1>1
  <2>3. p \in Seq(Characters) /\ Len(p) = l
    BY <2>2, <2>5, SubSeqProperties
  <2> QED BY <2>2, <2>3, EditorAssumption
<1>3. << >> \in Common
  <2>1. PICK t \in names : TRUE
    OBVIOUS
  <2>2. << >> = SubSeq(t, 1, 0)
    BY <1>1
  <2>3. \A u \in names : IsPrefix(<< >>, u)
    BY <1>1 DEF IsPrefix
  <2> QED BY <1>1, <2>1, <2>2, <2>3 DEF CommonPrefixes, Prefixes
<1>4. Lengths \subseteq Nat /\ Lengths # {} /\ \A l \in Lengths : l =< LineLimit
  <2> HIDE DEF Common
  <2> QED BY <1>2, <1>3
<1>5. Max(Lengths) \in Lengths /\ \A l \in Lengths : l =< Max(Lengths)
  <2> HIDE DEF Lengths
  <2> QED BY <1>4, GreatestPlace, EditorAssumption
<1>6. \E longest \in Common : \A other \in Common : Len(other) =< Len(longest)
  <2> HIDE DEF Common
  <2> QED BY <1>5
<1>7. LongestCommonPrefix(names) \in Common
  BY <1>6 DEF LongestCommonPrefix
<1> QED BY <1>2, <1>7

(* Each of the two sequence operations of the editor, by length and type.  *)
LEMMA InsertedLine ==
  ASSUME NEW s \in Seq(Characters), NEW k \in 0 .. Len(s), NEW c \in Characters
  PROVE  InsertAt(s, k + 1, c) \in Seq(Characters) /\ Len(InsertAt(s, k + 1, c)) = Len(s) + 1
<1> DEFINE a == SubSeq(s, 1, k)
           b == SubSeq(s, k + 1, Len(s))
<1>1. a \in Seq(Characters) /\ Len(a) = k
  BY SubSeqProperties
<1>2. b \in Seq(Characters) /\ Len(b) = Len(s) - k
  BY SubSeqProperties
<1>3. InsertAt(s, k + 1, c) = (a \o <<c>>) \o b
  <2>1. (k + 1) - 1 = k
    OBVIOUS
  <2> QED BY <2>1 DEF InsertAt
<1> HIDE DEF a, b
<1>4. a \o <<c>> \in Seq(Characters) /\ Len(a \o <<c>>) = k + 1
  BY <1>1, ConcatProperties
<1>5. (a \o <<c>>) \o b \in Seq(Characters) /\ Len((a \o <<c>>) \o b) = Len(a \o <<c>>) + Len(b)
  BY <1>2, <1>4, ConcatProperties
<1>6. (k + 1) + (Len(s) - k) = Len(s) + 1
  OBVIOUS
<1> QED BY <1>2, <1>3, <1>4, <1>5, <1>6

LEMMA ShortenedLine ==
  ASSUME NEW s \in Seq(Characters), NEW k \in 1 .. Len(s)
  PROVE  RemoveAt(s, k) \in Seq(Characters) /\ Len(RemoveAt(s, k)) = Len(s) - 1
<1> DEFINE a == SubSeq(s, 1, k - 1)
           b == SubSeq(s, k + 1, Len(s))
<1>1. a \in Seq(Characters) /\ Len(a) = k - 1
  BY SubSeqProperties
<1>2. b \in Seq(Characters) /\ Len(b) = Len(s) - k
  BY SubSeqProperties
<1>3. RemoveAt(s, k) = a \o b
  BY DEF RemoveAt
<1> HIDE DEF a, b
<1>4. a \o b \in Seq(Characters) /\ Len(a \o b) = Len(a) + Len(b)
  BY <1>1, <1>2, ConcatProperties
<1>5. (k - 1) + (Len(s) - k) = Len(s) - 1
  OBVIOUS
<1> QED BY <1>1, <1>2, <1>3, <1>4, <1>5

(* The fields that a key leaves behind, one by one.                        *)
LEMMA FieldsTyped ==
  ASSUME NEW line \in Seq(Characters), NEW last \in Seq(Characters), NEW cursor \in Nat,
         Len(line) =< LineLimit, Len(last) =< LineLimit, cursor =< Len(line),
         editor' = [line |-> line, last |-> last, cursor |-> cursor]
  PROVE  EditorTypeOK'
  BY DEF EditorTypeOK

(* Type correctness: the cursor is in the line, which keeps to its limit.  *)
THEOREM EditorTypes == EditorSpec => []EditorTypeOK
<1>1. EditorInit => EditorTypeOK
  BY EditorAssumption DEF EditorInit, EditorTypeOK
<1>2. EditorTypeOK /\ [EditorNext]_editorVars => EditorTypeOK'
  <2> SUFFICES ASSUME EditorTypeOK, [EditorNext]_editorVars PROVE EditorTypeOK'
    OBVIOUS
  <2>1. /\ editor \in Editors /\ LineLimit \in Nat
        /\ Len(editor.line) \in Nat /\ Len(editor.line) =< LineLimit
        /\ Len(editor.last) \in Nat /\ Len(editor.last) =< LineLimit
        /\ editor.line \in Seq(Characters) /\ editor.last \in Seq(Characters)
        /\ editor.cursor \in 0 .. Len(editor.line)
    BY EditorAssumption DEF EditorTypeOK, Editors
  <2>2. ASSUME NEW c \in Characters, TypeCharacter(c) PROVE EditorTypeOK'
    <3> DEFINE line == InsertAt(editor.line, editor.cursor + 1, c)
    <3>1. line \in Seq(Characters) /\ Len(line) = Len(editor.line) + 1
      BY <2>1, InsertedLine
    <3>2. editor' = [line |-> line, last |-> editor.last, cursor |-> editor.cursor + 1]
      BY <2>1, <2>2 DEF TypeCharacter, Editors
    <3>3. Len(editor.line) < LineLimit
      BY <2>2 DEF TypeCharacter
    <3> HIDE DEF line
    <3>4. Len(line) =< LineLimit /\ editor.cursor + 1 =< Len(line) /\ editor.cursor + 1 \in Nat
      BY <2>1, <3>1, <3>3
    <3> QED BY <2>1, <3>1, <3>2, <3>4, FieldsTyped
  <2>3. CASE Backspace
    <3> DEFINE line == RemoveAt(editor.line, editor.cursor)
    <3>1. editor.cursor \in 1 .. Len(editor.line)
      BY <2>1, <2>3 DEF Backspace
    <3>2. line \in Seq(Characters) /\ Len(line) = Len(editor.line) - 1
      BY <2>1, <3>1, ShortenedLine
    <3>3. editor' = [line |-> line, last |-> editor.last, cursor |-> editor.cursor - 1]
      BY <2>1, <2>3 DEF Backspace, Editors
    <3> HIDE DEF line
    <3>4. Len(line) =< LineLimit /\ editor.cursor - 1 =< Len(line) /\ editor.cursor - 1 \in Nat
      BY <2>1, <3>1, <3>2
    <3> QED BY <2>1, <3>2, <3>3, <3>4, FieldsTyped
  <2>4. /\ Normalized(editor) \in Editors /\ Normalized(editor).last = editor.last
        /\ Normalized(editor).cursor = Len(Normalized(editor).line)
        /\ Len(Normalized(editor).line) =< LineLimit
    <3>1. Len(Normalized(editor).line) \in Nat
      BY <2>1, NormalizedLine DEF Editors
    <3> QED BY <2>1, <3>1, NormalizedLine
  <2>5. ASSUME NEW line \in Seq(Characters), NEW last \in Seq(Characters),
               Len(line) =< LineLimit, Len(last) =< LineLimit,
               editor' = [line |-> line, last |-> last, cursor |-> Len(line)]
        PROVE  EditorTypeOK'
    BY <2>5, FieldsTyped, Len(line) \in Nat
  <2>6. << >> \in Seq(Characters) /\ Len(<< >>) = 0 /\ 0 =< LineLimit
    BY <2>1
  <2>7. CASE Enter
    <3> DEFINE e == Normalized(editor)
    <3>1. CASE e.line = << >>
      <4>1. editor' = e
        BY <2>7, <3>1 DEF Enter
      <4>2. editor' = [line |-> e.line, last |-> editor.last, cursor |-> Len(e.line)]
        BY <2>4, <4>1 DEF Editors
      <4> QED BY <2>1, <2>4, <2>5, <4>2 DEF Editors
    <3>2. CASE e.line # << >>
      <4>1. editor' = [line |-> << >>, last |-> e.line, cursor |-> Len(<< >>)]
        BY <2>6, <2>7, <3>2 DEF Enter, Reset
      <4> QED BY <2>4, <2>5, <2>6, <4>1 DEF Editors
    <3> QED BY <3>1, <3>2
  <2>8. CASE Autocomplete
    <3> DEFINE e == Normalized(editor)
               names == {name \in Commands : IsPrefix(e.line, name)}
               common == IF names = {} THEN << >> ELSE LongestCommonPrefix(names)
    <3>1. common \in Seq(Characters) /\ Len(common) =< LineLimit
      <4>1. CASE names = {}
        BY <2>6, <4>1
      <4>2. CASE names # {}
        <5>1. names \subseteq Commands
          OBVIOUS
        <5> HIDE DEF names
        <5> QED BY <4>2, <5>1, CommonPart
      <4> QED BY <4>1, <4>2
    <3>2. \/ editor' = e
          \/ editor' = [e EXCEPT !.line = common, !.cursor = Len(common)]
      BY <2>8 DEF Autocomplete
    <3> HIDE DEF common
    <3>3. CASE editor' = e
      <4>1. editor' = [line |-> e.line, last |-> editor.last, cursor |-> Len(e.line)]
        BY <2>4, <3>3 DEF Editors
      <4> QED BY <2>1, <2>4, <2>5, <4>1 DEF Editors
    <3>4. CASE editor' = [e EXCEPT !.line = common, !.cursor = Len(common)]
      <4>1. editor' = [line |-> common, last |-> editor.last, cursor |-> Len(common)]
        BY <2>4, <3>4 DEF Editors
      <4> QED BY <2>1, <2>5, <3>1, <4>1
    <3> QED BY <3>2, <3>3, <3>4
  <2>9. CASE LineBefore
    <3>1. editor' = [line |-> editor.last, last |-> editor.last, cursor |-> Len(editor.last)]
      BY <2>1, <2>9 DEF LineBefore, Editors
    <3> QED BY <2>1, <2>5, <3>1
  <2>10. CASE CursorRight \/ CursorLeft
    <3>1. PICK k \in 0 .. Len(editor.line) : editor' = [editor EXCEPT !.cursor = k]
      BY <2>1, <2>10 DEF CursorRight, CursorLeft
    <3>2. editor' = [line |-> editor.line, last |-> editor.last, cursor |-> k]
      BY <2>1, <3>1 DEF Editors
    <3>3. k \in Nat /\ k =< Len(editor.line)
      BY <2>1
    <3> QED BY <2>1, <3>2, <3>3, FieldsTyped
  <2>11. CASE Interrupt \/ SessionEnds
    <3>1. editor' = [line |-> << >>, last |-> editor.line, cursor |-> Len(<< >>)]
      BY <2>6, <2>11 DEF Interrupt, SessionEnds, Reset
    <3> QED BY <2>1, <2>5, <2>6, <3>1
  <2>12. CASE SessionBegins \/ UNCHANGED editorVars
    BY <2>12 DEF SessionBegins, editorVars, EditorTypeOK
  <2> QED BY <2>2, <2>3, <2>7, <2>8, <2>9, <2>10, <2>11, <2>12 DEF EditorNext
<1> QED BY <1>1, <1>2, PTL DEF EditorSpec

(* What is shown stays what is edited, whatever is typed: each key changes *)
(* both alike, or prompts, or is one of the three that leave the row stale.*)
THEOREM RowShowsLine == EditorSpec => []ShownIsEdited
<1>1. EditorInit => ShownIsEdited
  BY DEF EditorInit, ShownIsEdited
<1>2. EditorTypeOK /\ ShownIsEdited /\ [EditorNext]_editorVars => ShownIsEdited'
  <2> SUFFICES ASSUME EditorTypeOK, ShownIsEdited, [EditorNext]_editorVars, row' # Stale
               PROVE  row' = [text |-> editor'.line, cursor |-> editor'.cursor]
    BY DEF ShownIsEdited
  <2>1. /\ editor \in Editors
        /\ row # Stale => row = [text |-> editor.line, cursor |-> editor.cursor]
    BY DEF ShownIsEdited, EditorTypeOK, Editors
  <2>2. ASSUME NEW e, Prompted(e) # Stale
        PROVE  Prompted(e) = [text |-> e.line, cursor |-> e.cursor]
    BY <2>2 DEF Prompted
  <2>3. ASSUME NEW c \in Characters, TypeCharacter(c)
        PROVE  row' = [text |-> editor'.line, cursor |-> editor'.cursor]
    BY <2>1, <2>3 DEF TypeCharacter, Shows, Editors
  <2>4. CASE Backspace
    BY <2>1, <2>4 DEF Backspace, Shows, Editors
  <2>5. CASE Enter
    BY <2>2, <2>5 DEF Enter
  <2>6. CASE Autocomplete
    BY <2>1, <2>2, <2>6 DEF Autocomplete
  <2>7. CASE LineBefore
    <3>1. /\ << >> \o editor.last = editor.last
          /\ 0 + Len(editor.last) = Len(editor.last)
      BY <2>1 DEF Editors
    <3>2. /\ editor.line = << >> /\ editor.cursor = 0
          /\ editor'.line = editor.last /\ editor'.cursor = Len(editor.last)
      BY <2>1, <2>7 DEF LineBefore, EditorTypeOK, Editors
    <3>3. row # Stale /\ row.text = << >> /\ row.cursor = 0
      <4>1. Shows([text |-> row.text \o editor.last, cursor |-> row.cursor + Len(editor.last)])
        BY <2>7 DEF LineBefore
      <4>2. row # Stale
        BY <4>1, ZenonT(20) DEF Shows
      <4>3. row = [text |-> << >>, cursor |-> 0]
        BY <2>1, <3>2, <4>2
      <4> QED BY <4>2, <4>3
    <3>4. row' = [text |-> << >> \o editor.last, cursor |-> 0 + Len(editor.last)]
      BY <2>7, <3>3 DEF LineBefore, Shows
    <3> QED BY <3>1, <3>2, <3>4
  <2>8. CASE CursorRight \/ CursorLeft
    BY <2>1, <2>8 DEF CursorRight, CursorLeft, Shows, Editors
  <2>9. CASE SessionBegins
    BY <2>2, <2>9 DEF SessionBegins
  <2>10. CASE Interrupt
    BY <2>2, <2>10 DEF Interrupt
  <2>11. CASE SessionEnds
    <3>1. editor' = [line |-> << >>, last |-> editor.line, cursor |-> 0]
      BY <2>11 DEF SessionEnds, Reset
    <3>2. row' = row /\ editor.line = << >>
      BY <2>11 DEF SessionEnds
    <3>3. editor.cursor = 0
      BY <3>2 DEF EditorTypeOK
    <3> QED BY <2>1, <3>1, <3>2, <3>3
  <2>12. CASE UNCHANGED editorVars
    BY <2>1, <2>12 DEF editorVars
  <2> QED BY <2>3, <2>4, <2>5, <2>6, <2>7, <2>8, <2>9, <2>10, <2>11, <2>12 DEF EditorNext
<1>3. EditorSpec => []EditorTypeOK
  BY EditorTypes
<1> QED BY <1>1, <1>2, <1>3, PTL DEF EditorSpec

-----------------------------------------------------------------------------
(***************************************************************************)
(* The transport below the editor.  What was typed is pending once: in the *)
(* flags of the worker or among those it took, and then missed_rx may be   *)
(* counted up once more.                                                   *)
(***************************************************************************)
TypedOnce ==
  /\ "Rx" \in flags \union vcp.got => vcp.missed < MaxMissed
  /\ ~("Rx" \in flags /\ "Rx" \in vcp.got)

CliInv == CliTypeOK /\ TypedOnce

Workers == [at : {"wait", "connect", "soh", "disconnect", "eot", "data", "send"},
            got : SUBSET WorkerEvt, connected : BOOLEAN, idle : BOOLEAN,
            missed : 0 .. MaxMissed, last : {"full", "short"}]

(* The worker goes on with flags that are left. *)
LEMMA GoesOn ==
  ASSUME NEW w \in Workers, NEW got \in SUBSET WorkerEvt
  PROVE  /\ GoOn(w, got) \in Workers
         /\ GoOn(w, got).got = got /\ GoOn(w, got).missed = w.missed
<1> DEFINE due == {i \in 1 .. 3 : Section[i].looks \intersect got # {}}
           first == CHOOSE i \in due : \A j \in due : i =< j
<1>1. due # {} => first \in due
  <2> SUFFICES ASSUME due # {} PROVE \E i \in due : \A j \in due : i =< j
    OBVIOUS
  <2>1. due \subseteq Nat \ {0}
    OBVIOUS
  <2> HIDE DEF due
  <2> QED BY <2>1, FirstPlace
<1>2. \A i \in 1 .. 3 : Section[i].at \in {"connect", "disconnect", "data"}
  BY DEF Section
<1> DEFINE next == IF due = {} THEN "wait" ELSE Section[first].at
<1>3. next \in {"wait", "connect", "disconnect", "data"}
  <2>1. due \subseteq 1 .. 3
    OBVIOUS
  <2> HIDE DEF due, first
  <2> QED BY <1>1, <1>2, <2>1
<1>4. GoOn(w, got) = [w EXCEPT !.got = got, !.at = next]
  BY DEF GoOn
<1> HIDE DEF next
<1> QED BY <1>3, <1>4 DEF Workers

Devices == [dtr : BOOLEAN, in : {0, 1}, fifo : {"none", "full", "short"},
            ep : {"none", "full", "short", "empty"}]

LEMMA CliStarts == CliInit => CliInv
BY CliAssumption DEF CliInit, CliInv, CliTypeOK, TypedOnce

(* What the host does. *)
LEMMA HostKeeps == CliInv /\ (HostLine \/ HostTypes \/ HostTakes \/ Unplug) => CliInv'
<1> SUFFICES ASSUME CliInv, HostLine \/ HostTypes \/ HostTakes \/ Unplug PROVE CliInv'
  OBVIOUS
<1>1. /\ CliTypeOK /\ TypedOnce /\ usb \in Devices /\ vcp \in Workers
  BY DEF CliInv, CliTypeOK, Devices, Workers
<1>2. ASSUME UNCHANGED <<vcp, rx, tx, shell>>, usb' \in Devices, flags' \subseteq WorkerEvt,
             faults' \subseteq {"merged", "unplugged", "dropped", "full"}
      PROVE  CliTypeOK'
  BY <1>1, <1>2 DEF CliTypeOK, Devices
<1>3. CASE HostLine
  <2>1. usb' \in Devices
    BY <1>1, <1>3 DEF HostLine, Devices
  <2>2. flags' \subseteq WorkerEvt
    BY <1>1, <1>3 DEF HostLine, CliTypeOK, WorkerEvt
  <2>3. TypedOnce'
    BY <1>1, <1>3 DEF HostLine, TypedOnce
  <2> QED BY <1>1, <1>2, <1>3, <2>1, <2>2, <2>3 DEF HostLine, CliInv, CliTypeOK
<1>4. CASE HostTypes
  <2>1. usb' \in Devices
    BY <1>1, <1>4 DEF HostTypes, Devices
  <2>2. flags' \subseteq WorkerEvt
    BY <1>1, <1>4 DEF HostTypes, CliTypeOK, WorkerEvt
  <2>3. TypedOnce'
    BY <1>1, <1>4 DEF HostTypes, TypedOnce
  <2> QED BY <1>1, <1>2, <1>4, <2>1, <2>2, <2>3 DEF HostTypes, CliInv, CliTypeOK
<1>5. CASE HostTakes
  <2>1. usb' \in Devices
    <3>1. usb.fifo \in {"none", "full", "short"}
      BY <1>1 DEF Devices
    <3>2. PICK e \in {"none", "full", "short", "empty"} : usb' = [usb EXCEPT !.fifo = "none", !.ep = e]
      BY <1>5, <3>1 DEF HostTakes
    <3> QED BY <1>1, <3>2 DEF Devices
  <2>2. flags' \subseteq WorkerEvt
    BY <1>1, <1>5 DEF HostTakes, CliTypeOK, WorkerEvt
  <2>3. TypedOnce'
    BY <1>1, <1>5 DEF HostTakes, TypedOnce
  <2> QED BY <1>1, <1>2, <1>5, <2>1, <2>2, <2>3 DEF HostTakes, CliInv, CliTypeOK
<1>6. CASE Unplug
  <2>1. usb' \in Devices
    BY <1>6 DEF Unplug, Devices
  <2>2. flags' \subseteq WorkerEvt
    BY <1>1, <1>6 DEF Unplug, CliTypeOK, WorkerEvt
  <2>3. TypedOnce'
    BY <1>1, <1>6 DEF Unplug, TypedOnce
  <2> QED BY <1>1, <1>2, <1>6, <2>1, <2>2, <2>3 DEF Unplug, CliInv, CliTypeOK
<1> QED BY <1>3, <1>4, <1>5, <1>6

(* What the shell does. *)
LEMMA ShellKeeps == CliInv /\ ShellNext => CliInv'
<1> SUFFICES ASSUME CliInv, ShellNext PROVE CliInv'
  OBVIOUS
<1>1. CliTypeOK /\ TypedOnce
  BY DEF CliInv
<1>2. /\ UNCHANGED <<vcp, usb, faults>> /\ flags' \subseteq flags \union {"StreamRx", "StreamTx"}
      /\ flags \subseteq flags'
  BY DEF ShellNext, ShellRead, ShellCheck, ShellPut
<1>3. rx' \in 0 .. Stream /\ tx' \in 0 .. Stream
  BY <1>1, CliAssumption DEF ShellNext, ShellRead, ShellCheck, ShellPut, CliTypeOK
<1>4. shell' \in {"read", "write", "put"}
  BY <1>1 DEF ShellNext, ShellRead, ShellCheck, ShellPut, CliTypeOK
<1>5. flags' \subseteq WorkerEvt
  BY <1>1, <1>2 DEF CliTypeOK, WorkerEvt
<1>6. TypedOnce'
  BY <1>1, <1>2 DEF TypedOnce
<1> QED BY <1>1, <1>2, <1>3, <1>4, <1>5, <1>6 DEF CliInv, CliTypeOK

(* What the worker does. *)
LEMMA VcpKeeps == CliInv /\ VcpNext => CliInv'
<1> SUFFICES ASSUME CliInv, VcpNext PROVE CliInv'
  OBVIOUS
<1>1. /\ CliTypeOK /\ TypedOnce /\ usb \in Devices /\ vcp \in Workers
      /\ vcp.got \in SUBSET WorkerEvt /\ vcp.missed \in 0 .. MaxMissed
      /\ Stream \in Nat /\ MaxMissed \in Nat
  BY CliAssumption DEF CliInv, CliTypeOK, Devices, Workers
<1>2. ASSUME vcp' \in Workers, usb' \in Devices, flags' \subseteq WorkerEvt, rx' \in 0 .. Stream,
             tx' \in 0 .. Stream, shell' = shell,
             faults' \subseteq {"merged", "unplugged", "dropped", "full"}
      PROVE  CliTypeOK'
  BY <1>1, <1>2 DEF CliTypeOK, Devices, Workers
<1>3. CASE VcpWait
  <2>1. PICK got \in SUBSET WorkerEvt : vcp' = GoOn(vcp, got) /\ ("Rx" \in got <=> "Rx" \in flags)
    BY <1>1, <1>3 DEF VcpWait, CliTypeOK
  <2>2. vcp' \in Workers /\ vcp'.got = got /\ vcp'.missed = vcp.missed
    BY <1>1, <2>1, GoesOn
  <2>3. TypedOnce'
    BY <1>1, <1>3, <2>1, <2>2 DEF VcpWait, TypedOnce
  <2> QED BY <1>1, <1>2, <1>3, <2>2, <2>3 DEF VcpWait, CliInv, CliTypeOK
<1>4. CASE VcpConnect
  <2>1. vcp' \in Workers /\ vcp'.got \subseteq vcp.got /\ vcp'.missed = vcp.missed
    <3>1. CASE vcp.connected
      BY <1>1, <1>4, <3>1, GoesOn DEF VcpConnect
    <3>2. CASE ~vcp.connected
      BY <1>1, <1>4, <3>2 DEF VcpConnect, Workers
    <3> QED BY <3>1, <3>2
  <2>2. TypedOnce'
    BY <1>1, <1>4, <2>1 DEF VcpConnect, TypedOnce
  <2> QED BY <1>1, <1>2, <1>4, <2>1, <2>2 DEF VcpConnect, CliInv, CliTypeOK
<1>5. CASE VcpDisconnect
  <2>1. vcp' \in Workers /\ vcp'.got \subseteq vcp.got /\ vcp'.missed = vcp.missed
    <3>1. CASE ~vcp.connected
      BY <1>1, <1>5, <3>1, GoesOn DEF VcpDisconnect
    <3>2. CASE vcp.connected
      BY <1>1, <1>5, <3>2 DEF VcpDisconnect, Workers
    <3> QED BY <3>1, <3>2
  <2>2. TypedOnce'
    BY <1>1, <1>5, <2>1 DEF VcpDisconnect, TypedOnce
  <2>3. tx' \in 0 .. Stream
    BY <1>1, <1>5 DEF VcpDisconnect, CliTypeOK
  <2> QED BY <1>1, <1>2, <1>5, <2>1, <2>2, <2>3 DEF VcpDisconnect, CliInv, CliTypeOK
<1>6. CASE VcpMark
  <2>1. PICK got \in SUBSET WorkerEvt : vcp' = GoOn(vcp, got) /\ got \subseteq vcp.got
    BY <1>1, <1>6 DEF VcpMark
  <2>2. vcp' \in Workers /\ vcp'.got = got /\ vcp'.missed = vcp.missed
    BY <1>1, <2>1, GoesOn
  <2>3. TypedOnce'
    BY <1>1, <1>6, <2>1, <2>2 DEF VcpMark, TypedOnce
  <2>4. rx' \in 0 .. Stream
    BY <1>1, <1>6 DEF VcpMark, CliTypeOK
  <2> QED BY <1>1, <1>2, <1>6, <2>2, <2>3, <2>4 DEF VcpMark, CliInv, CliTypeOK
<1>7. CASE VcpData
  <2>1. rx \in 0 .. Stream /\ tx \in 0 .. Stream /\ usb.in \in {0, 1}
    BY <1>1 DEF CliTypeOK, Devices
  <2>2. Rx.take \in {0, usb.in} /\ (Rx.take # 0 => rx < Stream)
    BY <2>1 DEF Rx
  <2>3. Rx.missed \in 0 .. MaxMissed
    <3>1. "Rx" \in vcp.got => vcp.missed < MaxMissed
      BY <1>1 DEF TypedOnce
    <3> QED BY <1>1, <3>1 DEF Rx
  <2>4. rx' \in 0 .. Stream /\ usb' \in Devices /\ tx' \in 0 .. Stream
    <3>1. rx' = rx + Rx.take /\ usb' = [usb EXCEPT !.in = usb.in - Rx.take]
      BY <1>7 DEF VcpData
    <3>2. tx' = tx \/ (tx > 0 /\ tx' = tx - 1)
      BY <1>7 DEF VcpData
    <3>3. usb.in - Rx.take \in {0, 1}
      BY <2>1, <2>2
    <3> QED BY <1>1, <2>1, <2>2, <3>1, <3>2, <3>3 DEF Devices
  <2>5. vcp' \in Workers /\ vcp'.got = {} /\ vcp'.missed = Rx.missed
    <3> DEFINE w == [vcp EXCEPT !.missed = Rx.missed]
    <3>1. w \in Workers /\ w.missed = Rx.missed
      BY <1>1, <2>3 DEF Workers
    <3>2. [w EXCEPT !.idle = (@ \/ vcp.last = "short"), !.last = "short"] \in Workers
          /\ [w EXCEPT !.idle = (@ \/ vcp.last = "short"), !.last = "short"].missed = Rx.missed
      BY <3>1 DEF Workers
    <3>3. \A size \in {"full", "short"} :
            LET n == [w EXCEPT !.idle = FALSE, !.last = size, !.at = "send", !.got = {}] IN
            n \in Workers /\ n.got = {} /\ n.missed = Rx.missed
      BY <3>1 DEF Workers
    <3>4. \/ \E size \in {"full", "short"} :
               vcp' = [w EXCEPT !.idle = FALSE, !.last = size, !.at = "send", !.got = {}]
          \/ vcp' = GoOn([w EXCEPT !.idle = (@ \/ vcp.last = "short"), !.last = "short"], {})
          \/ vcp' = GoOn(w, {})
      BY <1>7, Zenon DEF VcpData
    <3> HIDE DEF w
    <3>5. \A x \in Workers : /\ GoOn(x, {}) \in Workers /\ GoOn(x, {}).got = {}
                             /\ GoOn(x, {}).missed = x.missed
      BY GoesOn
    <3> QED BY <3>1, <3>2, <3>3, <3>4, <3>5
  <2>6. TypedOnce'
    <3>1. ASSUME "Rx" \in flags PROVE vcp'.missed < MaxMissed
      <4>1. "Rx" \notin vcp.got /\ vcp.missed < MaxMissed
        BY <1>1, <3>1 DEF TypedOnce
      <4>2. Rx.missed <= vcp.missed /\ Rx.missed \in Nat
        BY <1>1, <2>3, <4>1 DEF Rx
      <4> QED BY <1>1, <2>5, <4>1, <4>2
    <3> QED BY <1>1, <1>7, <2>5, <3>1 DEF VcpData, TypedOnce
  <2> QED BY <1>1, <1>2, <1>7, <2>4, <2>5, <2>6 DEF VcpData, CliInv, CliTypeOK
<1>8. CASE VcpSend \/ VcpSendTimeout
  <2>1. vcp' \in Workers /\ vcp'.got = {} /\ vcp'.missed = vcp.missed
    BY <1>1, <1>8, GoesOn DEF VcpSend, VcpSendTimeout
  <2>2. usb' \in Devices
    <3>1. vcp.last \in {"full", "short"}
      BY <1>1 DEF Workers
    <3> QED BY <1>1, <1>8, <3>1 DEF VcpSend, VcpSendTimeout, Devices
  <2>3. TypedOnce'
    BY <1>1, <1>8, <2>1 DEF VcpSend, VcpSendTimeout, TypedOnce
  <2> QED BY <1>1, <1>2, <1>8, <2>1, <2>2, <2>3 DEF VcpSend, VcpSendTimeout, CliInv, CliTypeOK
<1> QED BY <1>3, <1>4, <1>5, <1>6, <1>7, <1>8 DEF VcpNext

(* For streams of any length: whatever the terminal, the cable and the     *)
(* shell do, and however the worker's flags fall together, neither stream  *)
(* takes more than it holds - a packet is read from the device only when   *)
(* there is room for it - and nothing is counted as missed twice           *)
(* (vcp_on_cdc_rx, vcp_worker).                                             *)
THEOREM CliTypes == CliSpec => [](CliTypeOK /\ TypedOnce)
<1>1. CliInit => CliInv
  BY CliStarts
<1>2. CliInv /\ [CliNext]_cliVars => CliInv'
  <2> SUFFICES ASSUME CliInv, [CliNext]_cliVars PROVE CliInv'
    OBVIOUS
  <2>1. CASE UNCHANGED cliVars
    BY <2>1 DEF cliVars, CliInv, CliTypeOK, TypedOnce
  <2> QED BY <2>1, HostKeeps, ShellKeeps, VcpKeeps DEF CliNext
<1>3. CliInv => CliTypeOK /\ TypedOnce
  BY DEF CliInv
<1> QED BY <1>1, <1>2, <1>3, PTL DEF CliSpec
=============================================================================
