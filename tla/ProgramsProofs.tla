---------------------------- MODULE ProgramsProofs ----------------------------
(***************************************************************************)
(* Proofs about Programs, for every set of keys and of packets and every   *)
(* size of the screen: the programs use the mouse driver as Mouse says,    *)
(* and paint acts on what its copy of the mouse's data was copied from.    *)
(***************************************************************************)
EXTENDS Programs, MouseProofs

Mice == [x_pos : 0 .. MaxX, y_pos : 0 .. MaxY,
         left_click : 0 .. 1, right_click : 0 .. 1, middle_click : 0 .. 1]

\* Where paint is in sys_readmouse: the field it copies next, after the first.
Copying == {Fields[k] : k \in 2 .. Len(Fields)}

\* The types that what paint does with its copy needs.
PaintTypeOK ==
  /\ user_mouse \in Mice
  /\ at \in {"start", "switch", "read", "test", "click"} \cup Copying
  /\ active_color \in Colors /\ saved \in Colors \cup {Hidden}
  /\ stale \in BOOLEAN /\ astray \in BOOLEAN

\* The first k fields of the copy are those of the mouse.
Copied(k) == \A i \in 1 .. k : user_mouse[Fields[i]] = data[Fields[i]]

\* What has been copied is what the mouse's data still is, unless that has
\* changed since paint began.
CopyCurrent ==
  ~stale => /\ \A k \in 2 .. Len(Fields) : at = Fields[k] => Copied(k - 1)
            /\ at = "click" => Copied(Len(Fields))

\* A color is left on the canvas only, unless paint acted on an old copy.
TrailExcused == saved # Hidden /\ ~astray => data.y_pos > 100

\* The inductive invariant.
ProgramsInv == MouseInv /\ PaintTypeOK /\ CopyCurrent /\ TrailExcused

-----------------------------------------------------------------------------
(* The fields. *)

LEMMA FieldNames ==
  /\ Len(Fields) = 5
  /\ Fields[1] = "x_pos" /\ Fields[2] = "y_pos" /\ Fields[3] = "left_click"
  /\ Fields[4] = "right_click" /\ Fields[5] = "middle_click"
BY DEF Fields

LEMMA FieldCases ==
  ASSUME NEW k \in 1 .. Len(Fields)
  PROVE  k = 1 \/ k = 2 \/ k = 3 \/ k = 4 \/ k = 5
BY FieldNames, SMT

\* Each field has a name of its own, and none is another place of paint.
LEMMA FieldsDiffer ==
  /\ \A j, k \in 1 .. Len(Fields) : Fields[j] = Fields[k] => j = k
  /\ \A k \in 1 .. Len(Fields) : Fields[k] \notin {"start", "switch", "read", "test", "click"}
BY FieldNames, SMT

\* A field of a copy that is given another mouse's value.
LEMMA FieldUpdate ==
  ASSUME NEW m \in Mice, NEW d \in Mice, NEW k \in 1 .. Len(Fields)
  PROVE  /\ [m EXCEPT ![Fields[k]] = d[Fields[k]]] \in Mice
         /\ \A i \in 1 .. Len(Fields) :
              [m EXCEPT ![Fields[k]] = d[Fields[k]]][Fields[i]] =
                IF i = k THEN d[Fields[k]] ELSE m[Fields[i]]
<1>1. CASE k = 1
  BY <1>1, FieldNames, FieldCases, SMT DEF Mice
<1>2. CASE k = 2
  BY <1>2, FieldNames, FieldCases, SMT DEF Mice
<1>3. CASE k = 3
  BY <1>3, FieldNames, FieldCases, SMT DEF Mice
<1>4. CASE k = 4
  BY <1>4, FieldNames, FieldCases, SMT DEF Mice
<1>5. CASE k = 5
  BY <1>5, FieldNames, FieldCases, SMT DEF Mice
<1> QED BY <1>1, <1>2, <1>3, <1>4, <1>5, FieldCases

-----------------------------------------------------------------------------
(* The programs use the driver. *)

\* A program's step leaves the mouse and its driver alone.
LEMMA ProgramsLeaveMouse == ProgramStep => UNCHANGED mouseVars
<1>1. \A file : sys_exec(file) => UNCHANGED mouseVars
  BY DEF sys_exec, mouseVars
<1>2. \A b : sys_read(b) => UNCHANGED mouseVars
  BY DEF sys_read, mouseVars
<1>3. \A k : CopyField(k) => UNCHANGED mouseVars
  BY DEF CopyField, mouseVars
<1>4. PaintReadsMouse => UNCHANGED mouseVars
  BY <1>3 DEF PaintReadsMouse
<1>5. PaintClicks => UNCHANGED mouseVars
  BY DEF PaintClicks, mouseVars
<1>6. ShellStarts => UNCHANGED mouseVars
  BY <1>1 DEF ShellStarts, sys_gexec, mouseVars
<1> QED BY <1>1, <1>2, <1>4, <1>5, <1>6
           DEF ProgramStep, init, sys_gexec, ShellReads, HelloReads, HelloQuits, sys_exit,
               PaintReads, PaintQuits

\* Every step is one of the mouse and its driver, or leaves them alone.
LEMMA ProgramsSteps ==
  [ProgramsNext]_sysVars =>
    \/ \E packet \in Packets : Send(packet)
    \/ irq12_interrupt_handler
    \/ UNCHANGED mouseVars
<1>1. IRQ12 => irq12_interrupt_handler
  BY DEF IRQ12
<1>2. MouseSends => \E packet \in Packets : Send(packet)
  BY DEF MouseSends
<1>3. IRQ1 => UNCHANGED mouseVars
  BY DEF IRQ1
<1>4. UNCHANGED sysVars => UNCHANGED mouseVars
  BY DEF sysVars
<1> QED BY <1>1, <1>2, <1>3, <1>4, ProgramsLeaveMouse DEF ProgramsNext

LEMMA ProgramsKeepMouseInv == MouseInv /\ [ProgramsNext]_sysVars => MouseInv'
BY ProgramsSteps, SendKeepsMouseInv, InterruptKeepsMouseInv, StutterKeepsMouseInv

-----------------------------------------------------------------------------
(* The invariant. *)

LEMMA ProgramsInvAtFirst == ProgramsInit => ProgramsInv
<1> SUFFICES ASSUME ProgramsInit PROVE ProgramsInv
  OBVIOUS
<1>1. MouseInv
  BY MouseInvHoldsAtFirst DEF ProgramsInit
<1>2. PaintTypeOK
  <2>1. user_mouse \in Mice
    BY <1>1, Zenon DEF ProgramsInit, MouseInv, MouseTypeOK, Mice
  <2>2. active_color \in Colors
    BY SMT DEF ProgramsInit, Colors, RED, NUM_COLORS
  <2> QED BY <2>1, <2>2 DEF ProgramsInit, PaintTypeOK
<1>3. CopyCurrent
  BY FieldsDiffer DEF ProgramsInit, CopyCurrent
<1>4. TrailExcused
  BY DEF ProgramsInit, TrailExcused
<1> QED BY <1>1, <1>2, <1>3, <1>4 DEF ProgramsInv

\* What the invariant says of the mouse's data.
LEMMA MouseIsOne == ProgramsInv => data \in Mice /\ mouse_counter \in 0 .. 2
BY Zenon DEF ProgramsInv, MouseInv, MouseTypeOK, Mice

\* Steps that take paint nowhere it relies on its copy.
LEMMA ElsewhereKeeps ==
  ASSUME ProgramsInv, UNCHANGED <<data, user_mouse, stale>>,
         at' \in {"start", "switch", "read", "test"},
         active_color' \in Colors,
         (saved' = Hidden /\ astray' = FALSE) \/ UNCHANGED <<saved, astray>>
  PROVE  PaintTypeOK' /\ CopyCurrent' /\ TrailExcused'
<1>1. PaintTypeOK'
  BY DEF ProgramsInv, PaintTypeOK, Copying
<1>2. CopyCurrent'
  BY FieldsDiffer DEF CopyCurrent
<1>3. TrailExcused'
  BY DEF ProgramsInv, TrailExcused
<1> QED BY <1>1, <1>2, <1>3

\* Steps that leave paint where it is.
LEMMA StayingKeeps ==
  ASSUME ProgramsInv, UNCHANGED <<data, user_mouse, at, active_color, saved, astray, stale>>
  PROVE  PaintTypeOK' /\ CopyCurrent' /\ TrailExcused'
BY DEF ProgramsInv, PaintTypeOK, Copying, CopyCurrent, Copied, TrailExcused

\* A program starts.
LEMMA ExecKeeps ==
  ASSUME ProgramsInv, NEW file, sys_exec(file),
         (saved' = Hidden /\ astray' = FALSE) \/ UNCHANGED <<saved, astray>>
  PROVE  PaintTypeOK' /\ CopyCurrent' /\ TrailExcused'
<1>1. UNCHANGED <<data, user_mouse, stale>> /\ at' = "start" /\ active_color' = RED
  BY DEF sys_exec, mouseVars, driverVars
<1>2. RED \in Colors
  BY SMT DEF RED, Colors, NUM_COLORS
<1> QED BY <1>1, <1>2, ElsewhereKeeps

\* A field is copied: paint has copied the fields before it, and now this one.
LEMMA CopyKeeps ==
  ASSUME ProgramsInv, NEW k \in 1 .. Len(Fields), CopyField(k),
         \/ k = 1 /\ stale' = FALSE
         \/ k # 1 /\ at = Fields[k] /\ UNCHANGED stale
  PROVE  PaintTypeOK' /\ CopyCurrent' /\ TrailExcused'
<1>1. /\ user_mouse' = [user_mouse EXCEPT ![Fields[k]] = data[Fields[k]]]
      /\ at' = IF k = Len(Fields) THEN "click" ELSE Fields[k + 1]
      /\ UNCHANGED <<data, active_color, saved, astray>>
  BY DEF CopyField, mouseVars, driverVars
<1>2. user_mouse \in Mice /\ data \in Mice
  BY MouseIsOne DEF ProgramsInv, PaintTypeOK
<1>3. /\ user_mouse' \in Mice
      /\ \A i \in 1 .. Len(Fields) :
           user_mouse'[Fields[i]] = IF i = k THEN data[Fields[k]] ELSE user_mouse[Fields[i]]
  <2>1. /\ [user_mouse EXCEPT ![Fields[k]] = data[Fields[k]]] \in Mice
        /\ \A i \in 1 .. Len(Fields) :
             [user_mouse EXCEPT ![Fields[k]] = data[Fields[k]]][Fields[i]] =
               IF i = k THEN data[Fields[k]] ELSE user_mouse[Fields[i]]
    BY <1>2, FieldUpdate
  <2> QED BY <1>1, <2>1, Zenon
<1>4. PaintTypeOK'
  <2>1. at' \in {"click"} \cup Copying
    BY <1>1, FieldNames, SMT DEF Copying
  <2> QED BY <1>1, <1>3, <2>1 DEF ProgramsInv, PaintTypeOK, Copying
<1>5. ~stale' => Copied(k)'
  <2> SUFFICES ASSUME ~stale', NEW i \in 1 .. k
               PROVE  user_mouse'[Fields[i]] = data'[Fields[i]]
    BY DEF Copied
  <2>1. i \in 1 .. Len(Fields)
    BY FieldNames, SMT
  <2>2. CASE i = k
    BY <1>1, <1>3, <2>1, <2>2
  <2>3. CASE i # k
    <3>1. k # 1 /\ i \in 1 .. k - 1 /\ k \in 2 .. Len(Fields)
      BY <2>3, FieldNames, SMT
    <3>2. Copied(k - 1)
      BY <3>1 DEF ProgramsInv, CopyCurrent
    <3> QED BY <1>1, <1>3, <2>1, <2>3, <3>1, <3>2 DEF Copied
  <2> QED BY <2>2, <2>3
<1>6. CopyCurrent'
  <2>1. CASE k = Len(Fields)
    <3>1. at' = "click"
      BY <1>1, <2>1
    <3> QED BY <1>5, <2>1, <3>1, FieldsDiffer, SMT DEF CopyCurrent
  <2>2. CASE k # Len(Fields)
    <3>1. at' = Fields[k + 1] /\ k + 1 \in 1 .. Len(Fields)
      BY <1>1, <2>2, FieldNames, SMT
    <3>2. at' # "click"
      BY <3>1, FieldsDiffer
    <3>3. \A j \in 2 .. Len(Fields) : at' = Fields[j] => j = k + 1
      <4>1. 2 .. Len(Fields) \subseteq 1 .. Len(Fields)
        BY FieldNames, SMT
      <4> QED BY <3>1, <4>1, FieldsDiffer, Zenon
    <3>4. \A j \in 2 .. Len(Fields) : at' = Fields[j] => j - 1 = k
      BY <3>3, SMT
    <3> QED BY <1>5, <3>2, <3>4 DEF CopyCurrent
  <2> QED BY <2>1, <2>2
<1>7. TrailExcused'
  BY <1>1 DEF ProgramsInv, TrailExcused
<1> QED BY <1>4, <1>6, <1>7

\* Paint acts on its copy.  If it is not stale, it is what the mouse's data is.
LEMMA CopyIsMouse ==
  ASSUME ProgramsInv, PaintClicks, ~stale
  PROVE  /\ user_mouse.left_click = data.left_click
         /\ user_mouse.x_pos = data.x_pos /\ user_mouse.y_pos = data.y_pos
<1>1. Copied(Len(Fields))
  BY DEF ProgramsInv, CopyCurrent, PaintClicks, In
<1> QED BY <1>1, FieldNames, SMT DEF Copied

LEMMA ClickKeeps ==
  ASSUME ProgramsInv, PaintClicks
  PROVE  PaintTypeOK' /\ CopyCurrent' /\ TrailExcused'
<1> DEFINE left == user_mouse.left_click = 1
           canvas == left /\ OnCanvas(user_mouse.y_pos)
           index == potential_index(user_mouse.x_pos)
           choose == left /\ ~canvas /\ OnPane(user_mouse.y_pos) /\ index \in Colors
<1>1. /\ saved' = IF canvas THEN active_color ELSE saved
      /\ astray' = IF canvas THEN stale ELSE astray
      /\ active_color' = IF choose THEN index ELSE active_color
      /\ at' = "read"
      /\ UNCHANGED <<data, user_mouse, stale>>
  BY DEF PaintClicks, mouseVars, driverVars
<1>2. canvas /\ ~stale => data.y_pos > 100
  BY CopyIsMouse DEF OnCanvas
<1>3. choose => index \in Colors
  BY DEF choose
<1> HIDE DEF canvas, choose, index
<1>4. PaintTypeOK'
  BY <1>1, <1>3 DEF ProgramsInv, PaintTypeOK, Copying
<1>5. CopyCurrent'
  BY <1>1, FieldsDiffer DEF CopyCurrent
<1>6. TrailExcused'
  BY <1>1, <1>2 DEF ProgramsInv, PaintTypeOK, TrailExcused
<1> QED BY <1>4, <1>5, <1>6

\* A byte from the mouse.  The cursor moves at the last of a packet only, and then
\* what it hides is saved anew.
LEMMA InterruptKeeps ==
  ASSUME ProgramsInv, IRQ12
  PROVE  PaintTypeOK' /\ CopyCurrent' /\ TrailExcused'
<1>1. /\ irq12_interrupt_handler
      /\ IF mouse_counter = 2 THEN saved' = Hidden /\ astray' = FALSE
                              ELSE UNCHANGED <<saved, astray>>
      /\ stale' = (stale \/ data' # data)
      /\ UNCHANGED <<at, user_mouse, active_color>>
  BY DEF IRQ12
<1>2. PaintTypeOK'
  BY <1>1 DEF ProgramsInv, PaintTypeOK, Copying
<1>3. CopyCurrent'
  <2>1. ~stale' => ~stale /\ data' = data
    BY <1>1
  <2> QED BY <1>1, <2>1 DEF ProgramsInv, CopyCurrent, Copied
<1>4. TrailExcused'
  <2>1. CASE mouse_counter = 2
    BY <1>1, <2>1 DEF TrailExcused
  <2>2. CASE mouse_counter # 2
    <3>1. data'.y_pos = data.y_pos
      BY <1>1, <2>2, CursorStays DEF ProgramsInv
    <3> QED BY <1>1, <2>2, <3>1 DEF ProgramsInv, TrailExcused
  <2> QED BY <2>1, <2>2
<1> QED BY <1>2, <1>3, <1>4

\* A program's step.
LEMMA StepKeeps ==
  ASSUME ProgramsInv, ProgramStep
  PROVE  PaintTypeOK' /\ CopyCurrent' /\ TrailExcused'
<1>1. ASSUME NEW file, sys_gexec(file)
      PROVE  PaintTypeOK' /\ CopyCurrent' /\ TrailExcused'
  BY <1>1, ExecKeeps DEF sys_gexec
<1>2. ASSUME sys_exit
      PROVE  PaintTypeOK' /\ CopyCurrent' /\ TrailExcused'
  BY <1>2, ExecKeeps DEF sys_exit
<1>3. ASSUME NEW blocking, sys_read(blocking), at' \in {"switch", "test"} \/ UNCHANGED at
      PROVE  PaintTypeOK' /\ CopyCurrent' /\ TrailExcused'
  <2>1. UNCHANGED <<data, user_mouse, active_color, saved, astray, stale>>
    BY <1>3 DEF sys_read, mouseVars, driverVars
  <2>2. CASE UNCHANGED at
    BY <2>1, <2>2, StayingKeeps
  <2>3. CASE at' \in {"switch", "test"}
    <3>1. active_color' \in Colors
      BY <2>1 DEF ProgramsInv, PaintTypeOK
    <3> QED BY <2>1, <2>3, <3>1, ElsewhereKeeps
  <2> QED BY <1>3, <2>2, <2>3
<1>4. CASE init
  BY <1>1, <1>4 DEF init
<1>5. CASE ShellReads
  BY <1>3, <1>5 DEF ShellReads
<1>6. CASE ShellStarts
  <2>1. CASE \E file : sys_gexec(file)
    BY <1>1, <2>1
  <2>2. CASE at' = "read" /\ UNCHANGED <<mouseVars, user_mouse, active_color, saved, astray, stale>>
    <3>1. UNCHANGED data /\ active_color' \in Colors
      BY <2>2 DEF mouseVars, driverVars, ProgramsInv, PaintTypeOK
    <3> QED BY <2>2, <3>1, ElsewhereKeeps
  <2> QED BY <1>6, <2>1, <2>2 DEF ShellStarts
<1>7. CASE HelloReads
  BY <1>3, <1>7 DEF HelloReads
<1>8. CASE HelloQuits \/ PaintQuits
  BY <1>2, <1>8 DEF HelloQuits, PaintQuits
<1>9. CASE PaintReads
  BY <1>3, <1>9 DEF PaintReads
<1>10. CASE PaintReadsMouse
  <2>1. CASE CopyField(1) /\ stale' = FALSE
    <3>1. 1 \in 1 .. Len(Fields)
      BY FieldNames
    <3> QED BY <2>1, <3>1, CopyKeeps
  <2>2. CASE \E k \in 2 .. Len(Fields) : at = Fields[k] /\ CopyField(k) /\ UNCHANGED stale
    <3>1. PICK k \in 2 .. Len(Fields) : at = Fields[k] /\ CopyField(k) /\ UNCHANGED stale
      BY <2>2
    <3>2. k \in 1 .. Len(Fields) /\ k # 1
      BY FieldNames, SMT
    <3> QED BY <3>1, <3>2, CopyKeeps
  <2> QED BY <1>10, <2>1, <2>2 DEF PaintReadsMouse
<1>11. CASE PaintClicks
  BY <1>11, ClickKeeps
<1> QED BY <1>4, <1>5, <1>6, <1>7, <1>8, <1>9, <1>10, <1>11 DEF ProgramStep

LEMMA ProgramsInvStep == ProgramsInv /\ [ProgramsNext]_sysVars => ProgramsInv'
<1> SUFFICES ASSUME ProgramsInv, [ProgramsNext]_sysVars PROVE ProgramsInv'
  OBVIOUS
<1>1. MouseInv'
  BY ProgramsKeepMouseInv DEF ProgramsInv
<1>2. CASE ProgramStep
  BY <1>1, <1>2, StepKeeps DEF ProgramsInv
<1>3. CASE IRQ12
  BY <1>1, <1>3, InterruptKeeps DEF ProgramsInv
<1>4. CASE IRQ1 \/ MouseSends \/ UNCHANGED sysVars
  <2>1. UNCHANGED <<data, user_mouse, at, active_color, saved, astray, stale>>
    BY <1>4 DEF IRQ1, MouseSends, Send, sysVars, progVars, mouseVars, driverVars
  <2> QED BY <1>1, <2>1, StayingKeeps DEF ProgramsInv
<1> QED BY <1>2, <1>3, <1>4 DEF ProgramsNext

LEMMA ProgramsInvariant == ProgramsSpec => []ProgramsInv
BY ProgramsInvAtFirst, ProgramsInvStep, PTL DEF ProgramsSpec

-----------------------------------------------------------------------------
(* The theorems. *)

\* The programs' system calls and the handlers use the driver as Mouse says, so
\* what is proved of the driver holds while programs run.
THEOREM ProgramsUseMouse == ProgramsSpec => MouseSpec
<1>1. ProgramsInit => MouseInit
  BY DEF ProgramsInit
<1>2. [ProgramsNext]_sysVars => [MouseNext]_mouseVars
  BY ProgramsSteps DEF MouseNext
<1> QED BY <1>1, <1>2, PTL DEF ProgramsSpec, MouseSpec

\* paint acts on the click it has read: a color is left on the canvas only, and a
\* color that becomes the active one lies under the cursor, unless the mouse's
\* data has changed since paint began to copy it.
THEOREM PaintActsOnClick == ProgramsSpec => ActsOnClick
<1> DEFINE Acts ==
      PaintClicks /\ ~stale /\ <<saved, active_color>> # <<saved, active_color>>'
        => /\ data.left_click = 1
           /\ active_color' # active_color =>
                /\ data.y_pos \in 25 .. 75
                /\ active_color' = Quotient(data.x_pos - 80, 20)
<1>1. ASSUME ProgramsInv, PaintClicks, ~stale,
             <<saved, active_color>> # <<saved, active_color>>'
      PROVE  /\ data.left_click = 1
             /\ active_color' # active_color =>
                  /\ data.y_pos \in 25 .. 75
                  /\ active_color' = Quotient(data.x_pos - 80, 20)
  <2> DEFINE left == user_mouse.left_click = 1
             canvas == left /\ OnCanvas(user_mouse.y_pos)
             index == potential_index(user_mouse.x_pos)
             choose == left /\ ~canvas /\ OnPane(user_mouse.y_pos) /\ index \in Colors
  <2>1. /\ saved' = IF canvas THEN active_color ELSE saved
        /\ active_color' = IF choose THEN index ELSE active_color
    BY <1>1 DEF PaintClicks
  <2>2. canvas \/ choose
    BY <1>1, <2>1
  <2>3. data.left_click = 1
    BY <1>1, <2>2, CopyIsMouse
  <2>4. active_color' # active_color => choose /\ active_color' = index
    BY <2>1
  <2>5. choose => data.y_pos \in 25 .. 75 /\ index = Quotient(data.x_pos - 80, 20)
    BY <1>1, CopyIsMouse DEF OnPane, potential_index
  <2> QED BY <2>3, <2>4, <2>5
<1>2. ProgramsInv => [Acts]_sysVars
  BY <1>1
<1>3. ProgramsInv => (saved # Hidden /\ ~astray => data.y_pos > 100)
  BY DEF ProgramsInv, TrailExcused
<1> QED BY <1>2, <1>3, ProgramsInvariant, PTL DEF ActsOnClick
=============================================================================
