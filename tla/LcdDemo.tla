------------------------------ MODULE LcdDemo ------------------------------
(***************************************************************************)
(* The LCD demo, main.c of lcd_st7735: the menu with its countdown, the    *)
(* polling of the buttons, the two pictures, and CoreMark, which prints    *)
(* through ee_printf on the console.  One step is what the program does    *)
(* between two looks at the buttons.  The screen is what it shows; that    *)
(* its drawing reaches the display is the matter of module LcdSpi, that    *)
(* timer_delay waits that of module TimerDelay.                            *)
(***************************************************************************)
EXTENDS FractalFixed, FbCon, EePrintf

CONSTANTS PollDelay, ScanTimeout,     \* ms between two looks, and to look for
          BootCountdown, ItemsCount,
          BlankLines,                 \* printed to take the console to the bottom
          Numbers, Floats, Texts, Chars, Addresses,   \* directives CoreMark may print
          Literals                                    \* and characters between them
ASSUME LcdDemoAssumption ==
  /\ {PollDelay, ScanTimeout, BootCountdown, ItemsCount, BlankLines} \subseteq Nat
  /\ ItemsCount >= 2 /\ PollDelay > 0


(* The font has a shape for every character ee_vsprintf can make of these  *)
(* directives; what fbcon takes for a command is printed between them.     *)
Glyphs == DOMAIN CharWidth
Printable == Glyphs \cup {"\r", "\n", "\f"}
ASSUME DirectivesAssumption ==
  /\ {"0","1","2","3","4","5","6","7","8","9","a","b","c","d","e","f","A","B","C","D","E","F",
      "x", "+", "-", " ", ".", ":", "%", "<", ">", "N", "U", "L"} \subseteq Glyphs
  /\ Numbers \subseteq Directives(IntegerConversions, 0 .. LongSize - 1)
  /\ Floats \subseteq Directives({"f"}, [units : Int, scale : Nat])
  /\ Texts \subseteq Directives({"s"}, Seq(Seq(Glyphs)))
  /\ Chars \subseteq Directives(Glyphs \ (IntegerConversions \cup {"a", "A", "f", "s"}), Glyphs)
  /\ Addresses \subseteq Directives({"a", "A"}, [1 .. 6 -> 0 .. 255])
  /\ Literals \subseteq Printable

BTN_DOWN == 0
BTN_LEFT == 1
BTN_CLICK == 2
BTN_RIGHT == 3
BTN_UP == 4
Buttons == {BTN_DOWN, BTN_LEFT, BTN_CLICK, BTN_RIGHT, BTN_UP}
NoButton == 5

VARIABLES pc, caller,          \* where the program is; who called scan_buttons
          timeout, button,     \* in scan_buttons: time left; the button it found
          repaint, selected, boot_countdown_sec,
          screen,              \* what was drawn last
          pos,                 \* fbcon: the place of the next character, kept for good
          call, text,          \* what ee_printf was asked for, what it made of it
          held                 \* history: buttons seen pressed at every look since
                               \* scan_buttons returned them

menuvars == <<repaint, selected, boot_countdown_sec>>
scanvars == <<caller, timeout, button, held>>
printvars == <<pos, call, text>>
vars == <<pc, scanvars, menuvars, screen, printvars, fractalvars>>
---------------------------------------------------------------------------
MenuScreen(sel, count) == [shows |-> "menu", item |-> sel, count |-> count]
Showing(what) == [shows |-> what, item |-> 0, count |-> 0]
NoCall == [conv |-> "none"]

(* After the splash screen                                                 *)
Init == /\ pc = "menu" /\ caller = "menu" /\ timeout = 0 /\ button = NoButton
        /\ repaint = TRUE /\ selected = 0 /\ boot_countdown_sec = BootCountdown
        /\ screen = Showing("splash")
        /\ pos = [x |-> 0, y |-> 0] /\ call = NoCall /\ text = <<>>
        /\ FractalStart /\ held = {}

CallScan(who) == /\ pc' = "scan" /\ caller' = who /\ timeout' = ScanTimeout /\ button' = NoButton
                 /\ UNCHANGED held

(* The head of the menu's loop                                             *)
Menu == /\ pc = "menu"
        /\ screen' = IF repaint THEN MenuScreen(selected, boot_countdown_sec) ELSE screen
        /\ repaint' = FALSE
        /\ CallScan("menu")
        /\ UNCHANGED <<selected, boot_countdown_sec, printvars, fractalvars>>
---------------------------------------------------------------------------
(* scan_buttons looks at the levels of the buttons, any set of them.  With *)
(* none pressed it waits, and returns 0 when its time is up.               *)
Less_Not(time) == time
Less(time) == time - PollDelay
SeesNone == /\ pc = "scan"
            /\ pc' = IF timeout < PollDelay THEN "event" ELSE "scan"
            /\ timeout' = IF timeout < PollDelay THEN 0 ELSE Less(timeout)
            /\ held' = {}
            /\ UNCHANGED <<caller, button, menuvars, screen, printvars, fractalvars>>

MostSignificant(pressed) == CHOOSE b \in pressed : \A c \in pressed : c <= b

SeesPressed ==
  /\ pc = "scan" /\ pc' = "release"
  /\ \E pressed \in (SUBSET Buttons) \ {{}} :
       /\ button' = MostSignificant(pressed)
       /\ held' = (held \cap pressed) \cup {button'}
  /\ timeout' = 0
  /\ UNCHANGED <<caller, menuvars, screen, printvars, fractalvars>>

(* Then it looks until that button is up                                   *)
GoesOn_AtOnce(pressed) == TRUE
GoesOn(pressed) == button \notin pressed
WaitsForRelease ==
  /\ pc = "release"
  /\ \E pressed \in SUBSET Buttons :
       /\ pc' = IF GoesOn(pressed) THEN "event" ELSE "release"
       /\ held' = held \cap pressed
  /\ UNCHANGED <<caller, timeout, button, menuvars, screen, printvars, fractalvars>>
---------------------------------------------------------------------------
MenuEvent(set, goto) == /\ pc = "event" /\ caller = "menu" /\ button \in set
                        /\ pc' = goto
                        /\ UNCHANGED <<scanvars, screen, printvars, fractalvars>>

Up == /\ MenuEvent({BTN_UP}, "menu")
      /\ selected' = IF selected > 0 THEN selected - 1 ELSE ItemsCount - 1
      /\ repaint' = TRUE /\ boot_countdown_sec' = 0

Down == /\ MenuEvent({BTN_DOWN}, "menu")
        /\ selected' = IF selected < ItemsCount - 1 THEN selected + 1 ELSE 0
        /\ repaint' = TRUE /\ boot_countdown_sec' = 0

LeftOrRight == MenuEvent({BTN_LEFT, BTN_RIGHT}, "menu") /\ UNCHANGED menuvars

Click == MenuEvent({BTN_CLICK}, "boot") /\ UNCHANGED menuvars

(* No button for a second: the countdown, if it is still on                *)
Dismissed == /\ MenuEvent({NoButton}, "menu") /\ boot_countdown_sec = 0
             /\ UNCHANGED menuvars

CountsDown == /\ MenuEvent({NoButton}, IF boot_countdown_sec = 1 THEN "boot" ELSE "menu")
              /\ boot_countdown_sec # 0
              /\ boot_countdown_sec' = boot_countdown_sec - 1
              /\ repaint' = (boot_countdown_sec # 1)
              /\ UNCHANGED selected
---------------------------------------------------------------------------
(* Item 0: the picture in floating point, which is not modelled, then the  *)
(* one in fixed point                                                      *)
BootFractal == /\ pc = "boot" /\ selected = 0
               /\ pc' = "picture" /\ screen' = Showing("fractal")
               /\ UNCHANGED <<scanvars, menuvars, printvars, fractalvars>>

Picture == /\ pc = "picture" /\ ~PictureDone
           /\ Iterate \/ NextPixel
           /\ UNCHANGED <<pc, scanvars, menuvars, screen, printvars>>

PictureEnds == /\ pc = "picture" /\ PictureDone
               /\ x' = 0 /\ y' = 0 /\ cur_p' = Corner /\ iter_val' = Corner /\ i' = 0
               /\ CallScan("after")
               /\ UNCHANGED <<menuvars, screen, printvars>>
---------------------------------------------------------------------------
(* Item 1: the console goes to the bottom, the screen is cleared           *)
BootCoreMark == /\ pc = "boot" /\ selected = 1
                /\ pc' = "coremark" /\ screen' = Showing("coremark")
                /\ pos' = fbcon_putstr(pos, Repeat("\n", BlankLines)).pos
                /\ UNCHANGED <<scanvars, menuvars, call, text, fractalvars>>

(* CoreMark calls ee_printf with one directive after the other, or with    *)
(* characters between two of them                                          *)
Converts(directives) ==
  /\ pc = "coremark" /\ text = <<>>
  /\ \E d \in directives : call' = d /\ text' = ee_vsprintf(d)
  /\ UNCHANGED <<pc, scanvars, menuvars, screen, pos, fractalvars>>

PrintsNumber == Converts(Numbers)
PrintsFloatingPoint == Converts(Floats)
PrintsText == Converts(Texts) \/ Converts(Chars)
PrintsAddress == Converts(Addresses)
PrintsLiteral ==
  /\ pc = "coremark" /\ text = <<>> /\ \E c \in Literals : text' = <<c>>
  /\ call' = NoCall
  /\ UNCHANGED <<pc, scanvars, menuvars, screen, pos, fractalvars>>

(* ee_printf hands the text to the console                                 *)
PutString == /\ text # <<>> /\ pos' = fbcon_putstr(pos, text).pos
             /\ text' = <<>> /\ call' = NoCall
             /\ UNCHANGED <<pc, scanvars, menuvars, screen, fractalvars>>

(* portable_fini prints the result; then the program waits for a click     *)
PortableFini ==
  /\ pc = "coremark" /\ text = <<>> /\ pc' = "fini"
  /\ \E d \in Floats : /\ d.flags = {} /\ d.width = Absent /\ ~d.dot
                      /\ call' = d /\ text' = ee_vsprintf(d)
  /\ UNCHANGED <<scanvars, menuvars, screen, pos, fractalvars>>

CoreMarkEnds == /\ pc = "fini" /\ text = <<>>
                /\ CallScan("after")
                /\ UNCHANGED <<menuvars, screen, printvars, fractalvars>>
---------------------------------------------------------------------------
(* Behind either item: only a click leads back to the menu                 *)
Painted_AsItIs == repaint
Painted == TRUE
Returns == /\ pc = "event" /\ caller = "after" /\ button = BTN_CLICK
           /\ pc' = "menu" /\ repaint' = Painted
           /\ UNCHANGED <<scanvars, selected, boot_countdown_sec, screen, printvars, fractalvars>>

ScansOn == /\ pc = "event" /\ caller = "after" /\ button # BTN_CLICK
           /\ CallScan("after")
           /\ UNCHANGED <<menuvars, screen, printvars, fractalvars>>

MenuEvents == Up \/ Down \/ LeftOrRight \/ Click \/ Dismissed \/ CountsDown
Main == Menu \/ SeesNone \/ WaitsForRelease \/ MenuEvents \/ BootFractal \/ Picture \/ PictureEnds
        \/ BootCoreMark \/ Returns \/ ScansOn
CoreMark == PrintsNumber \/ PrintsFloatingPoint \/ PrintsText \/ PrintsAddress \/ PrintsLiteral
            \/ PutString \/ PortableFini \/ CoreMarkEnds
Next == Main \/ SeesPressed \/ CoreMark

(* The processor runs main; CoreMark need not end, and nobody has to press *)
(* a button.  A button that is pressed is let go some day.                 *)
Spec == Init /\ [][Next]_vars /\ WF_vars(Main)
---------------------------------------------------------------------------
TypeOK == /\ pc \in {"menu", "scan", "release", "event", "boot", "picture", "coremark", "fini"}
          /\ caller \in {"menu", "after"} /\ timeout \in 0 .. ScanTimeout
          /\ button \in Buttons \cup {NoButton} /\ held \subseteq Buttons
          /\ repaint \in BOOLEAN /\ selected \in 0 .. ItemsCount - 1
          /\ boot_countdown_sec \in 0 .. BootCountdown
          /\ pos \in [x : 0 .. ScreenWidth, y : 0 .. ScreenHeight]

(* A button is reported once for each time it is pressed ("Wait until the  *)
(* button is released to avoid an event being triggered multiple times",   *)
(* main.c:234): before it is reported again it was seen up.                *)
OnePerPress == [][pc = "scan" /\ pc' = "release" => button' \notin held]_vars

(* While the menu waits for a button the screen shows the selection and    *)
(* the countdown as they are, and a countdown is one to item 0, as its     *)
(* text says (main.c:120-122): a way through the menu that forgets to      *)
(* repaint, or to dismiss the countdown, breaks it.                        *)
ScreenTrue == caller = "menu" /\ pc \in {"scan", "release"} =>
                /\ screen = MenuScreen(selected, boot_countdown_sec)
                /\ boot_countdown_sec # 0 => selected = 0

(* A countdown that is on ends in item 0, unless somebody presses a button *)
(* (scan_buttons must give up in the end, main.c:217).                     *)
CountdownEnds == boot_countdown_sec # 0 ~> (screen = Showing("fractal") \/ button # NoButton)

(* What ee_printf makes of a directive reads back as the argument, as      *)
(* wide as the field (number, flt and the padding loops of ee_printf.c).   *)
PrintsArgument == call # NoCall => /\ PrintsInteger(call, text)
                                   /\ PrintsFloat(call, text)
                                   /\ FillsField(call, text)

(* The console draws on the screen only (fbcon.c:19, 48), whatever text    *)
(* comes when and wherever the text before it ended.                       *)
DrawsOnScreen == \A area \in fbcon_putstr(pos, text).drawn : OnScreen(area)

(* "Trick to make the coremark appear at bottom" (main.c:180): its output  *)
(* starts in the lower half of the screen.                                 *)
CoreMarkAtBottom == [][pc = "boot" /\ pc' = "coremark" => 2 * pos'.y >= ScreenHeight]_vars
=============================================================================
