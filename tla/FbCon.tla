------------------------------- MODULE FbCon -------------------------------
(***************************************************************************)
(* The console of the LCD demo, fbcon.c: a place on the screen at which    *)
(* the next character is drawn.  Colours and pixels are left out: what is  *)
(* drawn is the rectangle it covers.                                       *)
(***************************************************************************)
EXTENDS Integers, Sequences

CONSTANTS ScreenWidth, ScreenHeight,    \* ctx->parent.width and height, in pixels
          FontHeight,
          CharWidth                     \* of every character of the font
ASSUME FbConAssumption ==
  /\ {ScreenWidth, ScreenHeight, FontHeight} \subseteq Nat \ {0} /\ FontHeight <= ScreenHeight
  /\ \A c \in DOMAIN CharWidth : CharWidth[c] \in 1 .. ScreenWidth

Area(pos, width) == [origin |-> pos, width |-> width, height |-> FontHeight]

(* To the next line, or to the top behind the last, and clears it.  The    *)
(* state of the console: where it is, and what it has drawn.               *)
NewlineY_LineNotCounted(y) == IF y + FontHeight > ScreenHeight THEN 0 ELSE y + FontHeight
NewlineY(y) == IF y + FontHeight + FontHeight > ScreenHeight THEN 0 ELSE y + FontHeight
newline(con) ==
  LET pos == [x |-> 0, y |-> NewlineY(con.pos.y)]
  IN [pos |-> pos, drawn |-> con.drawn \cup {Area(pos, ScreenWidth)}]

(* A character that does not fit goes to the next line                     *)
Character(con, ch) ==
  LET at == IF con.pos.x + CharWidth[ch] > ScreenWidth THEN newline(con) ELSE con
  IN [pos |-> [at.pos EXCEPT !.x = @ + CharWidth[ch]],
      drawn |-> at.drawn \cup {Area(at.pos, CharWidth[ch])}]

Put(con, ch) ==
  CASE ch = "\r" -> [con EXCEPT !.pos.x = 0]
    [] ch = "\n" -> newline(con)
    [] ch = "\f" -> [con EXCEPT !.pos = [x |-> 0, y |-> 0]]
    [] OTHER -> Character(con, ch)

fbcon_putstr(pos, str) ==
  LET after[n \in 0 .. Len(str)] == IF n = 0 THEN [pos |-> pos, drawn |-> {}]
                                    ELSE Put(after[n - 1], str[n])
  IN after[Len(str)]

OnScreen(area) ==
  /\ area.origin.x >= 0 /\ area.origin.x + area.width <= ScreenWidth
  /\ area.origin.y >= 0 /\ area.origin.y + area.height <= ScreenHeight
=============================================================================
