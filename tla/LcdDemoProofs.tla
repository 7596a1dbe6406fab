--------------------------- MODULE LcdDemoProofs ---------------------------
(***************************************************************************)
(* The LCD demo for every size of screen, font, picture, long and menu,    *)
(* and for every directive of the kinds DirectivesAssumption allows: its   *)
(* types, what ee_printf makes of its argument, what the console draws,    *)
(* one event for one press, the menu that shows what it is in, and the     *)
(* limits of fp_mul that change no pixel.  The module goes bottom up:      *)
(*   recursion    that the functions of the model exist and what they give *)
(*   console      that fbcon_putstr keeps to the screen                    *)
(*   texts        that ee_vsprintf makes a text of characters of the font  *)
(*   width        that it fills its field                                  *)
(*   reading      that it reads back as the argument: integers, decimals   *)
(*   steps        the invariants of the demo, action by action             *)
(***************************************************************************)
EXTENDS FiniteSetTheorems, SequenceTheorems, LcdDemo, TLAPS

(* Induction over the naturals, with a set in the place of a predicate: if *)
(* it did not reach m, adding 1 would be an injection of a finite set into *)
(* itself that misses 0.                                                   *)
LEMMA SetInduction ==
  ASSUME NEW D, 0 \in D, \A n \in Nat : n \in D => n + 1 \in D
  PROVE  Nat \subseteq D
<1> SUFFICES ASSUME NEW m \in Nat, m \notin D PROVE FALSE
  OBVIOUS
<1> DEFINE S == {k \in 0 .. m : k \in D}
           f == [k \in S |-> k + 1]
<1>1. IsFiniteSet(S)
  BY FS_Interval, FS_Subset, S \in SUBSET (0 .. m), 0 \in Int, m \in Int
<1>2. 0 \in S /\ \A k \in S : k \in Nat /\ k + 1 \in S
  <2>1. \A k \in S : k \in Nat /\ k < m /\ k \in D
    BY SMT
  <2> QED
    BY <2>1, SMT
<1>3. f \in Injection(S, S)
  <2>1. f \in [S -> S]
    BY <1>2
  <2>2. \A a, b \in S : f[a] = f[b] => a = b
    BY <1>2, SMT
  <2> QED
    BY <2>1, <2>2 DEF Injection, IsInjective
<1>4. f \in Surjection(S, S)
  BY <1>1, <1>3, FS_Injection
<1>5. PICK k \in S : f[k] = 0
  BY <1>2, <1>4 DEF Surjection
<1> QED
  BY <1>2, <1>5, SMT

(* What a loop of n steps makes of the state c                             *)
Iterates(g, S, c, n, step) ==
  g \in [0 .. n -> S] /\ g[0] = c /\ \A k \in 1 .. n : g[k] = step[k][g[k - 1]]

(* A loop of n steps has a course.                                         *)
LEMMA Iteration ==
  ASSUME NEW S, NEW c \in S, NEW n \in Nat, NEW step \in [1 .. n -> [S -> S]]
  PROVE  \E g : Iterates(g, S, c, n, step)
<1> DEFINE Upto(m, g) == g[0] = c /\ \A k \in 1 .. m : g[k] = step[k][g[k - 1]]
           D == {m \in Nat : m <= n => \E g \in [0 .. m -> S] : Upto(m, g)}
<1>1. 0 \in D
  <2> DEFINE g == [k \in 0 .. 0 |-> c]
  <2>1. g \in [0 .. 0 -> S] /\ g[0] = c
    BY SMT
  <2>2. Upto(0, g)
    BY <2>1, SMT
  <2> HIDE DEF g, Upto
  <2> QED
    BY <2>1, <2>2
<1>2. ASSUME NEW m \in Nat, m \in D, m + 1 <= n
      PROVE  \E g \in [0 .. m + 1 -> S] : Upto(m + 1, g)
  <2>1. PICK g \in [0 .. m -> S] : Upto(m, g)
    BY <1>2, SMT
  <2> HIDE DEF D
  <2> DEFINE h == [k \in 0 .. m + 1 |-> IF k = m + 1 THEN step[m + 1][g[m]] ELSE g[k]]
  <2>2. g[m] \in S /\ m + 1 \in 1 .. n
    BY <1>2, SMT
  <2>3. step[m + 1][g[m]] \in S
    BY <2>2
  <2>4. h \in [0 .. m + 1 -> S]
    BY <2>3, SMT
  <2>5. \A k \in 0 .. m : h[k] = g[k]
    BY SMT
  <2>6. h[m + 1] = step[m + 1][g[m]]
    BY SMT
  <2> HIDE DEF h
  <2>7. ASSUME NEW k \in 1 .. m + 1 PROVE h[k] = step[k][h[k - 1]]
    <3>1. CASE k = m + 1
      <4>1. h[k - 1] = g[m]
        BY <2>5, <3>1, SMT
      <4> QED
        BY <2>6, <3>1, <4>1
    <3>2. CASE k \in 1 .. m
      <4>1. h[k] = g[k] /\ h[k - 1] = g[k - 1]
        BY <2>5, <3>2, SMT
      <4> QED
        BY <2>1, <3>2, <4>1
    <3> QED
      BY <3>1, <3>2, SMT
  <2>8. h[0] = c
    BY <2>1, <2>5, SMT
  <2> QED
    BY <2>4, <2>7, <2>8
<1>3. \A m \in Nat : m \in D => m + 1 \in D
  BY <1>2, SMT
<1> HIDE DEF D
<1>4. n \in D
  BY <1>1, <1>3, SetInduction
<1> QED
  BY <1>4, SMT DEF D, Iterates

(* A function that is computed for n from its value for a smaller number,  *)
(* down[n], unless n is low                                                *)
Computed(k, f, low, first, next, down) ==
  f[k] = IF k \in low THEN first[k] ELSE next[k][f[down[k]]]
Descends(f, T, S, low, first, next, down) ==
  f \in [T -> S] /\ \A k \in T : Computed(k, f, low, first, next, down)

(* Such a function exists.                                                 *)
LEMMA Descent ==
  ASSUME NEW S, NEW low, NEW first \in [Nat -> S], NEW next \in [Nat -> [S -> S]],
         NEW down \in [Nat -> Nat], \A n \in Nat : n \notin low => down[n] < n
  PROVE  \E f : Descends(f, Nat, S, low, first, next, down)
<1> DEFINE Upto(m, g) == Descends(g, 0 .. m, S, low, first, next, down)
           D == {m \in Nat : \E g : Upto(m, g)}
<1>1. ASSUME NEW m \in Nat, NEW n \in Nat, NEW g, NEW h, Upto(m, g), Upto(n, h)
      PROVE  \A k \in Nat : k <= m /\ k <= n => g[k] = h[k]
  <2> DEFINE E == {k \in Nat : \A j \in 0 .. k : j <= m /\ j <= n => g[j] = h[j]}
  <2>1. ASSUME NEW k \in Nat, k <= m, k <= n, \A j \in Nat : j < k => g[j] = h[j] PROVE g[k] = h[k]
    <3>1. k \in 0 .. m /\ k \in 0 .. n
      BY <2>1, SMT
    <3>2. Computed(k, g, low, first, next, down) /\ Computed(k, h, low, first, next, down)
      BY <1>1, <3>1 DEF Descends
    <3>3. CASE k \in low
      BY <3>2, <3>3 DEF Computed
    <3>4. CASE k \notin low
      <4>1. g[down[k]] = h[down[k]]
        BY <2>1, <3>4
      <4> QED
        BY <3>2, <3>4, <4>1 DEF Computed
    <3> QED
      BY <3>3, <3>4
  <2>2. 0 \in E
    <3>1. 0 <= m /\ 0 <= n => g[0] = h[0]
      BY <2>1, SMT
    <3> QED
      BY <3>1, SMT
  <2>3. ASSUME NEW k \in Nat, k \in E PROVE k + 1 \in E
    <3>1. k + 1 <= m /\ k + 1 <= n => g[k + 1] = h[k + 1]
      <4> SUFFICES ASSUME k + 1 <= m, k + 1 <= n PROVE g[k + 1] = h[k + 1]
        OBVIOUS
      <4>1. \A j \in Nat : j < k + 1 => g[j] = h[j]
        BY <1>1, <2>3, SMT
      <4> HIDE DEF E
      <4> QED
        BY <2>1, <4>1, k + 1 \in Nat
    <3>2. \A j \in 0 .. k + 1 : j \in 0 .. k \/ j = k + 1
      BY SMT
    <3> QED
      BY <2>3, <3>1, <3>2
  <2> HIDE DEF E
  <2>4. Nat \subseteq E
    BY <2>2, <2>3, SetInduction
  <2> QED
    <3> SUFFICES ASSUME NEW k \in Nat, k <= m, k <= n PROVE g[k] = h[k]
      OBVIOUS
    <3>1. k \in E /\ k \in 0 .. k
      BY <2>4, SMT
    <3> QED
      BY <3>1 DEF E
<1>2. 0 \in D
  <2> DEFINE g == [k \in 0 .. 0 |-> first[0]]
  <2>1. 0 \in low
    BY SMT
  <2>2. g \in [0 .. 0 -> S] /\ g[0] = first[0]
    BY SMT
  <2>3. \A k \in 0 .. 0 : k = 0
    BY SMT
  <2> HIDE DEF g
  <2>4. Upto(0, g)
    BY <2>1, <2>2, <2>3 DEF Descends, Computed
  <2> QED
    BY <2>4
<1>3. ASSUME NEW m \in Nat, m \in D PROVE m + 1 \in D
  <2>1. PICK g : Upto(m, g)
    BY <1>3
  <2> HIDE DEF D
  <2>2. g \in [0 .. m -> S]
    BY <2>1 DEF Descends
  <2> DEFINE value == IF m + 1 \in low THEN first[m + 1] ELSE next[m + 1][g[down[m + 1]]]
             h == [k \in 0 .. m + 1 |-> IF k = m + 1 THEN value ELSE g[k]]
  <2>3. m + 1 \in Nat /\ (m + 1 \notin low => down[m + 1] \in 0 .. m)
    BY SMT
  <2>4. value \in S
    BY <2>2, <2>3
  <2>5. value = IF m + 1 \in low THEN first[m + 1] ELSE next[m + 1][g[down[m + 1]]]
    OBVIOUS
  <2> HIDE DEF value
  <2>6. h \in [0 .. m + 1 -> S]
    BY <2>2, <2>4, SMT
  <2>7. (\A k \in 0 .. m : h[k] = g[k]) /\ h[m + 1] = value
    BY SMT
  <2> HIDE DEF h
  <2>8. ASSUME NEW k \in 0 .. m + 1 PROVE Computed(k, h, low, first, next, down)
    <3>1. CASE k = m + 1
      BY <2>3, <2>5, <2>7, <3>1 DEF Computed
    <3>2. CASE k \in 0 .. m
      <4>1. Computed(k, g, low, first, next, down)
        BY <2>1, <3>2 DEF Descends
      <4>2. k \notin low => down[k] \in 0 .. m
        BY <3>2, SMT
      <4> QED
        BY <2>7, <3>2, <4>1, <4>2, Zenon DEF Computed
    <3> QED
      BY <3>1, <3>2, SMT
  <2>9. Upto(m + 1, h)
    BY <2>6, <2>8 DEF Descends
  <2> QED
    BY <2>9 DEF D
<1> HIDE DEF D
<1>4. ASSUME NEW m \in Nat PROVE \E g : Upto(m, g)
  <2>1. m \in D
    BY <1>2, <1>3, SetInduction
  <2> QED
    BY <2>1 DEF D
<1> DEFINE least(m) == CHOOSE g : Upto(m, g)
           f == [m \in Nat |-> least(m)[m]]
<1>5. \A m \in Nat : Upto(m, least(m))
  BY <1>4
<1> HIDE DEF least
<1>6. f \in [Nat -> S]
  <2>1. \A m \in Nat : m \in 0 .. m
    BY SMT
  <2> QED
    BY <1>5, <2>1 DEF Descends
<1>7. ASSUME NEW m \in Nat PROVE Computed(m, f, low, first, next, down)
  <2>1. m \in 0 .. m /\ f[m] = least(m)[m]
    BY SMT
  <2>2. Computed(m, least(m), low, first, next, down)
    BY <1>5, <2>1 DEF Descends
  <2>3. m \notin low => f[down[m]] = least(m)[down[m]]
    <3> SUFFICES ASSUME m \notin low PROVE f[down[m]] = least(m)[down[m]]
      OBVIOUS
    <3>1. down[m] \in Nat /\ down[m] <= m /\ down[m] <= down[m]
      BY SMT
    <3>2. f[down[m]] = least(down[m])[down[m]]
      BY <3>1
    <3>3. Upto(down[m], least(down[m])) /\ Upto(m, least(m))
      BY <1>5, <3>1
    <3>4. \A k \in Nat : k <= down[m] /\ k <= m => least(down[m])[k] = least(m)[k]
      <4> HIDE DEF Upto
      <4> QED
        BY <1>1, <3>1, <3>3
    <3> HIDE DEF f
    <3> QED
      BY <3>1, <3>2, <3>4
  <2> HIDE DEF f
  <2> QED
    BY <2>1, <2>2, <2>3, Zenon DEF Computed
<1> HIDE DEF f
<1> QED
  BY <1>6, <1>7 DEF Descends
---------------------------------------------------------------------------
(* The console                                                             *)
Place == [x : 0 .. ScreenWidth, y : 0 .. ScreenHeight - FontHeight]
Areas == {area \in [origin : Place, width : Nat, height : {FontHeight}] : OnScreen(area)}
Console == [pos : Place, drawn : SUBSET Areas]

(* Where a character of the font fits, its area is on the screen.          *)
LEMMA AreaOnScreen ==
  ASSUME NEW pos_ \in Place, NEW width \in Nat, pos_.x + width <= ScreenWidth
  PROVE  Area(pos_, width) \in Areas
<1>1. Area(pos_, width) \in [origin : Place, width : Nat, height : {FontHeight}]
  BY SMT DEF Area
<1>2. OnScreen(Area(pos_, width))
  BY FbConAssumption, SMT DEF Area, OnScreen, Place
<1> QED
  BY <1>1, <1>2 DEF Areas

(* A new line is on the screen: at its bottom the last one is used again.  *)
LEMMA NewlineOnScreen ==
  ASSUME NEW con \in Console
  PROVE  newline(con) \in Console /\ newline(con).pos.x = 0
<1> DEFINE at == [x |-> 0, y |-> NewlineY(con.pos.y)]
<1>1. at \in Place
  <2>1. con.pos.y \in 0 .. ScreenHeight - FontHeight
    BY SMT DEF Console, Place
  <2>2. NewlineY(con.pos.y) \in 0 .. ScreenHeight - FontHeight
    BY <2>1, FbConAssumption, SMT DEF NewlineY
  <2>3. 0 \in 0 .. ScreenWidth
    BY FbConAssumption, SMT
  <2> QED
    BY <2>2, <2>3, SMT DEF Place
<1>2. Area(at, ScreenWidth) \in Areas
  BY <1>1, AreaOnScreen, FbConAssumption, SMT
<1>3. newline(con) = [pos |-> at, drawn |-> con.drawn \cup {Area(at, ScreenWidth)}]
  BY DEF newline
<1>4. con.drawn \subseteq Areas
  BY DEF Console
<1>5. con.drawn \cup {Area(at, ScreenWidth)} \in SUBSET Areas
  BY <1>2, <1>4
<1> HIDE DEF at
<1>6. newline(con) \in Console /\ newline(con).pos = at
  BY <1>1, <1>3, <1>5 DEF Console
<1> QED
  BY <1>6 DEF at

(* A character of the font is drawn on the screen, in this line or the     *)
(* next.                                                                   *)
LEMMA CharacterOnScreen ==
  ASSUME NEW con \in Console, NEW ch \in DOMAIN CharWidth
  PROVE  Character(con, ch) \in Console
<1> DEFINE at == IF con.pos.x + CharWidth[ch] > ScreenWidth THEN newline(con) ELSE con
           right == [at.pos EXCEPT !.x = @ + CharWidth[ch]]
<1>1. CharWidth[ch] \in 1 .. ScreenWidth /\ ScreenWidth \in Nat
  BY FbConAssumption, SMT
<1>2. at \in Console /\ at.pos.x + CharWidth[ch] <= ScreenWidth
  <2>1. CASE con.pos.x + CharWidth[ch] > ScreenWidth
    <3>1. at = newline(con)
      BY <2>1
    <3> QED
      BY <1>1, <3>1, NewlineOnScreen, SMT
  <2>2. CASE ~(con.pos.x + CharWidth[ch] > ScreenWidth)
    <3>1. at = con
      BY <2>2
    <3>2. con.pos.x \in Int
      BY SMT DEF Console, Place
    <3> QED
      BY <1>1, <2>2, <3>1, <3>2, SMT
  <2> QED
    BY <2>1, <2>2
<1>3. Character(con, ch) = [pos |-> right, drawn |-> at.drawn \cup {Area(at.pos, CharWidth[ch])}]
  BY DEF Character
<1> HIDE DEF at
<1>4. at.pos \in Place /\ at.drawn \in SUBSET Areas
  BY <1>2 DEF Console
<1>5. right \in Place
  BY <1>1, <1>2, <1>4, SMT DEF Place
<1>6. Area(at.pos, CharWidth[ch]) \in Areas
  BY <1>1, <1>2, <1>4, AreaOnScreen, SMT
<1> HIDE DEF right
<1> QED
  BY <1>3, <1>4, <1>5, <1>6 DEF Console

(* So is anything else that may be printed.                                *)
LEMMA PutOnScreen ==
  ASSUME NEW con \in Console, NEW ch \in Printable
  PROVE  Put(con, ch) \in Console
<1>1. con = [pos |-> con.pos, drawn |-> con.drawn] /\ con.pos \in Place /\ con.drawn \in SUBSET Areas
  BY DEF Console
<1>2. /\ con.pos.x \in 0 .. ScreenWidth /\ con.pos.y \in 0 .. ScreenHeight - FontHeight
      /\ 0 \in 0 .. ScreenWidth /\ 0 \in 0 .. ScreenHeight - FontHeight
  BY <1>1, FbConAssumption, SMT DEF Place
<1>3. CASE ch = "\r"
  <2>1. Put(con, ch) = [con EXCEPT !.pos.x = 0]
    BY <1>3, Zenon DEF Put
  <2>2. [con.pos EXCEPT !.x = 0] \in Place
    BY <1>1, <1>2, SMT DEF Place
  <2>3. [con EXCEPT !.pos.x = 0] \in Console
    BY <1>1, <2>2 DEF Console
  <2> QED
    BY <2>1, <2>3
<1>4. CASE ch = "\n"
  <2>1. Put(con, ch) = newline(con)
    <3>1. ch # "\r" /\ ch # "\f"
      BY <1>4, SMT
    <3> QED
      BY <1>4, <3>1, Zenon DEF Put
  <2> QED
    BY <2>1, NewlineOnScreen
<1>5. CASE ch = "\f"
  <2>1. Put(con, ch) = [con EXCEPT !.pos = [x |-> 0, y |-> 0]]
    <3>1. ch # "\r" /\ ch # "\n"
      BY <1>5, SMT
    <3> QED
      BY <1>5, <3>1, Zenon DEF Put
  <2>2. [x |-> 0, y |-> 0] \in Place
    BY <1>2, SMT DEF Place
  <2>3. [con EXCEPT !.pos = [x |-> 0, y |-> 0]] \in Console
    BY <1>1, <2>2 DEF Console
  <2> QED
    BY <2>1, <2>3
<1>6. CASE ch \notin {"\r", "\n", "\f"}
  <2>1. Put(con, ch) = Character(con, ch) /\ ch \in DOMAIN CharWidth
    BY <1>6, Zenon DEF Put, Printable, Glyphs
  <2> QED
    BY <2>1, CharacterOnScreen
<1> QED
  BY <1>3, <1>4, <1>5, <1>6

(* A text of any length, from any place, is drawn on the screen, and the   *)
(* console ends at a place on it.                                          *)
LEMMA PutStrOnScreen ==
  ASSUME NEW place \in Place, NEW str \in Seq(Printable)
  PROVE  fbcon_putstr(place, str) \in Console
<1> DEFINE n == Len(str)
           first == [pos |-> place, drawn |-> {}]
           Def(g) == [k \in 0 .. n |-> IF k = 0 THEN first ELSE Put(g[k - 1], str[k])]
           after == CHOOSE g : g = Def(g)
           step == [k \in 1 .. n |-> [con \in Console |-> Put(con, str[k])]]
<1>1. n \in Nat /\ \A k \in 1 .. n : str[k] \in Printable
  BY SMT
<1>2. first \in Console
  BY DEF Console
<1>3. step \in [1 .. n -> [Console -> Console]]
  BY <1>1, PutOnScreen
<1>4. \A con \in Console, k \in 1 .. n : step[k][con] = Put(con, str[k])
  BY SMT
<1> HIDE DEF first, step, n
<1>5. PICK g : Iterates(g, Console, first, n, step)
  BY <1>1, <1>2, <1>3, Iteration, Zenon
<1>6. ASSUME NEW k \in 1 .. n PROVE g[k] = Put(g[k - 1], str[k])
  <2>1. k - 1 \in 0 .. n
    BY <1>1, SMT
  <2> QED
    BY <1>4, <1>5, <2>1 DEF Iterates
<1>7. g = Def(g)
  <2>1. ASSUME NEW k \in 0 .. n
        PROVE  g[k] = IF k = 0 THEN first ELSE Put(g[k - 1], str[k])
    <3>1. k = 0 \/ k \in 1 .. n
      BY <1>1, SMT
    <3> QED
      BY <1>5, <1>6, <3>1, Zenon DEF Iterates
  <2> QED
    BY <1>5, <2>1 DEF Iterates
<1>8. after = Def(after)
  BY <1>7, Zenon
<1> HIDE DEF after
<1> DEFINE D == {m \in Nat : m <= n => after[m] \in Console}
<1>9. 0 \in D
  <2>1. 0 \in 0 .. n
    BY <1>1, SMT
  <2>2. after[0] = first
    BY <1>8, <2>1, Zenon
  <2> QED
    BY <1>2, <2>2
<1>10. ASSUME NEW m \in Nat, m \in D PROVE m + 1 \in D
  <2> SUFFICES ASSUME m + 1 <= n PROVE after[m + 1] \in Console
    BY SMT
  <2>1. m + 1 \in 1 .. n /\ m + 1 \in 0 .. n /\ m + 1 # 0 /\ (m + 1) - 1 = m /\ m <= n
    BY <1>1, SMT
  <2>2. after[m + 1] = Put(after[(m + 1) - 1], str[m + 1])
    BY <1>8, <2>1, Zenon
  <2>3. after[m] \in Console
    BY <1>10, <2>1
  <2> QED
    BY <1>1, <2>1, <2>2, <2>3, PutOnScreen
<1>11. n \in D
  <2> HIDE DEF D
  <2> QED
    BY <1>1, <1>9, <1>10, SetInduction
<1>12. after[n] \in Console
  BY <1>1, <1>11, SMT
<1>13. fbcon_putstr(place, str) = after[n]
  BY Zenon DEF fbcon_putstr, after, n, first
<1> QED
  BY <1>12, <1>13
---------------------------------------------------------------------------
(* The texts ee_vsprintf makes                                             *)
Bases == {8, 10, 16}
DigitChars == {"0","1","2","3","4","5","6","7","8","9","a","b","c","d","e","f","A","B","C","D","E","F"}
DigitSets == [1 .. 16 -> DigitChars]

(* Repeat gives a text.                                                    *)
LEMMA RepeatType ==
  ASSUME NEW S, NEW c \in S, NEW n \in Int
  PROVE  Repeat(c, n) \in Seq(S) /\ Len(Repeat(c, n)) = Larger(n, 0)
<1>1. Larger(n, 0) \in Nat
  BY SMT DEF Larger
<1> QED
  BY <1>1, SMT DEF Repeat

(* Both sets of digits are sixteen characters.                             *)
LEMMA DigitSetTypes == lower_digits \in DigitSets /\ upper_digits \in DigitSets
<1>1. lower_digits \in DigitSets
  BY SMT DEF lower_digits, DigitSets, DigitChars
<1>2. upper_digits \in DigitSets
  BY SMT DEF upper_digits, DigitSets, DigitChars
<1> QED
  BY <1>1, <1>2

(* Dividing a number by the base makes it smaller, unless it is a digit.   *)
LEMMA Quotient ==
  ASSUME NEW n \in Nat, NEW base \in Bases
  PROVE  /\ n \div base \in Nat /\ n % base \in 0 .. base - 1
         /\ n = (n \div base) * base + (n % base)
         /\ n >= base => n \div base < n
<1>1. CASE base = 8
  BY <1>1, SMT
<1>2. CASE base = 10
  BY <1>2, SMT
<1>3. CASE base = 16
  BY <1>3, SMT
<1> QED
  BY <1>1, <1>2, <1>3 DEF Bases

(* Digits does what its recursion says.                                    *)
LEMMA DigitsEquation ==
  ASSUME NEW base \in Bases, NEW dig \in DigitSets
  PROVE  \A n \in Nat : /\ Digits(n, base, dig) \in Seq(DigitChars)
                        /\ n < base => Digits(n, base, dig) = <<dig[n + 1]>>
                        /\ n >= base => Digits(n, base, dig) =
                             Append(Digits(n \div base, base, dig), dig[(n % base) + 1])
<1> DEFINE Def(g) == [n \in Nat |-> IF n < base THEN <<dig[n + 1]>>
                                    ELSE Append(g[n \div base], dig[(n % base) + 1])]
           of == CHOOSE g : g = Def(g)
           low == 0 .. base - 1
           first == [n \in Nat |-> IF n < base THEN <<dig[n + 1]>> ELSE <<>>]
           next == [n \in Nat |-> [s \in Seq(DigitChars) |-> Append(s, dig[(n % base) + 1])]]
           down == [n \in Nat |-> n \div base]
<1>1. base \in 2 .. 16
  BY SMT DEF Bases
<1>2. \A n \in Nat : n \in low <=> n < base
  BY <1>1, SMT
<1>3. \A n \in Nat : (n % base) + 1 \in 1 .. 16
  BY Quotient, <1>1, SMT
<1>4. \A k \in 1 .. 16 : dig[k] \in DigitChars
  BY DEF DigitSets
<1>5. first \in [Nat -> Seq(DigitChars)]
  <2> SUFFICES ASSUME NEW n \in Nat
               PROVE  (IF n < base THEN <<dig[n + 1]>> ELSE <<>>) \in Seq(DigitChars)
    OBVIOUS
  <2>1. n < base => n + 1 \in 1 .. 16
    BY <1>1, SMT
  <2> QED
    BY <1>4, <2>1
<1>6. next \in [Nat -> [Seq(DigitChars) -> Seq(DigitChars)]]
  BY <1>3, <1>4
<1>7. down \in [Nat -> Nat] /\ \A n \in Nat : n \notin low => down[n] < n
  BY Quotient, <1>1, <1>2, SMT
<1>8. PICK f : Descends(f, Nat, Seq(DigitChars), low, first, next, down)
  <2> HIDE DEF low, first, next, down
  <2> QED
    BY <1>5, <1>6, <1>7, Descent
<1>9. f \in [Nat -> Seq(DigitChars)]
  BY <1>8 DEF Descends
<1>10. ASSUME NEW n \in Nat
       PROVE  f[n] = IF n < base THEN <<dig[n + 1]>> ELSE Append(f[n \div base], dig[(n % base) + 1])
  <2>1. f[n] = IF n \in low THEN first[n] ELSE next[n][f[down[n]]]
    BY <1>8 DEF Descends, Computed
  <2>2. n < base => first[n] = <<dig[n + 1]>>
    OBVIOUS
  <2>3. down[n] = n \div base /\ n \div base \in Nat
    BY Quotient
  <2>4. next[n][f[n \div base]] = Append(f[n \div base], dig[(n % base) + 1])
    BY <1>9, <2>3
  <2> HIDE DEF low, first, next, down
  <2> QED
    BY <1>2, <2>1, <2>2, <2>3, <2>4, Zenon
<1>11. f = Def(f)
  BY <1>9, <1>10, Zenon
<1>12. of = Def(of)
  BY <1>11, Zenon
<1>13. \A n \in Nat : Digits(n, base, dig) = of[n]
  BY Zenon DEF Digits
<1> HIDE DEF of
<1>14. ASSUME NEW n \in Nat
       PROVE  of[n] = IF n < base THEN <<dig[n + 1]>> ELSE Append(of[n \div base], dig[(n % base) + 1])
  BY <1>12, Zenon
<1> DEFINE D == {n \in Nat : \A k \in 0 .. n : of[k] \in Seq(DigitChars)}
<1>15. ASSUME NEW n \in Nat, \A k \in Nat : k < n => of[k] \in Seq(DigitChars)
       PROVE  of[n] \in Seq(DigitChars)
  <2>1. CASE n < base
    <3>1. n + 1 \in 1 .. 16
      BY <1>1, <2>1, SMT
    <3>2. of[n] = <<dig[n + 1]>>
      BY <1>14, <2>1, Zenon
    <3> QED
      BY <1>4, <3>1, <3>2
  <2>2. CASE ~(n < base)
    <3>1. n \div base \in Nat /\ n \div base < n
      BY Quotient, <1>1, <2>2, SMT
    <3>2. of[n] = Append(of[n \div base], dig[(n % base) + 1])
      BY <1>14, <2>2, Zenon
    <3>3. of[n \div base] \in Seq(DigitChars) /\ dig[(n % base) + 1] \in DigitChars
      BY <1>3, <1>4, <1>15, <3>1
    <3> QED
      BY <3>2, <3>3, AppendProperties
  <2> QED
    BY <2>1, <2>2
<1>16. 0 \in D
  <2>1. of[0] \in Seq(DigitChars)
    BY <1>15, SMT
  <2> QED
    BY <2>1, SMT
<1>17. ASSUME NEW n \in Nat, n \in D PROVE n + 1 \in D
  <2>1. of[n + 1] \in Seq(DigitChars)
    BY <1>15, <1>17, SMT
  <2>2. \A k \in 0 .. n + 1 : k \in 0 .. n \/ k = n + 1
    BY SMT
  <2> QED
    BY <1>17, <2>1, <2>2
<1>18. \A n \in Nat : of[n] \in Seq(DigitChars)
  <2> SUFFICES ASSUME NEW n \in Nat PROVE of[n] \in Seq(DigitChars)
    OBVIOUS
  <2> HIDE DEF D
  <2>1. n \in D
    BY <1>16, <1>17, SetInduction
  <2>2. n \in 0 .. n
    BY SMT
  <2> QED
    BY <2>1, <2>2 DEF D
<1> QED
  <2> SUFFICES ASSUME NEW n \in Nat
               PROVE  /\ Digits(n, base, dig) \in Seq(DigitChars)
                      /\ n < base => Digits(n, base, dig) = <<dig[n + 1]>>
                      /\ n >= base => Digits(n, base, dig) =
                           Append(Digits(n \div base, base, dig), dig[(n % base) + 1])
    OBVIOUS
  <2>1. n \div base \in Nat /\ (n >= base => ~(n < base))
    BY Quotient, <1>1, SMT
  <2> QED
    BY <1>13, <1>14, <1>18, <2>1, Zenon

(* Wherever the padding goes, the whole is as long as the field or longer. *)
LEMMA PadLength ==
  ASSUME NEW a \in Nat, NEW b \in Nat, NEW size \in Int
  PROVE  /\ size - a - b \in Int /\ Larger(size - a - b, 0) \in Nat
         /\ a + b + Larger(size - a - b, 0) = Larger(size, a + b)
         /\ a + Larger(size - a - b, 0) + b = Larger(size, a + b)
         /\ Larger(size - a - b, 0) + a + b = Larger(size, a + b)
  BY SMT DEF Larger

(* The length of three texts in a row.                                     *)
LEMMA ConcatThree ==
  ASSUME NEW S, NEW s \in Seq(S), NEW t \in Seq(S), NEW u \in Seq(S)
  PROVE  s \o t \o u \in Seq(S) /\ Len(s \o t \o u) = Len(s) + Len(t) + Len(u)
<1> DEFINE st == s \o t
<1>1. st \in Seq(S) /\ Len(st) = Len(s) + Len(t)
  BY ConcatProperties
<1> HIDE DEF st
<1>2. st \o u \in Seq(S) /\ Len(st \o u) = Len(st) + Len(u)
  BY <1>1, ConcatProperties
<1> QED
  BY <1>1, <1>2 DEF st

(* Justify gives a text of the length of the field, or longer.             *)
LEMMA JustifyType ==
  ASSUME NEW before \in Seq(Glyphs), NEW body \in Seq(Glyphs), NEW size \in Int, NEW flags
  PROVE  /\ Justify(before, body, size, flags) \in Seq(Glyphs)
         /\ Len(Justify(before, body, size, flags)) = Larger(size, Len(before) + Len(body))
<1> DEFINE pad == size - Len(before) - Len(body)
<1>1. Len(before) \in Nat /\ Len(body) \in Nat
  BY LenProperties
<1>2. /\ pad \in Int /\ Larger(pad, 0) \in Nat
      /\ Len(before) + Len(body) + Larger(pad, 0) = Larger(size, Len(before) + Len(body))
      /\ Len(before) + Larger(pad, 0) + Len(body) = Larger(size, Len(before) + Len(body))
      /\ Larger(pad, 0) + Len(before) + Len(body) = Larger(size, Len(before) + Len(body))
  BY <1>1, PadLength
<1>4. /\ Repeat(" ", pad) \in Seq(Glyphs) /\ Len(Repeat(" ", pad)) = Larger(pad, 0)
      /\ Repeat("0", pad) \in Seq(Glyphs) /\ Len(Repeat("0", pad)) = Larger(pad, 0)
  BY <1>2, RepeatType, DirectivesAssumption
<1>5. Justify(before, body, size, flags) =
        (CASE "-" \in flags -> before \o body \o Repeat(" ", pad)
           [] "0" \in flags /\ ~("-" \in flags) -> before \o Repeat("0", pad) \o body
           [] OTHER -> Repeat(" ", pad) \o before \o body)
  BY DEF Justify
<1> DEFINE spaces == Repeat(" ", pad)
           zeros == Repeat("0", pad)
<1>6. spaces \in Seq(Glyphs) /\ zeros \in Seq(Glyphs)
  BY <1>4
<1> HIDE DEF pad, spaces, zeros
<1>7. CASE "-" \in flags
  <2>1. Justify(before, body, size, flags) = before \o body \o spaces
    BY <1>5, <1>7, Zenon DEF spaces, zeros
  <2>2. before \o body \o spaces \in Seq(Glyphs) /\ Len(before \o body \o spaces) = Len(before) + Len(body) + Len(spaces)
    BY <1>6, ConcatThree
  <2> QED
    BY <1>2, <1>4, <2>1, <2>2, Zenon DEF spaces, zeros
<1>8. CASE "0" \in flags /\ ~("-" \in flags)
  <2>1. Justify(before, body, size, flags) = before \o zeros \o body
    BY <1>5, <1>8, Zenon DEF spaces, zeros
  <2>2. before \o zeros \o body \in Seq(Glyphs) /\ Len(before \o zeros \o body) = Len(before) + Len(zeros) + Len(body)
    BY <1>6, ConcatThree
  <2> QED
    BY <1>2, <1>4, <2>1, <2>2, Zenon DEF spaces, zeros
<1>9. CASE ~("0" \in flags) /\ ~("-" \in flags)
  <2>1. Justify(before, body, size, flags) = spaces \o before \o body
    BY <1>5, <1>9, Zenon DEF spaces, zeros
  <2>2. spaces \o before \o body \in Seq(Glyphs) /\ Len(spaces \o before \o body) = Len(spaces) + Len(before) + Len(body)
    BY <1>6, ConcatThree
  <2> QED
    BY <1>2, <1>4, <2>1, <2>2, Zenon DEF spaces, zeros
<1> QED
  BY <1>7, <1>8, <1>9

(* Texts of the characters of a conversion                                 *)
Signs == {<<>>, <<"-">>, <<"+">>, <<" ">>}

(* The font has what ee_vsprintf prints of its own.                        *)
LEMMA GlyphsOfText == {"0", "1", "x", "+", "-", " ", ".", ":", "%", "<", ">", "N", "U", "L"} \subseteq Glyphs /\ DigitChars \subseteq Glyphs
<1>1. {"0","1","2","3","4","5","6","7","8","9","a","b","c","d","e","f","A","B","C","D","E","F",
       "x", "+", "-", " ", ".", ":", "%", "<", ">", "N", "U", "L"} \subseteq Glyphs
  BY DirectivesAssumption
<1> HIDE DEF Glyphs
<1>2. {"0", "1", "x", "+", "-", " ", ".", ":", "%", "<", ">", "N", "U", "L"} \subseteq Glyphs
  BY <1>1
<1>3. DigitChars \subseteq Glyphs
  BY <1>1 DEF DigitChars
<1> QED
  BY <1>2, <1>3

(* A character is a text,                                                  *)
LEMMA OneGlyph ==
  ASSUME NEW c \in Glyphs
  PROVE  <<c>> \in Seq(Glyphs) /\ Len(<<c>>) = 1
  BY SMT

(* and two are.                                                            *)
LEMMA TwoGlyphs ==
  ASSUME NEW c \in Glyphs, NEW e \in Glyphs
  PROVE  <<c, e>> \in Seq(Glyphs)
  BY SMT

(* A sign is one character or none.                                        *)
LEMMA SignType ==
  ASSUME NEW negative \in BOOLEAN, NEW flags
  PROVE  SignOf(negative, flags) \in Signs
<1>1. Has(flags, " ") \in Signs
  BY Zenon DEF Has, Signs
<1>2. CASE "SIGN" \notin flags
  BY <1>2, Zenon DEF SignOf, Signs
<1>3. CASE "SIGN" \in flags /\ negative
  BY <1>3, Zenon DEF SignOf, Signs
<1>4. CASE "SIGN" \in flags /\ ~negative
  <2>1. SignOf(negative, flags) = IF "+" \in flags THEN <<"+">> ELSE Has(flags, " ")
    BY <1>4, Zenon DEF SignOf
  <2> QED
    BY <1>1, <2>1, Zenon DEF Signs
<1> QED
  BY <1>2, <1>3, <1>4

(* Signs are texts.                                                        *)
LEMMA SignsAreText == Signs \subseteq Seq(Glyphs)
<1>1. <<>> \in Seq(Glyphs)
  BY EmptySeq
<1>2. <<"-">> \in Seq(Glyphs) /\ <<"+">> \in Seq(Glyphs) /\ <<" ">> \in Seq(Glyphs)
  BY GlyphsOfText, OneGlyph
<1> QED
  BY <1>1, <1>2, Zenon DEF Signs

(* Digits of a number are a text of digits.                                *)
LEMMA DigitsAreText ==
  ASSUME NEW base \in Bases, NEW dig \in DigitSets, NEW n \in Nat
  PROVE  Digits(n, base, dig) \in Seq(Glyphs) /\ Digits(n, base, dig) \in Seq(DigitChars)
<1>1. Digits(n, base, dig) \in Seq(DigitChars)
  BY DigitsEquation
<1> QED
  BY <1>1, GlyphsOfText, SeqMonotonic

(* The parts of number: sign and prefix, and the digits with the zeros the *)
(* precision asks for                                                      *)
Sets(flags) == IF "UPPERCASE" \in flags THEN upper_digits ELSE lower_digits
Negative(num, flags) == "SIGN" \in flags /\ num >= LongSize \div 2
Magnitude(num, flags) == IF Negative(num, flags) THEN LongSize - num ELSE num
PrefixOfBase(base) == CASE base = 8 -> <<"0">> [] base = 16 -> <<"0", "x">> [] OTHER -> <<>>
Prefix(base, flags) == IF "#" \notin flags THEN <<>> ELSE PrefixOfBase(base)
NumberDigits(num, base, flags) == Digits(Magnitude(num, flags), base, Sets(flags))
Before(num, base, flags) == SignOf(Negative(num, flags), flags) \o Prefix(base, flags)
Zeros(num, base, precision, flags) == Repeat("0", precision - Len(NumberDigits(num, base, flags)))
Body(num, base, precision, flags) == Zeros(num, base, precision, flags) \o NumberDigits(num, base, flags)

(* number is these parts, justified.                                       *)
LEMMA NumberParts ==
  ASSUME NEW num, NEW base, NEW size, NEW precision, NEW flags
  PROVE  number(num, base, size, precision, flags) =
           Justify(Before(num, base, flags), Body(num, base, precision, flags), size, flags)
  BY DEF number, Before, Body, Zeros, NumberDigits, Prefix, PrefixOfBase, Magnitude, Negative, Sets

(* The prefix of # is one of three.                                        *)
LEMMA PrefixType ==
  ASSUME NEW base \in Bases, NEW flags
  PROVE  Prefix(base, flags) \in {<<>>, <<"0">>, <<"0", "x">>}
<1>1. CASE "#" \notin flags
  BY <1>1, Zenon DEF Prefix, PrefixOfBase
<1>2. CASE "#" \in flags /\ base = 8
  BY <1>2, 8 # 16, Zenon DEF Prefix, PrefixOfBase
<1>3. CASE "#" \in flags /\ base = 16
  BY <1>3, 8 # 16, Zenon DEF Prefix, PrefixOfBase
<1>4. CASE "#" \in flags /\ base # 8 /\ base # 16
  BY <1>4, Zenon DEF Prefix, PrefixOfBase
<1> QED
  BY <1>1, <1>2, <1>3, <1>4, Zenon

(* The parts of number are texts.                                          *)
LEMMA NumberType ==
  ASSUME NEW num \in 0 .. LongSize - 1, NEW base \in Bases, NEW precision \in Int, NEW flags
  PROVE  /\ Magnitude(num, flags) \in Nat
         /\ Sets(flags) \in DigitSets
         /\ NumberDigits(num, base, flags) \in Seq(Glyphs)
         /\ Zeros(num, base, precision, flags) \in Seq(Glyphs)
         /\ Before(num, base, flags) \in Seq(Glyphs)
         /\ Body(num, base, precision, flags) \in Seq(Glyphs)
<1>1. Negative(num, flags) \in BOOLEAN
  BY DEF Negative
<1>2. Magnitude(num, flags) \in Nat
  BY PrintfAssumption, SMT DEF Magnitude
<1>3. Sets(flags) \in DigitSets
  BY DigitSetTypes DEF Sets
<1>4. NumberDigits(num, base, flags) \in Seq(Glyphs)
  BY <1>2, <1>3, DigitsAreText DEF NumberDigits
<1>5. Zeros(num, base, precision, flags) \in Seq(Glyphs)
  <2>1. Len(NumberDigits(num, base, flags)) \in Nat
    BY <1>4, LenProperties
  <2>2. precision - Len(NumberDigits(num, base, flags)) \in Int
    BY <2>1, SMT
  <2> QED
    BY <2>2, RepeatType, GlyphsOfText DEF Zeros
<1>6. Before(num, base, flags) \in Seq(Glyphs)
  <2>1. SignOf(Negative(num, flags), flags) \in Seq(Glyphs)
    BY <1>1, SignType, SignsAreText
  <2>2. Prefix(base, flags) \in Seq(Glyphs)
    <3>1. <<>> \in Seq(Glyphs) /\ <<"0">> \in Seq(Glyphs)
      BY EmptySeq, OneGlyph, GlyphsOfText
    <3>2. <<"0", "x">> \in Seq(Glyphs)
      BY GlyphsOfText, TwoGlyphs
    <3> QED
      BY <3>1, <3>2, PrefixType, Zenon
  <2> QED
    BY <2>1, <2>2, ConcatProperties DEF Before
<1>7. Body(num, base, precision, flags) \in Seq(Glyphs)
  BY <1>4, <1>5, ConcatProperties DEF Body
<1> QED
  BY <1>2, <1>3, <1>4, <1>5, <1>6, <1>7

(* FlattenSeq of texts is a text.                                          *)
LEMMA FlattenType ==
  ASSUME NEW S, NEW n \in Nat \ {0}, NEW parts \in [1 .. n -> Seq(S)]
  PROVE  FlattenSeq(parts) \in Seq(S)
<1> DEFINE Def(g) == [k \in 1 .. n |-> IF k = 1 THEN parts[k] ELSE g[k - 1] \o parts[k]]
           flatten == CHOOSE g : g = Def(g)
           step == [k \in 1 .. n |-> [s \in Seq(S) |-> s \o parts[k]]]
<1>1. Len(parts) = n /\ n # 0 /\ n \in 1 .. n /\ 1 \in 1 .. n
  BY SMT
<1>2. step \in [1 .. n -> [Seq(S) -> Seq(S)]]
  <2>1. \A k \in 1 .. n, s \in Seq(S) : s \o parts[k] \in Seq(S)
    BY ConcatProperties
  <2> QED
    BY <2>1
<1>3. \A k \in 1 .. n, s \in Seq(S) : step[k][s] = s \o parts[k]
  OBVIOUS
<1> HIDE DEF step
<1>4. PICK g : Iterates(g, Seq(S), <<>>, n, step)
  BY <1>2, Iteration, EmptySeq
<1> DEFINE f == [k \in 1 .. n |-> g[k]]
<1>5. \A k \in 1 .. n : g[k] \in Seq(S) /\ g[k] = IF k = 1 THEN parts[k] ELSE g[k - 1] \o parts[k]
  <2> SUFFICES ASSUME NEW k \in 1 .. n
               PROVE  g[k] \in Seq(S) /\ g[k] = IF k = 1 THEN parts[k] ELSE g[k - 1] \o parts[k]
    OBVIOUS
  <2>1. k - 1 \in 0 .. n /\ k \in 0 .. n
    BY SMT
  <2>2. g[k] = g[k - 1] \o parts[k] /\ g[k] \in Seq(S)
    BY <1>3, <1>4, <2>1 DEF Iterates
  <2>3. CASE k = 1
    <3>1. k - 1 = 0
      BY <2>3, SMT
    <3>2. g[k] = <<>> \o parts[k]
      BY <1>4, <2>2, <3>1, Zenon DEF Iterates
    <3>3. <<>> \o parts[k] = parts[k]
      BY ConcatEmptySeq
    <3> QED
      BY <2>2, <2>3, <3>2, <3>3
  <2> QED
    BY <2>2, <2>3
<1>6. \A k \in 1 .. n : k # 1 => k - 1 \in 1 .. n
  BY SMT
<1>7. f = Def(f)
  BY <1>5, <1>6, Zenon
<1>8. flatten = Def(flatten)
  BY <1>7, Zenon
<1>9. FlattenSeq(parts) = flatten[n]
  BY <1>1, Zenon DEF FlattenSeq
<1> HIDE DEF flatten, f
<1> DEFINE D == {m \in Nat : m + 1 <= n => flatten[m + 1] \in Seq(S)}
<1>10. 0 \in D
  <2>1. flatten[0 + 1] = parts[1]
    BY <1>1, <1>8, 0 + 1 = 1, Zenon
  <2> QED
    BY <1>1, <2>1
<1>11. ASSUME NEW m \in Nat, m \in D PROVE m + 1 \in D
  <2> SUFFICES ASSUME (m + 1) + 1 <= n PROVE flatten[(m + 1) + 1] \in Seq(S)
    BY SMT
  <2>1. (m + 1) + 1 \in 1 .. n /\ (m + 1) + 1 # 1 /\ ((m + 1) + 1) - 1 = m + 1 /\ m + 1 <= n
    BY SMT
  <2>2. flatten[(m + 1) + 1] = flatten[((m + 1) + 1) - 1] \o parts[(m + 1) + 1]
    BY <1>8, <2>1, Zenon
  <2>3. flatten[m + 1] \in Seq(S) /\ parts[(m + 1) + 1] \in Seq(S)
    BY <1>11, <2>1
  <2> QED
    BY <2>1, <2>2, <2>3, ConcatProperties
<1>12. n - 1 \in D /\ (n - 1) + 1 = n
  <2> HIDE DEF D
  <2>1. n - 1 \in Nat /\ (n - 1) + 1 = n
    BY SMT
  <2> QED
    BY <1>10, <1>11, <2>1, SetInduction
<1> QED
  BY <1>9, <1>12, SMT

(* Quotient and remainder.                                                 *)
LEMMA Division ==
  ASSUME NEW a \in Nat, NEW b \in Nat \ {0}
  PROVE  a \div b \in Nat /\ a % b \in 0 .. b - 1 /\ a = (a \div b) * b + (a % b)
  BY SMT

(* Pow10 does what its recursion says.                                     *)
LEMMA Powers == Pow10(0) = 1 /\ \A n \in Nat : Pow10(n) \in Nat \ {0} /\ Pow10(n + 1) = 10 * Pow10(n)
<1> DEFINE Def(g, n) == [k \in 0 .. n |-> IF k = 0 THEN 1 ELSE 10 * g[k - 1]]
           pow(n) == CHOOSE g : g = Def(g, n)
<1>1. ASSUME NEW n \in Nat PROVE pow(n) = Def(pow(n), n)
  <2> DEFINE step == [k \in 1 .. n |-> [p \in Nat |-> 10 * p]]
  <2>1. step \in [1 .. n -> [Nat -> Nat]]
    BY SMT
  <2>2. \A k \in 1 .. n, p \in Nat : step[k][p] = 10 * p
    OBVIOUS
  <2> HIDE DEF step
  <2>3. PICK g : Iterates(g, Nat, 1, n, step)
    BY <2>1, Iteration
  <2>4. g \in [0 .. n -> Nat] /\ g[0] = 1
    BY <2>3 DEF Iterates
  <2>5. ASSUME NEW k \in 1 .. n PROVE g[k] = 10 * g[k - 1]
    <3>1. k - 1 \in 0 .. n
      BY SMT
    <3> QED
      BY <2>2, <2>3, <3>1 DEF Iterates
  <2>6. \A k \in 0 .. n : k = 0 \/ k \in 1 .. n
    BY SMT
  <2>7. g = Def(g, n)
    <3>1. \A k \in 0 .. n : g[k] = IF k = 0 THEN 1 ELSE 10 * g[k - 1]
      BY <2>4, <2>5, <2>6, Zenon
    <3> QED
      BY <2>4, <3>1
  <2> QED
    BY <2>7, Zenon
<1>2. \A n \in Nat : Pow10(n) = pow(n)[n]
  BY Zenon DEF Pow10
<1> HIDE DEF pow
<1>3. ASSUME NEW n \in Nat, NEW m \in Nat
      PROVE  \A k \in Nat : k <= n /\ k <= m => pow(n)[k] = pow(m)[k] /\ pow(n)[k] \in Nat \ {0}
  <2> DEFINE D == {k \in Nat : k <= n /\ k <= m => pow(n)[k] = pow(m)[k] /\ pow(n)[k] \in Nat \ {0}}
  <2>1. 0 \in D
    <3>1. pow(n)[0] = 1 /\ pow(m)[0] = 1
      <4>1. 0 \in 0 .. n /\ 0 \in 0 .. m
        BY SMT
      <4> QED
        BY <1>1, <4>1, Zenon
    <3> QED
      BY <3>1, SMT
  <2>2. ASSUME NEW k \in Nat, k \in D PROVE k + 1 \in D
    <3> SUFFICES ASSUME k + 1 <= n, k + 1 <= m PROVE pow(n)[k + 1] = pow(m)[k + 1] /\ pow(n)[k + 1] \in Nat \ {0}
      BY SMT
    <3>1. k + 1 \in 0 .. n /\ k + 1 \in 0 .. m /\ k + 1 # 0 /\ (k + 1) - 1 = k /\ k <= n /\ k <= m
      BY SMT
    <3>2. pow(n)[k + 1] = 10 * pow(n)[k] /\ pow(m)[k + 1] = 10 * pow(m)[k]
      BY <1>1, <3>1, Zenon
    <3>3. pow(n)[k] = pow(m)[k] /\ pow(n)[k] \in Nat \ {0}
      BY <2>2, <3>1
    <3> QED
      BY <3>2, <3>3, SMT
  <2> HIDE DEF D
  <2>3. Nat \subseteq D
    BY <2>1, <2>2, SetInduction
  <2> QED
    BY <2>3 DEF D
<1>4. \A n \in Nat : pow(n)[n] \in Nat \ {0}
  BY <1>3, SMT
<1>5. ASSUME NEW n \in Nat PROVE pow(n + 1)[n + 1] = 10 * pow(n)[n]
  <2>1. n + 1 \in 0 .. n + 1 /\ n + 1 # 0 /\ (n + 1) - 1 = n /\ n <= n + 1 /\ n <= n /\ n + 1 \in Nat
    BY SMT
  <2>2. pow(n + 1)[n + 1] = 10 * pow(n + 1)[n]
    BY <1>1, <2>1, Zenon
  <2>3. pow(n + 1)[n] = pow(n)[n]
    BY <1>3, <2>1
  <2> QED
    BY <2>2, <2>3
<1>6. pow(0)[0] = 1
  <2>1. 0 \in 0 .. 0
    BY SMT
  <2> QED
    BY <1>1, <2>1, Zenon
<1> QED
  BY <1>2, <1>4, <1>5, <1>6, SMT

(* The parts of fcvtbuf                                                    *)
Decimals == [units : Nat, scale : Nat]
Whole(v) == v.units \div Pow10(v.scale)
Rest(v) == v.units % Pow10(v.scale)
FirstDigit(v) == IF Whole(v) # 0 THEN Len(Digits(Whole(v), 10, lower_digits))
                 ELSE IF Rest(v) = 0 THEN 0
                 ELSE Len(Digits(Rest(v), 10, lower_digits)) - v.scale
Count(v, nd) == nd + FirstDigit(v)
Kept(v, nd) == IF v.scale - nd - 1 >= 0 THEN v.units \div Pow10(v.scale - nd - 1)
               ELSE v.units * Pow10(-(v.scale - nd - 1))
DigitsKept(v, nd) == [p \in 1 .. Count(v, nd) + 1 |-> (Kept(v, nd) \div Pow10(Count(v, nd) + 1 - p)) % 10]
SumDef(v, nd, g) == [p \in 1 .. Count(v, nd) + 1 |->
                       IF p = Count(v, nd) + 1 THEN DigitsKept(v, nd)[p] + 5
                       ELSE DigitsKept(v, nd)[p] + (IF g[p + 1] > 9 THEN 1 ELSE 0)]
Sum(v, nd) == CHOOSE g : g = SumDef(v, nd, g)
Rounded(v, nd) == [p \in 1 .. Count(v, nd) |-> lower_digits[(Sum(v, nd)[p] % 10) + 1]]

(* fcvtbuf is these parts.                                                 *)
LEMMA fcvtbufParts ==
  ASSUME NEW v, NEW nd
  PROVE  fcvtbuf(v, nd) =
           CASE Count(v, nd) < 0 -> [digits |-> <<>>, decpt |-> FirstDigit(v)]
             [] Count(v, nd) >= 0 /\ Sum(v, nd)[1] <= 9 -> [digits |-> Rounded(v, nd), decpt |-> FirstDigit(v)]
             [] OTHER -> [digits |-> <<"1">> \o Rounded(v, nd), decpt |-> FirstDigit(v) + 1]
  BY DEF fcvtbuf, Rounded, Sum, SumDef, DigitsKept, Kept, Count, FirstDigit, Rest, Whole


(* The parts of fcvtbuf are numbers.                                       *)
LEMMA DecimalParts ==
  ASSUME NEW v \in Decimals, NEW nd \in Nat
  PROVE  /\ Whole(v) \in Nat /\ Rest(v) \in Nat /\ FirstDigit(v) \in Int /\ Count(v, nd) \in Int /\ Kept(v, nd) \in Nat
<1>1. v.units \in Nat /\ v.scale \in Nat /\ Pow10(v.scale) \in Nat \ {0}
  BY Powers DEF Decimals
<1>2. Whole(v) \in Nat /\ Rest(v) \in Nat
  BY <1>1, SMT DEF Whole, Rest
<1>3. 10 \in Bases
  BY DEF Bases
<1>4. \A n \in Nat : Len(Digits(n, 10, lower_digits)) \in Nat
  BY <1>3, DigitsEquation, DigitSetTypes, LenProperties
<1>5. FirstDigit(v) \in Int
  <2>1. Len(Digits(Whole(v), 10, lower_digits)) \in Int
    BY <1>2, <1>4
  <2>2. Len(Digits(Rest(v), 10, lower_digits)) - v.scale \in Int
    <3>1. Len(Digits(Rest(v), 10, lower_digits)) \in Nat
      BY <1>2, <1>4
    <3> QED
      BY <1>1, <3>1, SMT
  <2> QED
    BY <2>1, <2>2, SMT DEF FirstDigit
<1>6. Count(v, nd) \in Int
  BY <1>5, SMT DEF Count
<1>7. Kept(v, nd) \in Nat
  <2>1. CASE v.scale - nd - 1 >= 0
    <3>1. Pow10(v.scale - nd - 1) \in Nat \ {0}
      BY <1>1, <2>1, Powers, v.scale - nd - 1 \in Nat
    <3> QED
      BY <1>1, <2>1, <3>1, Division DEF Kept
  <2>2. CASE ~(v.scale - nd - 1 >= 0)
    <3>1. -(v.scale - nd - 1) \in Nat
      BY <1>1, <2>2, SMT
    <3>2. Pow10(-(v.scale - nd - 1)) \in Nat
      BY <3>1, Powers
    <3>3. v.units * Pow10(-(v.scale - nd - 1)) \in Nat
      BY <1>1, <3>2, SMT
    <3> QED
      BY <2>2, <3>3 DEF Kept
  <2> QED
    BY <2>1, <2>2
<1> QED
  BY <1>2, <1>5, <1>6, <1>7

(* What is kept is kept as digits.                                         *)
LEMMA DigitsKeptType ==
  ASSUME NEW v \in Decimals, NEW nd \in Nat, NEW p \in 1 .. Count(v, nd) + 1
  PROVE  DigitsKept(v, nd)[p] \in 0 .. 9
<1>1. Count(v, nd) + 1 - p \in Nat /\ Kept(v, nd) \in Nat
  BY DecimalParts, SMT
<1>2. Pow10(Count(v, nd) + 1 - p) \in Nat \ {0}
  BY <1>1, Powers
<1>3. Kept(v, nd) \div Pow10(Count(v, nd) + 1 - p) \in Nat
  BY <1>1, <1>2, Division
<1>4. \A a \in Nat : a % 10 \in 0 .. 9
  BY SMT
<1> QED
  BY <1>3, <1>4 DEF DigitsKept

(* The carry of the rounding runs from the last digit to the first.        *)
LEMMA SumEquation ==
  ASSUME NEW v \in Decimals, NEW nd \in Nat, Count(v, nd) >= 0
  PROVE  /\ \A p \in 1 .. Count(v, nd) + 1 : Sum(v, nd)[p] \in 0 .. 14
         /\ Sum(v, nd)[Count(v, nd) + 1] = DigitsKept(v, nd)[Count(v, nd) + 1] + 5
         /\ \A p \in 1 .. Count(v, nd) :
              Sum(v, nd)[p] = DigitsKept(v, nd)[p] + (IF Sum(v, nd)[p + 1] > 9 THEN 1 ELSE 0)
<1> DEFINE n == Count(v, nd)
           digit == DigitsKept(v, nd)
           S == 0 .. 14
           step == [k \in 1 .. n |-> [s \in S |-> digit[n + 1 - k] + (IF s > 9 THEN 1 ELSE 0)]]
<1>1. n \in Nat
  BY DecimalParts, SMT
<1>2. \A p \in 1 .. n + 1 : digit[p] \in 0 .. 9
  BY DigitsKeptType
<1> DEFINE Def(g) == [p \in 1 .. n + 1 |-> IF p = n + 1 THEN digit[p] + 5
                                           ELSE digit[p] + (IF g[p + 1] > 9 THEN 1 ELSE 0)]
<1>3. \A g : SumDef(v, nd, g) = Def(g)
  BY DEF SumDef
<1> HIDE DEF n, digit
<1>4. step \in [1 .. n -> [S -> S]]
  <2> SUFFICES ASSUME NEW k \in 1 .. n, NEW s \in S PROVE digit[n + 1 - k] + (IF s > 9 THEN 1 ELSE 0) \in S
    OBVIOUS
  <2>1. n + 1 - k \in 1 .. n + 1
    BY <1>1, SMT
  <2>2. digit[n + 1 - k] \in 0 .. 9
    BY <1>2, <2>1
  <2> QED
    BY <2>2, SMT
<1>5. \A k \in 1 .. n, s \in S : step[k][s] = digit[n + 1 - k] + (IF s > 9 THEN 1 ELSE 0)
  OBVIOUS
<1>6. digit[n + 1] + 5 \in S
  <2>1. digit[n + 1] \in 0 .. 9
    BY <1>1, <1>2, n + 1 \in 1 .. n + 1
  <2> QED
    BY <2>1, SMT
<1> HIDE DEF step, S
<1>7. PICK g : Iterates(g, S, digit[n + 1] + 5, n, step)
  BY <1>1, <1>4, <1>6, Iteration
<1> DEFINE f == [p \in 1 .. n + 1 |-> g[n + 1 - p]]
<1>8. ASSUME NEW p \in 1 .. n + 1
      PROVE  f[p] = IF p = n + 1 THEN digit[p] + 5 ELSE digit[p] + (IF f[p + 1] > 9 THEN 1 ELSE 0)
  <2>1. CASE p = n + 1
    <3>1. n + 1 - p = 0
      BY <1>1, <2>1, SMT
    <3> QED
      BY <1>7, <2>1, <3>1 DEF Iterates
  <2>2. CASE p # n + 1
    <3>1. n + 1 - p \in 1 .. n /\ n + 1 - (n + 1 - p) = p /\ (n + 1 - p) - 1 = n + 1 - (p + 1) /\ p + 1 \in 1 .. n + 1
          /\ n + 1 - (p + 1) \in 0 .. n
      BY <1>1, <2>2, SMT
    <3>2. g[n + 1 - p] = step[n + 1 - p][g[n + 1 - (p + 1)]] /\ g[n + 1 - (p + 1)] \in S
      BY <1>7, <3>1 DEF Iterates
    <3>3. g[n + 1 - p] = digit[p] + (IF g[n + 1 - (p + 1)] > 9 THEN 1 ELSE 0)
      BY <1>5, <3>1, <3>2
    <3>4. f[p] = g[n + 1 - p] /\ f[p + 1] = g[n + 1 - (p + 1)]
      BY <3>1
    <3> HIDE DEF f
    <3> QED
      BY <2>2, <3>3, <3>4
  <2> QED
    BY <2>1, <2>2
<1>9. f = Def(f)
  BY <1>8, Zenon
<1>10. Sum(v, nd) = SumDef(v, nd, Sum(v, nd))
  <2>1. f = SumDef(v, nd, f)
    BY <1>3, <1>9
  <2> HIDE DEF f
  <2> QED
    BY <2>1, Zenon DEF Sum
<1>11. Sum(v, nd) = Def(Sum(v, nd))
  BY <1>3, <1>10
<1> DEFINE s == Sum(v, nd)
<1> HIDE DEF f
<1>12. s = Def(s)
  BY <1>11
<1> HIDE DEF s
<1>13. s[n + 1] = digit[n + 1] + 5
  <2>1. n + 1 \in 1 .. n + 1
    BY <1>1, SMT
  <2> QED
    BY <1>12, <2>1, Zenon
<1>14. ASSUME NEW p \in 1 .. n PROVE s[p] = digit[p] + (IF s[p + 1] > 9 THEN 1 ELSE 0)
  <2>1. p \in 1 .. n + 1 /\ p # n + 1
    BY <1>1, SMT
  <2> QED
    BY <1>12, <2>1, Zenon
<1>15. ASSUME NEW p \in 1 .. n + 1 PROVE s[p] \in S
  <2>1. CASE p = n + 1
    BY <1>6, <1>13, <2>1
  <2>2. CASE p # n + 1
    <3>1. p \in 1 .. n
      BY <1>1, <2>2, SMT
    <3>2. digit[p] \in 0 .. 9 /\ s[p] = digit[p] + (IF s[p + 1] > 9 THEN 1 ELSE 0)
      BY <1>2, <1>14, <3>1
    <3> QED
      BY <3>2, SMT DEF S
  <2> QED
    BY <2>1, <2>2
<1> QED
  BY <1>13, <1>14, <1>15 DEF s, n, digit, S

(* The rounded digits are digits.                                          *)
LEMMA RoundedType ==
  ASSUME NEW v \in Decimals, NEW nd \in Nat, Count(v, nd) >= 0
  PROVE  Rounded(v, nd) \in Seq(DigitChars) /\ Len(Rounded(v, nd)) = Count(v, nd)
<1>1. Count(v, nd) \in Nat
  BY DecimalParts, SMT
<1>2. ASSUME NEW p \in 1 .. Count(v, nd) PROVE lower_digits[(Sum(v, nd)[p] % 10) + 1] \in DigitChars
  <2>1. Sum(v, nd)[p] \in 0 .. 14
    BY <1>1, SumEquation, p \in 1 .. Count(v, nd) + 1
  <2>2. (Sum(v, nd)[p] % 10) + 1 \in 1 .. 16
    BY <2>1, SMT
  <2> QED
    BY <2>2, DigitSetTypes DEF DigitSets
<1>3. Rounded(v, nd) \in [1 .. Count(v, nd) -> DigitChars]
  BY <1>2 DEF Rounded
<1> QED
  BY <1>1, <1>3, SMT

(* fcvtbuf gives a text and the place of the point.                        *)
LEMMA fcvtbufType ==
  ASSUME NEW v \in Decimals, NEW nd \in Nat
  PROVE  \E digits \in Seq(DigitChars), decpt \in Int :
           /\ fcvtbuf(v, nd) = [digits |-> digits, decpt |-> decpt]
           /\ Count(v, nd) >= 0 => Len(digits) = nd + decpt
           /\ Count(v, nd) < 0 => digits = <<>>
<1>1. Count(v, nd) \in Int /\ FirstDigit(v) \in Int
  BY DecimalParts
<1>2. CASE Count(v, nd) < 0
  <2>1. fcvtbuf(v, nd) = [digits |-> <<>>, decpt |-> FirstDigit(v)]
    <3>1. ~(Count(v, nd) >= 0)
      BY <1>1, <1>2, SMT
    <3> QED
      BY <1>2, <3>1, fcvtbufParts, Zenon
  <2>2. ~(Count(v, nd) >= 0)
    BY <1>1, <1>2, SMT
  <2> QED
    BY <1>1, <1>2, <2>1, <2>2, EmptySeq
<1>3. CASE ~(Count(v, nd) < 0) /\ Sum(v, nd)[1] <= 9
  <2>1. Count(v, nd) >= 0
    BY <1>1, <1>3, SMT
  <2>2. fcvtbuf(v, nd) = [digits |-> Rounded(v, nd), decpt |-> FirstDigit(v)]
    BY <1>3, <2>1, fcvtbufParts, Zenon
  <2>3. Rounded(v, nd) \in Seq(DigitChars) /\ Len(Rounded(v, nd)) = nd + FirstDigit(v)
    BY <2>1, RoundedType DEF Count
  <2> QED
    BY <1>1, <1>3, <2>2, <2>3
<1>4. CASE ~(Count(v, nd) < 0) /\ ~(Sum(v, nd)[1] <= 9)
  <2>1. Count(v, nd) >= 0
    BY <1>1, <1>4, SMT
  <2>2. fcvtbuf(v, nd) = [digits |-> <<"1">> \o Rounded(v, nd), decpt |-> FirstDigit(v) + 1]
    BY <1>4, <2>1, fcvtbufParts, Zenon
  <2>3. Rounded(v, nd) \in Seq(DigitChars) /\ Len(Rounded(v, nd)) = nd + FirstDigit(v)
    BY <2>1, RoundedType DEF Count
  <2>4. <<"1">> \in Seq(DigitChars) /\ Len(<<"1">>) = 1
    <3>1. "1" \in DigitChars
      BY DEF DigitChars
    <3> QED
      BY <3>1, SMT
  <2>5. <<"1">> \o Rounded(v, nd) \in Seq(DigitChars) /\ Len(<<"1">> \o Rounded(v, nd)) = 1 + (nd + FirstDigit(v))
    BY <2>3, <2>4, ConcatProperties
  <2>6. 1 + (nd + FirstDigit(v)) = nd + (FirstDigit(v) + 1) /\ FirstDigit(v) + 1 \in Int
    BY <1>1, SMT
  <2> QED
    BY <1>4, <2>2, <2>5, <2>6
<1> QED
  BY <1>2, <1>3, <1>4


(* parse_float puts the point into the digits of fcvtbuf.                  *)
LEMMA parse_floatParts ==
  ASSUME NEW v \in Decimals, NEW nd \in Nat,
         NEW digits \in Seq(DigitChars), NEW decpt \in Int, fcvtbuf(v, nd) = [digits |-> digits, decpt |-> decpt]
  PROVE  /\ digits = <<>> => parse_float(v, nd) =
              <<"0">> \o (IF nd > 0 THEN <<".">> \o Repeat("0", nd) ELSE <<>>)
         /\ digits # <<>> /\ decpt <= 0 => parse_float(v, nd) = <<"0", ".">> \o Repeat("0", -decpt) \o digits
         /\ digits # <<>> /\ decpt > 0 => parse_float(v, nd) =
              SubSeq(digits, 1, decpt) \o (IF Len(digits) > decpt THEN <<".">> ELSE <<>>)
              \o SubSeq(digits, decpt + 1, Len(digits))
<1>1. fcvtbuf(v, nd).digits = digits /\ fcvtbuf(v, nd).decpt = decpt
  OBVIOUS
<1> QED
  <2>1. parse_float(v, nd) =
          CASE digits = <<>> -> <<"0">> \o (IF nd > 0 THEN <<".">> \o Repeat("0", nd) ELSE <<>>)
            [] digits # <<>> /\ decpt <= 0 -> <<"0", ".">> \o Repeat("0", -decpt) \o digits
            [] OTHER -> SubSeq(digits, 1, decpt) \o (IF Len(digits) > decpt THEN <<".">> ELSE <<>>)
                        \o SubSeq(digits, decpt + 1, Len(digits))
    BY <1>1, Zenon DEF parse_float
  <2>2. decpt > 0 => ~(decpt <= 0)
    BY SMT
  <2> QED
    BY <2>1, <2>2, Zenon

(* parse_float gives a text.                                               *)
LEMMA parse_floatType ==
  ASSUME NEW v \in Decimals, NEW nd \in Nat
  PROVE  parse_float(v, nd) \in Seq(Glyphs)
<1> PICK digits \in Seq(DigitChars), decpt \in Int :
           /\ fcvtbuf(v, nd) = [digits |-> digits, decpt |-> decpt]
           /\ Count(v, nd) >= 0 => Len(digits) = nd + decpt
           /\ Count(v, nd) < 0 => digits = <<>>
  BY fcvtbufType
<1>1. digits \in Seq(Glyphs) /\ Len(digits) \in Nat
  BY GlyphsOfText, SeqMonotonic, LenProperties
<1>2. <<>> \in Seq(Glyphs) /\ <<"0">> \in Seq(Glyphs) /\ <<".">> \in Seq(Glyphs) /\ <<"0", ".">> \in Seq(Glyphs)
  BY EmptySeq, OneGlyph, TwoGlyphs, GlyphsOfText
<1>3. \A n \in Int : Repeat("0", n) \in Seq(Glyphs)
  BY RepeatType, GlyphsOfText
<1>4. CASE digits = <<>>
  <2> DEFINE behind == IF nd > 0 THEN <<".">> \o Repeat("0", nd) ELSE <<>>
  <2>1. <<".">> \o Repeat("0", nd) \in Seq(Glyphs)
    BY <1>2, <1>3, ConcatProperties
  <2>2. behind \in Seq(Glyphs)
    BY <1>2, <2>1
  <2>3. parse_float(v, nd) = <<"0">> \o behind
    BY <1>4, parse_floatParts, Zenon
  <2> HIDE DEF behind
  <2> QED
    BY <1>2, <2>2, <2>3, ConcatProperties
<1>5. CASE digits # <<>> /\ decpt <= 0
  <2>1. -decpt \in Int
    BY SMT
  <2>2. <<"0", ".">> \o Repeat("0", -decpt) \o digits \in Seq(Glyphs)
    BY <1>1, <1>2, <1>3, <2>1, ConcatThree
  <2> QED
    BY <1>5, <2>2, parse_floatParts
<1>6. CASE digits # <<>> /\ decpt > 0
  <2>1. Count(v, nd) >= 0
    BY <1>6, DecimalParts, SMT
  <2>2. Len(digits) = nd + decpt
    BY <2>1
  <2>3. \A k \in 1 .. decpt : digits[k] \in Glyphs
    <3>1. \A k \in 1 .. decpt : k \in 1 .. Len(digits)
      BY <2>2, SMT
    <3> QED
      BY <1>1, <3>1, ElementOfSeq
  <2>4. \A k \in decpt + 1 .. Len(digits) : digits[k] \in Glyphs
    <3>1. \A k \in decpt + 1 .. Len(digits) : k \in 1 .. Len(digits)
      BY <1>6, <2>2, SMT
    <3> QED
      BY <1>1, <3>1, ElementOfSeq
  <2>5. SubSeq(digits, 1, decpt) \in Seq(Glyphs)
    BY <2>3, SubSeqProperties, 1 \in Int
  <2>6. SubSeq(digits, decpt + 1, Len(digits)) \in Seq(Glyphs)
    BY <1>1, <2>4, SubSeqProperties, decpt + 1 \in Int
  <2> DEFINE point == IF Len(digits) > decpt THEN <<".">> ELSE <<>>
  <2>7. point \in Seq(Glyphs)
    BY <1>2
  <2>8. parse_float(v, nd) = SubSeq(digits, 1, decpt) \o point \o SubSeq(digits, decpt + 1, Len(digits))
    BY <1>6, parse_floatParts, Zenon
  <2> HIDE DEF point
  <2> QED
    BY <2>5, <2>6, <2>7, <2>8, ConcatThree
<1>7. decpt <= 0 \/ decpt > 0
  BY SMT
<1> QED
  BY <1>4, <1>5, <1>6, <1>7

(* The parts of flt                                                        *)
Places(precision) == IF precision < 0 THEN 6 ELSE precision
Size(value) == [value EXCEPT !.units = IF value.units < 0 THEN -@ ELSE @]
FloatBody(value, precision, flags) ==
  IF "#" \in flags /\ Places(precision) = 0 THEN decimal_point(parse_float(Size(value), Places(precision)))
  ELSE parse_float(Size(value), Places(precision))

(* flt is these parts, justified.                                          *)
LEMMA fltParts ==
  ASSUME NEW value, NEW size, NEW precision, NEW flags
  PROVE  flt(value, size, precision, flags) =
           Justify(SignOf(value.units < 0, flags), FloatBody(value, precision, flags), size, flags)
  BY DEF flt, FloatBody, Size, Places

(* The parts of flt are texts.                                             *)
LEMMA FloatType ==
  ASSUME NEW value \in [units : Int, scale : Nat], NEW precision \in Int, NEW flags
  PROVE  /\ Size(value) \in Decimals /\ Places(precision) \in Nat
         /\ SignOf(value.units < 0, flags) \in Seq(Glyphs)
         /\ FloatBody(value, precision, flags) \in Seq(Glyphs)
<1>1. Size(value) \in Decimals
  <2>1. value.units < 0 => -value.units \in Nat
    BY SMT
  <2>2. ~(value.units < 0) => value.units \in Nat
    BY SMT
  <2>3. Size(value) = [value EXCEPT !.units = IF value.units < 0 THEN -value.units ELSE value.units]
    BY DEF Size
  <2>4. (IF value.units < 0 THEN -value.units ELSE value.units) \in Nat
    BY <2>1, <2>2
  <2> QED
    BY <2>3, <2>4 DEF Decimals
<1>2. Places(precision) \in Nat
  BY SMT DEF Places
<1>3. SignOf(value.units < 0, flags) \in Seq(Glyphs)
  <2>1. (value.units < 0) \in BOOLEAN
    BY SMT
  <2> QED
    BY <2>1, SignType, SignsAreText
<1>4. ASSUME NEW s \in Seq(Glyphs) PROVE decimal_point(s) \in Seq(Glyphs)
  <2>1. Append(s, ".") \in Seq(Glyphs)
    BY GlyphsOfText, AppendProperties
  <2> QED
    BY <2>1 DEF decimal_point
<1>5. parse_float(Size(value), Places(precision)) \in Seq(Glyphs)
  BY <1>1, <1>2, parse_floatType
<1>6. FloatBody(value, precision, flags) \in Seq(Glyphs)
  BY <1>4, <1>5 DEF FloatBody
<1> QED
  BY <1>1, <1>2, <1>3, <1>6

(* Texts and addresses                                                     *)
LEMMA StrType ==
  ASSUME NEW pointer \in Seq(Seq(Glyphs)), NEW precision \in Int
  PROVE  Str(pointer, precision) \in Seq(Glyphs)
<1> DEFINE s == IF pointer = <<>> THEN <<"<","N","U","L","L",">">> ELSE pointer[1]
<1>1. s \in Seq(Glyphs)
  <2>1. CASE pointer = <<>>
    <3>1. \A a, b, c, d, e \in Glyphs : <<a, b, c, d, d, e>> \in Seq(Glyphs)
      BY SMT
    <3>2. <<"<","N","U","L","L",">">> \in Seq(Glyphs)
      BY <3>1, GlyphsOfText
    <3> QED
      BY <2>1, <3>2
  <2>2. CASE pointer # <<>>
    <3>1. 1 \in 1 .. Len(pointer)
      BY <2>2, EmptySeq, SMT
    <3>2. pointer[1] \in Seq(Glyphs)
      BY <3>1, ElementOfSeq
    <3> QED
      BY <2>2, <3>2
  <2> QED
    BY <2>1, <2>2
<1>2. Str(pointer, precision) = IF precision = Absent \/ precision > Len(s) THEN s ELSE SubSeq(s, 1, precision)
  BY DEF Str
<1> HIDE DEF s
<1>3. ASSUME ~(precision > Len(s)) PROVE SubSeq(s, 1, precision) \in Seq(Glyphs)
  <2>1. Len(s) \in Nat
    BY <1>1, LenProperties
  <2>2. \A k \in 1 .. precision : k \in 1 .. Len(s)
    BY <1>3, <2>1, SMT
  <2>3. \A k \in 1 .. precision : s[k] \in Glyphs
    BY <1>1, <2>2, ElementOfSeq
  <2> QED
    BY <2>3, SubSeqProperties, 1 \in Int
<1> QED
  BY <1>1, <1>2, <1>3

HexByte(addr, dig, k) ==
  (IF k = 1 THEN <<>> ELSE <<":">>) \o <<dig[addr[k] \div 16 + 1], dig[(addr[k] % 16) + 1]>>
DecimalByte(addr, k) == (IF k = 1 THEN <<>> ELSE <<".">>) \o Digits(addr[k], 10, lower_digits)
AddressBody(addr, long, flags) ==
  IF long THEN FlattenSeq([k \in 1 .. 6 |-> HexByte(addr, Sets(flags), k)])
  ELSE FlattenSeq([k \in 1 .. 4 |-> DecimalByte(addr, k)])

(* The bytes of an address with what stands between them.                  *)
LEMMA AddressParts ==
  ASSUME NEW addr, NEW size, NEW flags
  PROVE  /\ eaddr(addr, size, flags) = Pad(AddressBody(addr, TRUE, flags), size, flags)
         /\ iaddr(addr, size, flags) = Pad(AddressBody(addr, FALSE, flags), size, flags)
  BY DEF eaddr, iaddr, AddressBody, HexByte, DecimalByte, Sets

(* They are a text.                                                        *)
LEMMA AddressType ==
  ASSUME NEW addr \in [1 .. 6 -> 0 .. 255], NEW long \in BOOLEAN, NEW flags
  PROVE  AddressBody(addr, long, flags) \in Seq(Glyphs)
<1>1. <<>> \in Seq(Glyphs) /\ <<":">> \in Seq(Glyphs) /\ <<".">> \in Seq(Glyphs)
  BY EmptySeq, OneGlyph, GlyphsOfText
<1>2. ASSUME NEW k \in 1 .. 6 PROVE HexByte(addr, Sets(flags), k) \in Seq(Glyphs)
  <2>1. addr[k] \in 0 .. 255
    OBVIOUS
  <2>2. addr[k] \div 16 + 1 \in 1 .. 16 /\ (addr[k] % 16) + 1 \in 1 .. 16
    BY <2>1, SMT
  <2>3. \A n \in 1 .. 16 : Sets(flags)[n] \in Glyphs
    <3>1. Sets(flags) \in DigitSets
      BY DigitSetTypes DEF Sets
    <3> QED
      BY <3>1, GlyphsOfText DEF DigitSets
  <2> DEFINE hex == <<Sets(flags)[addr[k] \div 16 + 1], Sets(flags)[(addr[k] % 16) + 1]>>
             colon == IF k = 1 THEN <<>> ELSE <<":">>
  <2>4. hex \in Seq(Glyphs)
    BY <2>2, <2>3, TwoGlyphs
  <2>5. colon \in Seq(Glyphs)
    BY <1>1
  <2>6. HexByte(addr, Sets(flags), k) = colon \o hex
    BY DEF HexByte
  <2> HIDE DEF hex, colon
  <2> QED
    BY <2>4, <2>5, <2>6, ConcatProperties
<1>3. ASSUME NEW k \in 1 .. 4 PROVE DecimalByte(addr, k) \in Seq(Glyphs)
  <2>1. addr[k] \in Nat
    BY SMT
  <2>2. Digits(addr[k], 10, lower_digits) \in Seq(Glyphs)
    BY <2>1, DigitsAreText, DigitSetTypes, 10 \in Bases DEF Bases
  <2> DEFINE point == IF k = 1 THEN <<>> ELSE <<".">>
  <2>3. point \in Seq(Glyphs)
    BY <1>1
  <2>4. DecimalByte(addr, k) = point \o Digits(addr[k], 10, lower_digits)
    BY DEF DecimalByte
  <2> HIDE DEF point
  <2> QED
    BY <2>2, <2>3, <2>4, ConcatProperties
<1>4. FlattenSeq([k \in 1 .. 6 |-> HexByte(addr, Sets(flags), k)]) \in Seq(Glyphs)
  BY <1>2, FlattenType, 6 \in Nat \ {0}
<1>5. FlattenSeq([k \in 1 .. 4 |-> DecimalByte(addr, k)]) \in Seq(Glyphs)
  BY <1>3, FlattenType, 4 \in Nat \ {0}
<1> QED
  BY <1>4, <1>5 DEF AddressBody


(* What ee_vsprintf does with a directive of each kind                     *)
LEMMA NumberText ==
  ASSUME NEW d, d.conv \in IntegerConversions
  PROVE  ee_vsprintf(d) =
           IF d.conv = "p" /\ field_width(d) = Absent
           THEN number(d.arg, 16, 8, PrecisionOf(d), AllFlags(d) \cup {"0"})
           ELSE number(d.arg, Base(d.conv), field_width(d), PrecisionOf(d), AllFlags(d))
<1>1. d.conv # "c" /\ d.conv # "s" /\ d.conv \notin {"a", "A"} /\ d.conv # "f" /\ d.conv # "%"
  BY SMT DEF IntegerConversions
<1> QED
  BY <1>1, Zenon DEF ee_vsprintf

(* %f asks for flt,                                                        *)
LEMMA FloatText ==
  ASSUME NEW d, d.conv = "f"
  PROVE  ee_vsprintf(d) = flt(d.arg, field_width(d), PrecisionOf(d), AllFlags(d))
<1>1. d.conv # "c" /\ d.conv # "s" /\ d.conv \notin {"a", "A"} /\ d.conv # "p" /\ d.conv # "%" /\ d.conv \notin IntegerConversions
  BY SMT DEF IntegerConversions
<1> QED
  BY <1>1, Zenon DEF ee_vsprintf

(* %s for the string with its padding,                                     *)
LEMMA StringText ==
  ASSUME NEW d, d.conv = "s"
  PROVE  ee_vsprintf(d) = Pad(Str(d.arg, PrecisionOf(d)), field_width(d), AllFlags(d))
<1>1. d.conv # "c" /\ d.conv # "f" /\ d.conv \notin {"a", "A"} /\ d.conv # "p" /\ d.conv # "%" /\ d.conv \notin IntegerConversions
  BY SMT DEF IntegerConversions
<1> QED
  BY <1>1, Zenon DEF ee_vsprintf

(* %a and %A for an address,                                               *)
LEMMA AddressText ==
  ASSUME NEW d, d.conv \in {"a", "A"}, d.long \in BOOLEAN
  PROVE  ee_vsprintf(d) = Pad(AddressBody(d.arg, d.long, AllFlags(d)), field_width(d), AllFlags(d))
<1>1. d.conv # "c" /\ d.conv # "f" /\ d.conv # "s" /\ d.conv # "p" /\ d.conv # "%" /\ d.conv \notin IntegerConversions
  BY SMT DEF IntegerConversions
<1>2. ee_vsprintf(d) = IF d.long THEN eaddr(d.arg, field_width(d), AllFlags(d))
                       ELSE iaddr(d.arg, field_width(d), AllFlags(d))
  BY <1>1, Zenon DEF ee_vsprintf
<1>3. CASE d.long
  <2>1. ee_vsprintf(d) = Pad(AddressBody(d.arg, TRUE, AllFlags(d)), field_width(d), AllFlags(d))
    BY <1>2, <1>3, AddressParts
  <2>2. d.long = TRUE
    BY <1>3
  <2> QED
    BY <2>1, <2>2
<1>4. CASE ~d.long
  <2>1. ee_vsprintf(d) = Pad(AddressBody(d.arg, FALSE, AllFlags(d)), field_width(d), AllFlags(d))
    BY <1>2, <1>4, AddressParts
  <2>2. d.long = FALSE
    BY <1>4
  <2> QED
    BY <2>1, <2>2
<1> QED
  BY <1>3, <1>4

(* and what is no conversion is printed as it stands.                      *)
LEMMA CharText ==
  ASSUME NEW d, d.conv \notin IntegerConversions \cup {"a", "A", "f", "s"}
  PROVE  ee_vsprintf(d) = IF d.conv = "c" THEN Pad(<<d.arg>>, field_width(d), AllFlags(d))
                          ELSE IF d.conv = "%" THEN <<"%">> ELSE <<"%", d.conv>>
<1>1. d.conv \notin IntegerConversions /\ d.conv \notin {"a", "A"} /\ d.conv # "f" /\ d.conv # "s" /\ d.conv # "p"
  BY DEF IntegerConversions
<1>2. CASE d.conv = "c"
  <2>1. d.conv # "%"
    BY <1>2, SMT
  <2> QED
    BY <1>1, <1>2, <2>1, Zenon DEF ee_vsprintf
<1>3. CASE d.conv = "%"
  <2>1. d.conv # "c"
    BY <1>3, SMT
  <2> QED
    BY <1>1, <1>3, <2>1, Zenon DEF ee_vsprintf
<1>4. CASE d.conv # "c" /\ d.conv # "%"
  BY <1>1, <1>4, Zenon DEF ee_vsprintf
<1> QED
  BY <1>2, <1>3, <1>4

(* The width and precision of a directive are numbers.                     *)
LEMMA DirectiveType ==
  ASSUME NEW convs, NEW args, NEW d \in Directives(convs, args)
  PROVE  /\ field_width(d) \in Int /\ PrecisionOf(d) \in Int
         /\ d.conv \in convs /\ d.arg \in args /\ d.long \in BOOLEAN
<1>1. d.width \in Int /\ d.precision \in Int /\ d.conv \in convs /\ d.arg \in args /\ d.long \in BOOLEAN
  BY DEF Directives
<1>2. -d.width \in Int /\ Absent \in Int /\ Larger(d.precision, 0) \in Int
  BY <1>1, SMT DEF Absent, Larger
<1> QED
  BY <1>1, <1>2, Zenon DEF field_width, PrecisionOf

(* Integers are printed in base 8, 10 or 16.                               *)
LEMMA BaseType ==
  ASSUME NEW conv \in IntegerConversions
  PROVE  Base(conv) \in Bases
<1>1. CASE conv = "o"
  <2>1. conv \notin {"x", "X", "p"}
    BY <1>1, SMT
  <2> QED
    BY <1>1, <2>1, Zenon DEF Base, Bases
<1>2. CASE conv \in {"x", "X", "p"}
  <2>1. conv # "o"
    BY <1>2, SMT
  <2> QED
    BY <1>2, <2>1, Zenon DEF Base, Bases
<1>3. CASE conv # "o" /\ conv \notin {"x", "X", "p"}
  BY <1>3, Zenon DEF Base, Bases
<1> QED
  BY <1>1, <1>2, <1>3

(* Pad gives a text.                                                       *)
LEMMA PadType ==
  ASSUME NEW body \in Seq(Glyphs), NEW size \in Int, NEW flags
  PROVE  Pad(body, size, flags) \in Seq(Glyphs) /\ Len(Pad(body, size, flags)) = Larger(size, Len(body))
<1>1. <<>> \in Seq(Glyphs) /\ Len(<<>>) = 0
  BY EmptySeq
<1>2. /\ Pad(body, size, flags) \in Seq(Glyphs)
      /\ Len(Pad(body, size, flags)) = Larger(size, Len(<<>>) + Len(body))
  BY <1>1, JustifyType DEF Pad
<1>3. Len(<<>>) + Len(body) = Len(body)
  BY <1>1, LenProperties, SMT
<1> QED
  BY <1>2, <1>3

(* number gives a text.                                                    *)
LEMMA NumberIsText ==
  ASSUME NEW num \in 0 .. LongSize - 1, NEW base \in Bases, NEW size \in Int, NEW precision \in Int, NEW flags
  PROVE  /\ number(num, base, size, precision, flags) \in Seq(Glyphs)
         /\ Len(number(num, base, size, precision, flags)) =
              Larger(size, Len(Before(num, base, flags)) + Len(Body(num, base, precision, flags)))
  BY NumberParts, NumberType, JustifyType

(* Whatever CoreMark asks for, it gets a text the font has.                *)
LEMMA TextOfDirective ==
  ASSUME NEW d \in Numbers \cup Floats \cup Texts \cup Chars \cup Addresses
  PROVE  ee_vsprintf(d) \in Seq(Printable)
<1>1. ASSUME d \in Numbers PROVE ee_vsprintf(d) \in Seq(Glyphs)
  <2>1. /\ field_width(d) \in Int /\ PrecisionOf(d) \in Int
        /\ d.conv \in IntegerConversions /\ d.arg \in 0 .. LongSize - 1
    <3>1. d \in Directives(IntegerConversions, 0 .. LongSize - 1)
      BY <1>1, DirectivesAssumption
    <3> QED
      BY <3>1, DirectiveType
  <2>2. 16 \in Bases /\ 8 \in Int /\ Base(d.conv) \in Bases
    BY <2>1, BaseType DEF Bases
  <2>3. number(d.arg, 16, 8, PrecisionOf(d), AllFlags(d) \cup {"0"}) \in Seq(Glyphs)
    BY <2>1, <2>2, NumberIsText
  <2>4. number(d.arg, Base(d.conv), field_width(d), PrecisionOf(d), AllFlags(d)) \in Seq(Glyphs)
    BY <2>1, <2>2, NumberIsText
  <2> QED
    BY <2>1, <2>3, <2>4, NumberText, Zenon
<1>2. ASSUME d \in Floats PROVE ee_vsprintf(d) \in Seq(Glyphs)
  <2>1. /\ field_width(d) \in Int /\ PrecisionOf(d) \in Int
        /\ d.conv \in {"f"} /\ d.arg \in [units : Int, scale : Nat]
    <3>1. d \in Directives({"f"}, [units : Int, scale : Nat])
      BY <1>2, DirectivesAssumption
    <3> QED
      BY <3>1, DirectiveType
  <2>2. /\ SignOf(d.arg.units < 0, AllFlags(d)) \in Seq(Glyphs)
        /\ FloatBody(d.arg, PrecisionOf(d), AllFlags(d)) \in Seq(Glyphs)
    BY <2>1, FloatType
  <2>3. flt(d.arg, field_width(d), PrecisionOf(d), AllFlags(d)) \in Seq(Glyphs)
    BY <2>1, <2>2, fltParts, JustifyType
  <2> QED
    BY <2>1, <2>3, FloatText
<1>3. ASSUME d \in Texts PROVE ee_vsprintf(d) \in Seq(Glyphs)
  <2>1. /\ field_width(d) \in Int /\ PrecisionOf(d) \in Int
        /\ d.conv \in {"s"} /\ d.arg \in Seq(Seq(Glyphs))
    <3>1. d \in Directives({"s"}, Seq(Seq(Glyphs)))
      BY <1>3, DirectivesAssumption
    <3> QED
      BY <3>1, DirectiveType
  <2> QED
    BY <2>1, StrType, PadType, StringText
<1>4. ASSUME d \in Chars PROVE ee_vsprintf(d) \in Seq(Glyphs)
  <2>1. /\ field_width(d) \in Int /\ d.arg \in Glyphs
        /\ d.conv \in Glyphs \ (IntegerConversions \cup {"a", "A", "f", "s"})
    <3>1. d \in Directives(Glyphs \ (IntegerConversions \cup {"a", "A", "f", "s"}), Glyphs)
      BY <1>4, DirectivesAssumption
    <3> QED
      BY <3>1, DirectiveType
  <2>2. Pad(<<d.arg>>, field_width(d), AllFlags(d)) \in Seq(Glyphs)
    BY <2>1, OneGlyph, PadType
  <2>3. <<"%">> \in Seq(Glyphs) /\ <<"%", d.conv>> \in Seq(Glyphs)
    BY <2>1, OneGlyph, TwoGlyphs, GlyphsOfText
  <2> QED
    BY <2>1, <2>2, <2>3, CharText, Zenon
<1>5. ASSUME d \in Addresses PROVE ee_vsprintf(d) \in Seq(Glyphs)
  <2>1. /\ field_width(d) \in Int /\ d.long \in BOOLEAN
        /\ d.conv \in {"a", "A"} /\ d.arg \in [1 .. 6 -> 0 .. 255]
    <3>1. d \in Directives({"a", "A"}, [1 .. 6 -> 0 .. 255])
      BY <1>5, DirectivesAssumption
    <3> QED
      BY <3>1, DirectiveType
  <2> QED
    <3>1. AddressBody(d.arg, d.long, AllFlags(d)) \in Seq(Glyphs)
      BY <2>1, AddressType
    <3>2. Pad(AddressBody(d.arg, d.long, AllFlags(d)), field_width(d), AllFlags(d)) \in Seq(Glyphs)
      BY <2>1, <3>1, PadType
    <3> QED
      BY <2>1, <3>2, AddressText
<1>6. ee_vsprintf(d) \in Seq(Glyphs)
  BY <1>1, <1>2, <1>3, <1>4, <1>5
<1> QED
  BY <1>6, SeqMonotonic, Glyphs \subseteq Printable DEF Printable

---------------------------------------------------------------------------
(* The field is filled: a width does not change what stands in it          *)
AllDirectives == Numbers \cup Floats \cup Texts \cup Chars \cup Addresses
SameButForSide(f, g) == \A c : c # "-" => (c \in f <=> c \in g)

(* No part of a conversion looks at the side it is put to.                 *)
LEMMA SideDoesNotMatter ==
  ASSUME NEW f, NEW g, SameButForSide(f, g)
  PROVE  /\ \A num : Negative(num, f) <=> Negative(num, g)
         /\ \A num : Magnitude(num, f) = Magnitude(num, g)
         /\ Sets(f) = Sets(g)
         /\ \A base : Prefix(base, f) = Prefix(base, g)
         /\ \A negative \in BOOLEAN : SignOf(negative, f) = SignOf(negative, g)
         /\ \A value, precision : FloatBody(value, precision, f) = FloatBody(value, precision, g)
<1>1. /\ "SIGN" \in f <=> "SIGN" \in g
      /\ "UPPERCASE" \in f <=> "UPPERCASE" \in g
      /\ "#" \in f <=> "#" \in g
      /\ "+" \in f <=> "+" \in g
      /\ " " \in f <=> " " \in g
  BY DEF SameButForSide
<1>2. \A num : Negative(num, f) <=> Negative(num, g)
  BY <1>1, Zenon DEF Negative
<1>3. \A num : Magnitude(num, f) = Magnitude(num, g)
  BY <1>2, Zenon DEF Magnitude
<1>4. Sets(f) = Sets(g)
  BY <1>1, Zenon DEF Sets
<1>5. \A base : Prefix(base, f) = Prefix(base, g)
  <2> SUFFICES ASSUME NEW base PROVE Prefix(base, f) = Prefix(base, g)
    OBVIOUS
  <2>1. CASE "#" \in f
    BY <1>1, <2>1, Zenon DEF Prefix
  <2>2. CASE "#" \notin f
    BY <1>1, <2>2, Zenon DEF Prefix
  <2> QED
    BY <2>1, <2>2
<1>6. ASSUME NEW negative \in BOOLEAN PROVE SignOf(negative, f) = SignOf(negative, g)
  <2>1. Has(f, " ") = Has(g, " ")
    BY <1>1, Zenon DEF Has
  <2>2. CASE ~("SIGN" \in f)
    BY <1>1, <2>2, Zenon DEF SignOf
  <2>3. CASE "SIGN" \in f /\ negative
    BY <1>1, <2>3, Zenon DEF SignOf
  <2>4. CASE "SIGN" \in f /\ ~negative
    <3>1. SignOf(negative, f) = IF "+" \in f THEN <<"+">> ELSE Has(f, " ")
      BY <2>4, Zenon DEF SignOf
    <3>2. SignOf(negative, g) = IF "+" \in g THEN <<"+">> ELSE Has(g, " ")
      BY <1>1, <2>4, Zenon DEF SignOf
    <3>3. CASE "+" \in f
      BY <1>1, <3>1, <3>2, <3>3
    <3>4. CASE "+" \notin f
      BY <1>1, <2>1, <3>1, <3>2, <3>4
    <3> QED
      BY <3>3, <3>4
  <2> QED
    BY <2>2, <2>3, <2>4
<1>7. \A value, precision : FloatBody(value, precision, f) = FloatBody(value, precision, g)
  BY <1>1, Zenon DEF FloatBody
<1> QED
  BY <1>2, <1>3, <1>4, <1>5, <1>6, <1>7

(* A directive of width 0 asks for the same but for the padding.           *)
LEMMA WidthZero ==
  ASSUME NEW convs, NEW args, NEW d \in Directives(convs, args)
  PROVE  LET d0 == [d EXCEPT !.width = 0]
         IN /\ field_width(d0) = 0 /\ PrecisionOf(d0) = PrecisionOf(d)
            /\ d0.conv = d.conv /\ d0.arg = d.arg /\ d0.long = d.long
            /\ SameButForSide(AllFlags(d), AllFlags(d0))
            /\ field_width(d) = Absent => d.width = Absent
<1> DEFINE d0 == [d EXCEPT !.width = 0]
<1>1. /\ d0.width = 0 /\ d0.conv = d.conv /\ d0.arg = d.arg /\ d0.long = d.long
      /\ d0.star = d.star /\ d0.flags = d.flags /\ d0.dot = d.dot /\ d0.precision = d.precision
  BY DEF Directives
<1> HIDE DEF d0
<1>2. field_width(d0) = 0
  BY <1>1, ~(0 < 0), Zenon DEF field_width
<1>3. PrecisionOf(d0) = PrecisionOf(d)
  BY <1>1, Zenon DEF PrecisionOf
<1>4. SameButForSide(AllFlags(d), AllFlags(d0))
  BY <1>1, Zenon DEF AllFlags, SameButForSide
<1>5. field_width(d) = Absent => d.width = Absent
  <2>1. d.width \in Int
    BY DEF Directives
  <2>2. d.width < 0 => -d.width # Absent
    BY <2>1, SMT DEF Absent
  <2> QED
    BY <2>2, Zenon DEF field_width
<1> QED
  BY <1>1, <1>2, <1>3, <1>4, <1>5 DEF d0

(* A field of width 0 adds nothing.                                        *)
LEMMA LargerThanNone ==
  ASSUME NEW n \in Nat PROVE Larger(0, n) = n
  BY SMT DEF Larger

(* The field is as wide as asked for, or as what it must hold.             *)
LEMMA FieldFilled ==
  ASSUME NEW d \in AllDirectives
  PROVE  FillsField(d, ee_vsprintf(d))
<1> DEFINE d0 == [d EXCEPT !.width = 0]
           Filled == Len(ee_vsprintf(d)) = Larger(field_width(d), Len(ee_vsprintf(d0)))
<1>1. ASSUME d \in Numbers, ~(d.conv = "p" /\ d.width = Absent) PROVE Filled
  <2>1. d \in Directives(IntegerConversions, 0 .. LongSize - 1)
    BY <1>1, DirectivesAssumption
  <2>2. field_width(d) \in Int /\ PrecisionOf(d) \in Int /\ d.conv \in IntegerConversions /\ d.arg \in 0 .. LongSize - 1
    BY <2>1, DirectiveType
  <2>3. /\ field_width(d0) = 0 /\ PrecisionOf(d0) = PrecisionOf(d) /\ d0.conv = d.conv /\ d0.arg = d.arg
        /\ SameButForSide(AllFlags(d), AllFlags(d0)) /\ (field_width(d) = Absent => d.width = Absent)
    BY <2>1, WidthZero
  <2> HIDE DEF d0
  <2> DEFINE base == Base(d.conv)
             L == Len(Before(d.arg, base, AllFlags(d))) + Len(Body(d.arg, base, PrecisionOf(d), AllFlags(d)))
  <2>4. base \in Bases
    BY <2>2, BaseType
  <2> HIDE DEF base
  <2>5. ee_vsprintf(d) = number(d.arg, base, field_width(d), PrecisionOf(d), AllFlags(d))
    BY <1>1, <2>2, <2>3, NumberText, Zenon DEF base
  <2>6. ee_vsprintf(d0) = number(d.arg, base, 0, PrecisionOf(d), AllFlags(d0))
    <3>1. 0 # Absent
      BY SMT DEF Absent
    <3> QED
      BY <2>2, <2>3, <3>1, NumberText, Zenon DEF base
  <2>7. /\ Before(d.arg, base, AllFlags(d)) = Before(d.arg, base, AllFlags(d0))
        /\ Body(d.arg, base, PrecisionOf(d), AllFlags(d)) = Body(d.arg, base, PrecisionOf(d), AllFlags(d0))
    <3>1. NumberDigits(d.arg, base, AllFlags(d)) = NumberDigits(d.arg, base, AllFlags(d0))
      BY <2>3, SideDoesNotMatter, Zenon DEF NumberDigits
    <3>2. /\ Negative(d.arg, AllFlags(d)) = Negative(d.arg, AllFlags(d0))
          /\ Negative(d.arg, AllFlags(d)) \in BOOLEAN
      BY <2>3, SideDoesNotMatter DEF Negative
    <3>3. SignOf(Negative(d.arg, AllFlags(d)), AllFlags(d)) = SignOf(Negative(d.arg, AllFlags(d0)), AllFlags(d0))
      BY <2>3, <3>2, SideDoesNotMatter, Zenon
    <3>4. Prefix(base, AllFlags(d)) = Prefix(base, AllFlags(d0))
      BY <2>3, SideDoesNotMatter
    <3> QED
      BY <3>1, <3>3, <3>4, Zenon DEF Before, Body, Zeros
  <2>8. L \in Nat
    <3>1. /\ Len(Before(d.arg, base, AllFlags(d))) \in Nat
          /\ Len(Body(d.arg, base, PrecisionOf(d), AllFlags(d))) \in Nat
      BY <2>2, <2>4, NumberType, LenProperties
    <3> QED
      BY <3>1, SMT
  <2>9. Len(ee_vsprintf(d)) = Larger(field_width(d), L)
    BY <2>2, <2>4, <2>5, NumberIsText
  <2>10. Len(ee_vsprintf(d0)) = Larger(0, L)
    BY <2>2, <2>4, <2>6, <2>7, NumberIsText, 0 \in Int
  <2> HIDE DEF L
  <2> QED
    BY <2>8, <2>9, <2>10, LargerThanNone
<1>2. ASSUME d \in Floats PROVE Filled
  <2>1. d \in Directives({"f"}, [units : Int, scale : Nat])
    BY <1>2, DirectivesAssumption
  <2>2. field_width(d) \in Int /\ PrecisionOf(d) \in Int /\ d.conv = "f" /\ d.arg \in [units : Int, scale : Nat]
    <3>1. d.conv \in {"f"}
      BY <2>1, DirectiveType
    <3> QED
      BY <2>1, <3>1, DirectiveType, Zenon
  <2>3. /\ field_width(d0) = 0 /\ PrecisionOf(d0) = PrecisionOf(d) /\ d0.conv = d.conv /\ d0.arg = d.arg
        /\ SameButForSide(AllFlags(d), AllFlags(d0))
    BY <2>1, WidthZero
  <2> HIDE DEF d0
  <2> DEFINE before == SignOf(d.arg.units < 0, AllFlags(d))
             body == FloatBody(d.arg, PrecisionOf(d), AllFlags(d))
             L == Len(before) + Len(body)
  <2>4. before \in Seq(Glyphs) /\ body \in Seq(Glyphs)
    BY <2>2, FloatType
  <2>5. before = SignOf(d.arg.units < 0, AllFlags(d0)) /\ body = FloatBody(d.arg, PrecisionOf(d), AllFlags(d0))
    <3>1. (d.arg.units < 0) \in BOOLEAN
      BY <2>2, SMT
    <3>2. SignOf(d.arg.units < 0, AllFlags(d)) = SignOf(d.arg.units < 0, AllFlags(d0))
      BY <2>3, <3>1, SideDoesNotMatter, Zenon
    <3>3. FloatBody(d.arg, PrecisionOf(d), AllFlags(d)) = FloatBody(d.arg, PrecisionOf(d), AllFlags(d0))
      <4>1. \A value, precision : FloatBody(value, precision, AllFlags(d)) = FloatBody(value, precision, AllFlags(d0))
        BY <2>3, SideDoesNotMatter
      <4> QED
        BY <4>1
    <3> QED
      BY <3>2, <3>3, Zenon
  <2>6. ee_vsprintf(d) = Justify(before, body, field_width(d), AllFlags(d))
    BY <2>2, FloatText, fltParts
  <2>7. ee_vsprintf(d0) = Justify(before, body, 0, AllFlags(d0))
    BY <2>2, <2>3, <2>5, FloatText, fltParts
  <2> HIDE DEF before, body
  <2>8. L \in Nat
    <3>1. Len(before) \in Nat /\ Len(body) \in Nat
      BY <2>4, LenProperties
    <3> QED
      BY <3>1, SMT
  <2>9. Len(ee_vsprintf(d)) = Larger(field_width(d), L)
    BY <2>2, <2>4, <2>6, JustifyType
  <2>10. Len(ee_vsprintf(d0)) = Larger(0, L)
    BY <2>4, <2>7, JustifyType, 0 \in Int
  <2> HIDE DEF L
  <2> QED
    BY <2>8, <2>9, <2>10, LargerThanNone
<1>3. ASSUME NEW body \in Seq(Glyphs), field_width(d) \in Int, field_width(d0) = 0,
             ee_vsprintf(d) = Pad(body, field_width(d), AllFlags(d)),
             ee_vsprintf(d0) = Pad(body, field_width(d0), AllFlags(d0))
      PROVE  Filled
  <2> HIDE DEF d0
  <2>1. Len(body) \in Nat
    BY LenProperties
  <2>2. Len(ee_vsprintf(d)) = Larger(field_width(d), Len(body))
    BY <1>3, PadType
  <2>3. Len(ee_vsprintf(d0)) = Larger(0, Len(body))
    BY <1>3, PadType, 0 \in Int
  <2> QED
    BY <2>1, <2>2, <2>3, LargerThanNone
<1>4. ASSUME d \in Texts PROVE Filled
  <2>1. d \in Directives({"s"}, Seq(Seq(Glyphs)))
    BY <1>4, DirectivesAssumption
  <2>2. field_width(d) \in Int /\ PrecisionOf(d) \in Int /\ d.conv = "s" /\ d.arg \in Seq(Seq(Glyphs))
    BY <2>1, DirectiveType
  <2>3. field_width(d0) = 0 /\ PrecisionOf(d0) = PrecisionOf(d) /\ d0.conv = d.conv /\ d0.arg = d.arg
    BY <2>1, WidthZero
  <2>4. Str(d.arg, PrecisionOf(d)) \in Seq(Glyphs)
    BY <2>2, StrType
  <2> HIDE DEF d0, Filled
  <2> QED
    BY <1>3, <2>2, <2>3, <2>4, StringText
<1>5. ASSUME d \in Chars, d.conv = "c" PROVE Filled
  <2>1. d \in Directives(Glyphs \ (IntegerConversions \cup {"a", "A", "f", "s"}), Glyphs)
    BY <1>5, DirectivesAssumption
  <2>2. field_width(d) \in Int /\ d.conv \notin IntegerConversions \cup {"a", "A", "f", "s"} /\ d.arg \in Glyphs
    BY <2>1, DirectiveType
  <2>3. field_width(d0) = 0 /\ d0.conv = d.conv /\ d0.arg = d.arg
    BY <2>1, WidthZero
  <2>4. <<d.arg>> \in Seq(Glyphs)
    BY <2>2, OneGlyph
  <2> HIDE DEF d0, Filled
  <2>5. ee_vsprintf(d) = Pad(<<d.arg>>, field_width(d), AllFlags(d))
    BY <1>5, <2>2, CharText
  <2>6. ee_vsprintf(d0) = Pad(<<d.arg>>, field_width(d0), AllFlags(d0))
    BY <1>5, <2>2, <2>3, CharText
  <2> QED
    BY <1>3, <2>2, <2>3, <2>4, <2>5, <2>6
<1>6. ASSUME d \in Addresses PROVE Filled
  <2>1. d \in Directives({"a", "A"}, [1 .. 6 -> 0 .. 255])
    BY <1>6, DirectivesAssumption
  <2>2. field_width(d) \in Int /\ d.conv \in {"a", "A"} /\ d.arg \in [1 .. 6 -> 0 .. 255] /\ d.long \in BOOLEAN
    BY <2>1, DirectiveType
  <2>3. /\ field_width(d0) = 0 /\ d0.conv = d.conv /\ d0.arg = d.arg /\ d0.long = d.long
        /\ SameButForSide(AllFlags(d), AllFlags(d0))
    BY <2>1, WidthZero
  <2> HIDE DEF d0, Filled
  <2> DEFINE body == AddressBody(d.arg, d.long, AllFlags(d))
  <2>4. body \in Seq(Glyphs)
    BY <2>2, AddressType
  <2>5. body = AddressBody(d.arg, d.long, AllFlags(d0))
    <3>1. Sets(AllFlags(d)) = Sets(AllFlags(d0))
      BY <2>3, SideDoesNotMatter
    <3> QED
      BY <3>1 DEF AddressBody
  <2>6. ee_vsprintf(d) = Pad(body, field_width(d), AllFlags(d))
    BY <2>2, AddressText
  <2>7. ee_vsprintf(d0) = Pad(body, field_width(d0), AllFlags(d0))
    BY <2>2, <2>3, <2>5, AddressText
  <2> HIDE DEF body
  <2> QED
    BY <1>3, <2>2, <2>3, <2>4, <2>6, <2>7
<1>7. ASSUME d.conv \in IntegerConversions \cup {"c", "s", "a", "A", "f"}, d \in Chars PROVE d.conv = "c"
  <2>1. d \in Directives(Glyphs \ (IntegerConversions \cup {"a", "A", "f", "s"}), Glyphs)
    BY <1>7, DirectivesAssumption
  <2>2. d.conv \notin IntegerConversions \cup {"a", "A", "f", "s"}
    BY <2>1, DirectiveType
  <2> QED
    BY <1>7, <2>2
<1> HIDE DEF Filled
<1>8. d.conv \in IntegerConversions \cup {"c", "s", "a", "A", "f"} /\ ~(d.conv = "p" /\ d.width = Absent) => Filled
  BY <1>1, <1>2, <1>4, <1>5, <1>6, <1>7, Zenon DEF AllDirectives
<1> QED
  BY <1>8, Zenon DEF FillsField, Filled

---------------------------------------------------------------------------
(* Reading a text.  Reads(text, base, v, w): who has read v before the     *)
(* text has read w behind it.                                              *)
DigitValue(c, base) ==
  IF Contains(lower_digits, c) THEN SelectInSeq(lower_digits, LAMBDA e : e = c) - 1
  ELSE IF Contains(upper_digits, c) THEN SelectInSeq(upper_digits, LAMBDA e : e = c) - 1
  ELSE base
ReadChar(base, v, c) == IF DigitValue(c, base) < base THEN v * base + DigitValue(c, base) ELSE v
Reading(f, text_, base, v) ==
  /\ f \in [0 .. Len(text_) -> Nat] /\ f[0] = v
  /\ \A k \in 1 .. Len(text_) : f[k] = ReadChar(base, f[k - 1], text_[k])
Reads(text_, base, v, w) == \E f : Reading(f, text_, base, v) /\ f[Len(text_)] = w

(* ValueOf is what somebody reads who starts with 0.                       *)
LEMMA ReadsValue ==
  ASSUME NEW s \in Seq(Glyphs), NEW base, NEW w, Reads(s, base, 0, w)
  PROVE  ValueOf(s, base) = w
<1> DEFINE n == Len(s)
           Def(g) == [k \in 0 .. n |-> IF k = 0 THEN 0
                                       ELSE IF DigitValue(s[k], base) < base THEN g[k - 1] * base + DigitValue(s[k], base)
                                       ELSE g[k - 1]]
           upto == CHOOSE g : g = Def(g)
<1>1. n \in Nat
  BY LenProperties
<1>2. PICK f : Reading(f, s, base, 0) /\ f[n] = w
  BY DEF Reads
<1>3. f \in [0 .. n -> Nat] /\ f[0] = 0 /\ \A k \in 1 .. n : f[k] = ReadChar(base, f[k - 1], s[k])
  BY <1>2 DEF Reading
<1>4. ValueOf(s, base) = upto[n]
  BY Zenon DEF ValueOf, DigitValue
<1> HIDE DEF n
<1>5. f = Def(f)
  <2>1. \A k \in 0 .. n : k = 0 \/ k \in 1 .. n
    BY <1>1, SMT
  <2>2. \A k \in 0 .. n : f[k] = IF k = 0 THEN 0
                                 ELSE IF DigitValue(s[k], base) < base THEN f[k - 1] * base + DigitValue(s[k], base)
                                 ELSE f[k - 1]
    BY <1>3, <2>1, Zenon DEF ReadChar
  <2> QED
    BY <1>3, <2>2
<1>6. upto = Def(upto)
  BY <1>5, Zenon
<1> HIDE DEF upto
<1> DEFINE D == {k \in Nat : k <= n => upto[k] = f[k]}
<1>7. 0 \in D
  <2>1. 0 \in 0 .. n
    BY <1>1, SMT
  <2>2. upto[0] = 0
    BY <1>6, <2>1, Zenon
  <2> QED
    BY <1>3, <2>2
<1>8. ASSUME NEW k \in Nat, k \in D PROVE k + 1 \in D
  <2> SUFFICES ASSUME k + 1 <= n PROVE upto[k + 1] = f[k + 1]
    BY SMT
  <2>1. k + 1 \in 0 .. n /\ k + 1 # 0 /\ (k + 1) - 1 = k /\ k <= n
    BY <1>1, SMT
  <2>2. upto[k + 1] = IF DigitValue(s[k + 1], base) < base THEN upto[k] * base + DigitValue(s[k + 1], base) ELSE upto[k]
    BY <1>6, <2>1, Zenon
  <2>3. f[k + 1] = IF DigitValue(s[k + 1], base) < base THEN f[k] * base + DigitValue(s[k + 1], base) ELSE f[k]
    BY <1>5, <2>1, Zenon
  <2>4. upto[k] = f[k]
    BY <1>8, <2>1
  <2> QED
    BY <2>2, <2>3, <2>4
<1>9. n \in D
  <2> HIDE DEF D
  <2> QED
    BY <1>1, <1>7, <1>8, SetInduction
<1>10. upto[n] = f[n]
  BY <1>1, <1>9, SMT
<1> QED
  BY <1>2, <1>4, <1>10

(* Nothing is read in the empty text,                                      *)
LEMMA ReadsNothing ==
  ASSUME NEW base, NEW v \in Nat
  PROVE  Reads(<<>>, base, v, v)
<1> DEFINE f == [k \in 0 .. 0 |-> v]
<1>1. Len(<<>>) = 0
  BY EmptySeq
<1>2. f \in [0 .. 0 -> Nat] /\ f[0] = v /\ \A k \in 1 .. 0 : FALSE
  BY SMT
<1> HIDE DEF f
<1>3. Reading(f, <<>>, base, v)
  BY <1>1, <1>2 DEF Reading
<1> QED
  BY <1>1, <1>2, <1>3 DEF Reads

(* one character is read by ReadChar,                                      *)
LEMMA ReadsOne ==
  ASSUME NEW c \in Glyphs, NEW base, NEW v \in Nat, ReadChar(base, v, c) \in Nat
  PROVE  Reads(<<c>>, base, v, ReadChar(base, v, c))
<1> DEFINE w == ReadChar(base, v, c)
           f == [k \in 0 .. 1 |-> IF k = 0 THEN v ELSE w]
<1>1. Len(<<c>>) = 1 /\ <<c>>[1] = c
  BY SMT
<1> HIDE DEF w
<1>2. w \in Nat
  BY DEF w
<1>3. f \in [0 .. 1 -> Nat] /\ f[0] = v /\ f[1] = w
  BY <1>2, SMT
<1>4. \A k \in 1 .. 1 : k = 1 /\ k - 1 = 0
  BY SMT
<1> HIDE DEF f
<1>5. Reading(f, <<c>>, base, v)
  BY <1>1, <1>3, <1>4 DEF Reading, w
<1> QED
  BY <1>1, <1>3, <1>5 DEF Reads, w

(* two texts are read one after the other,                                 *)
LEMMA ReadsConcat ==
  ASSUME NEW s \in Seq(Glyphs), NEW t \in Seq(Glyphs), NEW base, NEW u, NEW v, NEW w,
         Reads(s, base, u, v), Reads(t, base, v, w)
  PROVE  Reads(s \o t, base, u, w)
<1> DEFINE m == Len(s)
           n == Len(t)
<1>1. m \in Nat /\ n \in Nat
  BY LenProperties
<1>2. Len(s \o t) = m + n /\ \A k \in 1 .. m + n : (s \o t)[k] = IF k <= m THEN s[k] ELSE t[k - m]
  BY ConcatProperties
<1>3. PICK f : Reading(f, s, base, u) /\ f[m] = v
  BY DEF Reads
<1>4. PICK g : Reading(g, t, base, v) /\ g[n] = w
  BY DEF Reads
<1>5. f \in [0 .. m -> Nat] /\ f[0] = u /\ \A k \in 1 .. m : f[k] = ReadChar(base, f[k - 1], s[k])
  BY <1>3 DEF Reading
<1>6. g \in [0 .. n -> Nat] /\ g[0] = v /\ \A k \in 1 .. n : g[k] = ReadChar(base, g[k - 1], t[k])
  BY <1>4 DEF Reading
<1> HIDE DEF m, n
<1> DEFINE h == [k \in 0 .. m + n |-> IF k <= m THEN f[k] ELSE g[k - m]]
<1>7. h \in [0 .. m + n -> Nat]
  BY <1>1, <1>5, <1>6, SMT
<1>8. (\A k \in 0 .. m : h[k] = f[k]) /\ \A k \in 0 .. n : h[m + k] = g[k]
  <2>1. \A k \in 0 .. m : h[k] = f[k]
    BY <1>1, SMT
  <2>2. ASSUME NEW k \in 0 .. n PROVE h[m + k] = g[k]
    <3>1. CASE k = 0
      <4>1. h[m + k] = f[m]
        BY <1>1, <3>1, SMT
      <4> QED
        BY <1>3, <1>6, <3>1, <4>1
    <3>2. CASE k # 0
      BY <1>1, <3>2, SMT
    <3> QED
      BY <3>1, <3>2
  <2> QED
    BY <2>1, <2>2
<1> HIDE DEF h
<1>9. ASSUME NEW k \in 1 .. m + n PROVE h[k] = ReadChar(base, h[k - 1], (s \o t)[k])
  <2>1. CASE k <= m
    <3>1. k \in 1 .. m /\ k \in 0 .. m /\ k - 1 \in 0 .. m
      BY <1>1, <2>1, SMT
    <3>2. (s \o t)[k] = s[k]
      BY <1>2, <2>1
    <3> QED
      BY <1>5, <1>8, <3>1, <3>2
  <2>2. CASE ~(k <= m)
    <3>1. k - m \in 1 .. n /\ k - m \in 0 .. n /\ (k - m) - 1 \in 0 .. n /\ m + (k - m) = k /\ m + ((k - m) - 1) = k - 1
      BY <1>1, <2>2, SMT
    <3>2. (s \o t)[k] = t[k - m]
      BY <1>2, <2>2
    <3>3. h[k] = g[k - m] /\ h[k - 1] = g[(k - m) - 1]
      BY <1>8, <3>1
    <3> QED
      BY <1>6, <3>1, <3>2, <3>3
  <2> QED
    BY <2>1, <2>2
<1>10. h[0] = u /\ h[m + n] = w
  <2>1. 0 \in 0 .. m /\ n \in 0 .. n
    BY <1>1, SMT
  <2> QED
    BY <1>4, <1>5, <1>8, <2>1 DEF n
<1>11. Reading(h, s \o t, base, u)
  BY <1>2, <1>7, <1>9, <1>10 DEF Reading
<1> QED
  BY <1>2, <1>10, <1>11 DEF Reads

(* and a text that is read is read in two parts.                           *)
LEMMA ReadsSplit ==
  ASSUME NEW s \in Seq(Glyphs), NEW t \in Seq(Glyphs), NEW base, NEW u, NEW w, Reads(s \o t, base, u, w)
  PROVE  \E v \in Nat : Reads(s, base, u, v) /\ Reads(t, base, v, w)
<1> DEFINE m == Len(s)
           n == Len(t)
<1>1. m \in Nat /\ n \in Nat
  BY LenProperties
<1>2. Len(s \o t) = m + n /\ \A k \in 1 .. m + n : (s \o t)[k] = IF k <= m THEN s[k] ELSE t[k - m]
  BY ConcatProperties
<1>3. PICK h : Reading(h, s \o t, base, u) /\ h[m + n] = w
  BY <1>2 DEF Reads
<1>4. /\ h \in [0 .. m + n -> Nat] /\ h[0] = u
      /\ \A k \in 1 .. m + n : h[k] = ReadChar(base, h[k - 1], (s \o t)[k])
  BY <1>2, <1>3 DEF Reading
<1> HIDE DEF m, n
<1> DEFINE f == [k \in 0 .. m |-> h[k]]
           g == [k \in 0 .. n |-> h[m + k]]
<1>5. f \in [0 .. m -> Nat] /\ \A k \in 0 .. m : f[k] = h[k]
  <2>1. \A k \in 0 .. m : k \in 0 .. m + n
    BY <1>1, SMT
  <2> QED
    BY <1>4, <2>1
<1>6. g \in [0 .. n -> Nat] /\ \A k \in 0 .. n : g[k] = h[m + k]
  <2>1. \A k \in 0 .. n : m + k \in 0 .. m + n
    BY <1>1, SMT
  <2> QED
    BY <1>4, <2>1
<1> HIDE DEF f, g
<1>7. Reading(f, s, base, u)
  <2>1. ASSUME NEW k \in 1 .. m PROVE f[k] = ReadChar(base, f[k - 1], s[k])
    <3>1. k \in 1 .. m + n /\ k \in 0 .. m /\ k - 1 \in 0 .. m /\ k <= m
      BY <1>1, SMT
    <3> QED
      BY <1>2, <1>4, <1>5, <3>1
  <2>2. f[0] = u
    BY <1>1, <1>4, <1>5, 0 \in 0 .. m
  <2> QED
    BY <1>5, <2>1, <2>2 DEF Reading, m
<1>8. Reading(g, t, base, h[m])
  <2>1. ASSUME NEW k \in 1 .. n PROVE g[k] = ReadChar(base, g[k - 1], t[k])
    <3>1. m + k \in 1 .. m + n /\ k \in 0 .. n /\ k - 1 \in 0 .. n /\ ~(m + k <= m) /\ (m + k) - m = k /\ (m + k) - 1 = m + (k - 1)
      BY <1>1, SMT
    <3>2. (s \o t)[m + k] = t[k]
      BY <1>2, <3>1
    <3> QED
      BY <1>4, <1>6, <3>1, <3>2
  <2>2. g[0] = h[m]
    <3>1. 0 \in 0 .. n /\ m + 0 = m
      BY <1>1, SMT
    <3> QED
      BY <1>6, <3>1
  <2> QED
    BY <1>6, <2>1, <2>2 DEF Reading, n
<1>9. f[m] = h[m] /\ g[n] = w /\ h[m] \in Nat
  <2>1. m \in 0 .. m /\ n \in 0 .. n /\ m \in 0 .. m + n
    BY <1>1, SMT
  <2> QED
    BY <1>3, <1>4, <1>5, <1>6, <2>1
<1> QED
  BY <1>7, <1>8, <1>9 DEF Reads, m, n
---------------------------------------------------------------------------
(* The first place of a character.                                         *)
LEMMA FirstAt ==
  ASSUME NEW s, NEW c, NEW p \in 1 .. Len(s), s[p] = c, \A q \in 1 .. Len(s) : s[q] = c => p <= q, Len(s) \in Nat
  PROVE  LET I == {k \in 1 .. Len(s) : s[k] = c} IN I # {} /\ Min(I) = p
<1> DEFINE I == {k \in 1 .. Len(s) : s[k] = c}
<1>1. p \in I /\ \A q \in I : p <= q
  OBVIOUS
<1>2. \A q \in I : (\A r \in I : q <= r) => q = p
  BY <1>1, SMT
<1>3. I # {}
  BY <1>1
<1> HIDE DEF I
<1>4. Min(I) = p
  BY <1>1, <1>2, Zenon DEF Min
<1> QED
  BY <1>3, <1>4 DEF I

(* The digits differ from each other, and the capitals from the small      *)
(* ones.                                                                   *)
LEMMA LowerDistinct == Len(lower_digits) = 16 /\ \A p, q \in 1 .. 16 : lower_digits[p] = lower_digits[q] => p = q
  BY SMT DEF lower_digits
LEMMA UpperDistinct == Len(upper_digits) = 16 /\ \A p, q \in 1 .. 16 : upper_digits[p] = upper_digits[q] => p = q
  BY SMT DEF upper_digits
LEMMA UpperLower == \A k \in 1 .. 16 : IF k <= 10 THEN upper_digits[k] = lower_digits[k]
                                       ELSE \A p \in 1 .. 16 : lower_digits[p] # upper_digits[k]
  BY SMT DEF upper_digits, lower_digits

(* The value of a digit, small or capital; nothing else is a digit         *)
LEMMA DigitValues ==
  ASSUME NEW base, NEW dig \in {lower_digits, upper_digits}, NEW k \in 0 .. 15
  PROVE  DigitValue(dig[k + 1], base) = k
<1> DEFINE p == k + 1
           c == dig[p]
<1>1. p \in 1 .. 16 /\ p - 1 = k
  BY SMT
<1> HIDE DEF p
<1>2. CASE c = lower_digits[p]
  <2>1. SelectInSeq(lower_digits, LAMBDA e : e = c) = p
    <3>1. \A q \in 1 .. 16 : lower_digits[q] = c => p <= q
      <4>1. \A q \in 1 .. 16 : lower_digits[q] = c => q = p
        BY <1>1, <1>2, LowerDistinct
      <4> QED
        BY <1>1, <4>1, SMT
    <3> HIDE DEF c
    <3>2. p \in 1 .. Len(lower_digits) /\ Len(lower_digits) \in Nat
      BY <1>1, LowerDistinct
    <3>3. \A q \in 1 .. Len(lower_digits) : lower_digits[q] = c => p <= q
      BY <3>1, LowerDistinct
    <3> DEFINE I == {q \in 1 .. Len(lower_digits) : lower_digits[q] = c}
    <3>4. I # {} /\ Min(I) = p
      BY <1>2, <3>2, <3>3, FirstAt
    <3> QED
      BY <3>4 DEF SelectInSeq
  <2>2. Contains(lower_digits, c)
    BY <1>1, <1>2, LowerDistinct DEF Contains
  <2> HIDE DEF c
  <2>3. DigitValue(c, base) = p - 1
    BY <2>1, <2>2, Zenon DEF DigitValue
  <2> QED
    BY <1>1, <2>3 DEF c, p
<1>3. CASE c # lower_digits[p]
  <2>1. dig = upper_digits /\ c = upper_digits[p]
    BY <1>3
  <2>2. \A q \in 1 .. 16 : lower_digits[q] # c
    BY <1>1, <1>3, <2>1, UpperLower
  <2>3. ~Contains(lower_digits, c)
    BY <2>2, LowerDistinct DEF Contains
  <2>4. SelectInSeq(upper_digits, LAMBDA e : e = c) = p
    <3>1. \A q \in 1 .. 16 : upper_digits[q] = c => p <= q
      <4>1. \A q \in 1 .. 16 : upper_digits[q] = c => q = p
        BY <1>1, <2>1, UpperDistinct
      <4> QED
        BY <1>1, <4>1, SMT
    <3> HIDE DEF c
    <3>2. p \in 1 .. Len(upper_digits) /\ Len(upper_digits) \in Nat
      BY <1>1, UpperDistinct
    <3>3. \A q \in 1 .. Len(upper_digits) : upper_digits[q] = c => p <= q
      BY <3>1, UpperDistinct
    <3> DEFINE I == {q \in 1 .. Len(upper_digits) : upper_digits[q] = c}
    <3>4. I # {} /\ Min(I) = p
      BY <2>1, <3>2, <3>3, FirstAt
    <3> QED
      BY <3>4 DEF SelectInSeq
  <2>5. Contains(upper_digits, c)
    BY <1>1, <2>1, UpperDistinct DEF Contains
  <2> HIDE DEF c
  <2>6. DigitValue(c, base) = p - 1
    BY <2>3, <2>4, <2>5, Zenon DEF DigitValue
  <2> QED
    BY <1>1, <2>6 DEF c, p
<1> QED
  BY <1>2, <1>3

(* What is no digit has no value,                                          *)
LEMMA NoDigit ==
  ASSUME NEW base, NEW c, c \notin DigitChars
  PROVE  DigitValue(c, base) = base
<1>1. ~Contains(lower_digits, c) /\ ~Contains(upper_digits, c)
  <2>1. \A k \in 1 .. 16 : lower_digits[k] \in DigitChars /\ upper_digits[k] \in DigitChars
    BY DigitSetTypes DEF DigitSets
  <2> QED
    BY <2>1, LowerDistinct, UpperDistinct DEF Contains
<1> QED
  BY <1>1 DEF DigitValue

(* and is skipped.                                                         *)
LEMMA SkipsNoDigit ==
  ASSUME NEW base \in Bases, NEW v \in Nat, NEW c, c \notin DigitChars
  PROVE  ReadChar(base, v, c) = v
<1>1. ~(base < base)
  BY SMT DEF Bases
<1> QED
  BY <1>1, NoDigit DEF ReadChar

(* A digit of the base appends itself to the number read.                  *)
LEMMA ReadsDigit ==
  ASSUME NEW base \in Bases, NEW dig \in {lower_digits, upper_digits}, NEW v \in Nat, NEW k \in 0 .. base - 1
  PROVE  ReadChar(base, v, dig[k + 1]) = v * base + k
<1>1. k \in 0 .. 15 /\ k < base
  BY SMT DEF Bases
<1>2. DigitValue(dig[k + 1], base) = k
  BY <1>1, DigitValues
<1> QED
  BY <1>1, <1>2 DEF ReadChar

(* A zero in front of a number changes nothing,                            *)
LEMMA SkipsZero ==
  ASSUME NEW base \in Bases
  PROVE  ReadChar(base, 0, "0") = 0
<1>1. lower_digits[0 + 1] = "0"
  BY SMT DEF lower_digits
<1>2. 0 \in 0 .. base - 1 /\ 0 * base + 0 = 0
  BY SMT DEF Bases
<1>3. ReadChar(base, 0, lower_digits[0 + 1]) = 0 * base + 0
  BY <1>2, ReadsDigit
<1> QED
  BY <1>1, <1>2, <1>3

(* nor does any number of characters that are skipped.                     *)
LEMMA ReadsRepeat ==
  ASSUME NEW c \in Glyphs, NEW base, NEW v \in Nat, ReadChar(base, v, c) = v, NEW n \in Int
  PROVE  Reads(Repeat(c, n), base, v, v)
<1> DEFINE s == Repeat(c, n)
           m == Len(s)
           f == [k \in 0 .. m |-> v]
<1>1. m \in Nat
  BY RepeatType, LenProperties
<1>2. \A k \in 1 .. m : s[k] = c
  <2>1. m = Larger(n, 0)
    BY RepeatType
  <2> HIDE DEF m
  <2> QED
    BY <2>1 DEF Repeat
<1> HIDE DEF m, s
<1>3. f \in [0 .. m -> Nat] /\ f[0] = v /\ f[m] = v
  BY <1>1, SMT
<1>4. \A k \in 1 .. m : f[k] = v /\ f[k - 1] = v
  BY <1>1, SMT
<1> HIDE DEF f
<1>5. Reading(f, s, base, v)
  BY <1>2, <1>3, <1>4 DEF Reading, m
<1> QED
  BY <1>3, <1>5 DEF Reads, m, s

(* The digits of a number are read as this number.                         *)
LEMMA ReadsDigits ==
  ASSUME NEW base \in Bases, NEW dig \in {lower_digits, upper_digits}, NEW num \in Nat
  PROVE  Reads(Digits(num, base, dig), base, 0, num)
<1>0. dig \in DigitSets /\ base \in Nat /\ base >= 8
  <2>1. dig \in DigitSets
    BY DigitSetTypes
  <2>2. base \in Nat /\ base >= 8
    BY SMT DEF Bases
  <2> QED
    BY <2>1, <2>2
<1>1. \A n \in Nat : /\ n < base => Digits(n, base, dig) = <<dig[n + 1]>>
                     /\ n >= base => Digits(n, base, dig) = Append(Digits(n \div base, base, dig), dig[(n % base) + 1])
  BY <1>0, DigitsEquation
<1> DEFINE R(n) == Reads(Digits(n, base, dig), base, 0, n)
           D == {m \in Nat : \A n \in 0 .. m : R(n)}
<1>2. \A k \in 0 .. base - 1 : dig[k + 1] \in Glyphs
  <2>1. \A k \in 0 .. base - 1 : k + 1 \in 1 .. 16
    BY SMT DEF Bases
  <2> QED
    BY <1>0, <2>1, GlyphsOfText DEF DigitSets
<1>3. ASSUME NEW n \in Nat, n < base PROVE R(n)
  <2>1. n \in 0 .. base - 1 /\ 0 * base + n = n /\ 0 \in Nat
    BY <1>0, <1>3, SMT
  <2>2. ReadChar(base, 0, dig[n + 1]) = n
    <3>1. ReadChar(base, 0, dig[n + 1]) = 0 * base + n
      BY <2>1, ReadsDigit
    <3> QED
      BY <2>1, <3>1
  <2>3. dig[n + 1] \in Glyphs
    BY <1>2, <2>1
  <2>4. Reads(<<dig[n + 1]>>, base, 0, n)
    BY <2>1, <2>2, <2>3, ReadsOne
  <2> QED
    BY <1>1, <1>3, <2>4
<1>4. ASSUME NEW n \in Nat, n >= base, R(n \div base) PROVE R(n)
  <2> DEFINE q == n \div base
             r == n % base
  <2>1. q \in Nat /\ r \in 0 .. base - 1 /\ n = q * base + r
    BY Quotient
  <2> HIDE DEF q, r
  <2>2. ReadChar(base, q, dig[r + 1]) = n
    <3>1. ReadChar(base, q, dig[r + 1]) = q * base + r
      BY <2>1, ReadsDigit
    <3> QED
      BY <2>1, <3>1
  <2>3. dig[r + 1] \in Glyphs
    BY <1>2, <2>1
  <2>4. Reads(<<dig[r + 1]>>, base, q, n)
    BY <2>1, <2>2, <2>3, ReadsOne
  <2>5. Reads(Digits(q, base, dig), base, 0, q)
    BY <1>4 DEF q
  <2>6. Digits(q, base, dig) \in Seq(Glyphs) /\ <<dig[r + 1]>> \in Seq(Glyphs)
    BY <1>0, <2>1, <2>3, DigitsAreText, OneGlyph
  <2>7. Reads(Digits(q, base, dig) \o <<dig[r + 1]>>, base, 0, n)
    BY <2>4, <2>5, <2>6, ReadsConcat
  <2>8. Digits(n, base, dig) = Append(Digits(q, base, dig), dig[r + 1])
    BY <1>1, <1>4 DEF q, r
  <2>9. Append(Digits(q, base, dig), dig[r + 1]) = Digits(q, base, dig) \o <<dig[r + 1]>>
    BY <2>3, <2>6, AppendIsConcat
  <2> QED
    BY <2>7, <2>8, <2>9
<1> HIDE DEF R
<1>5. 0 \in D
  <2>1. R(0)
    BY <1>0, <1>3, SMT
  <2>2. \A n \in 0 .. 0 : n = 0
    BY SMT
  <2> QED
    BY <2>1, <2>2
<1>6. ASSUME NEW m \in Nat, m \in D PROVE m + 1 \in D
  <2> SUFFICES ASSUME NEW n \in 0 .. m + 1 PROVE R(n)
    BY SMT
  <2>0. n \in Nat
    BY SMT
  <2>1. CASE n < base
    BY <1>3, <2>0, <2>1
  <2>2. CASE n >= base
    <3>1. n \div base \in Nat /\ n \div base < n
      BY <2>0, <2>2, Quotient
    <3>2. n \div base \in 0 .. m
      BY <3>1, SMT
    <3>3. R(n \div base)
      BY <1>6, <3>2
    <3> QED
      BY <1>4, <2>0, <2>2, <3>3
  <2> QED
    BY <1>0, <2>0, <2>1, <2>2, SMT
<1>7. num \in D
  <2> HIDE DEF D
  <2> QED
    BY <1>5, <1>6, SetInduction
<1> QED
  <2>1. num \in 0 .. num
    BY SMT
  <2> QED
    BY <1>7, <2>1 DEF R

(* What is in two texts is in one of them.                                 *)
LEMMA ContainsConcat ==
  ASSUME NEW S, NEW s \in Seq(S), NEW t \in Seq(S), NEW c
  PROVE  Contains(s \o t, c) <=> Contains(s, c) \/ Contains(t, c)
<1> DEFINE m == Len(s)
           n == Len(t)
<1>1. m \in Nat /\ n \in Nat
  BY LenProperties
<1>2. Len(s \o t) = m + n /\ \A k \in 1 .. m + n : (s \o t)[k] = IF k <= m THEN s[k] ELSE t[k - m]
  BY ConcatProperties
<1> HIDE DEF m, n
<1>3. ASSUME Contains(s, c) PROVE Contains(s \o t, c)
  <2> PICK k \in 1 .. m : s[k] = c
    BY <1>3 DEF Contains, m
  <2>1. k \in 1 .. m + n /\ k <= m
    BY <1>1, SMT
  <2> QED
    BY <1>2, <2>1 DEF Contains
<1>4. ASSUME Contains(t, c) PROVE Contains(s \o t, c)
  <2> PICK k \in 1 .. n : t[k] = c
    BY <1>4 DEF Contains, n
  <2>1. m + k \in 1 .. m + n /\ ~(m + k <= m) /\ (m + k) - m = k
    BY <1>1, SMT
  <2>2. (s \o t)[m + k] = c
    BY <1>2, <2>1
  <2> QED
    BY <1>2, <2>1, <2>2 DEF Contains
<1>5. ASSUME Contains(s \o t, c) PROVE Contains(s, c) \/ Contains(t, c)
  <2> PICK k \in 1 .. m + n : (s \o t)[k] = c
    BY <1>2, <1>5 DEF Contains
  <2>1. CASE k <= m
    <3>1. k \in 1 .. m
      BY <1>1, <2>1, SMT
    <3> QED
      BY <1>2, <2>1, <3>1 DEF Contains, m
  <2>2. CASE ~(k <= m)
    <3>1. k - m \in 1 .. n
      BY <1>1, <2>2, SMT
    <3> QED
      BY <1>2, <2>2, <3>1 DEF Contains, n
  <2> QED
    BY <2>1, <2>2
<1> QED
  BY <1>3, <1>4, <1>5

(* A text holds nothing but its characters.                                *)
LEMMA ContainsNot ==
  ASSUME NEW S, NEW s \in Seq(S), NEW c, c \notin S
  PROVE  ~Contains(s, c)
  BY ElementOfSeq DEF Contains

(* A text of one character contains it alone.                              *)
LEMMA ContainsOne ==
  ASSUME NEW c, NEW e
  PROVE  Contains(<<e>>, c) <=> e = c
<1>1. Len(<<e>>) = 1 /\ <<e>>[1] = e
  BY SMT
<1>2. 1 \in 1 .. 1 /\ \A k \in 1 .. 1 : k = 1
  BY SMT
<1> QED
  BY <1>1, <1>2 DEF Contains

(* Padding holds nothing but its character.                                *)
LEMMA RepeatContains ==
  ASSUME NEW c, NEW e, NEW n \in Int, c # e
  PROVE  ~Contains(Repeat(e, n), c)
<1>1. Repeat(e, n) \in Seq({e})
  BY RepeatType
<1> QED
  BY <1>1, ContainsNot

(* Every way to fill the field leaves the body in one piece                *)
Justified(whole, before, body, pad, left, right) ==
  /\ left \in Seq(Glyphs) /\ right \in Seq(Glyphs) /\ whole = left \o body \o right
  /\ left \in {before, before \o Repeat("0", pad), Repeat(" ", pad) \o before}
  /\ right \in {<<>>, Repeat(" ", pad)}

(* Justify does one of them.                                               *)
LEMMA JustifyShape ==
  ASSUME NEW before \in Seq(Glyphs), NEW body \in Seq(Glyphs), NEW size \in Int, NEW flags
  PROVE  \E pad \in Int : \E left, right : Justified(Justify(before, body, size, flags), before, body, pad, left, right)
<1> DEFINE pad == size - Len(before) - Len(body)
           spaces == Repeat(" ", pad)
           zeros == Repeat("0", pad)
<1>1. Len(before) \in Nat /\ Len(body) \in Nat
  BY LenProperties
<1>2. pad \in Int
  BY <1>1, SMT
<1>3. spaces \in Seq(Glyphs) /\ zeros \in Seq(Glyphs) /\ <<>> \in Seq(Glyphs)
  BY <1>2, RepeatType, GlyphsOfText, EmptySeq
<1>4. Justify(before, body, size, flags) =
        (CASE "-" \in flags -> before \o body \o spaces
           [] "0" \in flags /\ ~("-" \in flags) -> before \o zeros \o body
           [] OTHER -> spaces \o before \o body)
  BY DEF Justify
<1> HIDE DEF pad
<1>5. CASE "-" \in flags
  <2>1. Justify(before, body, size, flags) = before \o body \o spaces
    BY <1>4, <1>5, Zenon
  <2>2. Justified(Justify(before, body, size, flags), before, body, pad, before, spaces)
    BY <1>3, <2>1, Zenon DEF Justified
  <2> QED
    BY <1>2, <2>2
<1>6. CASE "0" \in flags /\ ~("-" \in flags)
  <2>1. Justify(before, body, size, flags) = before \o zeros \o body
    BY <1>4, <1>6, Zenon
  <2> HIDE DEF zeros
  <2>2. before \o zeros \in Seq(Glyphs) /\ (before \o zeros) \o body \in Seq(Glyphs)
    BY <1>3, ConcatProperties
  <2>3. (before \o zeros) \o body \o <<>> = before \o zeros \o body
    BY <2>2, ConcatEmptySeq
  <2>4. Justified(Justify(before, body, size, flags), before, body, pad, before \o zeros, <<>>)
    BY <1>3, <2>1, <2>2, <2>3, Zenon DEF Justified, zeros
  <2> QED
    BY <1>2, <2>4
<1>7. CASE ~("0" \in flags) /\ ~("-" \in flags)
  <2>1. Justify(before, body, size, flags) = spaces \o before \o body
    BY <1>4, <1>7, Zenon
  <2> HIDE DEF spaces
  <2>2. spaces \o before \in Seq(Glyphs) /\ (spaces \o before) \o body \in Seq(Glyphs)
    BY <1>3, ConcatProperties
  <2>3. (spaces \o before) \o body \o <<>> = spaces \o before \o body
    BY <2>2, ConcatEmptySeq
  <2>4. Justified(Justify(before, body, size, flags), before, body, pad, spaces \o before, <<>>)
    BY <1>3, <2>1, <2>2, <2>3, Zenon DEF Justified, spaces
  <2> QED
    BY <1>2, <2>4
<1> QED
  BY <1>5, <1>6, <1>7

(* The padding is not read: spaces are skipped, zeros stand in front.      *)
LEMMA JustifiedReads ==
  ASSUME NEW whole, NEW before \in Seq(Glyphs), NEW body \in Seq(Glyphs), NEW pad \in Int, NEW left, NEW right,
         Justified(whole, before, body, pad, left, right),
         NEW base \in Bases, NEW w \in Nat, Reads(before, base, 0, 0), Reads(body, base, 0, w)
  PROVE  Reads(whole, base, 0, w)
<1> DEFINE spaces == Repeat(" ", pad)
           zeros == Repeat("0", pad)
<1>0. " " \in Glyphs /\ "0" \in Glyphs /\ " " \notin DigitChars /\ 0 \in Nat
  <2>1. " " \notin DigitChars
    BY SMT DEF DigitChars
  <2> QED
    BY <2>1, GlyphsOfText
<1>1. spaces \in Seq(Glyphs) /\ zeros \in Seq(Glyphs)
  BY <1>0, RepeatType
<1>2. \A v \in Nat : Reads(spaces, base, v, v)
  <2> TAKE v \in Nat
  <2>1. ReadChar(base, v, " ") = v
    BY <1>0, SkipsNoDigit
  <2> QED
    BY <1>0, <2>1, ReadsRepeat
<1>3. Reads(zeros, base, 0, 0)
  BY <1>0, SkipsZero, ReadsRepeat
<1>4. left \in {before, before \o zeros, spaces \o before} /\ right \in {<<>>, spaces}
  BY DEF Justified
<1> HIDE DEF spaces, zeros
<1>5. Reads(left, base, 0, 0)
  <2>1. Reads(before \o zeros, base, 0, 0) /\ Reads(spaces \o before, base, 0, 0)
    BY <1>0, <1>1, <1>2, <1>3, ReadsConcat
  <2> QED
    BY <1>4, <2>1
<1>6. Reads(right, base, w, w)
  BY <1>2, <1>4, ReadsNothing
<1>7. left \in Seq(Glyphs) /\ right \in Seq(Glyphs) /\ whole = left \o body \o right
  BY DEF Justified
<1>8. left \o body \in Seq(Glyphs) /\ Reads(left \o body, base, 0, w)
  BY <1>5, <1>7, ReadsConcat, ConcatProperties
<1> QED
  BY <1>6, <1>7, <1>8, ReadsConcat

(* The padding adds neither a sign nor a point.                            *)
LEMMA JustifiedContains ==
  ASSUME NEW whole, NEW before \in Seq(Glyphs), NEW body \in Seq(Glyphs), NEW pad \in Int, NEW left, NEW right,
         Justified(whole, before, body, pad, left, right), NEW c, c \notin {" ", "0"}
  PROVE  /\ Contains(whole, c) <=> Contains(before, c) \/ Contains(body, c)
         /\ Contains(left, c) <=> Contains(before, c)
<1> DEFINE spaces == Repeat(" ", pad)
           zeros == Repeat("0", pad)
<1>1. spaces \in Seq(Glyphs) /\ zeros \in Seq(Glyphs)
  BY RepeatType, GlyphsOfText
<1>2. ~Contains(spaces, c) /\ ~Contains(zeros, c)
  BY RepeatContains
<1>3. left \in {before, before \o zeros, spaces \o before} /\ right \in {<<>>, spaces}
  BY DEF Justified
<1> HIDE DEF spaces, zeros
<1>4. Contains(left, c) <=> Contains(before, c)
  <2>1. Contains(before \o zeros, c) <=> Contains(before, c)
    BY <1>1, <1>2, ContainsConcat
  <2>2. Contains(spaces \o before, c) <=> Contains(before, c)
    BY <1>1, <1>2, ContainsConcat
  <2> QED
    BY <1>3, <2>1, <2>2
<1>5. ~Contains(right, c)
  <2>1. ~Contains(<<>>, c)
    BY EmptySeq, ContainsNot, c \notin {}
  <2> QED
    BY <1>2, <1>3, <2>1
<1>6. left \in Seq(Glyphs) /\ right \in Seq(Glyphs) /\ whole = left \o body \o right
  BY DEF Justified
<1>7. left \o body \in Seq(Glyphs) /\ (Contains(left \o body, c) <=> Contains(left, c) \/ Contains(body, c))
  BY <1>6, ContainsConcat, ConcatProperties
<1>8. Contains(whole, c) <=> Contains(left \o body, c) \/ Contains(right, c)
  BY <1>6, <1>7, ContainsConcat
<1> QED
  BY <1>4, <1>5, <1>7, <1>8

(* Signs, spaces, the point and the x of 0x are no digits.                 *)
LEMMA NotDigits == {"-", "+", " ", ".", "x"} \cap DigitChars = {}
  BY SMT DEF DigitChars

(* A sign is skipped,                                                      *)
LEMMA ReadsSign ==
  ASSUME NEW base \in Bases, NEW v \in Nat, NEW sign \in Signs
  PROVE  Reads(sign, base, v, v)
<1>1. ASSUME NEW c \in {"-", "+", " "} PROVE Reads(<<c>>, base, v, v)
  <2>1. c \in Glyphs /\ c \notin DigitChars
    BY GlyphsOfText, NotDigits
  <2>2. ReadChar(base, v, c) = v
    BY <2>1, SkipsNoDigit
  <2> QED
    BY <2>1, <2>2, ReadsOne
<1>2. Reads(<<>>, base, v, v)
  BY ReadsNothing
<1> QED
  BY <1>1, <1>2, Zenon DEF Signs

(* and so is a prefix.                                                     *)
LEMMA ReadsPrefix ==
  ASSUME NEW base \in Bases, NEW flags
  PROVE  Reads(Prefix(base, flags), base, 0, 0)
<1>0. 0 \in Nat /\ "0" \in Glyphs /\ "x" \in Glyphs /\ "x" \notin DigitChars
  BY GlyphsOfText, NotDigits
<1>1. Reads(<<>>, base, 0, 0)
  BY <1>0, ReadsNothing
<1>2. Reads(<<"0">>, base, 0, 0)
  <2>1. ReadChar(base, 0, "0") = 0
    BY SkipsZero
  <2> QED
    BY <1>0, <2>1, ReadsOne
<1>3. Reads(<<"x">>, base, 0, 0)
  <2>1. ReadChar(base, 0, "x") = 0
    BY <1>0, SkipsNoDigit
  <2> QED
    BY <1>0, <2>1, ReadsOne
<1>4. <<"0">> \o <<"x">> = <<"0", "x">>
  <2> DEFINE s == <<"0">>
             t == <<"x">>
             both == <<"0", "x">>
  <2>1. s \in Seq(Glyphs) /\ t \in Seq(Glyphs) /\ both \in Seq(Glyphs)
    BY <1>0, OneGlyph, TwoGlyphs
  <2>2. Len(s) = 1 /\ Len(t) = 1 /\ s[1] = "0" /\ t[1] = "x" /\ Len(both) = 2 /\ both[1] = "0" /\ both[2] = "x"
    BY SMT
  <2> HIDE DEF s, t, both
  <2>3. s \o t \in Seq(Glyphs) /\ Len(s \o t) = Len(s) + Len(t)
        /\ \A k \in 1 .. Len(s) + Len(t) : (s \o t)[k] = IF k <= Len(s) THEN s[k] ELSE t[k - Len(s)]
    BY <2>1, ConcatProperties
  <2>4. Len(s \o t) = 2 /\ (s \o t)[1] = "0" /\ (s \o t)[2] = "x"
    BY <2>2, <2>3, SMT
  <2>5. \A k \in 1 .. 2 : k = 1 \/ k = 2
    BY SMT
  <2>6. \A k \in 1 .. Len(s \o t) : (s \o t)[k] = both[k]
    BY <2>2, <2>4, <2>5
  <2>7. s \o t = both
    BY <2>1, <2>2, <2>3, <2>4, <2>6, SeqEqual
  <2> QED
    BY <2>7 DEF s, t, both
<1>5. Reads(<<"0", "x">>, base, 0, 0)
  <2>1. <<"0">> \in Seq(Glyphs) /\ <<"x">> \in Seq(Glyphs)
    BY <1>0, OneGlyph
  <2>2. Reads(<<"0">> \o <<"x">>, base, 0, 0)
    BY <1>2, <1>3, <2>1, ReadsConcat
  <2> QED
    BY <1>4, <2>2
<1> QED
  BY <1>1, <1>2, <1>5, PrefixType, Zenon

(* There is a minus sign in front of negative numbers, and of no other.    *)
LEMMA SignContains ==
  ASSUME NEW negative \in BOOLEAN, NEW flags
  PROVE  /\ Contains(SignOf(negative, flags), "-") <=> "SIGN" \in flags /\ negative
         /\ ~Contains(SignOf(negative, flags), ".")
<1>1. ~Contains(<<>>, "-") /\ ~Contains(<<>>, ".")
  BY EmptySeq, ContainsNot, "-" \notin {}, "." \notin {}
<1>2. Contains(<<"-">>, "-") /\ ~Contains(<<"+">>, "-") /\ ~Contains(<<" ">>, "-")
  BY ContainsOne, "+" # "-", " " # "-"
<1>3. ~Contains(<<"-">>, ".") /\ ~Contains(<<"+">>, ".") /\ ~Contains(<<" ">>, ".")
  BY ContainsOne, "+" # ".", " " # ".", "-" # "."
<1>4. CASE "SIGN" \notin flags
  BY <1>1, <1>4, Zenon DEF SignOf
<1>5. CASE "SIGN" \in flags /\ negative
  BY <1>2, <1>3, <1>5, Zenon DEF SignOf
<1>6. CASE "SIGN" \in flags /\ ~negative
  <2>1. SignOf(negative, flags) = IF "+" \in flags THEN <<"+">> ELSE Has(flags, " ")
    BY <1>6, Zenon DEF SignOf
  <2>2. SignOf(negative, flags) \in {<<"+">>, <<" ">>, <<>>}
    BY <2>1, Zenon DEF Has
  <2> QED
    BY <1>1, <1>2, <1>3, <1>6, <2>2, Zenon
<1> QED
  BY <1>4, <1>5, <1>6

(* What number makes of a number reads back as its magnitude, with a minus *)
(* sign if it is negative                                                  *)
LEMMA NumberReads ==
  ASSUME NEW num \in 0 .. LongSize - 1, NEW base \in Bases, NEW size \in Int, NEW precision \in Int, NEW flags
  PROVE  /\ ValueOf(number(num, base, size, precision, flags), base) = Magnitude(num, flags)
         /\ Contains(number(num, base, size, precision, flags), "-") <=> Negative(num, flags)
<1> DEFINE before == Before(num, base, flags)
           body == Body(num, base, precision, flags)
           text_ == number(num, base, size, precision, flags)
           sign == SignOf(Negative(num, flags), flags)
           prefix == Prefix(base, flags)
           zeros == Zeros(num, base, precision, flags)
           digits == NumberDigits(num, base, flags)
           w == Magnitude(num, flags)
<1>0. Negative(num, flags) \in BOOLEAN /\ w \in Nat /\ 0 \in Nat
  BY NumberType DEF Negative
<1>1. zeros \in Seq(Glyphs) /\ digits \in Seq(Glyphs) /\ before \in Seq(Glyphs) /\ body \in Seq(Glyphs)
  BY NumberType
<1>2. sign \in Signs /\ sign \in Seq(Glyphs)
  BY <1>0, SignType, SignsAreText
<1>3. prefix \in {<<>>, <<"0">>, <<"0", "x">>}
  BY PrefixType
<1>4. prefix \in Seq({"0", "x"})
  <2>1. <<>> \in Seq({"0", "x"})
    BY EmptySeq
  <2>2. <<"0">> \in Seq({"0", "x"}) /\ <<"0", "x">> \in Seq({"0", "x"})
    BY SMT
  <2> QED
    BY <1>3, <2>1, <2>2
<1>5. prefix \in Seq(Glyphs)
  <2>1. {"0", "x"} \subseteq Glyphs
    BY GlyphsOfText
  <2> QED
    BY <1>4, <2>1, SeqMonotonic
<1>6. zeros \in Seq({"0"})
  <2>1. Len(digits) \in Nat
    BY <1>1, LenProperties
  <2>2. precision - Len(digits) \in Int
    BY <2>1, SMT
  <2> QED
    BY <2>2, RepeatType DEF Zeros
<1>7. Reads(zeros, base, 0, 0)
  <2>1. Len(digits) \in Nat
    BY <1>1, LenProperties
  <2>2. precision - Len(digits) \in Int
    BY <2>1, SMT
  <2>3. ReadChar(base, 0, "0") = 0 /\ "0" \in Glyphs
    BY SkipsZero, GlyphsOfText
  <2> QED
    BY <1>0, <2>2, <2>3, ReadsRepeat DEF Zeros
<1>8. Reads(digits, base, 0, w)
  <2>1. Sets(flags) \in {lower_digits, upper_digits}
    BY DEF Sets
  <2> QED
    BY <1>0, <2>1, ReadsDigits DEF NumberDigits
<1>9. Reads(before, base, 0, 0)
  <2>1. Reads(sign, base, 0, 0) /\ Reads(prefix, base, 0, 0)
    BY <1>0, <1>2, ReadsSign, ReadsPrefix
  <2> HIDE DEF sign, prefix
  <2>2. Reads(sign \o prefix, base, 0, 0)
    BY <1>2, <1>5, <2>1, ReadsConcat
  <2> QED
    BY <2>2 DEF Before, sign, prefix
<1>10. Reads(body, base, 0, w)
  <2> HIDE DEF zeros, digits, w
  <2>1. Reads(zeros \o digits, base, 0, w)
    BY <1>1, <1>7, <1>8, ReadsConcat
  <2> QED
    BY <2>1 DEF Body, zeros, digits
<1>11. Contains(before, "-") <=> Negative(num, flags)
  <2>1. Contains(sign, "-") <=> Negative(num, flags)
    BY <1>0, SignContains DEF Negative
  <2>2. ~Contains(prefix, "-")
    BY <1>4, ContainsNot, "-" \notin {"0", "x"}
  <2>3. Contains(sign \o prefix, "-") <=> Contains(sign, "-") \/ Contains(prefix, "-")
    BY <1>2, <1>5, ContainsConcat
  <2> QED
    BY <2>1, <2>2, <2>3 DEF Before
<1>12. ~Contains(body, "-")
  <2>1. digits \in Seq(DigitChars)
    BY <1>0, NumberType, DigitsAreText DEF NumberDigits
  <2>2. ~Contains(digits, "-")
    BY <2>1, NotDigits, ContainsNot
  <2>3. ~Contains(zeros, "-")
    BY <1>6, ContainsNot, "-" \notin {"0"}
  <2>4. Contains(zeros \o digits, "-") <=> Contains(zeros, "-") \/ Contains(digits, "-")
    BY <1>1, ContainsConcat
  <2> QED
    BY <2>2, <2>3, <2>4 DEF Body
<1>13. text_ = Justify(before, body, size, flags)
  BY NumberParts
<1>14. text_ \in Seq(Glyphs)
  BY NumberIsText
<1> HIDE DEF before, body, text_, w
<1>15. PICK pad \in Int : \E left, right : Justified(text_, before, body, pad, left, right)
  BY <1>1, <1>13, JustifyShape
<1>16. PICK left, right : Justified(text_, before, body, pad, left, right)
  BY <1>15
<1>17. Reads(text_, base, 0, w)
  BY <1>0, <1>1, <1>9, <1>10, <1>16, JustifiedReads
<1>18. Contains(text_, "-") <=> Contains(before, "-") \/ Contains(body, "-")
  BY <1>1, <1>16, JustifiedContains, "-" \notin {" ", "0"}
<1>19. ValueOf(text_, base) = w
  BY <1>14, <1>17, ReadsValue
<1> QED
  BY <1>11, <1>12, <1>18, <1>19 DEF text_, w

(* An integer reads back as itself.                                        *)
LEMMA IntegerPrinted ==
  ASSUME NEW d \in Directives(IntegerConversions, 0 .. LongSize - 1)
  PROVE  PrintsInteger(d, ee_vsprintf(d))
<1> DEFINE flags == AllFlags(d)
           base == Base(d.conv)
           text_ == ee_vsprintf(d)
<1>1. field_width(d) \in Int /\ PrecisionOf(d) \in Int /\ d.conv \in IntegerConversions /\ d.arg \in 0 .. LongSize - 1
  BY DirectiveType
<1>2. base \in Bases
  BY <1>1, BaseType
<1>3. d.conv = "p" => base = 16
  BY Zenon DEF Base
<1>4. PICK size \in Int, f \in {flags, flags \cup {"0"}} : text_ = number(d.arg, base, size, PrecisionOf(d), f)
  <2> HIDE DEF flags, base, text_
  <2>1. text_ = IF d.conv = "p" /\ field_width(d) = Absent
                THEN number(d.arg, 16, 8, PrecisionOf(d), flags \cup {"0"})
                ELSE number(d.arg, base, field_width(d), PrecisionOf(d), flags)
    BY <1>1, NumberText, Zenon DEF flags, base, text_
  <2>2. CASE d.conv = "p" /\ field_width(d) = Absent
    <3>1. text_ = number(d.arg, base, 8, PrecisionOf(d), flags \cup {"0"})
      BY <1>3, <2>1, <2>2, Zenon
    <3>2. 8 \in Int
      OBVIOUS
    <3> QED
      BY <3>1, <3>2, Zenon
  <2>3. CASE ~(d.conv = "p" /\ field_width(d) = Absent)
    BY <1>1, <2>1, <2>3, Zenon
  <2> QED
    BY <2>2, <2>3
<1>5. "SIGN" \in f <=> d.conv \in {"d", "i"}
  <2>1. d.flags \subseteq {"-", "+", " ", "#", "0"}
    BY DEF Directives
  <2>2. d.conv # "f"
    BY <1>1, SMT DEF IntegerConversions
  <2>3. "SIGN" \notin d.flags /\ "SIGN" \notin {"-"} /\ "SIGN" \notin {"UPPERCASE"} /\ "SIGN" \notin {"0"}
    BY <2>1
  <2>4. "SIGN" \in flags <=> d.conv \in {"d", "i"}
    BY <2>2, <2>3, Zenon DEF AllFlags
  <2> HIDE DEF flags
  <2> QED
    BY <2>3, <2>4, Zenon
<1> DEFINE num == d.arg
<1> HIDE DEF base, text_, flags
<1>6. ValueOf(text_, base) = Magnitude(num, f) /\ (Contains(text_, "-") <=> Negative(num, f))
  BY <1>1, <1>2, <1>4, NumberReads
<1>7. Signed(text_, ValueOf(text_, base)) = IF d.conv \in {"d", "i"} THEN LongValue(num) ELSE num
  <2>0. num \in Int /\ LongSize \in Int
    BY <1>1, PrintfAssumption, SMT
  <2>1. CASE Negative(num, f)
    <3>1. Signed(text_, ValueOf(text_, base)) = -(LongSize - num)
      BY <1>6, <2>1, Zenon DEF Signed, Magnitude
    <3>2. LongValue(num) = num - LongSize /\ d.conv \in {"d", "i"}
      BY <1>5, <2>1, Zenon DEF Negative, LongValue
    <3>3. -(LongSize - num) = num - LongSize
      BY <2>0, SMT
    <3> QED
      BY <3>1, <3>2, <3>3, Zenon
  <2>2. CASE ~Negative(num, f)
    <3>1. Signed(text_, ValueOf(text_, base)) = num
      BY <1>6, <2>2, Zenon DEF Signed, Magnitude
    <3>2. d.conv \in {"d", "i"} => LongValue(num) = num
      BY <1>5, <2>2, Zenon DEF Negative, LongValue
    <3> QED
      BY <3>1, <3>2, Zenon
  <2> QED
    BY <2>1, <2>2
<1> QED
  BY <1>7, Zenon DEF PrintsInteger, base, text_
---------------------------------------------------------------------------
(* Laws of the quotient.                                                   *)
LEMMA DivDiv ==
  ASSUME NEW a \in Nat, NEW b \in Nat \ {0}, NEW c \in Nat \ {0}
  PROVE  (a \div b) \div c = a \div (b * c)
  BY SMT

LEMMA DivCancel ==
  ASSUME NEW a \in Nat, NEW b \in Nat \ {0}, NEW c \in Nat \ {0}
  PROVE  (a * c) \div (b * c) = a \div b
  BY SMT

LEMMA DivShift ==
  ASSUME NEW a \in Nat, NEW b \in Nat \ {0}, NEW c \in Nat
  PROVE  (a \div b) + c = (a + c * b) \div b
  BY SMT

(* Powers multiply.                                                        *)
LEMMA PowSum == \A a, b \in Nat : Pow10(a + b) = Pow10(a) * Pow10(b)
<1> SUFFICES ASSUME NEW a \in Nat PROVE \A b \in Nat : Pow10(a + b) = Pow10(a) * Pow10(b)
  OBVIOUS
<1> DEFINE D == {b \in Nat : Pow10(a + b) = Pow10(a) * Pow10(b)}
<1>1. 0 \in D
  <2>1. Pow10(0) = 1 /\ Pow10(a) \in Nat /\ a + 0 = a
    BY Powers, SMT
  <2>2. Pow10(a + 0) = Pow10(a) * Pow10(0)
    BY <2>1, SMT
  <2> QED
    BY <2>2
<1>2. ASSUME NEW n \in Nat, n \in D PROVE n + 1 \in D
  <2>1. Pow10(a + n) = Pow10(a) * Pow10(n)
    BY <1>2
  <2>2. a + (n + 1) = (a + n) + 1 /\ a + n \in Nat /\ n + 1 \in Nat
    BY SMT
  <2>3. Pow10((a + n) + 1) = 10 * Pow10(a + n) /\ Pow10(n + 1) = 10 * Pow10(n)
    BY <2>2, Powers
  <2>4. Pow10(a) \in Nat /\ Pow10(n) \in Nat
    BY Powers
  <2>5. Pow10(a + (n + 1)) = Pow10(a) * Pow10(n + 1)
    BY <2>1, <2>2, <2>3, <2>4, SMT
  <2> QED
    BY <2>2, <2>5
<1>3. Nat \subseteq D
  <2> HIDE DEF D
  <2> QED
    BY <1>1, <1>2, SetInduction
<1> QED
  BY <1>3

(* A number has so many digits                                             *)
LEMMA DigitsBound == \A n \in Nat : n < Pow10(Len(Digits(n, 10, lower_digits)))
<1> DEFINE R(n) == n < Pow10(Len(Digits(n, 10, lower_digits)))
           D == {m \in Nat : \A n \in 0 .. m : R(n)}
<1>0. 10 \in Bases /\ lower_digits \in DigitSets
  BY DigitSetTypes, Zenon DEF Bases
<1>1. \A n \in Nat : /\ Digits(n, 10, lower_digits) \in Seq(DigitChars)
                     /\ n < 10 => Digits(n, 10, lower_digits) = <<lower_digits[n + 1]>>
                     /\ n >= 10 => Digits(n, 10, lower_digits) =
                          Append(Digits(n \div 10, 10, lower_digits), lower_digits[(n % 10) + 1])
  BY <1>0, DigitsEquation
<1>2. ASSUME NEW n \in Nat, n < 10 PROVE R(n)
  <2>1. Len(Digits(n, 10, lower_digits)) = 1
    <3> DEFINE c == lower_digits[n + 1]
    <3>1. Digits(n, 10, lower_digits) = <<c>>
      BY <1>1, <1>2
    <3>2. Len(<<c>>) = 1
      BY SMT
    <3> QED
      BY <3>1, <3>2
  <2>2. Pow10(1) = 10
    <3>1. Pow10(0 + 1) = 10 * Pow10(0) /\ Pow10(0) = 1
      BY Powers
    <3>2. 0 + 1 = 1 /\ 10 * 1 = 10
      BY SMT
    <3> QED
      BY <3>1, <3>2
  <2> QED
    BY <1>2, <2>1, <2>2
<1>3. ASSUME NEW n \in Nat, n >= 10, R(n \div 10) PROVE R(n)
  <2> DEFINE q == n \div 10
             l == Len(Digits(q, 10, lower_digits))
  <2>1. q \in Nat /\ n % 10 \in 0 .. 9 /\ n < 10 * q + 10
    BY SMT
  <2>2. Digits(q, 10, lower_digits) \in Seq(DigitChars)
    BY <1>1, <2>1
  <2>3. lower_digits[(n % 10) + 1] \in DigitChars
    <3>1. (n % 10) + 1 \in 1 .. 16
      BY <2>1, SMT
    <3> QED
      BY <1>0, <3>1 DEF DigitSets
  <2>4. l \in Nat
    BY <2>2, LenProperties
  <2>5. Len(Digits(n, 10, lower_digits)) = l + 1
    <3> DEFINE c == lower_digits[(n % 10) + 1]
               before == Digits(q, 10, lower_digits)
    <3>1. Digits(n, 10, lower_digits) = Append(before, c)
      BY <1>1, <1>3
    <3>2. before \in Seq(DigitChars) /\ c \in DigitChars /\ l = Len(before)
      BY <2>2, <2>3
    <3> HIDE DEF before, c, l
    <3>3. Len(Append(before, c)) = l + 1
      BY <3>2, AppendProperties
    <3> QED
      BY <3>1, <3>3
  <2>6. q < Pow10(l)
    BY <1>3
  <2>7. Pow10(l + 1) = 10 * Pow10(l) /\ Pow10(l) \in Nat
    BY <2>4, Powers
  <2> HIDE DEF q, l
  <2>8. n < Pow10(l + 1)
    BY <2>1, <2>6, <2>7, SMT
  <2> QED
    BY <2>5, <2>8
<1> HIDE DEF R
<1>5. 0 \in D
  <2>1. R(0)
    BY <1>2, SMT
  <2>2. \A n \in 0 .. 0 : n = 0
    BY SMT
  <2> QED
    BY <2>1, <2>2
<1>6. ASSUME NEW m \in Nat, m \in D PROVE m + 1 \in D
  <2> SUFFICES ASSUME NEW n \in 0 .. m + 1 PROVE R(n)
    BY SMT
  <2>0. n \in Nat
    BY SMT
  <2>1. CASE n < 10
    BY <1>2, <2>0, <2>1
  <2>2. CASE n >= 10
    <3>1. n \div 10 \in 0 .. m
      BY <2>0, <2>2, SMT
    <3>2. R(n \div 10)
      BY <1>6, <3>1
    <3> QED
      BY <1>3, <2>0, <2>2, <3>2
  <2> QED
    BY <2>0, <2>1, <2>2, SMT
<1>7. Nat \subseteq D
  <2> HIDE DEF D
  <2> QED
    BY <1>5, <1>6, SetInduction
<1> QED
  <2> SUFFICES ASSUME NEW n \in Nat PROVE R(n)
    BY DEF R
  <2>1. n \in 0 .. n
    BY SMT
  <2> QED
    BY <1>7, <2>1

(* Where the first digit of a decimal number is                            *)
LEMMA FirstDigitBound ==
  ASSUME NEW v \in Decimals, NEW a \in Nat, a + FirstDigit(v) \in Nat
  PROVE  v.units * Pow10(a) < Pow10(v.scale) * Pow10(a + FirstDigit(v))
<1> DEFINE u == v.units
           sc == v.scale
           S == Pow10(sc)
           W == Whole(v)
           R == Rest(v)
           E == FirstDigit(v)
<1>0. u \in Nat /\ sc \in Nat
  BY DEF Decimals
<1>1. S \in Nat \ {0} /\ Pow10(a) \in Nat \ {0} /\ Pow10(a + E) \in Nat \ {0}
  BY <1>0, Powers
<1>2. W \in Nat /\ R \in 0 .. S - 1 /\ u = W * S + R
  BY <1>0, <1>1, Division DEF Whole, Rest
<1>3. E = IF W # 0 THEN Len(Digits(W, 10, lower_digits))
          ELSE IF R = 0 THEN 0 ELSE Len(Digits(R, 10, lower_digits)) - sc
  BY DEF FirstDigit
<1>4. lower_digits \in DigitSets /\ 10 \in Bases
  BY DigitSetTypes, Zenon DEF Bases
<1> HIDE DEF u, sc, S, W, R, E
<1>5. CASE W # 0
  <2>1. Digits(W, 10, lower_digits) \in Seq(DigitChars)
    BY <1>2, <1>4, DigitsAreText
  <2>2. E \in Nat /\ W < Pow10(E)
    BY <1>2, <1>3, <1>5, <2>1, DigitsBound, LenProperties
  <2>3. Pow10(a + E) = Pow10(a) * Pow10(E) /\ Pow10(E) \in Nat
    BY <2>2, PowSum, Powers
  <2>4. u < S * Pow10(E)
    <3>1. W + 1 <= Pow10(E)
      BY <1>2, <2>2, <2>3, SMT
    <3>2. (W + 1) * S <= Pow10(E) * S
      BY <1>1, <1>2, <2>3, <3>1, SMT
    <3>3. u < (W + 1) * S
      BY <1>1, <1>2, SMT
    <3> QED
      BY <1>0, <1>1, <1>2, <2>3, <3>2, <3>3, SMT
  <2>5. u * Pow10(a) < (S * Pow10(E)) * Pow10(a)
    BY <1>0, <1>1, <2>3, <2>4, SMT
  <2>6. (S * Pow10(E)) * Pow10(a) = S * Pow10(a + E)
    BY <1>1, <2>3, SMT
  <2> QED
    BY <2>5, <2>6 DEF u, S, E, sc
<1>6. CASE W = 0 /\ R = 0
  <2>1. u = 0
    BY <1>1, <1>2, <1>6, SMT
  <2>2. u * Pow10(a) < S * Pow10(a + E)
    BY <1>1, <2>1, SMT
  <2> QED
    BY <2>2 DEF u, S, E, sc
<1>7. CASE W = 0 /\ R # 0
  <2> DEFINE L == Len(Digits(R, 10, lower_digits))
  <2>0. R \in Nat
    BY <1>1, <1>2, SMT
  <2>1. Digits(R, 10, lower_digits) \in Seq(DigitChars)
    BY <1>4, <2>0, DigitsAreText
  <2>2. L \in Nat /\ R < Pow10(L)
    BY <2>0, <2>1, DigitsBound, LenProperties
  <2>3. E = L - sc
    BY <1>3, <1>7
  <2> HIDE DEF L
  <2>4. u = R
    BY <1>1, <1>2, <1>7, SMT
  <2>5. sc + (a + E) = a + L /\ a + E \in Nat
    BY <1>0, <2>2, <2>3, SMT DEF E
  <2>6. S * Pow10(a + E) = Pow10(a) * Pow10(L)
    <3>1. Pow10(sc + (a + E)) = S * Pow10(a + E)
      BY <1>0, <2>5, PowSum DEF S
    <3>2. Pow10(a + L) = Pow10(a) * Pow10(L)
      BY <2>2, PowSum
    <3> QED
      BY <2>5, <3>1, <3>2
  <2>7. Pow10(L) \in Nat
    BY <2>2, Powers
  <2>8. u * Pow10(a) < Pow10(a) * Pow10(L)
    BY <1>0, <1>1, <2>2, <2>4, <2>7, SMT
  <2> QED
    BY <2>6, <2>8 DEF u, S, E, sc
<1> QED
  BY <1>5, <1>6, <1>7

(* The decimal number of nd places nearest to v, halves up                 *)
Nearest(v, nd) == (2 * v.units * Pow10(nd) + Pow10(v.scale)) \div (2 * Pow10(v.scale))

(* Adding 5 to the digit behind the last one rounds                        *)
LEMMA KeptRounds ==
  ASSUME NEW v \in Decimals, NEW nd \in Nat
  PROVE  (Kept(v, nd) + 5) \div 10 = Nearest(v, nd)
<1> DEFINE u == v.units
           sc == v.scale
           S == Pow10(sc)
           N == Pow10(nd)
           sh == sc - nd - 1
<1>0. u \in Nat /\ sc \in Nat
  BY DEF Decimals
<1>1. S \in Nat \ {0} /\ N \in Nat \ {0} /\ sh \in Int
  BY <1>0, Powers, SMT
<1>2. Kept(v, nd) = IF sh >= 0 THEN u \div Pow10(sh) ELSE u * Pow10(-sh)
  BY DEF Kept
<1>3. Nearest(v, nd) = (2 * u * N + S) \div (2 * S)
  BY DEF Nearest
<1>4. CASE sh >= 0
  <2> DEFINE a == Pow10(sh)
  <2>1. sh \in Nat /\ nd + 1 \in Nat /\ sc = sh + (nd + 1)
    BY <1>0, <1>1, <1>4, SMT
  <2>2. a \in Nat \ {0} /\ S = a * Pow10(nd + 1) /\ Pow10(nd + 1) = 10 * N
    BY <2>1, PowSum, Powers
  <2> HIDE DEF a
  <2>3. Kept(v, nd) = u \div a
    BY <1>2, <1>4 DEF a
  <2> HIDE DEF u, sc, S, N, sh
  <2>4. (u \div a) + 5 = (u + 5 * a) \div a
    BY <1>0, <2>2, DivShift, 5 \in Nat
  <2>5. u + 5 * a \in Nat /\ 10 \in Nat \ {0} /\ 2 * N \in Nat \ {0} /\ a * 10 \in Nat \ {0}
    BY <1>0, <1>1, <2>2, SMT
  <2>6. ((u + 5 * a) \div a) \div 10 = (u + 5 * a) \div (a * 10)
    BY <2>2, <2>5, DivDiv
  <2>7. ((u + 5 * a) * (2 * N)) \div ((a * 10) * (2 * N)) = (u + 5 * a) \div (a * 10)
    BY <2>5, DivCancel
  <2>8. 2 * u * N + S = (u + 5 * a) * (2 * N) /\ 2 * S = (a * 10) * (2 * N)
    BY <1>0, <1>1, <2>2, SMT
  <2> QED
    BY <1>3, <2>3, <2>4, <2>6, <2>7, <2>8
<1>5. CASE ~(sh >= 0)
  <2> DEFINE j == -sh - 1
             b == Pow10(j)
  <2>1. j \in Nat /\ nd = sc + j /\ -sh = j + 1
    BY <1>0, <1>1, <1>5, SMT
  <2>2. b \in Nat \ {0} /\ N = S * b /\ Pow10(-sh) = 10 * b
    <3> HIDE DEF j
    <3>1. Pow10(j + 1) = 10 * Pow10(j) /\ Pow10(j) \in Nat \ {0}
      BY <2>1, Powers
    <3>2. Pow10(sc + j) = Pow10(sc) * Pow10(j)
      BY <1>0, <2>1, PowSum
    <3> QED
      BY <2>1, <3>1, <3>2
  <2> HIDE DEF j, b
  <2>3. Kept(v, nd) = u * (10 * b)
    BY <1>2, <1>5, <2>2
  <2> HIDE DEF u, sc, S, N, sh
  <2>4. (u * (10 * b) + 5) \div 10 = u * b
    <3> DEFINE z == u * b
    <3>1. z \in Nat /\ u * (10 * b) = 10 * z
      BY <1>0, <2>2, SMT
    <3> HIDE DEF z
    <3>2. (10 * z + 5) \div 10 = z
      BY <3>1, SMT
    <3> QED
      BY <3>1, <3>2 DEF z
  <2>5. 2 * u * N + S = (2 * (u * b) + 1) * S
    BY <1>0, <1>1, <2>2, SMT
  <2>6. 2 * (u * b) + 1 \in Nat /\ 2 \in Nat \ {0}
    BY <1>0, <2>2, SMT
  <2>7. ((2 * (u * b) + 1) * S) \div (2 * S) = (2 * (u * b) + 1) \div 2
    BY <1>1, <2>6, DivCancel
  <2>8. (2 * (u * b) + 1) \div 2 = u * b
    <3> DEFINE z == u * b
    <3>1. z \in Nat
      BY <1>0, <2>2, SMT
    <3> HIDE DEF z
    <3>2. (2 * z + 1) \div 2 = z
      BY <3>1, SMT
    <3> QED
      BY <3>2 DEF z
  <2> QED
    BY <1>3, <2>3, <2>4, <2>5, <2>7, <2>8
<1> QED
  BY <1>4, <1>5

(* The digits to keep, and the one behind them                             *)
LEMMA KeptBound ==
  ASSUME NEW v \in Decimals, NEW nd \in Nat, Count(v, nd) \in Nat
  PROVE  Kept(v, nd) < Pow10(Count(v, nd) + 1)
<1> DEFINE u == v.units
           sc == v.scale
           S == Pow10(sc)
           sh == sc - nd - 1
           K == Kept(v, nd)
           n == Count(v, nd)
<1>0. u \in Nat /\ sc \in Nat /\ K \in Nat
  BY DecimalParts DEF Decimals
<1>1. S \in Nat \ {0} /\ sh \in Int /\ nd + 1 \in Nat /\ Pow10(nd + 1) \in Nat \ {0} /\ Pow10(n + 1) \in Nat
  <2>1. nd + 1 \in Nat /\ n + 1 \in Nat
    BY SMT
  <2> QED
    BY <1>0, <2>1, Powers, SMT
<1>2. K = IF sh >= 0 THEN u \div Pow10(sh) ELSE u * Pow10(-sh)
  BY DEF Kept
<1>3. u * Pow10(nd + 1) < S * Pow10(n + 1)
  <2>1. FirstDigit(v) \in Int /\ n = nd + FirstDigit(v)
    BY DecimalParts DEF Count
  <2>2. (nd + 1) + FirstDigit(v) = n + 1 /\ (nd + 1) + FirstDigit(v) \in Nat
    <3> HIDE DEF n
    <3>1. n \in Nat
      BY DEF n
    <3> QED
      BY <2>1, <3>1, SMT
  <2>3. v.units * Pow10(nd + 1) < Pow10(v.scale) * Pow10((nd + 1) + FirstDigit(v))
    BY <1>1, <2>2, FirstDigitBound
  <2> QED
    BY <2>2, <2>3
<1>4. K * S <= u * Pow10(nd + 1)
  <2>1. CASE sh >= 0
    <3> DEFINE a == Pow10(sh)
    <3>1. sh \in Nat /\ sc = sh + (nd + 1)
      BY <1>0, <1>1, <2>1, SMT
    <3>2. a \in Nat \ {0} /\ S = a * Pow10(nd + 1)
      BY <1>1, <3>1, PowSum, Powers
    <3> DEFINE b == Pow10(nd + 1)
    <3>3. b \in Nat
      BY <1>1
    <3>4. K = u \div a
      BY <1>2, <2>1
    <3> HIDE DEF a, b, u, S, K
    <3>5. K * a <= u
      BY <1>0, <3>2, <3>4, SMT
    <3>6. (K * a) * b <= u * b
      BY <1>0, <3>2, <3>3, <3>5, SMT
    <3>7. K * S = (K * a) * b
      BY <1>0, <3>2, <3>3, SMT DEF b
    <3> QED
      BY <3>6, <3>7 DEF b
  <2>2. CASE ~(sh >= 0)
    <3>1. -sh \in Nat /\ sc + (-sh) = nd + 1
      BY <1>0, <1>1, <2>2, SMT
    <3>2. Pow10(nd + 1) = S * Pow10(-sh) /\ Pow10(-sh) \in Nat
      <4> HIDE DEF sh
      <4>1. Pow10(sc + (-sh)) = S * Pow10(-sh) /\ Pow10(-sh) \in Nat
        BY <1>0, <3>1, PowSum, Powers
      <4> QED
        BY <3>1, <4>1
    <3>3. K = u * Pow10(-sh)
      BY <1>2, <2>2
    <3> DEFINE p == Pow10(-sh)
    <3>4. p \in Nat
      BY <3>2
    <3>5. K * S = u * (S * p)
      <4>1. K = u * p
        BY <3>3
      <4> HIDE DEF p, u, S, K
      <4> QED
        BY <1>0, <1>1, <3>4, <4>1, SMT
    <3>6. K * S = u * Pow10(nd + 1)
      BY <3>2, <3>5
    <3>7. u * Pow10(nd + 1) \in Int
      <4> DEFINE q == Pow10(nd + 1)
      <4>1. q \in Int
        BY <1>1
      <4> HIDE DEF q, u
      <4>2. u * q \in Int
        BY <1>0, <4>1, SMT
      <4> QED
        BY <4>2 DEF q
    <3> HIDE DEF K, S, u
    <3> QED
      BY <3>6, <3>7, SMT
  <2> QED
    BY <2>1, <2>2
<1> DEFINE q == Pow10(nd + 1)
           z == Pow10(n + 1)
<1>5. q \in Nat /\ z \in Nat /\ K * S <= u * q /\ u * q < S * z
  BY <1>1, <1>3, <1>4
<1> HIDE DEF q, z, u, S, K
<1>6. K < z
  <2> SUFFICES ASSUME K >= z PROVE FALSE
    BY <1>0, <1>5, SMT
  <2>1. K * S >= S * z
    BY <1>0, <1>1, <1>5, SMT
  <2> QED
    BY <1>0, <1>1, <1>5, <2>1, SMT
<1> QED
  BY <1>6 DEF K, z

(* With no digit to keep, nor the one behind, there is nothing to print    *)
LEMMA NothingToPrint ==
  ASSUME NEW v \in Decimals, NEW nd \in Nat, Count(v, nd) < 0
  PROVE  Nearest(v, nd) = 0
<1> DEFINE u == v.units
           S == Pow10(v.scale)
           N == Pow10(nd)
           E == FirstDigit(v)
           a == -E
<1>0. u \in Nat /\ v.scale \in Nat /\ E \in Int
  BY DecimalParts DEF Decimals
<1>1. a \in Nat /\ a + E = 0 /\ (a - (nd + 1)) \in Nat /\ a = (nd + 1) + (a - (nd + 1)) /\ nd + 1 \in Nat
  <2>1. nd + E < 0
    BY DEF Count
  <2> HIDE DEF E
  <2> QED
    BY <1>0, <2>1, SMT
<1>2. u * Pow10(a) < S * Pow10(0)
  <2>1. v.units * Pow10(a) < Pow10(v.scale) * Pow10(a + FirstDigit(v))
    BY <1>1, FirstDigitBound, 0 \in Nat
  <2> QED
    BY <1>1, <2>1
<1> DEFINE e == a - (nd + 1)
           r == Pow10(e)
<1> HIDE DEF a
<1>3. Pow10(a) = Pow10(nd + 1) * r /\ Pow10(nd + 1) = 10 * N /\ r \in Nat \ {0} /\ N \in Nat \ {0} /\ Pow10(0) = 1
  <2>1. e \in Nat /\ a = (nd + 1) + e /\ nd + 1 \in Nat
    BY <1>1
  <2> HIDE DEF e
  <2>2. Pow10((nd + 1) + e) = Pow10(nd + 1) * Pow10(e)
    BY <2>1, PowSum
  <2> QED
    BY <2>1, <2>2, Powers
<1>4. S \in Nat \ {0}
  BY <1>0, Powers
<1>5. Nearest(v, nd) = (2 * u * N + S) \div (2 * S)
  BY DEF Nearest
<1> HIDE DEF u, S, N, r, E
<1>6. u * (10 * N) < S
  <2> DEFINE z == u * (10 * N)
  <2>1. z \in Nat
    BY <1>0, <1>3, SMT
  <2>2. z * r < S
    <3>1. u * Pow10(a) = z * r
      BY <1>0, <1>3, SMT
    <3>2. S * Pow10(0) = S
      BY <1>3, <1>4, SMT
    <3> QED
      BY <1>2, <3>1, <3>2
  <2> HIDE DEF z
  <2>3. z <= z * r
    BY <1>3, <2>1, SMT
  <2>4. z < S
    BY <1>3, <1>4, <2>1, <2>2, <2>3, SMT
  <2> QED
    BY <2>4 DEF z
<1>7. 2 * u * N + S < 2 * S /\ 2 * u * N + S \in Nat /\ 2 * S \in Nat \ {0}
  BY <1>0, <1>3, <1>4, <1>6, SMT
<1>8. \A x_ \in Nat, y_ \in Nat \ {0} : x_ < y_ => x_ \div y_ = 0
  BY SMT
<1> QED
  BY <1>5, <1>7, <1>8

(* The digits after rounding are those of Above(v, nd, k), the number with *)
(* 5 added, without its last digits                                        *)
Above(v, nd, k) == (Kept(v, nd) + 5) \div Pow10(Count(v, nd) + 1 - k)
Carry(v, nd, k) == IF Sum(v, nd)[k] > 9 THEN 1 ELSE 0

(* One step of the carry.                                                  *)
LEMMA CarryStep ==
  ASSUME NEW q \in Nat, NEW carry \in 0 .. 1, NEW s \in 0 .. 14, s = (q % 10) + carry, NEW w \in Nat, w = q + carry
  PROVE  /\ w % 10 = s % 10
         /\ w \div 10 = (q \div 10) + (IF s > 9 THEN 1 ELSE 0)
  BY SMT

(* It is what the digits kept are with the carry behind them, and its last *)
(* digit is the rounded one.                                               *)
LEMMA AboveIs ==
  ASSUME NEW v \in Decimals, NEW nd \in Nat, Count(v, nd) \in Nat
  PROVE  /\ \A k \in 0 .. Count(v, nd) : /\ Above(v, nd, k) \in Nat
                                         /\ Above(v, nd, k) = (Kept(v, nd) \div Pow10(Count(v, nd) + 1 - k)) + Carry(v, nd, k + 1)
         /\ \A k \in 1 .. Count(v, nd) : /\ Above(v, nd, k) % 10 = Sum(v, nd)[k] % 10
                                         /\ Above(v, nd, k - 1) = Above(v, nd, k) \div 10
<1> DEFINE K == Kept(v, nd)
           n == Count(v, nd)
           P(k) == Pow10(n + 1 - k)
           Q(k) == K \div P(k)
           W(k) == Above(v, nd, k)
           sum == Sum(v, nd)
           C(k) == Carry(v, nd, k)
<1>0. K \in Nat /\ n \in Nat
  BY DecimalParts
<1>1. /\ \A k \in 1 .. n + 1 : sum[k] \in 0 .. 14
      /\ sum[n + 1] = DigitsKept(v, nd)[n + 1] + 5
      /\ \A k \in 1 .. n : sum[k] = DigitsKept(v, nd)[k] + C(k + 1)
  <2>1. n >= 0
    BY <1>0, SMT
  <2> QED
    BY <2>1, SumEquation DEF Carry
<1>2. \A k \in 1 .. n + 1 : DigitsKept(v, nd)[k] = Q(k) % 10
  BY DEF DigitsKept
<1>3. \A k \in 0 .. n + 1 : P(k) \in Nat \ {0}
  <2>1. \A k \in 0 .. n + 1 : n + 1 - k \in Nat
    BY <1>0, SMT
  <2> QED
    BY <2>1, Powers
<1>4. \A k \in 0 .. n : P(k) = 10 * P(k + 1)
  <2> SUFFICES ASSUME NEW k \in 0 .. n PROVE P(k) = 10 * P(k + 1)
    OBVIOUS
  <2> DEFINE e == n + 1 - (k + 1)
  <2>1. e \in Nat /\ n + 1 - k = e + 1
    BY <1>0, SMT
  <2>2. P(k) = Pow10(e + 1) /\ P(k + 1) = Pow10(e)
    BY <2>1
  <2> HIDE DEF P, e
  <2> QED
    BY <2>1, <2>2, Powers
<1>5. P(n + 1) = 1
  <2>1. n + 1 - (n + 1) = 0
    BY <1>0, SMT
  <2> QED
    BY <2>1, Powers
<1>6. \A k \in 0 .. n : W(k) = (K + 5) \div P(k)
  BY DEF Above
<1>7. \A k \in 1 .. n + 1 : C(k) \in 0 .. 1 /\ C(k) = IF sum[k] > 9 THEN 1 ELSE 0
  BY SMT DEF Carry
<1> HIDE DEF K, n, P, sum, W, C
<1>8. \A k \in 0 .. n + 1 : Q(k) \in Nat
  BY <1>0, <1>3, Division
<1>9. \A k \in 0 .. n : Q(k) = Q(k + 1) \div 10
  <2> SUFFICES ASSUME NEW k \in 0 .. n PROVE Q(k) = Q(k + 1) \div 10
    OBVIOUS
  <2>1. k + 1 \in 0 .. n + 1 /\ k \in 0 .. n + 1 /\ 10 \in Nat \ {0}
    BY <1>0, SMT
  <2>2. P(k + 1) \in Nat \ {0}
    BY <1>3, <2>1
  <2>3. (K \div P(k + 1)) \div 10 = K \div (P(k + 1) * 10)
    BY <1>0, <2>1, <2>2, DivDiv
  <2>4. P(k) = P(k + 1) * 10
    BY <1>4, <2>2, SMT
  <2> QED
    BY <2>3, <2>4
<1>10. \A k \in 1 .. n : W(k) \in Nat /\ W(k - 1) = W(k) \div 10
  <2> SUFFICES ASSUME NEW k \in 1 .. n PROVE W(k) \in Nat /\ W(k - 1) = W(k) \div 10
    OBVIOUS
  <2>1. k \in 0 .. n /\ k - 1 \in 0 .. n /\ k \in 0 .. n + 1 /\ 10 \in Nat \ {0} /\ (k - 1) + 1 = k /\ K + 5 \in Nat
    BY <1>0, SMT
  <2>2. P(k) \in Nat \ {0} /\ P(k - 1) = 10 * P(k)
    BY <1>3, <1>4, <2>1
  <2>3. ((K + 5) \div P(k)) \div 10 = (K + 5) \div (P(k) * 10)
    BY <2>1, <2>2, DivDiv
  <2>4. P(k - 1) = P(k) * 10
    BY <2>2, SMT
  <2>5. (K + 5) \div P(k) \in Nat
    BY <2>1, <2>2, Division
  <2> QED
    BY <1>6, <2>1, <2>3, <2>4, <2>5
<1>11. W(n) = Q(n) + C(n + 1) /\ W(n) \in Nat
  <2>1. n \in 0 .. n /\ n + 1 \in 1 .. n + 1 /\ n + 1 \in 0 .. n + 1
    BY <1>0, SMT
  <2>2. P(n) = 10
    BY <1>4, <1>5, <2>1, SMT
  <2>3. W(n) = (K + 5) \div 10 /\ Q(n) = K \div 10
    BY <1>6, <2>1, <2>2
  <2>4. sum[n + 1] = (K % 10) + 5
    <3>1. Q(n + 1) = K
      <4>1. K \div 1 = K
        BY <1>0, SMT
      <4> QED
        BY <1>5, <4>1
    <3> QED
      BY <1>1, <1>2, <2>1, <3>1
  <2>5. C(n + 1) = IF sum[n + 1] > 9 THEN 1 ELSE 0
    BY <1>7, <2>1
  <2> DEFINE s == sum[n + 1]
             c == C(n + 1)
  <2>6. s = (K % 10) + 5 /\ c = IF s > 9 THEN 1 ELSE 0
    BY <2>4, <2>5
  <2> HIDE DEF s, c
  <2>7. (K + 5) \div 10 = (K \div 10) + c /\ (K + 5) \div 10 \in Nat
    BY <1>0, <2>6, SMT
  <2> QED
    BY <2>3, <2>7 DEF c
<1> DEFINE D == {m \in Nat : m <= n => W(n - m) = Q(n - m) + C((n - m) + 1)}
<1>12. ASSUME NEW k \in 1 .. n, W(k) = Q(k) + C(k + 1)
       PROVE  W(k) % 10 = sum[k] % 10 /\ W(k - 1) = Q(k - 1) + C((k - 1) + 1)
  <2>1. k \in 0 .. n /\ k \in 1 .. n + 1 /\ k \in 0 .. n + 1 /\ k - 1 \in 0 .. n /\ (k - 1) + 1 = k /\ k + 1 \in 1 .. n + 1
    BY <1>0, SMT
  <2> DEFINE q == Q(k)
             c == C(k + 1)
             s == sum[k]
             w == W(k)
  <2>2. q \in Nat /\ c \in 0 .. 1 /\ s \in 0 .. 14 /\ s = (q % 10) + c /\ w \in Nat /\ w = q + c
    BY <1>1, <1>2, <1>7, <1>8, <1>10, <1>12, <2>1
  <2>3. Q(k - 1) = q \div 10 /\ W(k - 1) = w \div 10 /\ C(k) = IF s > 9 THEN 1 ELSE 0
    BY <1>7, <1>9, <1>10, <2>1
  <2> HIDE DEF q, c, s, w, Q
  <2>4. w % 10 = s % 10 /\ w \div 10 = (q \div 10) + (IF s > 9 THEN 1 ELSE 0)
    BY <2>2, CarryStep
  <2> QED
    BY <2>1, <2>3, <2>4 DEF s, w
<1> HIDE DEF Q
<1>13. 0 \in D
  <2>1. n - 0 = n
    BY <1>0, SMT
  <2> QED
    BY <1>11, <2>1
<1>14. ASSUME NEW m \in Nat, m \in D PROVE m + 1 \in D
  <2> SUFFICES ASSUME m + 1 <= n PROVE W(n - (m + 1)) = Q(n - (m + 1)) + C((n - (m + 1)) + 1)
    BY SMT
  <2> DEFINE k == n - m
  <2>1. k \in 1 .. n /\ m <= n /\ n - (m + 1) = k - 1
    BY <1>0, SMT
  <2>2. W(k) = Q(k) + C(k + 1)
    BY <1>14, <2>1
  <2> HIDE DEF k
  <2>3. W(k - 1) = Q(k - 1) + C((k - 1) + 1)
    BY <1>12, <2>1, <2>2
  <2> QED
    BY <2>1, <2>3
<1>15. \A k \in 0 .. n : W(k) = Q(k) + C(k + 1)
  <2> SUFFICES ASSUME NEW k \in 0 .. n PROVE W(k) = Q(k) + C(k + 1)
    OBVIOUS
  <2>1. Nat \subseteq D
    <3> HIDE DEF D
    <3> QED
      BY <1>13, <1>14, SetInduction
  <2>2. n - k \in Nat /\ n - k <= n /\ n - (n - k) = k
    BY <1>0, SMT
  <2>3. n - k \in D
    BY <2>1, <2>2
  <2> QED
    BY <2>2, <2>3
<1>16. \A k \in 0 .. n : W(k) \in Nat
  <2> SUFFICES ASSUME NEW k \in 0 .. n PROVE W(k) \in Nat
    OBVIOUS
  <2>1. k \in 0 .. n + 1 /\ K + 5 \in Nat
    BY <1>0, SMT
  <2> QED
    BY <1>3, <1>6, <2>1, Division
<1>17. \A k \in 1 .. n : W(k) % 10 = sum[k] % 10
  <2> SUFFICES ASSUME NEW k \in 1 .. n PROVE W(k) % 10 = sum[k] % 10
    OBVIOUS
  <2>1. k \in 0 .. n
    BY <1>0, SMT
  <2> QED
    BY <1>12, <1>15, <2>1
<1> QED
  BY <1>10, <1>15, <1>16, <1>17 DEF W, Q, C, K, n, P, sum
---------------------------------------------------------------------------
(* Decimal digits                                                          *)
DecimalChars == {"0","1","2","3","4","5","6","7","8","9"}

(* They are digits of the base 10.                                         *)
LEMMA DecimalDigits == /\ \A k \in 1 .. 10 : lower_digits[k] \in DecimalChars
                       /\ \A c \in DecimalChars : Contains(lower_digits, c)
                       /\ DecimalChars \subseteq DigitChars /\ DecimalChars \subseteq Glyphs
                       /\ 10 \in Bases /\ lower_digits \in {lower_digits, upper_digits}
<1>1. \A k \in 1 .. 10 : lower_digits[k] \in DecimalChars
  BY SMT DEF lower_digits, DecimalChars
<1>2. \A c \in DecimalChars : \E k \in 1 .. 16 : lower_digits[k] = c
  BY SMT DEF lower_digits, DecimalChars
<1>3. \A c \in DecimalChars : Contains(lower_digits, c)
  BY <1>2, LowerDistinct DEF Contains
<1>4. DecimalChars \subseteq DigitChars
  BY Zenon DEF DecimalChars, DigitChars
<1>5. 10 \in Bases
  BY Zenon DEF Bases
<1> QED
  BY <1>1, <1>3, <1>4, <1>5, GlyphsOfText

(* The digits of fcvtbuf, after the carry out of the first one, read as    *)
(* the decimal number nearest to the argument.                             *)
LEMMA RoundedReads ==
  ASSUME NEW v \in Decimals, NEW nd \in Nat, Count(v, nd) \in Nat
  PROVE  /\ Rounded(v, nd) \in Seq(DecimalChars) /\ Len(Rounded(v, nd)) = Count(v, nd)
         /\ Carry(v, nd, 1) \in Nat
         /\ Reads(Rounded(v, nd), 10, Carry(v, nd, 1), Nearest(v, nd))
<1> DEFINE n == Count(v, nd)
           K == Kept(v, nd)
           W(k) == Above(v, nd, k)
           sum == Sum(v, nd)
           s == Rounded(v, nd)
           f == [k \in 0 .. n |-> W(k)]
<1>0. n \in Nat /\ K \in Nat /\ n >= 0
  BY DecimalParts, SMT
<1>1. \A k \in 1 .. n : s[k] = lower_digits[(sum[k] % 10) + 1]
  BY DEF Rounded
<1>2. \A k \in 1 .. n : sum[k] % 10 \in 0 .. 9
  <2> SUFFICES ASSUME NEW k \in 1 .. n PROVE sum[k] % 10 \in 0 .. 9
    OBVIOUS
  <2>1. k \in 1 .. n + 1
    BY <1>0, SMT
  <2>2. sum[k] \in 0 .. 14
    BY <1>0, <2>1, SumEquation
  <2> HIDE DEF sum
  <2> QED
    BY <2>2, SMT
<1>3. \A k \in 0 .. n : W(k) \in Nat /\ W(k) = (K \div Pow10(n + 1 - k)) + Carry(v, nd, k + 1)
  BY AboveIs
<1>4. \A k \in 1 .. n : W(k) % 10 = sum[k] % 10 /\ W(k - 1) = W(k) \div 10
  BY AboveIs
<1>5. W(0) = Carry(v, nd, 1) /\ Carry(v, nd, 1) \in Nat
  <2>1. 0 \in 0 .. n /\ n + 1 - 0 = n + 1 /\ 0 + 1 = 1
    BY <1>0, SMT
  <2>2. W(0) = (K \div Pow10(n + 1)) + Carry(v, nd, 1)
    BY <1>3, <2>1
  <2>3. K < Pow10(n + 1)
    BY KeptBound
  <2>4. Pow10(n + 1) \in Nat \ {0}
    BY <1>0, Powers, SMT
  <2>5. K \div Pow10(n + 1) = 0
    <3> DEFINE p == Pow10(n + 1)
    <3>1. p \in Nat \ {0} /\ K < p
      BY <2>3, <2>4
    <3> HIDE DEF p, K
    <3>2. K \div p = 0
      BY <1>0, <3>1, SMT
    <3> QED
      BY <3>2 DEF p
  <2>6. Carry(v, nd, 1) \in Nat
    BY SMT DEF Carry
  <2> QED
    BY <2>2, <2>5, <2>6, SMT
<1>6. W(n) = Nearest(v, nd)
  <2>1. n + 1 - n = 1
    BY <1>0, SMT
  <2>2. Pow10(1) = 10
    <3>1. Pow10(0 + 1) = 10 * Pow10(0) /\ Pow10(0) = 1
      BY Powers
    <3>2. 0 + 1 = 1 /\ 10 * 1 = 10
      BY SMT
    <3> QED
      BY <3>1, <3>2
  <2>3. W(n) = (K + 5) \div 10
    BY <2>1, <2>2 DEF Above
  <2> QED
    BY <2>3, KeptRounds
<1>7. s \in [1 .. n -> DecimalChars]
  <2>1. \A k \in 1 .. n : lower_digits[(sum[k] % 10) + 1] \in DecimalChars
    <3> SUFFICES ASSUME NEW k \in 1 .. n PROVE lower_digits[(sum[k] % 10) + 1] \in DecimalChars
      OBVIOUS
    <3> DEFINE r == sum[k] % 10
    <3>1. r \in 0 .. 9
      BY <1>2
    <3> HIDE DEF r
    <3>2. r + 1 \in 1 .. 10
      BY <3>1, SMT
    <3>3. lower_digits[r + 1] \in DecimalChars
      BY <3>2, DecimalDigits
    <3> QED
      BY <3>3 DEF r
  <2> QED
    BY <2>1 DEF Rounded
<1>8. s \in Seq(DecimalChars) /\ Len(s) = n
  <2> HIDE DEF s, n
  <2> QED
    BY <1>0, <1>7, SMT
<1> HIDE DEF W, sum, s, n, K
<1>9. f \in [0 .. n -> Nat] /\ f[0] = Carry(v, nd, 1) /\ f[n] = Nearest(v, nd)
  <2>1. 0 \in 0 .. n /\ n \in 0 .. n
    BY <1>0, SMT
  <2> QED
    BY <1>3, <1>5, <1>6, <2>1
<1>10. \A k \in 1 .. n : f[k] = ReadChar(10, f[k - 1], s[k])
  <2> SUFFICES ASSUME NEW k \in 1 .. n PROVE f[k] = ReadChar(10, f[k - 1], s[k])
    OBVIOUS
  <2> DEFINE r == sum[k] % 10
             w == W(k)
             b == W(k - 1)
  <2>1. k \in 0 .. n /\ k - 1 \in 0 .. n /\ 10 - 1 = 9
    BY <1>0, SMT
  <2>2. r \in 0 .. 9 /\ w \in Nat /\ b \in Nat /\ w % 10 = r /\ b = w \div 10
    BY <1>2, <1>3, <1>4, <2>1
  <2>3. f[k] = w /\ f[k - 1] = b /\ s[k] = lower_digits[r + 1]
    BY <1>1, <2>1
  <2> HIDE DEF r, w, b, f
  <2>4. ReadChar(10, b, lower_digits[r + 1]) = b * 10 + r
    <3>1. r \in 0 .. 10 - 1
      BY <2>1, <2>2
    <3> QED
      BY <2>2, <3>1, DecimalDigits, ReadsDigit
  <2>5. b * 10 + r = w
    BY <2>2, SMT
  <2> QED
    BY <2>3, <2>4, <2>5
<1> HIDE DEF f
<1>11. Reading(f, s, 10, Carry(v, nd, 1))
  BY <1>8, <1>9, <1>10 DEF Reading
<1>12. Reads(s, 10, Carry(v, nd, 1), Nearest(v, nd))
  BY <1>8, <1>9, <1>11 DEF Reads
<1> QED
  BY <1>5, <1>8, <1>12 DEF s, n

(* So do all its digits; there are as many behind the point as asked for.  *)
LEMMA fcvtbufReads ==
  ASSUME NEW v \in Decimals, NEW nd \in Nat
  PROVE  \E digits \in Seq(DecimalChars), decpt \in Int :
           /\ fcvtbuf(v, nd) = [digits |-> digits, decpt |-> decpt]
           /\ digits # <<>> => Len(digits) = nd + decpt
           /\ Reads(digits, 10, 0, Nearest(v, nd))
<1>1. Count(v, nd) \in Int /\ FirstDigit(v) \in Int
  BY DecimalParts
<1>2. CASE Count(v, nd) < 0
  <2>1. fcvtbuf(v, nd) = [digits |-> <<>>, decpt |-> FirstDigit(v)]
    <3>1. ~(Count(v, nd) >= 0)
      BY <1>1, <1>2, SMT
    <3> QED
      BY <1>2, <3>1, fcvtbufParts, Zenon
  <2>2. Reads(<<>>, 10, 0, Nearest(v, nd))
    BY <1>2, NothingToPrint, ReadsNothing, 0 \in Nat
  <2> QED
    BY <1>1, <2>1, <2>2, EmptySeq
<1> DEFINE s == Rounded(v, nd)
           T == Nearest(v, nd)
<1>3. CASE ~(Count(v, nd) < 0)
  <2>1. Count(v, nd) >= 0 /\ Count(v, nd) \in Nat
    BY <1>1, <1>3, SMT
  <2>2. s \in Seq(DecimalChars) /\ Len(s) = nd + FirstDigit(v) /\ Reads(s, 10, Carry(v, nd, 1), T)
    BY <2>1, RoundedReads DEF Count
  <2>3. Sum(v, nd)[1] \in 0 .. 14
    <3>1. 1 \in 1 .. Count(v, nd) + 1
      BY <2>1, SMT
    <3> QED
      BY <2>1, <3>1, SumEquation
  <2>4. CASE Sum(v, nd)[1] <= 9
    <3>1. fcvtbuf(v, nd) = [digits |-> s, decpt |-> FirstDigit(v)]
      BY <1>3, <2>1, <2>4, fcvtbufParts, Zenon
    <3>2. Carry(v, nd, 1) = 0
      BY <2>3, <2>4, SMT DEF Carry
    <3> QED
      BY <1>1, <2>2, <3>1, <3>2
  <2>5. CASE ~(Sum(v, nd)[1] <= 9)
    <3> DEFINE one == <<"1">>
    <3>1. fcvtbuf(v, nd) = [digits |-> one \o s, decpt |-> FirstDigit(v) + 1]
      BY <1>3, <2>5, <2>1, fcvtbufParts, Zenon
    <3>2. Carry(v, nd, 1) = 1
      BY <2>3, <2>5, SMT DEF Carry
    <3>3. "1" \in DecimalChars /\ "1" \in Glyphs
      BY DecimalDigits DEF DecimalChars
    <3>4. one \in Seq(DecimalChars) /\ Len(one) = 1
      BY <3>3, SMT
    <3>5. Reads(one, 10, 0, 1)
      <4>1. lower_digits[1 + 1] = "1"
        BY SMT DEF lower_digits
      <4>2. 1 \in 0 .. 10 - 1 /\ 0 * 10 + 1 = 1 /\ 0 \in Nat /\ 1 \in Nat
        BY SMT
      <4>3. ReadChar(10, 0, lower_digits[1 + 1]) = 0 * 10 + 1
        BY <4>2, DecimalDigits, ReadsDigit
      <4>4. ReadChar(10, 0, "1") = 1
        BY <4>1, <4>2, <4>3
      <4> QED
        BY <3>3, <4>2, <4>4, ReadsOne
    <3> HIDE DEF one, s, T
    <3>6. one \o s \in Seq(DecimalChars) /\ Len(one \o s) = 1 + (nd + FirstDigit(v))
      BY <2>2, <3>4, ConcatProperties
    <3>7. 1 + (nd + FirstDigit(v)) = nd + (FirstDigit(v) + 1) /\ FirstDigit(v) + 1 \in Int
      BY <1>1, SMT
    <3>8. one \in Seq(Glyphs) /\ s \in Seq(Glyphs)
      BY <2>2, <3>4, DecimalDigits, SeqMonotonic
    <3>9. Reads(one \o s, 10, 0, T)
      BY <2>2, <3>2, <3>5, <3>8, ReadsConcat
    <3> QED
      BY <3>1, <3>6, <3>7, <3>9 DEF T
  <2> QED
    BY <2>4, <2>5
<1> QED
  BY <1>2, <1>3
---------------------------------------------------------------------------
(* A decimal number in writing: the digits of its whole part, and behind a *)
(* point its places                                                        *)
Written(whole, frac, nd) ==
  IF nd = 0 THEN whole ELSE whole \o <<".">> \o frac

(* Two characters are one and one.                                         *)
LEMMA TwoIsConcat ==
  ASSUME NEW c \in Glyphs, NEW e \in Glyphs
  PROVE  <<c, e>> = <<c>> \o <<e>>
<1> DEFINE s == <<c>>
           t == <<e>>
           both == <<c, e>>
<1>1. s \in Seq(Glyphs) /\ t \in Seq(Glyphs) /\ both \in Seq(Glyphs)
  BY OneGlyph, TwoGlyphs
<1>2. Len(s) = 1 /\ Len(t) = 1 /\ s[1] = c /\ t[1] = e /\ Len(both) = 2 /\ both[1] = c /\ both[2] = e
  BY SMT
<1> HIDE DEF s, t, both
<1>3. s \o t \in Seq(Glyphs) /\ Len(s \o t) = Len(s) + Len(t)
      /\ \A k \in 1 .. Len(s) + Len(t) : (s \o t)[k] = IF k <= Len(s) THEN s[k] ELSE t[k - Len(s)]
  BY <1>1, ConcatProperties
<1>4. Len(s \o t) = 2 /\ (s \o t)[1] = c /\ (s \o t)[2] = e
  BY <1>2, <1>3, SMT
<1>5. \A k \in 1 .. 2 : k = 1 \/ k = 2
  BY SMT
<1>6. \A k \in 1 .. Len(s \o t) : (s \o t)[k] = both[k]
  BY <1>2, <1>4, <1>5
<1>7. s \o t = both
  BY <1>1, <1>2, <1>3, <1>4, <1>6, SeqEqual
<1> QED
  BY <1>7 DEF s, t, both

(* The empty text leaves what was read.                                    *)
LEMMA ReadsNothingBack ==
  ASSUME NEW base, NEW v, NEW w, Reads(<<>>, base, v, w)
  PROVE  w = v
<1>1. Len(<<>>) = 0
  BY EmptySeq
<1> QED
  BY <1>1 DEF Reads, Reading

(* The point is skipped.                                                   *)
LEMMA WrittenReads ==
  ASSUME NEW whole \in Seq(DecimalChars), NEW frac \in Seq(DecimalChars), NEW nd \in Nat, Len(frac) = nd,
         NEW m \in Nat, NEW w, Reads(whole, 10, 0, m), Reads(frac, 10, m, w)
  PROVE  Reads(Written(whole, frac, nd), 10, 0, w)
<1>1. whole \in Seq(Glyphs) /\ frac \in Seq(Glyphs) /\ <<".">> \in Seq(Glyphs)
  BY DecimalDigits, SeqMonotonic, OneGlyph, GlyphsOfText
<1>2. CASE nd = 0
  <2>1. frac = <<>>
    BY <1>1, <1>2, EmptySeq, SMT
  <2>2. w = m
    BY <2>1, ReadsNothingBack
  <2> QED
    BY <1>2, <2>2 DEF Written
<1>3. CASE nd # 0
  <2> DEFINE point == <<".">>
  <2>1. Reads(point, 10, m, m)
    <3>1. "." \in Glyphs /\ "." \notin DigitChars /\ 10 \in Bases
      BY GlyphsOfText, NotDigits, DecimalDigits
    <3>2. ReadChar(10, m, ".") = m
      BY <3>1, SkipsNoDigit
    <3> QED
      BY <3>1, <3>2, ReadsOne
  <2>2. point \in Seq(Glyphs)
    BY <1>1
  <2> HIDE DEF point
  <2>3. whole \o point \in Seq(Glyphs) /\ Reads(whole \o point, 10, 0, m)
    BY <1>1, <2>1, <2>2, ReadsConcat, ConcatProperties
  <2>4. Reads((whole \o point) \o frac, 10, 0, w)
    BY <1>1, <2>3, ReadsConcat
  <2> QED
    BY <1>3, <2>4 DEF Written, point
<1> QED
  BY <1>2, <1>3

(* parse_float writes the decimal number nearest to its argument.          *)
LEMMA parse_floatReads ==
  ASSUME NEW v \in Decimals, NEW nd \in Nat
  PROVE  \E whole, frac \in Seq(DecimalChars) :
           /\ Len(frac) = nd /\ parse_float(v, nd) = Written(whole, frac, nd)
           /\ Reads(parse_float(v, nd), 10, 0, Nearest(v, nd))
<1> DEFINE T == Nearest(v, nd)
<1> PICK digits \in Seq(DecimalChars), decpt \in Int :
      /\ fcvtbuf(v, nd) = [digits |-> digits, decpt |-> decpt]
      /\ digits # <<>> => Len(digits) = nd + decpt
      /\ Reads(digits, 10, 0, T)
  BY fcvtbufReads
<1>1. digits \in Seq(Glyphs) /\ digits \in Seq(DigitChars) /\ Len(digits) \in Nat
  BY DecimalDigits, SeqMonotonic, LenProperties
<1>2. "0" \in DecimalChars /\ "0" \in Glyphs /\ "." \in Glyphs /\ <<"0">> \in Seq(DecimalChars) /\ <<"0">> \in Seq(Glyphs)
      /\ <<>> \in Seq(DecimalChars) /\ <<".">> \in Seq(Glyphs) /\ 0 \in Nat
  <2>1. "0" \in DecimalChars
    BY Zenon DEF DecimalChars
  <2>2. <<"0">> \in Seq(DecimalChars)
    BY <2>1, SMT
  <2> QED
    BY <2>1, <2>2, GlyphsOfText, OneGlyph, EmptySeq
<1>3. Reads(<<"0">>, 10, 0, 0)
  <2>1. ReadChar(10, 0, "0") = 0
    BY DecimalDigits, SkipsZero
  <2> QED
    BY <1>2, <2>1, ReadsOne
<1>4. ASSUME NEW n \in Int PROVE /\ Repeat("0", n) \in Seq(DecimalChars) /\ Repeat("0", n) \in Seq(Glyphs)
                                 /\ Len(Repeat("0", n)) = Larger(n, 0) /\ Reads(Repeat("0", n), 10, 0, 0)
  <2>1. ReadChar(10, 0, "0") = 0
    BY DecimalDigits, SkipsZero
  <2> QED
    BY <1>2, <2>1, RepeatType, ReadsRepeat
<1>5. SUFFICES \E whole, frac \in Seq(DecimalChars) :
                 /\ Len(frac) = nd /\ parse_float(v, nd) = Written(whole, frac, nd)
                 /\ \E m \in Nat : Reads(whole, 10, 0, m) /\ Reads(frac, 10, m, T)
  <2> PICK whole \in Seq(DecimalChars), frac \in Seq(DecimalChars) :
                 /\ Len(frac) = nd /\ parse_float(v, nd) = Written(whole, frac, nd)
                 /\ \E m \in Nat : Reads(whole, 10, 0, m) /\ Reads(frac, 10, m, T)
    BY <1>5
  <2> HIDE DEF T
  <2>1. PICK m \in Nat : Reads(whole, 10, 0, m) /\ Reads(frac, 10, m, T)
    OBVIOUS
  <2>2. Reads(Written(whole, frac, nd), 10, 0, T)
    BY <2>1, WrittenReads
  <2> QED
    BY <2>2 DEF T
<1> HIDE DEF T
<1>6. CASE digits = <<>>
  <2> DEFINE whole == <<"0">>
             frac == Repeat("0", nd)
  <2>1. T = 0
    BY <1>6, ReadsNothingBack
  <2>2. frac \in Seq(DecimalChars) /\ frac \in Seq(Glyphs) /\ Len(frac) = nd /\ Reads(frac, 10, 0, T)
    <3>1. Larger(nd, 0) = nd
      BY SMT DEF Larger
    <3>2. nd \in Int
      OBVIOUS
    <3> QED
      BY <1>4, <2>1, <3>1, <3>2
  <2>3. parse_float(v, nd) = whole \o (IF nd > 0 THEN <<".">> \o frac ELSE <<>>)
    BY <1>1, <1>6, parse_floatParts, Zenon
  <2>4. nd > 0 <=> nd # 0
    BY SMT
  <2>5. whole \in Seq(Glyphs)
    BY <1>2
  <2> HIDE DEF whole, frac
  <2>6. whole \o <<>> = whole
    BY <2>5, ConcatEmptySeq
  <2> DEFINE point == <<".">>
  <2>10. point \in Seq(Glyphs)
    BY <1>2
  <2> HIDE DEF point
  <2>11. (whole \o point) \o frac = whole \o (point \o frac)
    BY <2>2, <2>5, <2>10, ConcatAssociative
  <2>7. whole \o (<<".">> \o frac) = whole \o <<".">> \o frac
    BY <2>11 DEF point
  <2>8. parse_float(v, nd) = Written(whole, frac, nd)
    BY <2>3, <2>4, <2>6, <2>7, Zenon DEF Written
  <2>9. whole \in Seq(DecimalChars) /\ Reads(whole, 10, 0, 0)
    BY <1>2, <1>3 DEF whole
  <2> QED
    BY <1>2, <2>2, <2>8, <2>9
<1>7. CASE digits # <<>> /\ decpt <= 0
  <2> DEFINE whole == <<"0">>
             point == <<".">>
             zeros == Repeat("0", -decpt)
             frac == zeros \o digits
  <2>1. -decpt \in Int /\ Larger(-decpt, 0) = -decpt
    BY <1>7, SMT DEF Larger
  <2>2. zeros \in Seq(DecimalChars) /\ zeros \in Seq(Glyphs) /\ Len(zeros) = -decpt /\ Reads(zeros, 10, 0, 0)
    BY <1>4, <2>1
  <2>3. parse_float(v, nd) = <<"0", ".">> \o zeros \o digits
    BY <1>1, <1>7, parse_floatParts, Zenon
  <2>4. <<"0", ".">> = whole \o point
    BY <1>2, TwoIsConcat
  <2>5. whole \in Seq(Glyphs) /\ point \in Seq(Glyphs) /\ whole \in Seq(DecimalChars) /\ Reads(whole, 10, 0, 0)
    BY <1>2, <1>3
  <2> HIDE DEF zeros
  <2>6. frac \in Seq(DecimalChars) /\ Len(frac) = Len(zeros) + Len(digits)
    BY <2>2, ConcatProperties
  <2>7. Len(frac) = nd /\ nd # 0
    <3>1. Len(digits) = nd + decpt /\ Len(digits) # 0
      BY <1>1, <1>7, EmptySeq
    <3> HIDE DEF frac
    <3> QED
      BY <1>7, <2>2, <2>6, <3>1, SMT
  <2>8. Reads(frac, 10, 0, T)
    BY <1>1, <2>2, ReadsConcat
  <2> HIDE DEF whole, point
  <2>9. (whole \o point) \o zeros \o digits = whole \o point \o frac
    <3> DEFINE wp == whole \o point
    <3>1. wp \in Seq(Glyphs)
      BY <2>5, ConcatProperties
    <3>2. zeros \in Seq(Glyphs) /\ digits \in Seq(Glyphs)
      BY <1>1, <2>2
    <3> HIDE DEF wp, frac
    <3>3. (wp \o zeros) \o digits = wp \o (zeros \o digits)
      BY <3>1, <3>2, ConcatAssociative
    <3> QED
      BY <3>3 DEF wp, frac
  <2> HIDE DEF frac
  <2>10. parse_float(v, nd) = Written(whole, frac, nd)
    BY <2>3, <2>4, <2>7, <2>9 DEF Written, point
  <2> QED
    BY <1>2, <2>5, <2>6, <2>7, <2>8, <2>10
<1>8. CASE digits # <<>> /\ decpt > 0
  <2> DEFINE whole == SubSeq(digits, 1, decpt)
             frac == SubSeq(digits, decpt + 1, Len(digits))
             point == IF Len(digits) > decpt THEN <<".">> ELSE <<>>
  <2>1. Len(digits) = nd + decpt
    BY <1>8
  <2>2. parse_float(v, nd) = whole \o point \o frac
    BY <1>1, <1>8, parse_floatParts, Zenon
  <2>3. whole \in Seq(DecimalChars)
    <3>1. \A k \in 1 .. decpt : digits[k] \in DecimalChars
      <4>1. \A k \in 1 .. decpt : k \in 1 .. Len(digits)
        BY <2>1, SMT
      <4> QED
        BY <4>1, ElementOfSeq
    <3> QED
      BY <3>1, SubSeqProperties, 1 \in Int
  <2>4. frac \in Seq(DecimalChars) /\ Len(frac) = nd
    <3>1. \A k \in decpt + 1 .. Len(digits) : digits[k] \in DecimalChars
      <4>1. \A k \in decpt + 1 .. Len(digits) : k \in 1 .. Len(digits)
        BY <1>8, <2>1, SMT
      <4> QED
        BY <4>1, ElementOfSeq
    <3>2. decpt + 1 \in Int /\ Len(digits) \in Int
      BY <1>1, SMT
    <3>3. frac \in Seq(DecimalChars) /\ Len(frac) = IF decpt + 1 <= Len(digits) THEN Len(digits) - (decpt + 1) + 1 ELSE 0
      BY <3>1, <3>2, SubSeqProperties
    <3>4. (IF decpt + 1 <= Len(digits) THEN Len(digits) - (decpt + 1) + 1 ELSE 0) = nd
      BY <2>1, SMT
    <3> QED
      BY <3>3, <3>4
  <2>5. whole \o frac = digits
    <3>1. 1 \in 1 .. Len(digits) + 1 /\ decpt \in 1 - 1 .. Len(digits) /\ Len(digits) \in decpt .. Len(digits)
      BY <1>1, <1>8, <2>1, SMT
    <3>2. SubSeq(digits, 1, decpt) \o SubSeq(digits, decpt + 1, Len(digits)) = SubSeq(digits, 1, Len(digits))
      BY <3>1, ConcatAdjacentSubSeq
    <3>3. SubSeq(digits, 1, Len(digits)) = digits
      BY SubSeqFull
    <3> QED
      BY <3>2, <3>3
  <2>6. Len(digits) > decpt <=> nd # 0
    BY <2>1, SMT
  <2> HIDE DEF whole, frac
  <2>7. whole \in Seq(Glyphs) /\ frac \in Seq(Glyphs)
    BY <2>3, <2>4, DecimalDigits, SeqMonotonic
  <2>8. parse_float(v, nd) = Written(whole, frac, nd)
    <3>1. CASE nd # 0
      BY <2>2, <2>6, <3>1 DEF Written
    <3>2. CASE nd = 0
      <4>1. frac = <<>>
        BY <2>4, <3>2, EmptySeq, SMT
      <4>2. whole \o <<>> = whole
        BY <2>7, ConcatEmptySeq
      <4> QED
        BY <2>2, <2>6, <3>2, <4>1, <4>2 DEF Written
    <3> QED
      BY <3>1, <3>2
  <2>9. \E m \in Nat : Reads(whole, 10, 0, m) /\ Reads(frac, 10, m, T)
    BY <2>5, <2>7, ReadsSplit
  <2> QED
    BY <2>3, <2>4, <2>8, <2>9
<1>9. decpt <= 0 \/ decpt > 0
  BY SMT
<1> QED
  BY <1>6, <1>7, <1>8, <1>9
---------------------------------------------------------------------------
(* The digits behind the point of a text, as PrintsFloat counts them        *)
Behind(s) == {k \in 1 .. Len(s) : Contains(lower_digits, s[k]) /\ \E p \in 1 .. k : s[p] = "."}

(* Without a point there is no digit behind one;                           *)
LEMMA BehindNothing ==
  ASSUME NEW s \in Seq(Glyphs), ~Contains(s, ".")
  PROVE  Cardinality(Behind(s)) = 0
<1>1. \A k \in 1 .. Len(s) : \A p \in 1 .. k : s[p] # "."
  <2>1. \A k \in 1 .. Len(s) : \A p \in 1 .. k : p \in 1 .. Len(s)
    BY LenProperties, SMT
  <2> QED
    BY <2>1 DEF Contains
<1>2. Behind(s) = {}
  BY <1>1 DEF Behind
<1> QED
  BY <1>2, FS_EmptySet

(* neither the point nor a space is a digit;                               *)
LEMMA PointIsNoDigit == ~Contains(lower_digits, ".") /\ ~Contains(lower_digits, " ")
<1>1. \A k \in 1 .. 16 : lower_digits[k] # "."
  BY SMT DEF lower_digits
<1>3. \A k \in 1 .. 16 : lower_digits[k] # " "
  <2>1. \A k \in 1 .. 16 : lower_digits[k] \in DigitChars
    BY SMT DEF lower_digits, DigitChars
  <2> QED
    BY <2>1, NotDigits
<1>2. Len(lower_digits) = 16
  BY SMT DEF lower_digits
<1> QED
  BY <1>1, <1>2, <1>3, Zenon DEF Contains

(* and behind one there are those that stand behind it.                    *)
LEMMA BehindPoint ==
  ASSUME NEW a \in Seq(Glyphs), ~Contains(a, "."), NEW b \in Seq(DecimalChars),
         NEW S \in SUBSET Glyphs, \A e \in S : ~Contains(lower_digits, e), NEW c \in Seq(S)
  PROVE  Cardinality(Behind(a \o <<".">> \o b \o c)) = Len(b)
<1> DEFINE point == <<".">>
           m == Len(a)
           n == Len(b)
           ap == a \o point
           apb == ap \o b
           t == apb \o c
<1>1. b \in Seq(Glyphs) /\ c \in Seq(Glyphs) /\ point \in Seq(Glyphs) /\ point[1] = "." /\ Len(point) = 1
  <2>1. DecimalChars \subseteq Glyphs /\ S \subseteq Glyphs /\ "." \in Glyphs
    BY DecimalDigits, GlyphsOfText
  <2>2. point[1] = "." /\ Len(point) = 1
    BY SMT
  <2> QED
    BY <2>1, <2>2, SeqMonotonic, OneGlyph
<1>2. m \in Nat /\ n \in Nat /\ Len(c) \in Nat
  BY LenProperties
<1> HIDE DEF point
<1>3. ap \in Seq(Glyphs) /\ Len(ap) = m + 1
      /\ \A k \in 1 .. m + 1 : ap[k] = IF k <= m THEN a[k] ELSE point[k - m]
  <2>1. ap \in Seq(Glyphs) /\ Len(ap) = Len(a) + Len(point)
        /\ \A k \in 1 .. Len(a) + Len(point) : ap[k] = IF k <= Len(a) THEN a[k] ELSE point[k - Len(a)]
    BY <1>1, ConcatProperties
  <2> QED
    BY <1>1, <2>1, Zenon
<1> HIDE DEF ap
<1>4. apb \in Seq(Glyphs) /\ Len(apb) = (m + 1) + n
      /\ \A k \in 1 .. (m + 1) + n : apb[k] = IF k <= m + 1 THEN ap[k] ELSE b[k - (m + 1)]
  <2>1. apb \in Seq(Glyphs) /\ Len(apb) = Len(ap) + Len(b)
        /\ \A k \in 1 .. Len(ap) + Len(b) : apb[k] = IF k <= Len(ap) THEN ap[k] ELSE b[k - Len(ap)]
    <3>1. ap \in Seq(Glyphs) /\ b \in Seq(Glyphs)
      BY <1>1, <1>3
    <3> QED
      BY <3>1, ConcatProperties
  <2> QED
    BY <1>3, <2>1, Zenon
<1> HIDE DEF apb
<1>5. t \in Seq(Glyphs) /\ Len(t) = (m + 1 + n) + Len(c)
      /\ \A k \in 1 .. (m + 1 + n) + Len(c) : t[k] = IF k <= m + 1 + n THEN apb[k] ELSE c[k - (m + 1 + n)]
  <2>1. t \in Seq(Glyphs) /\ Len(t) = Len(apb) + Len(c)
        /\ \A k \in 1 .. Len(apb) + Len(c) : t[k] = IF k <= Len(apb) THEN apb[k] ELSE c[k - Len(apb)]
    <3>1. apb \in Seq(Glyphs) /\ c \in Seq(Glyphs)
      BY <1>1, <1>4
    <3> QED
      BY <3>1, ConcatProperties
  <2> QED
    BY <1>4, <2>1, Zenon
<1> DEFINE L == (m + 1 + n) + Len(c)
<1> HIDE DEF m, n, t
<1>6. \A k \in 1 .. L : k <= m => t[k] # "."
  <2> SUFFICES ASSUME NEW k \in 1 .. L, k <= m PROVE t[k] # "."
    OBVIOUS
  <2>1. k \in 1 .. m /\ k \in 1 .. m + 1 /\ k \in 1 .. (m + 1) + n /\ k <= m + 1 /\ k <= m + 1 + n
    BY <1>2, SMT
  <2>2. t[k] = a[k]
    BY <1>3, <1>4, <1>5, <2>1, Zenon
  <2> QED
    BY <2>1, <2>2 DEF Contains, m
<1>7. t[m + 1] = "." /\ m + 1 \in 1 .. L
  <2>1. m + 1 \in 1 .. m + 1 /\ m + 1 \in 1 .. (m + 1) + n /\ m + 1 \in 1 .. L /\ m + 1 <= m + 1 /\ m + 1 <= m + 1 + n
        /\ ~(m + 1 <= m) /\ (m + 1) - m = 1
    BY <1>2, SMT
  <2>2. t[m + 1] = point[1]
    BY <1>3, <1>4, <1>5, <2>1, Zenon
  <2> QED
    BY <1>1, <2>1, <2>2
<1>8. \A k \in m + 2 .. m + 1 + n : k \in 1 .. L /\ t[k] \in DecimalChars
  <2> SUFFICES ASSUME NEW k \in m + 2 .. m + 1 + n PROVE k \in 1 .. L /\ t[k] \in DecimalChars
    OBVIOUS
  <2>1. k \in 1 .. L /\ k \in 1 .. (m + 1) + n /\ k <= m + 1 + n /\ ~(k <= m + 1) /\ k - (m + 1) \in 1 .. n
    BY <1>2, SMT
  <2>2. t[k] = b[k - (m + 1)]
    BY <1>4, <1>5, <2>1, Zenon
  <2>3. b[k - (m + 1)] \in DecimalChars
    BY <2>1, ElementOfSeq DEF n
  <2> QED
    BY <2>1, <2>2, <2>3
<1>9. \A k \in 1 .. L : k > m + 1 + n => t[k] \in S
  <2> SUFFICES ASSUME NEW k \in 1 .. L, k > m + 1 + n PROVE t[k] \in S
    OBVIOUS
  <2>1. ~(k <= m + 1 + n) /\ k - (m + 1 + n) \in 1 .. Len(c)
    BY <1>2, SMT
  <2>2. t[k] = c[k - (m + 1 + n)]
    BY <1>5, <2>1, Zenon
  <2>3. c[k - (m + 1 + n)] \in S
    BY <2>1, ElementOfSeq
  <2> QED
    BY <2>2, <2>3
<1>10. Behind(t) = m + 2 .. m + 1 + n
  <2>1. ASSUME NEW k \in Behind(t) PROVE k \in m + 2 .. m + 1 + n
    <3>1. k \in 1 .. L /\ Contains(lower_digits, t[k]) /\ \E p \in 1 .. k : t[p] = "."
      BY <1>5 DEF Behind
    <3>2. ~(k > m + 1 + n) /\ k # m + 1
      BY <1>7, <1>9, <3>1, PointIsNoDigit
    <3>3. ~(k <= m)
      <4> SUFFICES ASSUME k <= m PROVE FALSE
        OBVIOUS
      <4> PICK p \in 1 .. k : t[p] = "."
        BY <3>1
      <4>1. p \in 1 .. L /\ p <= m
        BY <1>2, <3>1, SMT
      <4> QED
        BY <1>6, <4>1
    <3> QED
      BY <1>2, <3>1, <3>2, <3>3, SMT
  <2>2. ASSUME NEW k \in m + 2 .. m + 1 + n PROVE k \in Behind(t)
    <3>1. k \in 1 .. L /\ Contains(lower_digits, t[k])
      BY <1>8, DecimalDigits
    <3>2. m + 1 \in 1 .. k
      BY <1>2, SMT
    <3> QED
      BY <1>5, <1>7, <3>1, <3>2 DEF Behind
  <2> QED
    BY <2>1, <2>2
<1>11. Cardinality(m + 2 .. m + 1 + n) = n
  <2>1. m + 2 \in Int /\ m + 1 + n \in Int
    BY <1>2, SMT
  <2>2. Cardinality(m + 2 .. m + 1 + n) = IF m + 2 > m + 1 + n THEN 0 ELSE (m + 1 + n) - (m + 2) + 1
    BY <2>1, FS_Interval
  <2>3. (IF m + 2 > m + 1 + n THEN 0 ELSE (m + 1 + n) - (m + 2) + 1) = n
    BY <1>2, SMT
  <2> QED
    BY <2>2, <2>3
<1> QED
  BY <1>10, <1>11 DEF t, apb, ap, point, n

(* What flt puts into the field, without its sign                          *)
FloatShape(body, whole, frac, nd) ==
  /\ whole \in Seq(DecimalChars) /\ frac \in Seq(DecimalChars) /\ Len(frac) = nd
  /\ \/ nd = 0 /\ body = whole
     \/ body = whole \o <<".">> \o frac

(* What is read is a number.                                               *)
LEMMA ReadsNumber ==
  ASSUME NEW s \in Seq(Glyphs), NEW base, NEW v, NEW w, Reads(s, base, v, w)
  PROVE  w \in Nat
<1>1. Len(s) \in Nat
  BY LenProperties
<1>2. Len(s) \in 0 .. Len(s)
  BY <1>1, SMT
<1> PICK f : Reading(f, s, base, v) /\ f[Len(s)] = w
  BY DEF Reads
<1> QED
  BY <1>2 DEF Reading

(* It is the number, with a point that # may add.                          *)
LEMMA FloatBodyShape ==
  ASSUME NEW value \in [units : Int, scale : Nat], NEW precision \in Int, NEW flags
  PROVE  /\ Reads(FloatBody(value, precision, flags), 10, 0, Nearest(Size(value), Places(precision)))
         /\ \E whole, frac : FloatShape(FloatBody(value, precision, flags), whole, frac, Places(precision))
<1> DEFINE nd == Places(precision)
           v == Size(value)
           body == FloatBody(value, precision, flags)
           w == Nearest(v, nd)
           p == parse_float(v, nd)
           point == <<".">>
<1>1. v \in Decimals /\ nd \in Nat
  BY FloatType
<1>2. body = IF "#" \in flags /\ nd = 0 THEN (IF Contains(p, ".") THEN p ELSE Append(p, ".")) ELSE p
  BY DEF FloatBody, decimal_point
<1> HIDE DEF nd, v, w, p, body
<1>3. PICK whole \in Seq(DecimalChars), frac \in Seq(DecimalChars) :
        Len(frac) = nd /\ p = Written(whole, frac, nd) /\ Reads(p, 10, 0, w)
  BY <1>1, parse_floatReads DEF p, w
<1>4. whole \in Seq(Glyphs) /\ point \in Seq(Glyphs)
  BY DecimalDigits, SeqMonotonic, OneGlyph, GlyphsOfText
<1>5. FloatShape(p, whole, frac, nd)
  BY <1>3, Zenon DEF FloatShape, Written
<1>8. w \in Nat
  <2>1. p \in Seq(Glyphs)
    BY <1>1, parse_floatType DEF p
  <2> QED
    BY <1>3, <2>1, ReadsNumber
<1>6. CASE body = p
  BY <1>3, <1>5, <1>6 DEF body, nd, v, w
<1>7. CASE body # p
  <2>1. nd = 0 /\ body = Append(p, ".")
    BY <1>2, <1>7
  <2>2. p = whole
    BY <1>3, <2>1 DEF Written
  <2>3. Append(whole, ".") = whole \o point
    <3>1. "." \in Glyphs
      BY GlyphsOfText
    <3> QED
      BY <1>4, <3>1, AppendIsConcat
  <2>4. frac = <<>>
    BY <1>3, <2>1, EmptySeq, SMT
  <2> HIDE DEF point
  <2>5. whole \o point \in Seq(Glyphs)
    BY <1>4, ConcatProperties
  <2>6. whole \o point \o <<>> = whole \o point
    BY <2>5, ConcatEmptySeq
  <2>7. body = whole \o <<".">> \o frac
    BY <2>1, <2>2, <2>3, <2>4, <2>6 DEF point
  <2>8. FloatShape(body, whole, frac, nd)
    BY <1>3, <2>7, Zenon DEF FloatShape
  <2>9. Reads(point, 10, w, w)
    <3>1. "." \in Glyphs /\ "." \notin DigitChars /\ 10 \in Bases /\ w \in Nat
      BY <1>1, GlyphsOfText, NotDigits, DecimalDigits, <1>8
    <3>2. ReadChar(10, w, ".") = w
      BY <3>1, SkipsNoDigit
    <3> QED
      BY <3>1, <3>2, ReadsOne DEF point
  <2>10. Reads(whole \o point, 10, 0, w)
    BY <1>3, <1>4, <2>2, <2>9, ReadsConcat
  <2> QED
    BY <2>1, <2>2, <2>3, <2>8, <2>10 DEF body, nd, v, w
<1> QED
  BY <1>6, <1>7

(* A decimal number reads back as the nearest one of its places.           *)
LEMMA FloatPrinted ==
  ASSUME NEW d \in Directives({"f"}, [units : Int, scale : Nat])
  PROVE  PrintsFloat(d, ee_vsprintf(d))
<1> DEFINE flags == AllFlags(d)
           precision == PrecisionOf(d)
           nd == Places(precision)
           value == d.arg
           negative == value.units < 0
           before == SignOf(negative, flags)
           body == FloatBody(value, precision, flags)
           text_ == ee_vsprintf(d)
           w == Nearest(Size(value), nd)
<1>1. field_width(d) \in Int /\ precision \in Int /\ d.conv = "f" /\ value \in [units : Int, scale : Nat]
  <2>1. d.conv \in {"f"} /\ d.arg \in [units : Int, scale : Nat] /\ field_width(d) \in Int /\ PrecisionOf(d) \in Int
    BY DirectiveType
  <2> QED
    BY <2>1
<1>2. before \in Seq(Glyphs) /\ body \in Seq(Glyphs) /\ nd \in Nat
  BY <1>1, FloatType
<1>3. negative \in BOOLEAN
  BY SMT
<1>4. "SIGN" \in flags
  BY <1>1, Zenon DEF AllFlags
<1>5. text_ = Justify(before, body, field_width(d), flags)
  BY <1>1, FloatText, fltParts
<1>6. PICK whole, frac : FloatShape(body, whole, frac, nd)
  BY <1>1, FloatBodyShape
<1>7. Reads(body, 10, 0, w)
  BY <1>1, FloatBodyShape
<1>8. Contains(before, "-") <=> negative
  BY <1>3, <1>4, SignContains
<1>9. ~Contains(before, ".")
  BY <1>3, SignContains
<1>10. Reads(before, 10, 0, 0)
  <2>1. before \in Signs /\ 10 \in Bases /\ 0 \in Nat
    BY <1>3, SignType, DecimalDigits
  <2> QED
    BY <2>1, ReadsSign
<1> HIDE DEF before, body, text_, w, nd, precision, flags, negative
<1>11. w \in Nat
  BY <1>2, <1>7, ReadsNumber
<1>12. PICK pad \in Int : \E left, right : Justified(text_, before, body, pad, left, right)
  BY <1>1, <1>2, <1>5, JustifyShape
<1>13. PICK left, right : Justified(text_, before, body, pad, left, right)
  BY <1>12
<1>14. ValueOf(text_, 10) = w
  <2>1. Reads(text_, 10, 0, w)
    BY <1>2, <1>7, <1>10, <1>11, <1>13, JustifiedReads, DecimalDigits
  <2>2. left \in Seq(Glyphs) /\ right \in Seq(Glyphs) /\ text_ = left \o body \o right
    BY <1>13 DEF Justified
  <2>3. text_ \in Seq(Glyphs)
    BY <1>2, <2>2, ConcatThree
  <2> QED
    BY <2>1, <2>3, ReadsValue
<1>15. whole \in Seq(Glyphs) /\ frac \in Seq(Glyphs) /\ whole \in Seq(DecimalChars) /\ frac \in Seq(DecimalChars) /\ Len(frac) = nd
       /\ ~Contains(whole, "-") /\ ~Contains(whole, ".") /\ ~Contains(frac, "-")
  <2>1. whole \in Seq(DecimalChars) /\ frac \in Seq(DecimalChars) /\ Len(frac) = nd
    BY <1>6 DEF FloatShape
  <2>2. "-" \notin DecimalChars /\ "." \notin DecimalChars
    BY DecimalDigits, NotDigits
  <2> QED
    BY <2>1, <2>2, ContainsNot, DecimalDigits, SeqMonotonic
<1>16. ~Contains(body, "-")
  <2> DEFINE point == <<".">>
  <2>1. point \in Seq(Glyphs) /\ ~Contains(point, "-")
    BY OneGlyph, GlyphsOfText, ContainsOne, "." # "-"
  <2> HIDE DEF point
  <2>2. whole \o point \in Seq(Glyphs) /\ ~Contains(whole \o point, "-")
    BY <1>15, <2>1, ContainsConcat, ConcatProperties
  <2>3. ~Contains((whole \o point) \o frac, "-")
    BY <1>15, <2>2, ContainsConcat
  <2> QED
    BY <1>6, <1>15, <2>3 DEF FloatShape, point
<1>17. Contains(text_, "-") <=> negative
  BY <1>2, <1>8, <1>13, <1>16, JustifiedContains, "-" \notin {" ", "0"}
<1>18. Cardinality(Behind(text_)) = nd
  <2>1. ~Contains(left, ".")
    BY <1>2, <1>9, <1>13, JustifiedContains, "." \notin {" ", "0"}
  <2>2. left \in Seq(Glyphs) /\ right \in Seq(Glyphs) /\ text_ = left \o body \o right /\ right \in {<<>>, Repeat(" ", pad)}
    BY <1>13 DEF Justified
  <2>3. right \in Seq({" "})
    BY <2>2, RepeatType, EmptySeq
  <2>4. {" "} \in SUBSET Glyphs /\ \A e \in {" "} : ~Contains(lower_digits, e)
    BY GlyphsOfText, PointIsNoDigit
  <2>5. left \o whole \in Seq(Glyphs) /\ ~Contains(left \o whole, ".")
    BY <1>15, <2>1, <2>2, ContainsConcat, ConcatProperties
  <2>6. CASE nd = 0 /\ body = whole
    <3>1. ~Contains(right, ".")
      BY <2>3, ContainsNot, "." \notin {" "}
    <3> DEFINE lw == left \o whole
    <3>2. lw \in Seq(Glyphs) /\ right \in Seq(Glyphs) /\ ~Contains(lw, ".")
      BY <2>2, <2>5
    <3> HIDE DEF lw
    <3>3. lw \o right \in Seq(Glyphs)
      BY <3>2, ConcatProperties
    <3>4. ~Contains(lw \o right, ".")
      BY <3>1, <3>2, ContainsConcat
    <3>5. Cardinality(Behind(lw \o right)) = 0
      BY <3>3, <3>4, BehindNothing
    <3> QED
      BY <2>2, <2>6, <3>5 DEF lw
  <2>7. CASE body = whole \o <<".">> \o frac
    <3> DEFINE point == <<".">>
               wp == whole \o point
               lw == left \o whole
    <3>1. point \in Seq(Glyphs)
      BY OneGlyph, GlyphsOfText
    <3> HIDE DEF point
    <3>7. left \in Seq(Glyphs) /\ whole \in Seq(Glyphs) /\ frac \in Seq(Glyphs)
      BY <1>15, <2>2
    <3>2. wp \in Seq(Glyphs) /\ left \o wp = lw \o point
      BY <3>1, <3>7, ConcatProperties, ConcatAssociative
    <3> HIDE DEF wp, lw
    <3>8. wp \in Seq(Glyphs)
      BY <3>2
    <3>3. left \o (wp \o frac) = (left \o wp) \o frac
      BY <3>7, <3>8, ConcatAssociative
    <3>4. text_ = lw \o <<".">> \o frac \o right
      BY <2>2, <2>7, <3>2, <3>3 DEF wp, point
    <3>5. lw \in Seq(Glyphs) /\ ~Contains(lw, ".")
      BY <2>5 DEF lw
    <3>6. Cardinality(Behind(lw \o <<".">> \o frac \o right)) = Len(frac)
      BY <1>15, <2>3, <2>4, <3>5, BehindPoint
    <3> QED
      BY <1>15, <3>4, <3>6
  <2> QED
    BY <1>6, <2>6, <2>7 DEF FloatShape
<1>19. /\ nd = (IF precision = Absent THEN 6 ELSE precision)
       /\ Size(value).units = (IF value.units < 0 THEN -value.units ELSE value.units) /\ Size(value).scale = value.scale
  <2>1. precision = Absent \/ precision >= 0
    <3>1. Absent = -1
      BY DEF Absent
    <3>2. d.precision \in Int
      BY DEF Directives
    <3>3. Larger(d.precision, 0) >= 0
      BY <3>2, SMT DEF Larger
    <3> QED
      BY <3>3, Zenon DEF precision, PrecisionOf
  <2>2. Absent < 0
    BY SMT DEF Absent
  <2>3. nd = (IF precision = Absent THEN 6 ELSE precision)
    BY <1>1, <2>1, <2>2, SMT DEF nd, Places
  <2>4. Size(value).units = (IF value.units < 0 THEN -value.units ELSE value.units) /\ Size(value).scale = value.scale
    BY <1>1 DEF Size
  <2> QED
    BY <2>3, <2>4
<1> QED
  BY <1>14, <1>17, <1>18, <1>19, Zenon DEF PrintsFloat, Nearest, Behind, w, negative, text_, precision, value

(* No other directive is one of an integer, or of a float.                 *)
LEMMA OtherConversions ==
  ASSUME NEW d \in AllDirectives
  PROVE  /\ d \notin Numbers => d.conv \notin IntegerConversions
         /\ d \notin Floats => d.conv # "f"
<1>1. ASSUME d \in Numbers PROVE d.conv # "f"
  <2>1. d.conv \in IntegerConversions
    BY <1>1, DirectivesAssumption, DirectiveType
  <2> QED
    BY <2>1 DEF IntegerConversions
<1>2. ASSUME d \in Floats PROVE d.conv \notin IntegerConversions
  <2>1. d \in Directives({"f"}, [units : Int, scale : Nat])
    BY <1>2, DirectivesAssumption
  <2>2. d.conv \in {"f"}
    BY <2>1, DirectiveType
  <2> QED
    BY <2>2 DEF IntegerConversions
<1>3. ASSUME d \in Texts PROVE d.conv \notin IntegerConversions /\ d.conv # "f"
  <2>1. d \in Directives({"s"}, Seq(Seq(Glyphs)))
    BY <1>3, DirectivesAssumption
  <2>2. d.conv \in {"s"}
    BY <2>1, DirectiveType
  <2> QED
    BY <2>2 DEF IntegerConversions
<1>4. ASSUME d \in Chars PROVE d.conv \notin IntegerConversions /\ d.conv # "f"
  <2> DEFINE convs == Glyphs \ (IntegerConversions \cup {"a", "A", "f", "s"})
  <2>1. d \in Directives(convs, Glyphs)
    BY <1>4, DirectivesAssumption
  <2>2. d.conv \in convs
    BY <2>1, DirectiveType
  <2> QED
    BY <2>2, Zenon
<1>5. ASSUME d \in Addresses PROVE d.conv \notin IntegerConversions /\ d.conv # "f"
  <2>1. d \in Directives({"a", "A"}, [1 .. 6 -> 0 .. 255])
    BY <1>5, DirectivesAssumption
  <2>2. d.conv \in {"a", "A"}
    BY <2>1, DirectiveType
  <2> QED
    BY <2>2 DEF IntegerConversions
<1> QED
  BY <1>1, <1>2, <1>3, <1>4, <1>5 DEF AllDirectives

(* Every directive prints its argument.                                    *)
LEMMA ArgumentPrinted ==
  ASSUME NEW d \in AllDirectives
  PROVE  PrintsInteger(d, ee_vsprintf(d)) /\ PrintsFloat(d, ee_vsprintf(d)) /\ FillsField(d, ee_vsprintf(d))
<1>1. PrintsInteger(d, ee_vsprintf(d))
  <2>1. CASE d \in Numbers
    <3>1. d \in Directives(IntegerConversions, 0 .. LongSize - 1)
      BY <2>1, DirectivesAssumption
    <3> QED
      BY <3>1, IntegerPrinted
  <2>2. CASE d \notin Numbers
    BY <2>2, OtherConversions, Zenon DEF PrintsInteger
  <2> QED
    BY <2>1, <2>2
<1>2. PrintsFloat(d, ee_vsprintf(d))
  <2>1. CASE d \in Floats
    <3>1. d \in Directives({"f"}, [units : Int, scale : Nat])
      BY <2>1, DirectivesAssumption
    <3> QED
      BY <3>1, FloatPrinted
  <2>2. CASE d \notin Floats
    BY <2>2, OtherConversions, Zenon DEF PrintsFloat
  <2> QED
    BY <2>1, <2>2
<1> QED
  BY <1>1, <1>2, FieldFilled
---------------------------------------------------------------------------
(* The types of the variables, by what keeps them                          *)
Modes == {"menu", "scan", "release", "event", "boot", "picture", "coremark", "fini"}
ControlOK == /\ pc \in Modes /\ caller \in {"menu", "after"} /\ timeout \in 0 .. ScanTimeout
             /\ button \in Buttons \cup {NoButton} /\ held \subseteq Buttons
MenuOK == /\ repaint \in BOOLEAN /\ selected \in 0 .. ItemsCount - 1
          /\ boot_countdown_sec \in 0 .. BootCountdown
ConsoleOK == pos \in Place /\ text \in Seq(Printable)

(* scan_buttons returns a button that is pressed.                          *)
LEMMA MostSignificantIsPressed ==
  ASSUME NEW pressed \in (SUBSET Buttons) \ {{}}
  PROVE  MostSignificant(pressed) \in pressed
<1>1. pressed \subseteq 0 .. 4 /\ pressed # {}
  <2>1. \A b \in Buttons : b \in 0 .. 4
    <3>1. \A b \in Buttons : b = 0 \/ b = 1 \/ b = 2 \/ b = 3 \/ b = 4
      BY Zenon DEF Buttons, BTN_DOWN, BTN_LEFT, BTN_CLICK, BTN_RIGHT, BTN_UP
    <3> SUFFICES ASSUME NEW b \in Buttons PROVE b \in 0 .. 4
      OBVIOUS
    <3>2. b = 0 \/ b = 1 \/ b = 2 \/ b = 3 \/ b = 4
      BY <3>1
    <3> HIDE DEF Buttons
    <3> QED
      BY <3>2, SMT
  <2>2. pressed \subseteq Buttons /\ pressed # {}
    BY Zenon
  <2> QED
    BY <2>1, <2>2, Zenon
<1>2. \E b \in pressed : \A c \in pressed : c <= b
  <2>1. CASE 4 \in pressed
    BY <1>1, <2>1, SMT
  <2>2. CASE 4 \notin pressed /\ 3 \in pressed
    BY <1>1, <2>2, SMT
  <2>3. CASE 4 \notin pressed /\ 3 \notin pressed /\ 2 \in pressed
    BY <1>1, <2>3, SMT
  <2>4. CASE 4 \notin pressed /\ 3 \notin pressed /\ 2 \notin pressed /\ 1 \in pressed
    BY <1>1, <2>4, SMT
  <2>5. CASE 4 \notin pressed /\ 3 \notin pressed /\ 2 \notin pressed /\ 1 \notin pressed
    <3>1. \A b \in pressed : b = 0
      BY <1>1, <2>5, SMT
    <3>2. PICK b \in pressed : TRUE
      BY <1>1
    <3>3. \A c \in pressed : c <= b
      BY <3>1, SMT
    <3> QED
      BY <3>3
  <2> QED
    BY <2>1, <2>2, <2>3, <2>4, <2>5
<1> QED
  BY <1>2, Zenon DEF MostSignificant

(* Each of the three holds at the start, and every action preserves it.    *)
LEMMA ControlInit == Init => ControlOK
  BY LcdDemoAssumption, SMT DEF Init, ControlOK, Modes, Buttons, NoButton

(* scan_buttons starts with no button and all its time.                    *)
LEMMA ScanControl ==
  ASSUME ControlOK, NEW who \in {"menu", "after"}, CallScan(who)
  PROVE  ControlOK'
  BY LcdDemoAssumption, SMT DEF CallScan, ControlOK, Modes, NoButton

LEMMA ControlStep == ControlOK /\ [Next]_vars => ControlOK'
<1> SUFFICES ASSUME ControlOK, [Next]_vars PROVE ControlOK'
  OBVIOUS
<1>1. CASE Menu
  BY <1>1, ScanControl DEF Menu
<1>2. CASE SeesNone
  BY <1>2, LcdDemoAssumption, SMT DEF SeesNone, ControlOK, Modes, Less
<1>3. CASE WaitsForRelease
  BY <1>3, SMT DEF WaitsForRelease, ControlOK, Modes
<1>4. CASE MenuEvents
  BY <1>4, SMT DEF MenuEvents, Up, Down, LeftOrRight, Click, Dismissed, CountsDown, MenuEvent, ControlOK, Modes, scanvars
<1>5. CASE BootFractal \/ Picture \/ BootCoreMark
  BY <1>5, SMT DEF BootFractal, Picture, BootCoreMark, ControlOK, Modes, scanvars
<1>6. CASE PictureEnds \/ CoreMarkEnds \/ ScansOn
  BY <1>6, ScanControl DEF PictureEnds, CoreMarkEnds, ScansOn
<1>7. CASE Returns
  BY <1>7, SMT DEF Returns, ControlOK, Modes, scanvars
<1>8. CASE SeesPressed
  <2> PICK pressed \in (SUBSET Buttons) \ {{}} :
         button' = MostSignificant(pressed) /\ held' = (held \cap pressed) \cup {button'}
    BY <1>8 DEF SeesPressed
  <2>1. button' \in Buttons
    BY MostSignificantIsPressed
  <2> QED
    BY <1>8, <2>1, LcdDemoAssumption, SMT DEF SeesPressed, ControlOK, Modes
<1>9. CASE CoreMark /\ ~CoreMarkEnds
  BY <1>9, SMT DEF CoreMark, PrintsNumber, PrintsFloatingPoint, PrintsText, PrintsAddress, Converts, PrintsLiteral,
     PutString, PortableFini, ControlOK, Modes, scanvars
<1>10. CASE UNCHANGED vars
  BY <1>10, SMT DEF vars, scanvars, ControlOK
<1> QED
  BY <1>1, <1>2, <1>3, <1>4, <1>5, <1>6, <1>7, <1>8, <1>9, <1>10 DEF Next, Main, CoreMark

LEMMA MenuInit == Init => MenuOK
  BY LcdDemoAssumption, SMT DEF Init, MenuOK

LEMMA MenuStep == MenuOK /\ [Next]_vars => MenuOK'
<1> SUFFICES ASSUME MenuOK, [Next]_vars PROVE MenuOK'
  OBVIOUS
<1>1. CASE Up \/ Down
  <2>1. selected' \in 0 .. ItemsCount - 1
    <3> USE LcdDemoAssumption
    <3> selected \in 0 .. ItemsCount - 1
      BY DEF MenuOK
    <3>1. CASE Up
      <4>1. selected' = IF selected > 0 THEN selected - 1 ELSE ItemsCount - 1
        BY <3>1 DEF Up
      <4> QED
        BY <4>1, SMT
    <3>2. CASE Down
      <4>1. selected' = IF selected < ItemsCount - 1 THEN selected + 1 ELSE 0
        BY <3>2 DEF Down
      <4> QED
        BY <4>1, SMT
    <3> QED
      BY <1>1, <3>1, <3>2
  <2>2. boot_countdown_sec' = 0 /\ repaint' = TRUE
    BY <1>1 DEF Up, Down
  <2>3. 0 \in 0 .. BootCountdown
    BY LcdDemoAssumption, SMT
  <2> QED
    BY <2>1, <2>2, <2>3 DEF MenuOK
<1>2. CASE CountsDown
  <2>1. boot_countdown_sec' = boot_countdown_sec - 1 /\ boot_countdown_sec # 0
    BY <1>2 DEF CountsDown
  <2>2. boot_countdown_sec' \in 0 .. BootCountdown
    BY <2>1, LcdDemoAssumption, SMT DEF MenuOK
  <2>3. repaint' \in BOOLEAN /\ selected' = selected
    BY <1>2, Zenon DEF CountsDown
  <2> QED
    BY <2>2, <2>3 DEF MenuOK
<1>3. CASE Menu \/ Returns
  <2>1. repaint' \in BOOLEAN /\ UNCHANGED <<selected, boot_countdown_sec>>
    BY <1>3, Zenon DEF Menu, Returns, Painted
  <2> QED
    BY <2>1 DEF MenuOK
<1>4. CASE UNCHANGED menuvars
  BY <1>4, SMT DEF menuvars, MenuOK
<1> QED
  BY <1>1, <1>2, <1>3, <1>4, Zenon DEF Next, Main, CoreMark, MenuEvents, SeesNone, WaitsForRelease, LeftOrRight, Click,
     Dismissed, BootFractal, Picture, PictureEnds, BootCoreMark, ScansOn, SeesPressed, PrintsNumber,
     PrintsFloatingPoint, PrintsText, PrintsAddress, Converts, PrintsLiteral, PutString, PortableFini, CoreMarkEnds, vars

LEMMA ConsoleInit == Init => ConsoleOK
  BY FbConAssumption, SMT DEF Init, ConsoleOK, Place

LEMMA ConsoleStep == ConsoleOK /\ [Next]_vars => ConsoleOK'
<1> SUFFICES ASSUME ConsoleOK, [Next]_vars PROVE ConsoleOK'
  OBVIOUS
<1>1. CASE BootCoreMark
  <2>1. Repeat("\n", BlankLines) \in Seq(Printable)
    BY LcdDemoAssumption, RepeatType, BlankLines \in Int, "\n" \in Printable DEF Printable
  <2>2. fbcon_putstr(pos, Repeat("\n", BlankLines)).pos \in Place
    BY <2>1, PutStrOnScreen DEF ConsoleOK, Console
  <2> QED
    BY <1>1, <2>2 DEF BootCoreMark, ConsoleOK
<1>2. ASSUME NEW directives \in SUBSET (Numbers \cup Floats \cup Texts \cup Chars \cup Addresses), Converts(directives)
      PROVE  ConsoleOK'
  BY <1>2, TextOfDirective DEF Converts, ConsoleOK
<1>3. CASE PrintsNumber \/ PrintsFloatingPoint \/ PrintsText \/ PrintsAddress
  <2>1. Converts(Numbers) \/ Converts(Floats) \/ Converts(Texts) \/ Converts(Chars) \/ Converts(Addresses)
    BY <1>3 DEF PrintsNumber, PrintsFloatingPoint, PrintsText, PrintsAddress
  <2> QED
    BY <1>2, <2>1
<1>4. CASE PrintsLiteral
  <2>1. PICK c \in Literals : text' = <<c>>
    BY <1>4 DEF PrintsLiteral
  <2>2. c \in Printable
    BY DirectivesAssumption
  <2>3. text' \in Seq(Printable)
    BY <2>1, <2>2, SMT
  <2> QED
    BY <1>4, <2>3 DEF PrintsLiteral, ConsoleOK
<1>5. CASE PutString
  <2>1. fbcon_putstr(pos, text).pos \in Place
    BY PutStrOnScreen DEF ConsoleOK, Console
  <2>2. text' \in Seq(Printable)
    BY <1>5, SMT DEF PutString
  <2> QED
    BY <1>5, <2>1, <2>2 DEF PutString, ConsoleOK
<1>6. CASE PortableFini
  BY <1>6, TextOfDirective DEF PortableFini, ConsoleOK
<1>7. CASE UNCHANGED <<pos, text>>
  BY <1>7 DEF ConsoleOK
<1> QED
  BY <1>1, <1>3, <1>4, <1>5, <1>6, <1>7, Zenon DEF Next, Main, CoreMark, MenuEvents, Up, Down, CountsDown, Menu, Returns,
     SeesNone, WaitsForRelease, LeftOrRight, Click, Dismissed, MenuEvent, BootFractal, Picture, PictureEnds, ScansOn,
     SeesPressed, CoreMarkEnds, vars, printvars
---------------------------------------------------------------------------
(* The three together                                                      *)
LEMMA TypeInvariant == Spec => [](ControlOK /\ MenuOK /\ ConsoleOK)
<1>1. Init => ControlOK /\ MenuOK /\ ConsoleOK
  BY ControlInit, MenuInit, ConsoleInit
<1>2. ControlOK /\ MenuOK /\ ConsoleOK /\ [Next]_vars => (ControlOK /\ MenuOK /\ ConsoleOK)'
  BY ControlStep, MenuStep, ConsoleStep
<1> QED
  BY <1>1, <1>2, PTL DEF Spec

(* The variables keep their types: the button is one of five or none, the  *)
(* countdown and the selection stay in their ranges, the console on its    *)
(* screen (main of main.c, fbcon_putstr).                                  *)
THEOREM TypeCorrect == Spec => []TypeOK
<1>1. ControlOK /\ MenuOK /\ ConsoleOK => TypeOK
  <2> SUFFICES ASSUME ControlOK, MenuOK, ConsoleOK PROVE TypeOK
    OBVIOUS
  <2>1. 0 .. ScreenHeight - FontHeight \subseteq 0 .. ScreenHeight
    BY FbConAssumption, SMT
  <2>2. pos \in [x : 0 .. ScreenWidth, y : 0 .. ScreenHeight]
    BY <2>1 DEF ConsoleOK, Place
  <2> QED
    BY <2>2, Zenon DEF ControlOK, MenuOK, TypeOK, Modes
<1> QED
  BY <1>1, TypeInvariant, PTL

(* The console draws on the screen only, whatever text comes and wherever  *)
(* the one before it ended (fbcon_putstr of fbcon.c).                      *)
THEOREM AlwaysDrawsOnScreen == Spec => []DrawsOnScreen
<1>1. ConsoleOK => DrawsOnScreen
  <2> SUFFICES ASSUME ConsoleOK PROVE DrawsOnScreen
    OBVIOUS
  <2>1. fbcon_putstr(pos, text).drawn \subseteq Areas
    BY PutStrOnScreen DEF ConsoleOK, Console
  <2> QED
    BY <2>1 DEF DrawsOnScreen, Areas
<1> QED
  BY <1>1, TypeInvariant, PTL
---------------------------------------------------------------------------
(* The text ee_printf is about to hand to the console is the one it made   *)
(* of the directive                                                        *)
CallInv == call # NoCall => call \in AllDirectives /\ text = ee_vsprintf(call)

(* Every action preserves it.                                              *)
LEMMA CallStep == CallInv /\ [Next]_vars => CallInv'
<1> SUFFICES ASSUME CallInv, [Next]_vars PROVE CallInv'
  OBVIOUS
<1>1. ASSUME NEW directives \in SUBSET AllDirectives, Converts(directives) PROVE CallInv'
  BY <1>1, Zenon DEF Converts, CallInv
<1>2. CASE PrintsNumber \/ PrintsFloatingPoint \/ PrintsText \/ PrintsAddress
  <2>1. Converts(Numbers) \/ Converts(Floats) \/ Converts(Texts) \/ Converts(Chars) \/ Converts(Addresses)
    BY <1>2 DEF PrintsNumber, PrintsFloatingPoint, PrintsText, PrintsAddress
  <2> QED
    BY <1>1, <2>1 DEF AllDirectives
<1>3. CASE PortableFini
  <2>1. PICK d \in Floats : call' = d /\ text' = ee_vsprintf(d)
    BY <1>3, Zenon DEF PortableFini
  <2> QED
    BY <2>1, Zenon DEF CallInv, AllDirectives
<1>4. CASE PrintsLiteral \/ PutString
  BY <1>4, Zenon DEF PrintsLiteral, PutString, CallInv
<1>5. CASE UNCHANGED <<call, text>>
  BY <1>5, Zenon DEF CallInv
<1> QED
  BY <1>2, <1>3, <1>4, <1>5, Zenon DEF Next, Main, CoreMark, MenuEvents, Up, Down, CountsDown, Menu, Returns,
     SeesNone, WaitsForRelease, LeftOrRight, Click, Dismissed, MenuEvent, BootFractal, Picture, PictureEnds, ScansOn,
     BootCoreMark, SeesPressed, CoreMarkEnds, vars, printvars

(* What ee_printf prints reads back as its argument, in a field of its     *)
(* width: an integer of any base, sign and precision, a decimal number     *)
(* rounded to its places (number, flt and ee_vsprintf of ee_printf.c).     *)
THEOREM PrintsAlwaysTheArgument == Spec => []PrintsArgument
<1>1. Init => CallInv
  BY Zenon DEF Init, CallInv
<1>2. CallInv => PrintsArgument
  <2> SUFFICES ASSUME CallInv PROVE PrintsArgument
    OBVIOUS
  <2> QED
    BY ArgumentPrinted, Zenon DEF CallInv, PrintsArgument
<1> QED
  BY <1>1, <1>2, CallStep, PTL DEF Spec
---------------------------------------------------------------------------
(* Between two calls scan_buttons holds no button for pressed; while it    *)
(* waits for the release, none but the one it is about to return           *)
HeldInv == IF pc = "release" THEN held \subseteq {button} ELSE held = {}

(* Every action preserves it.                                              *)
LEMMA HeldStep == HeldInv /\ [Next]_vars => HeldInv'
<1> SUFFICES ASSUME HeldInv, [Next]_vars PROVE HeldInv'
  OBVIOUS
<1>1. CASE SeesNone
  BY <1>1, SMT DEF SeesNone, HeldInv
<1>2. CASE SeesPressed
  <2>1. held = {} /\ pc' = "release"
    BY <1>2, SMT DEF SeesPressed, HeldInv
  <2>2. held' = {button'}
    BY <1>2, <2>1, Zenon DEF SeesPressed
  <2> QED
    BY <2>1, <2>2 DEF HeldInv
<1>3. CASE WaitsForRelease
  <2> PICK pressed \in SUBSET Buttons :
         pc' = (IF GoesOn(pressed) THEN "event" ELSE "release") /\ held' = held \cap pressed
    BY <1>3 DEF WaitsForRelease
  <2>1. held \subseteq {button} /\ button' = button
    BY <1>3 DEF WaitsForRelease, HeldInv
  <2>2. CASE button \in pressed
    <3>1. pc' = "release"
      BY <2>2 DEF GoesOn
    <3> QED
      BY <2>1, <3>1 DEF HeldInv
  <2>3. CASE button \notin pressed
    <3>1. pc' # "release" /\ held' = {}
      BY <2>1, <2>3, SMT DEF GoesOn
    <3> QED
      BY <3>1 DEF HeldInv
  <2> QED
    BY <2>2, <2>3
<1>4. CASE pc # "release" /\ pc' # "release" /\ held' = held
  BY <1>4 DEF HeldInv
<1>5. CASE UNCHANGED <<pc, button, held>>
  BY <1>5 DEF HeldInv
<1>6. ASSUME NEW who, CallScan(who), pc # "release" PROVE HeldInv'
  BY <1>6, SMT DEF CallScan, HeldInv
<1>7. CASE Menu \/ PictureEnds \/ CoreMarkEnds \/ ScansOn
  BY <1>6, <1>7, SMT DEF Menu, PictureEnds, CoreMarkEnds, ScansOn
<1>8. CASE MenuEvents
  BY <1>4, <1>8, SMT DEF MenuEvents, Up, Down, LeftOrRight, Click, Dismissed, CountsDown, MenuEvent, scanvars
<1>9. CASE BootFractal \/ BootCoreMark \/ Returns
  BY <1>4, <1>9, SMT DEF BootFractal, BootCoreMark, Returns, scanvars
<1>10. CASE PortableFini
  BY <1>4, <1>10, SMT DEF PortableFini, scanvars
<1>11. CASE Picture \/ PrintsNumber \/ PrintsFloatingPoint \/ PrintsText \/ PrintsAddress \/ PrintsLiteral \/ PutString
            \/ UNCHANGED vars
  BY <1>5, <1>11, Zenon DEF Picture, PrintsNumber, PrintsFloatingPoint, PrintsText, PrintsAddress, PrintsLiteral, PutString,
     Converts, scanvars, vars
<1> QED
  BY <1>1, <1>2, <1>3, <1>7, <1>8, <1>9, <1>10, <1>11 DEF Next, Main, CoreMark

(* A button that scan_buttons returned is returned again only after it was *)
(* seen up (scan_buttons of main.c).                                       *)
THEOREM AlwaysOnePerPress == Spec => OnePerPress
<1>1. Init => HeldInv
  BY SMT DEF Init, HeldInv
<1>2. HeldInv /\ [Next]_vars => [pc = "scan" /\ pc' = "release" => button' \notin held]_vars
  BY SMT DEF HeldInv
<1> QED
  BY <1>1, <1>2, HeldStep, PTL DEF Spec, OnePerPress
---------------------------------------------------------------------------
(* The screen is up to date while the menu waits for a button and takes its*)
(* event, and at the head of the loop, unless a repaint is due.  A countdown*)
(* is one to item 0.                                                       *)
Shown == screen = MenuScreen(selected, boot_countdown_sec)
ScreenInv == /\ boot_countdown_sec # 0 => selected = 0
             /\ caller = "menu" /\ pc \in {"scan", "release", "event"} => Shown
             /\ pc = "menu" /\ repaint # TRUE => Shown

(* Every action preserves it.                                              *)
LEMMA ScreenStep == ScreenInv /\ [Next]_vars => ScreenInv'
<1> SUFFICES ASSUME ScreenInv, [Next]_vars PROVE ScreenInv'
  OBVIOUS
<1>1. CASE Menu
  <2>1. Shown'
    BY <1>1, Zenon DEF Menu, ScreenInv, Shown
  <2> QED
    BY <1>1, <2>1, SMT DEF Menu, CallScan, ScreenInv
<1>2. ASSUME NEW set, NEW goto, MenuEvent(set, goto), goto \in {"menu", "boot"},
             boot_countdown_sec' # 0 => selected' = 0,
             goto = "menu" => repaint' = TRUE \/ UNCHANGED menuvars
      PROVE  ScreenInv'
  <2>1. pc' = goto /\ pc = "event" /\ caller = "menu" /\ screen' = screen
    BY <1>2 DEF MenuEvent
  <2>2. Shown
    BY <2>1, SMT DEF ScreenInv
  <2>3. pc' \notin {"scan", "release", "event"}
    BY <1>2, <2>1, SMT
  <2>4. CASE UNCHANGED menuvars
    <3>1. Shown'
      BY <2>1, <2>2, <2>4 DEF Shown, menuvars
    <3> QED
      BY <1>2, <2>3, <3>1, Zenon DEF ScreenInv
  <2>5. CASE repaint' = TRUE \/ goto # "menu"
    BY <1>2, <2>1, <2>3, <2>5, Zenon DEF ScreenInv
  <2> QED
    BY <1>2, <2>4, <2>5
<1>3. boot_countdown_sec # 0 => selected = 0
  BY DEF ScreenInv
<1>4. CASE Up \/ Down
  BY <1>2, <1>4, Zenon DEF Up, Down
<1>5. CASE LeftOrRight \/ Click \/ Dismissed
  BY <1>2, <1>3, <1>5, Zenon DEF LeftOrRight, Click, Dismissed, menuvars
<1>6. CASE CountsDown
  <2>1. selected' = 0
    BY <1>3, <1>6 DEF CountsDown
  <2>2. CASE boot_countdown_sec = 1
    BY <1>2, <1>6, <2>1, <2>2, "boot" # "menu" DEF CountsDown
  <2>3. CASE boot_countdown_sec # 1
    BY <1>2, <1>6, <2>1, <2>3, Zenon DEF CountsDown
  <2> QED
    BY <2>2, <2>3
<1>7. CASE UNCHANGED <<menuvars, screen, caller>> /\ (pc = "scan" \/ pc = "release") /\ pc' # "menu"
  <2>1. UNCHANGED <<menuvars, screen, caller, Shown>>
    BY <1>7, Zenon DEF menuvars, Shown
  <2> QED
    BY <1>3, <1>7, <2>1, Zenon DEF ScreenInv, menuvars
<1>8. CASE SeesNone \/ SeesPressed \/ WaitsForRelease
  BY <1>7, <1>8, SMT DEF SeesNone, SeesPressed, WaitsForRelease
<1>9. CASE UNCHANGED menuvars /\ pc' \notin {"menu", "scan", "release", "event"}
  BY <1>3, <1>9, Zenon DEF ScreenInv, menuvars
<1>10. CASE BootFractal \/ BootCoreMark \/ PortableFini
  BY <1>9, <1>10, SMT DEF BootFractal, BootCoreMark, PortableFini
<1>11. CASE UNCHANGED menuvars /\ caller' = "after" /\ pc' # "menu"
  <2>1. caller' # "menu"
    BY <1>11, SMT
  <2> QED
    BY <1>3, <1>11, <2>1, Zenon DEF ScreenInv, menuvars
<1>12. CASE PictureEnds \/ CoreMarkEnds \/ ScansOn
  BY <1>11, <1>12, SMT DEF PictureEnds, CoreMarkEnds, ScansOn, CallScan
<1>13. CASE Returns
  <2>1. pc' \notin {"scan", "release", "event"} /\ repaint' = TRUE
    BY <1>13, SMT DEF Returns, Painted
  <2> QED
    BY <1>3, <1>13, <2>1, Zenon DEF Returns, ScreenInv
<1>14. CASE UNCHANGED <<menuvars, pc, caller, screen>>
  <2>1. UNCHANGED <<menuvars, pc, caller, Shown>>
    BY <1>14, Zenon DEF menuvars, Shown
  <2> QED
    BY <1>3, <2>1, Zenon DEF ScreenInv, menuvars
<1>15. CASE Picture \/ PrintsNumber \/ PrintsFloatingPoint \/ PrintsText \/ PrintsAddress \/ PrintsLiteral \/ PutString
            \/ UNCHANGED vars
  BY <1>14, <1>15, Zenon DEF Picture, PrintsNumber, PrintsFloatingPoint, PrintsText, PrintsAddress, PrintsLiteral, PutString,
     Converts, scanvars, vars
<1> QED
  BY <1>1, <1>4, <1>5, <1>6, <1>8, <1>10, <1>12, <1>13, <1>15 DEF Next, Main, CoreMark, MenuEvents

(* The menu shows its selection and its countdown, and a countdown is one  *)
(* to item 0 (the menu loop in main of main.c).                            *)
THEOREM ScreenAlwaysTrue == Spec => []ScreenTrue
<1>1. Init => ScreenInv
  BY SMT DEF Init, ScreenInv
<1>2. ScreenInv => ScreenTrue
  BY SMT DEF ScreenInv, ScreenTrue, Shown
<1> QED
  BY <1>1, <1>2, ScreenStep, PTL DEF Spec
---------------------------------------------------------------------------
(* A picture of this size keeps the values within 2 of the origin, and     *)
(* their products within the numbers of the format: cur_p is the corner    *)
(* moved by so many steps, and a value goes on only while it is within a   *)
(* circle of radius 2.                                                     *)
Bounded(c) == (-8192 <= c.real /\ c.real <= 8192) /\ (-8192 <= c.imag /\ c.imag <= 8192)
              /\ (-33558528 <= c.real * c.imag /\ c.real * c.imag <= 33558528)
PictureInv == /\ x \in 0 .. PicWidth - 1 /\ y \in 0 .. PicHeight
              /\ cur_p = [real |-> x * Inc - 7168, imag |-> 4096 - y * Inc]
              /\ iter_val \in [real : Int, imag : Int] /\ Bounded(iter_val)

(* The numbers of the fixed-point format                                   *)
LEMMA OneIs == One = 4096
  BY SMT DEF One, FP_EXP

LEMMA CornerIs == Corner = [real |-> -7168, imag |-> 4096]
  BY OneIs, SMT DEF Corner

LEMMA ClampIs == ASSUME NEW n \in Int
  PROVE /\ fp_clamp(n) \in Int
        /\ (-32768 <= n /\ n <= 32767) => fp_clamp(n) = n
        /\ n > 32767 => fp_clamp(n) = 32767
<1>1. 2 ^ FP_MANT = 32768
  BY SMT DEF FP_MANT
<1> QED
  BY <1>1, SMT DEF fp_clamp

LEMMA PictureSize == /\ PicWidth \in Nat \ {0} /\ PicHeight \in Nat \ {0} /\ Inc \in Nat \ {0}
                     /\ PicWidth * Inc <= 10240 /\ PicHeight * Inc <= 8192
<1>1. PicWidth \in Nat \ {0} /\ PicHeight \in Nat \ {0} /\ Inc \in Nat \ {0}
  BY FractalAssumption, SMT
<1>2. PicWidth * Inc <= 2 * One + One \div 2 /\ PicHeight * Inc <= 2 * One
  BY FractalAssumption, SMT
<1>3. 2 * One + One \div 2 = 10240 /\ 2 * One = 8192
  BY OneIs, SMT
<1> QED
  BY <1>1, <1>2, <1>3, SMT

(* Where a pixel is in the plane                                           *)
LEMMA PixelBounds ==
  ASSUME NEW a \in 0 .. PicWidth - 1, NEW b \in 0 .. PicHeight
  PROVE  a * Inc \in Int /\ b * Inc \in Int /\ 0 <= a * Inc /\ a * Inc <= 10240 /\ 0 <= b * Inc /\ b * Inc <= 8192
<1> USE PictureSize
<1>1. a * Inc <= PicWidth * Inc /\ a * Inc >= 0
  BY SMT
<1>2. b * Inc <= PicHeight * Inc /\ b * Inc >= 0
  BY SMT
<1> QED
  BY <1>1, <1>2, SMT

(* Every point of the picture is bounded                                   *)
LEMMA PixelBounded ==
  ASSUME NEW r \in Int, -7168 <= r, r <= 3072, NEW m \in Int, -4096 <= m, m <= 4096
  PROVE  Bounded([real |-> r, imag |-> m])
<1>1. (-33558528 <= r * m /\ r * m <= 33558528)
  BY SMT
<1> QED
  BY <1>1, SMT DEF Bounded

(* The square of what is bounded, moved to the next value                  *)
LEMMA SquareBounds ==
  ASSUME NEW r \in Int, NEW m \in Int, (r * r) \div 4096 + (m * m) \div 4096 <= 16384
  PROVE  (-8192 <= r /\ r <= 8192) /\ (-8192 <= m /\ m <= 8192) /\ (-33558528 <= r * m /\ r * m <= 33558528)
<1> DEFINE a == r * r
           b == m * m
<1>1. a \in Nat /\ b \in Nat
  BY SMT
<1>2. a <= 4096 * (a \div 4096) + 4095 /\ b <= 4096 * (b \div 4096) + 4095
  <2> HIDE DEF a, b
  <2> QED
    BY <1>1, SMT
<1>3. a + b <= 67117054 
  <2>1. a \div 4096 + b \div 4096 <= 16384
    BY SMT
  <2> HIDE DEF a, b
  <2> QED
    BY <1>1, <1>2, <2>1, SMT
<1>4. r * r + m * m <= 67117054
  BY <1>3, SMT
<1>5. (-8192 <= r /\ r <= 8192) /\ (-8192 <= m /\ m <= 8192)
  BY <1>4, SMT
<1>6. (r - m) * (r - m) >= 0 /\ (r + m) * (r + m) >= 0
  BY SMT
<1>7. (r - m) * (r - m) = r * r + m * m - 2 * (r * m) /\ (r + m) * (r + m) = r * r + m * m + 2 * (r * m)
  BY SMT
<1>8. (-33558528 <= r * m /\ r * m <= 33558528)
  BY <1>4, <1>6, <1>7, SMT
<1> QED
  BY <1>5, <1>8, SMT

(* The products of bounded parts stay where the clamp does nothing         *)
LEMMA ProductsInRange ==
  ASSUME NEW r \in Int, -8192 <= r, r <= 8192, NEW m \in Int, -8192 <= m, m <= 8192, (-33558528 <= r * m /\ r * m <= 33558528)
  PROVE  /\ 0 <= (r * r) \div 4096 /\ (r * r) \div 4096 <= 16384 /\ 0 <= (m * m) \div 4096 /\ (m * m) \div 4096 <= 16384
         /\ (-8193 <= (r * m) \div 4096 /\ (r * m) \div 4096 <= 8193)
<1>1. r * r \in Int /\ 0 <= r * r /\ r * r <= 67108864 /\ m * m \in Int /\ 0 <= m * m /\ m * m <= 67108864 /\ r * m \in Int
  BY SMT
<1>2. \A p \in Int : 0 <= p /\ p <= 67108864 => 0 <= p \div 4096 /\ p \div 4096 <= 16384
  BY SMT
<1>3. \A p \in Int : -33558528 <= p /\ p <= 33558528 => (-8193 <= p \div 4096 /\ p \div 4096 <= 8193)
  BY SMT
<1> QED
  BY <1>1, <1>2, <1>3, SMT

(* So no product of an iteration reaches a limit.                          *)
LEMMA NothingClamps == PictureInv => Iterated = Unlimited /\ Unlimited \in [real : Int, imag : Int]
<1> SUFFICES ASSUME PictureInv PROVE Iterated = Unlimited /\ Unlimited \in [real : Int, imag : Int]
  BY SMT
<1> DEFINE r == iter_val.real
           m == iter_val.imag
           rr == (r * r) \div 4096
           mm == (m * m) \div 4096
           rm == (r * m) \div 4096
<1>0. r \in Int /\ m \in Int
  BY SMT DEF PictureInv
<1>1. (-8192 <= r /\ r <= 8192) /\ (-8192 <= m /\ m <= 8192) /\ (-33558528 <= r * m /\ r * m <= 33558528)
  BY SMT DEF PictureInv, Bounded
<1>2. r \in Int /\ m \in Int /\ m * r = r * m
  BY <1>0, SMT
<1>3. cur_p.real \in Int /\ cur_p.imag \in Int /\ (-7168 <= cur_p.real /\ cur_p.real <= 3072) /\ (-4096 <= cur_p.imag /\ cur_p.imag <= 4096)
  <2>1. x * Inc \in Int /\ y * Inc \in Int /\ 0 <= x * Inc /\ x * Inc <= 10240 /\ 0 <= y * Inc /\ y * Inc <= 8192
    BY PixelBounds, SMT DEF PictureInv
  <2>2. cur_p.real = x * Inc - 7168 /\ cur_p.imag = 4096 - y * Inc
    BY SMT DEF PictureInv
  <2> QED
    BY <2>1, <2>2, SMT
<1> DEFINE c == cur_p.real
           d == cur_p.imag
<1>4. /\ rr \in Int /\ mm \in Int /\ rm \in Int
      /\ 0 <= rr /\ rr <= 16384 /\ 0 <= mm /\ mm <= 16384 /\ -8193 <= rm /\ rm <= 8193
  <2> HIDE DEF r, m
  <2>1. r * r \in Int /\ m * m \in Int /\ r * m \in Int
    BY <1>2, SMT
  <2>2. rr \in Int /\ mm \in Int /\ rm \in Int
    BY <2>1, SMT
  <2>3. 0 <= rr /\ rr <= 16384 /\ 0 <= mm /\ mm <= 16384 /\ -8193 <= rm /\ rm <= 8193
    BY <1>1, <1>2, ProductsInRange, SMT
  <2> QED
    BY <2>2, <2>3, SMT
<1>5. fp_mul(r, r) = fp_clamp(rr) /\ fp_mul(m, m) = fp_clamp(mm) /\ fp_mul(r, m) = fp_clamp(rm) /\ fp_mul(m, r) = fp_clamp(rm)
  BY <1>2, OneIs, SMT DEF fp_mul
<1>6. Unlimited = [real |-> rr - mm + c, imag |-> 2 * rm + d]
  BY OneIs, SMT DEF Unlimited, Mul
<1>7. Iterated = [real |-> fp_add(fp_add(fp_mul(r, r), -fp_mul(m, m)), c),
                  imag |-> fp_add(fp_add(fp_mul(r, m), fp_mul(m, r)), d)]
  BY SMT DEF Iterated, cmplx_fixed_add, cmplx_fixed_mul
<1> HIDE DEF r, m, rr, mm, rm, c, d
<1>8. fp_mul(r, r) = rr /\ fp_mul(m, m) = mm /\ fp_mul(r, m) = rm /\ fp_mul(m, r) = rm
  <2>1. \A n \in Int : -32768 <= n /\ n <= 32767 => fp_clamp(n) = n
    BY ClampIs, SMT
  <2>2. (-32768 <= rr /\ rr <= 32767) /\ (-32768 <= mm /\ mm <= 32767) /\ (-32768 <= rm /\ rm <= 32767)
    BY <1>4, SMT
  <2> QED
    BY <1>4, <1>5, <2>1, <2>2, SMT
<1>9. fp_add(fp_add(rr, -mm), c) = rr - mm + c /\ fp_add(fp_add(rm, rm), d) = 2 * rm + d
  <2>0. \A n \in Int : -32768 <= n /\ n <= 32767 => fp_clamp(n) = n
    BY ClampIs, SMT
  <2>1. c \in Int /\ d \in Int /\ (-7168 <= c /\ c <= 3072) /\ (-4096 <= d /\ d <= 4096)
    BY <1>3, SMT DEF c, d
  <2>2. rr + (-mm) \in Int /\ rm + rm \in Int /\ (-32768 <= rr + (-mm) /\ rr + (-mm) <= 32767) /\ (-32768 <= rm + rm /\ rm + rm <= 32767) 
    BY <1>4, SMT
  <2>3. fp_add(rr, -mm) = rr + (-mm) /\ fp_add(rm, rm) = rm + rm
    BY <2>0, <2>2, SMT DEF fp_add
  <2>4. (rr + (-mm)) + c \in Int /\ (rm + rm) + d \in Int /\ (-32768 <= (rr + (-mm)) + c /\ (rr + (-mm)) + c <= 32767) /\ (-32768 <= (rm + rm) + d /\ (rm + rm) + d <= 32767)
    BY <1>4, <2>1, SMT
  <2>5. fp_add(rr + (-mm), c) = (rr + (-mm)) + c /\ fp_add(rm + rm, d) = (rm + rm) + d
    BY <2>0, <2>4, SMT DEF fp_add
  <2>6. (rr + (-mm)) + c = rr - mm + c /\ (rm + rm) + d = 2 * rm + d
    BY <1>4, <2>1, SMT
  <2> QED
    BY <2>3, <2>5, <2>6, SMT
<1>10. rr - mm + c \in Int /\ 2 * rm + d \in Int
  <2>1. c \in Int /\ d \in Int
    BY <1>3, SMT DEF c, d
  <2> QED
    BY <1>4, <2>1, SMT
<1> QED
  BY <1>6, <1>7, <1>8, <1>9, <1>10, SMT

(* Whether a value escapes does not depend on the limits of fp_mul         *)
LEMMA EscapesAnyway ==
  ASSUME NEW z \in [real : Int, imag : Int]
  PROVE  cmplx_fixed_abs_sq(z) > 4 * One <=> Mul(z.real, z.real) + Mul(z.imag, z.imag) > 4 * One
<1> DEFINE a == (z.real * z.real) \div 4096
           b == (z.imag * z.imag) \div 4096
<1>1. a \in Nat /\ b \in Nat
  <2>1. z.real * z.real \in Nat /\ z.imag * z.imag \in Nat
    BY SMT
  <2>2. \A p \in Nat : p \div 4096 \in Nat
    BY SMT
  <2> QED
    BY <2>1, <2>2, SMT
<1>2. cmplx_fixed_abs_sq(z) = fp_clamp(a) + fp_clamp(b)
  BY OneIs, SMT DEF cmplx_fixed_abs_sq, fp_mul
<1>3. Mul(z.real, z.real) + Mul(z.imag, z.imag) = a + b
  BY OneIs, SMT DEF Mul
<1>4. 4 * One = 16384
  BY OneIs, SMT
<1> HIDE DEF a, b
<1>5. \A n \in Nat : (n <= 32767 /\ fp_clamp(n) = n) \/ (n > 32767 /\ fp_clamp(n) = 32767)
  <2> TAKE n \in Nat
  <2>1. (-32768 <= n /\ n <= 32767) \/ n > 32767
    BY SMT
  <2>2. (-32768 <= n /\ n <= 32767) => n <= 32767
    BY SMT
  <2> QED
    BY <2>1, <2>2, ClampIs, SMT
<1>6. fp_clamp(a) + fp_clamp(b) > 16384 <=> a + b > 16384
  <2>1. (a <= 32767 /\ fp_clamp(a) = a) \/ (a > 32767 /\ fp_clamp(a) = 32767)
    BY <1>1, <1>5, SMT
  <2>2. (b <= 32767 /\ fp_clamp(b) = b) \/ (b > 32767 /\ fp_clamp(b) = 32767)
    BY <1>1, <1>5, SMT
  <2> QED
    BY <1>1, <2>1, <2>2, SMT
<1> QED
  BY <1>2, <1>3, <1>4, <1>6, SMT

LEMMA HarmlessByInvariant == PictureInv => ClampHarmless
<1> SUFFICES ASSUME PictureInv PROVE ClampHarmless
  BY SMT
<1>1. Iterated = Unlimited /\ Unlimited \in [real : Int, imag : Int]
  BY NothingClamps, SMT
<1>2. Escapes <=> Mul(Unlimited.real, Unlimited.real) + Mul(Unlimited.imag, Unlimited.imag) > 4 * One
  BY <1>1, EscapesAnyway, SMT DEF Escapes
<1> QED
  BY <1>1, <1>2, SMT DEF ClampHarmless

(* The invariant holds at the start, and every action preserves it.        *)
LEMMA PictureStart == FractalStart => PictureInv
<1> SUFFICES ASSUME FractalStart PROVE PictureInv
  BY SMT
<1>1. x = 0 /\ y = 0 /\ cur_p = [real |-> -7168, imag |-> 4096] /\ iter_val = cur_p
  BY CornerIs, SMT DEF FractalStart
<1>2. 0 \in 0 .. PicWidth - 1 /\ 0 \in 0 .. PicHeight /\ 0 * Inc - 7168 = -7168 /\ 4096 - 0 * Inc = 4096
  BY PictureSize, SMT
<1>3. Bounded([real |-> -7168, imag |-> 4096])
  BY PixelBounded, SMT
<1>4. iter_val \in [real : Int, imag : Int]
  BY <1>1, SMT
<1> QED
  BY <1>1, <1>2, <1>3, <1>4, SMT DEF PictureInv

LEMMA IterateStep == PictureInv /\ Iterate => PictureInv'
<1> SUFFICES ASSUME PictureInv, Iterate PROVE PictureInv'
  BY SMT
<1>1. Iterated = Unlimited /\ Unlimited \in [real : Int, imag : Int]
  BY NothingClamps, SMT
<1>2. iter_val' \in [real : Int, imag : Int]
      /\ ~(Mul(iter_val'.real, iter_val'.real) + Mul(iter_val'.imag, iter_val'.imag) > 4 * One)
  BY <1>1, EscapesAnyway, SMT DEF Iterate, Escapes
<1> DEFINE r == iter_val'.real
           m == iter_val'.imag
<1>3. r \in Int /\ m \in Int
  BY <1>2, SMT
<1>4. ~((r * r) \div 4096 + (m * m) \div 4096 > 16384)
  <2>1. 4 * One = 16384
    BY OneIs, SMT
  <2> QED
    BY <1>2, <2>1, OneIs, SMT DEF Mul
<1>5. Bounded(iter_val')
  <2> HIDE DEF r, m
  <2>1. (r * r) \div 4096 + (m * m) \div 4096 <= 16384
    BY <1>3, <1>4, SMT
  <2>2. (-8192 <= r /\ r <= 8192) /\ (-8192 <= m /\ m <= 8192) /\ (-33558528 <= r * m /\ r * m <= 33558528)
    BY <1>3, <2>1, SquareBounds, SMT
  <2> QED
    BY <2>2, SMT DEF Bounded, r, m
<1> QED
  BY <1>2, <1>5, SMT DEF PictureInv, Iterate

LEMMA NextPixelStep == PictureInv /\ NextPixel /\ ~PictureDone => PictureInv'
<1> SUFFICES ASSUME PictureInv, NextPixel, ~PictureDone PROVE PictureInv'
  BY SMT
<1>0. /\ x \in 0 .. PicWidth - 1 /\ y \in 0 .. PicHeight /\ y # PicHeight
      /\ cur_p = [real |-> x * Inc - 7168, imag |-> 4096 - y * Inc]
  BY SMT DEF PictureInv, PictureDone
<1>1. /\ x' \in 0 .. PicWidth - 1 /\ y' \in 0 .. PicHeight
      /\ cur_p' = [real |-> x' * Inc - 7168, imag |-> 4096 - y' * Inc]
  <2>1. CASE x + 1 = PicWidth
    <3>1. x' = 0 /\ y' = y + 1 /\ cur_p' = [real |-> -7168, imag |-> (4096 - y * Inc) - Inc]
      BY <1>0, <2>1, CornerIs, SMT DEF NextPixel
    <3>2. 0 \in 0 .. PicWidth - 1 /\ y + 1 \in 0 .. PicHeight /\ 0 * Inc - 7168 = -7168
          /\ (4096 - y * Inc) - Inc = 4096 - (y + 1) * Inc
      BY <1>0, PictureSize, SMT
    <3> QED
      BY <3>1, <3>2, SMT
  <2>2. CASE x + 1 # PicWidth
    <3>1. x' = x + 1 /\ y' = y /\ cur_p' = [real |-> (x * Inc - 7168) + Inc, imag |-> 4096 - y * Inc]
      BY <1>0, <2>2, SMT DEF NextPixel
    <3>2. x + 1 \in 0 .. PicWidth - 1 /\ (x * Inc - 7168) + Inc = (x + 1) * Inc - 7168
      BY <1>0, <2>2, PictureSize, SMT
    <3> QED
      BY <1>0, <3>1, <3>2, SMT
  <2> QED
    BY <2>1, <2>2, SMT
<1>2. iter_val' = [real |-> x' * Inc - 7168, imag |-> 4096 - y' * Inc]
  BY <1>1, SMT DEF NextPixel
<1>3. x' * Inc \in Int /\ y' * Inc \in Int /\ 0 <= x' * Inc /\ x' * Inc <= 10240 /\ 0 <= y' * Inc /\ y' * Inc <= 8192
  BY <1>1, PixelBounds, SMT
<1>4. x' * Inc - 7168 \in Int /\ 4096 - y' * Inc \in Int /\ (-7168 <= x' * Inc - 7168 /\ x' * Inc - 7168 <= 3072) /\ (-4096 <= 4096 - y' * Inc /\ 4096 - y' * Inc <= 4096)
  BY <1>3, SMT
<1>5. Bounded([real |-> x' * Inc - 7168, imag |-> 4096 - y' * Inc])
  BY <1>4, PixelBounded, SMT
<1>6. x' * Inc - 7168 \in Int /\ 4096 - y' * Inc \in Int
  BY <1>3, SMT
<1> QED
  BY <1>1, <1>2, <1>5, <1>6, SMT DEF PictureInv

LEMMA PictureUnchanged == PictureInv /\ UNCHANGED fractalvars => PictureInv'
  BY SMT DEF PictureInv, fractalvars, Bounded

LEMMA PictureStep == PictureInv /\ [Next]_vars => PictureInv'
<1> SUFFICES ASSUME PictureInv, [Next]_vars PROVE PictureInv'
  OBVIOUS
<1>1. CASE Picture
  <2>1. (Iterate \/ NextPixel) /\ ~PictureDone
    BY <1>1, Zenon DEF Picture
  <2> QED
    BY <2>1, IterateStep, NextPixelStep, Zenon
<1>2. CASE PictureEnds
  <2>1. FractalStart'
    BY <1>2, Zenon DEF PictureEnds, FractalStart, Corner, One
  <2> QED
    BY <2>1, PictureStart, PTL
<1>3. CASE UNCHANGED fractalvars
  BY <1>3, PictureUnchanged
<1> QED
  BY <1>1, <1>2, <1>3, Zenon DEF Next, Main, CoreMark, MenuEvents, Up, Down, LeftOrRight, Click, Dismissed, CountsDown,
     MenuEvent, Menu, Returns, SeesNone, WaitsForRelease, BootFractal, BootCoreMark, ScansOn, SeesPressed, PrintsNumber,
     PrintsFloatingPoint, PrintsText, PrintsAddress, Converts, PrintsLiteral, PutString, PortableFini, CoreMarkEnds, vars

(* Saturation never shows in the picture: a pixel escapes when it would in *)
(* arithmetic without limits, and what does not escape is the value this   *)
(* arithmetic gives (fp_clamp and fp_mul of fractal_fixed.c).              *)
THEOREM ClampAlwaysHarmless == Spec => []ClampHarmless
<1>1. Init => PictureInv
  BY PictureStart DEF Init
<1> QED
  BY <1>1, PictureStep, HarmlessByInvariant, PTL DEF Spec
=============================================================================
