----------------------------- MODULE MCLcdDemo -----------------------------
(***************************************************************************)
(* LcdDemo with a small screen, a small font and sets of directives.       *)
(***************************************************************************)
EXTENDS LcdDemo, TLC

MCCharWidth == [c \in {"0","1","2","3","4","5","6","7","8","9","a","b","c","d","e","f","A","B","C","D","E","F",
                       "+","-",".",":","%"} |-> 4]
               @@ [c \in {" ", "x", "<", ">", "N", "U", "L"} |-> 8]

Directive(flags, width, precision, conv, arg) ==
  [flags |-> flags, width |-> width, star |-> width < Absent,
   dot |-> precision # Absent, precision |-> precision, long |-> FALSE, conv |-> conv, arg |-> arg]

AllNumberFlags == SUBSET {"-", "+", " ", "#", "0"}

MCNumbers ==
  {Directive(f, w, p, c, n) : f \in AllNumberFlags, w \in {Absent, 5}, p \in {Absent, 3},
                              c \in {"d", "X", "o"}, n \in {0, 9, 128, 255}}
  \cup {Directive(f, w, p, c, n) : f \in {{}, {"0"}, {"#", "0"}}, w \in {Absent, -4, 4}, p \in {Absent, -2, 0},
                                   c \in {"i", "u", "x", "p"}, n \in {0, 10, 127, 255}}

MCFloats ==
  {Directive(f, w, p, "f", [units |-> u, scale |-> s]) :
     f \in SUBSET {"-", "0", "#"}, w \in {Absent, 6}, p \in {0, 1, 2},
     u \in {0, 4, 5, 95, 96, -996, 1234}, s \in {0, 1, 3}}
  \cup {Directive(f, w, Absent, "f", [units |-> u, scale |-> s]) :
          f \in {{}, {"+"}, {" ", "0"}}, w \in {Absent, -12}, u \in {0, -5, 96}, s \in {0, 2}}

MCResults == {Directive({}, Absent, Absent, "f", [units |-> 5, scale |-> 1])}

MCTexts == {Directive(f, w, p, "s", s) : f \in {{}, {"-"}, {"0"}}, w \in {Absent, -4, 4}, p \in {Absent, -2, 1},
                                         s \in {<<>>, << <<"A", "b">> >>}}

MCChars == {Directive(f, w, Absent, c, "A") : f \in {{}, {"-"}}, w \in {Absent, 1, 3}, c \in {"c", "%", "e"}}

MCLiterals == {"\n", "\r", "\f", "0"}

MCAddresses == {[Directive(f, w, Absent, c, <<0, 9, 10, 200, 255, 17>>) EXCEPT !.long = l] :
                  f \in {{}, {"-"}}, w \in {Absent, 20}, c \in {"a", "A"}, l \in BOOLEAN}
=============================================================================
