------------------------------ MODULE EePrintf ------------------------------
(***************************************************************************)
(* The printf of the CoreMark port, ee_printf.c, with the cvt.c it calls.  *)
(* A text is a sequence of characters.  A directive is a record:           *)
(*   flags     the subset of - + space # 0 it has,                         *)
(*   width     the width in digits, the argument of * if star, or Absent,  *)
(*   dot, precision   whether it has a precision; a negative one is that   *)
(*             of a lone dot, or the argument of *,                        *)
(*   long      whether it has the qualifier l,                             *)
(*   conv, arg the conversion and its argument.                            *)
(* int and long are of the same width.  A double is an exact decimal       *)
(* number: [units, scale] is units / 10^scale.                             *)
(***************************************************************************)
EXTENDS Integers, Sequences, SequencesExt

CONSTANT LongSize     \* how many values a long has: 2 ^ 32
ASSUME PrintfAssumption == LongSize \in Nat \ {0} /\ LongSize % 2 = 0

Absent == -1
Directives(convs, args) ==
  [flags : SUBSET {"-", "+", " ", "#", "0"}, width : Int, star : BOOLEAN, dot : BOOLEAN, precision : Int,
   long : BOOLEAN, conv : convs, arg : args]

Larger(a, b) == IF a > b THEN a ELSE b
Repeat(c, n) == [i \in 1 .. Larger(n, 0) |-> c]
Has(flags, f) == IF f \in flags THEN <<f>> ELSE <<>>

lower_digits == <<"0","1","2","3","4","5","6","7","8","9","a","b","c","d","e","f">>
upper_digits == <<"0","1","2","3","4","5","6","7","8","9","A","B","C","D","E","F">>

(* The digits of a number, the most significant first, without zeros       *)
(* before it                                                               *)
Digits(num, base, dig) ==
  LET of[n \in Nat] == IF n < base THEN <<dig[n + 1]>>
                       ELSE Append(of[n \div base], dig[(n % base) + 1])
  IN of[num]
---------------------------------------------------------------------------
(* The sign in front of a signed conversion takes its place in the field   *)
SignOf(negative, flags) ==
  CASE ~("SIGN" \in flags) -> <<>>
    [] "SIGN" \in flags /\ negative -> <<"-">>
    [] "SIGN" \in flags /\ ~negative -> IF "+" \in flags THEN <<"+">> ELSE Has(flags, " ")

(* Spaces before it, or zeros after the sign, or spaces behind it: the     *)
(* last part of number and of flt.  The zero flag has no effect with -.    *)
Justify(before, body, size, flags) ==
  LET pad == size - Len(before) - Len(body)
  IN CASE "-" \in flags -> before \o body \o Repeat(" ", pad)
       [] "0" \in flags /\ ~("-" \in flags) -> before \o Repeat("0", pad) \o body
       [] OTHER -> Repeat(" ", pad) \o before \o body

number(num, base, size, precision, flags) ==
  LET negative == "SIGN" \in flags /\ num >= LongSize \div 2
      digits   == Digits(IF negative THEN LongSize - num ELSE num, base,
                         IF "UPPERCASE" \in flags THEN upper_digits ELSE lower_digits)
      prefix   == IF "#" \notin flags THEN <<>>
                  ELSE CASE base = 8 -> <<"0">> [] base = 16 -> <<"0", "x">> [] OTHER -> <<>>
      zeros    == Repeat("0", precision - Len(digits))
  IN Justify(SignOf(negative, flags) \o prefix, zeros \o digits, size, flags)

(* What has no zero padding: %s and the addresses                          *)
Pad(body, size, flags) == Justify(<<>>, body, size, flags \ {"0"})

(* Six bytes in hexadecimal with colons, four in decimal with dots         *)
eaddr(addr, size, flags) ==
  LET dig == IF "UPPERCASE" \in flags THEN upper_digits ELSE lower_digits
      byte(i) == (IF i = 1 THEN <<>> ELSE <<":">>) \o <<dig[addr[i] \div 16 + 1], dig[(addr[i] % 16) + 1]>>
  IN Pad(FlattenSeq([i \in 1 .. 6 |-> byte(i)]), size, flags)

iaddr(addr, size, flags) ==
  LET byte(i) == (IF i = 1 THEN <<>> ELSE <<".">>) \o Digits(addr[i], 10, lower_digits)
  IN Pad(FlattenSeq([i \in 1 .. 4 |-> byte(i)]), size, flags)
---------------------------------------------------------------------------
Pow10(n) == LET pow[k \in 0 .. n] == IF k = 0 THEN 1 ELSE 10 * pow[k - 1] IN pow[n]

(* fcvtbuf: the digits of a decimal number from the first that counts to   *)
(* the ndigits-th behind the point, rounded by adding 5 to the next one,   *)
(* and the place of the point, decpt.  carry[i] tells whether digit i      *)
(* overflows when the one behind it does.                                  *)
fcvtbuf(value, ndigits) ==
  LET whole  == value.units \div Pow10(value.scale)
      rest   == value.units % Pow10(value.scale)
      r2     == IF whole # 0 THEN Len(Digits(whole, 10, lower_digits))
                ELSE IF rest = 0 THEN 0
                ELSE Len(Digits(rest, 10, lower_digits)) - value.scale
      count  == ndigits + r2                       \* digits to keep
      shift  == value.scale - ndigits - 1          \* the digits computed, as a number
      kept   == IF shift >= 0 THEN value.units \div Pow10(shift) ELSE value.units * Pow10(-shift)
      digit[i \in 1 .. count + 1] == (kept \div Pow10(count + 1 - i)) % 10
      sum[i \in 1 .. count + 1] == IF i = count + 1 THEN digit[i] + 5
                                   ELSE digit[i] + (IF sum[i + 1] > 9 THEN 1 ELSE 0)
      rounded == [i \in 1 .. count |-> lower_digits[(sum[i] % 10) + 1]]
  IN CASE count < 0 -> [digits |-> <<>>, decpt |-> r2]
       [] count >= 0 /\ sum[1] <= 9 -> [digits |-> rounded, decpt |-> r2]
       [] OTHER -> [digits |-> <<"1">> \o rounded, decpt |-> r2 + 1]

(* The branch of %f, the only one ee_vsprintf asks for                     *)
parse_float_PointAtDecptZero(value, precision) ==
  LET cvt == fcvtbuf(value, precision)
  IN CASE cvt.digits = <<>> -> <<"0">> \o (IF precision > 0 THEN <<".">> \o Repeat("0", precision) ELSE <<>>)
       [] cvt.digits # <<>> /\ cvt.decpt <= 0 -> <<"0", ".">> \o cvt.digits
       [] OTHER -> SubSeq(cvt.digits, 1, cvt.decpt)
                   \o (IF Len(cvt.digits) > cvt.decpt THEN <<".">> ELSE <<>>)
                   \o SubSeq(cvt.digits, cvt.decpt + 1, Len(cvt.digits))
parse_float(value, precision) ==
  LET cvt == fcvtbuf(value, precision)
  IN CASE cvt.digits = <<>> -> <<"0">> \o (IF precision > 0 THEN <<".">> \o Repeat("0", precision) ELSE <<>>)
       [] cvt.digits # <<>> /\ cvt.decpt <= 0 -> <<"0", ".">> \o Repeat("0", -cvt.decpt) \o cvt.digits
       [] OTHER -> SubSeq(cvt.digits, 1, cvt.decpt)
                   \o (IF Len(cvt.digits) > cvt.decpt THEN <<".">> ELSE <<>>)
                   \o SubSeq(cvt.digits, cvt.decpt + 1, Len(cvt.digits))

(* A point where there is none.  There is no exponent to put it before.    *)
decimal_point(text) == IF Contains(text, ".") THEN text ELSE Append(text, ".")

flt(value, size, precision, flags) ==
  LET negative == value.units < 0
      places   == IF precision < 0 THEN 6 ELSE precision
      text     == parse_float([value EXCEPT !.units = IF negative THEN -@ ELSE @], places)
  IN Justify(SignOf(negative, flags),
             IF "#" \in flags /\ places = 0 THEN decimal_point(text) ELSE text, size, flags)
---------------------------------------------------------------------------
(* A negative argument of * asks for the left side; a precision that is    *)
(* negative, or missing behind its dot, is 0.                              *)
field_width(d) == IF d.star /\ d.width < 0 THEN -d.width ELSE d.width
AllFlags(d) == d.flags \cup (IF d.star /\ d.width < 0 THEN {"-"} ELSE {})
                       \cup (IF d.conv \in {"d", "i", "f"} THEN {"SIGN"} ELSE {})
                       \cup (IF d.conv \in {"X", "A"} THEN {"UPPERCASE"} ELSE {})
PrecisionOf(d) == IF d.dot THEN Larger(d.precision, 0) ELSE Absent

(* strnlen with the precision as its limit.  A pointer is a sequence of    *)
(* the text it points to, or of nothing.                                   *)
Str(pointer, precision) ==
  LET s == IF pointer = <<>> THEN <<"<","N","U","L","L",">">> ELSE pointer[1]
  IN IF precision = Absent \/ precision > Len(s) THEN s ELSE SubSeq(s, 1, precision)

IntegerConversions == {"o", "x", "X", "d", "i", "u", "p"}
Base(conv) == CASE conv = "o" -> 8 [] conv \in {"x", "X", "p"} -> 16 [] OTHER -> 10

(* What one directive becomes.  A format is converted item by item; the    *)
(* characters between its directives are copied.                           *)
ee_vsprintf(d) ==
  LET width == field_width(d)
      flags == AllFlags(d)
      precision == PrecisionOf(d)
  IN CASE d.conv = "c" -> Pad(<<d.arg>>, width, flags)
       [] d.conv = "s" -> Pad(Str(d.arg, precision), width, flags)
       [] d.conv = "p" /\ width = Absent -> number(d.arg, 16, 8, precision, flags \cup {"0"})
       [] d.conv \in IntegerConversions /\ ~(d.conv = "p" /\ width = Absent) ->
            number(d.arg, Base(d.conv), width, precision, flags)
       [] d.conv \in {"a", "A"} -> IF d.long THEN eaddr(d.arg, width, flags) ELSE iaddr(d.arg, width, flags)
       [] d.conv = "f" -> flt(d.arg, width, precision, flags)
       [] d.conv = "%" -> <<"%">>
       [] OTHER -> <<"%", d.conv>>
---------------------------------------------------------------------------
(* Reading a text back: its digits give a number, whatever else it holds   *)
ValueOf(text, base) ==
  LET dig(c) == IF Contains(lower_digits, c) THEN SelectInSeq(lower_digits, LAMBDA e : e = c) - 1
                ELSE IF Contains(upper_digits, c) THEN SelectInSeq(upper_digits, LAMBDA e : e = c) - 1
                ELSE base
      upto[n \in 0 .. Len(text)] ==
        IF n = 0 THEN 0
        ELSE IF dig(text[n]) < base THEN upto[n - 1] * base + dig(text[n]) ELSE upto[n - 1]
  IN upto[Len(text)]

Signed(text, n) == IF Contains(text, "-") THEN -n ELSE n
LongValue(num) == IF num >= LongSize \div 2 THEN num - LongSize ELSE num

(* What is printed for an integer reads back as this integer, zeros of     *)
(* padding, precision and prefix included: in front of the digits only     *)
PrintsInteger(d, text) ==
  d.conv \in IntegerConversions =>
    Signed(text, ValueOf(text, Base(d.conv))) = IF d.conv \in {"d", "i"} THEN LongValue(d.arg) ELSE d.arg

(* What is printed for a float is the decimal number of that many places   *)
(* that is nearest to it, halves away from zero                            *)
PrintsFloat(d, text) ==
  d.conv = "f" =>
    LET places == IF PrecisionOf(d) = Absent THEN 6 ELSE PrecisionOf(d)
        size   == IF d.arg.units < 0 THEN -d.arg.units ELSE d.arg.units
        behind == {k \in 1 .. Len(text) : Contains(lower_digits, text[k]) /\ \E p \in 1 .. k : text[p] = "."}
    IN /\ ValueOf(text, 10) = (2 * size * Pow10(places) + Pow10(d.arg.scale)) \div (2 * Pow10(d.arg.scale))
       /\ Cardinality(behind) = places
       /\ Contains(text, "-") <=> d.arg.units < 0

(* A width adds to the field what is missing, and no more                  *)
FillsField(d, text) ==
  d.conv \in IntegerConversions \cup {"c", "s", "a", "A", "f"} /\ ~(d.conv = "p" /\ d.width = Absent) =>
    Len(text) = Larger(field_width(d), Len(ee_vsprintf([d EXCEPT !.width = 0])))
=============================================================================
