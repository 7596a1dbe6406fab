---------------------------- MODULE FractalFixed ----------------------------
(***************************************************************************)
(* The Mandelbrot picture in fixed-point arithmetic, fractal_fixed.c: one  *)
(* step is an iteration of mandel_iters_fixed, or the next pixel.          *)
(***************************************************************************)
EXTENDS Integers

CONSTANTS PicWidth, PicHeight,    \* pixels of the picture
          Inc,                    \* from one to the next
          MaxIters

VARIABLES x, y, cur_p, iter_val, i

fractalvars == <<x, y, cur_p, iter_val, i>>

FP_EXP == 12
FP_MANT_OneBitLess == 14
FP_MANT == 15
One == 2 ^ FP_EXP                                    \* MAKE_FP(1, 0, 0)

(* The picture is at most 2.5 wide and 2 high, as 160 and 128 pixels that  *)
(* are 1/64 apart make it.                                                 *)
ASSUME FractalAssumption ==
  /\ {PicWidth, PicHeight, Inc, MaxIters} \subseteq Nat \ {0}
  /\ PicWidth * Inc <= 2 * One + One \div 2 /\ PicHeight * Inc <= 2 * One

fp_clamp(n) == IF n < -(2 ^ FP_MANT) THEN -(2 ^ FP_MANT)
               ELSE IF n >= 2 ^ FP_MANT THEN 2 ^ FP_MANT - 1 ELSE n
fp_add(a, b) == fp_clamp(a + b)
fp_mul(a, b) == fp_clamp((a * b) \div One)           \* >> rounds down

cmplx_fixed_abs_sq(c) == fp_mul(c.real, c.real) + fp_mul(c.imag, c.imag)
cmplx_fixed_mul(c, d) ==
  [real |-> fp_add(fp_mul(c.real, d.real), -fp_mul(c.imag, d.imag)),
   imag |-> fp_add(fp_mul(c.real, d.imag), fp_mul(c.imag, d.real))]
cmplx_fixed_add(c, d) == [real |-> fp_add(c.real, d.real), imag |-> fp_add(c.imag, d.imag)]
---------------------------------------------------------------------------
Corner == [real |-> -(One + (3 * One) \div 4), imag |-> One]     \* -1.75 + i

FractalStart == x = 0 /\ y = 0 /\ cur_p = Corner /\ iter_val = Corner /\ i = 0

(* The loop of mandel_iters_fixed ends at a value of absolute square above *)
(* 4, or after MaxIters                                                    *)
Iterated == cmplx_fixed_add(cmplx_fixed_mul(iter_val, iter_val), cur_p)
Escapes == cmplx_fixed_abs_sq(Iterated) > 4 * One

Iterate == /\ i < MaxIters /\ ~Escapes
           /\ iter_val' = Iterated /\ i' = i + 1
           /\ UNCHANGED <<x, y, cur_p>>

(* The pixel gets the colour number i; the loops go to the next            *)
NextPixel ==
  /\ i = MaxIters \/ Escapes
  /\ LET lineEnds == x + 1 = PicWidth
     IN /\ x' = IF lineEnds THEN 0 ELSE x + 1
        /\ y' = IF lineEnds THEN y + 1 ELSE y
        /\ cur_p' = IF lineEnds THEN [real |-> Corner.real, imag |-> cur_p.imag - Inc]
                    ELSE [cur_p EXCEPT !.real = @ + Inc]
  /\ iter_val' = cur_p' /\ i' = 0

PictureDone == y = PicHeight
---------------------------------------------------------------------------
(* The same arithmetic without limits                                      *)
Mul(a, b) == (a * b) \div One
Unlimited == [real |-> Mul(iter_val.real, iter_val.real) - Mul(iter_val.imag, iter_val.imag) + cur_p.real,
              imag |-> 2 * Mul(iter_val.real, iter_val.imag) + cur_p.imag]

(* Saturation (fp_clamp, fractal_fixed.c:21) never shows in the picture: a *)
(* value that does not escape is the one unlimited arithmetic gives, and a *)
(* pixel escapes when it would there.                                      *)
ClampHarmless ==
  ~PictureDone /\ i < MaxIters =>
    /\ Escapes <=> Mul(Unlimited.real, Unlimited.real) + Mul(Unlimited.imag, Unlimited.imag) > 4 * One
    /\ ~Escapes => Iterated = Unlimited
=============================================================================
