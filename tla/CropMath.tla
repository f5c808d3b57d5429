------------------------------ MODULE CropMath ------------------------------
(***************************************************************************)
(* crop-math.ts: the image is scaled, turned and shifted behind a crop     *)
(* window that stays centred.  Angles are given by an exact cosine and     *)
(* sine, lengths are fractions of a pixel.                                 *)
(***************************************************************************)
EXTENDS Fractions

CONSTANT MinCropSize    \* MIN_CROP_SIZE

(* The cosine and sine of rotation quarter turns plus straighten steps of   *)
(* the angle whose tangent is 3/4 (36.87 degrees, within the slider's 45).  *)
StraightenCos(s) == IF s = 0 THEN One ELSE Frac(4, 5)
StraightenSin(s) == IF s = 0 THEN Zero ELSE Frac(3 * s, 5)

Cos(rotation, s) ==
    LET c == StraightenCos(s)  n == StraightenSin(s)
    IN  IF rotation = 0 THEN c ELSE IF rotation = 90 THEN Neg(n)
        ELSE IF rotation = 180 THEN Neg(c) ELSE n

Sin(rotation, s) ==
    LET c == StraightenCos(s)  n == StraightenSin(s)
    IN  IF rotation = 0 THEN n ELSE IF rotation = 90 THEN c
        ELSE IF rotation = 180 THEN Neg(n) ELSE Neg(c)

(* The crop window projected on the turned image's axes. *)
RequiredW(w, h, c, s) == Plus(Times(w, AbsOf(c)), Times(h, AbsOf(s)))
RequiredH(w, h, c, s) == Plus(Times(w, AbsOf(s)), Times(h, AbsOf(c)))

(* Mutant: the projection on the second axis is forgotten. *)
computeMinScale_OneAxis(w, h, img, c, s) == Over(RequiredW(w, h, c, s), img.w)

(* The least scale at which the turned image fills the crop window. *)
computeMinScale(w, h, img, c, s) ==
    Larger(Over(RequiredW(w, h, c, s), img.w), Over(RequiredH(w, h, c, s), img.h))

(* How far the image may be shifted along each axis of the window, each     *)
(* computed as if it were not shifted along the other.                      *)
computeTranslationBounds(w, h, img, scale, c, s) ==
    LET roomW == Minus(Half(Times(img.w, scale)), Half(RequiredW(w, h, c, s)))
        roomH == Minus(Half(Times(img.h, scale)), Half(RequiredH(w, h, c, s)))
        Limit(room1, cut1, room2, cut2) ==
            IF cut1 = Zero THEN Over(room2, AbsOf(cut2))
            ELSE IF cut2 = Zero THEN Over(room1, AbsOf(cut1))
            ELSE Smaller(Over(room1, AbsOf(cut1)), Over(room2, AbsOf(cut2)))
    IN  [tx |-> Larger(Zero, Limit(roomW, c, roomH, s)),
         ty |-> Larger(Zero, Limit(roomW, s, roomH, c))]

clampTranslation(t, max) == Larger(Neg(max), Smaller(t, max))

(* The largest window of a ratio that fits the image. *)
applyCropTemplate(ratio, img) ==
    IF ~Leq(Over(img.w, img.h), ratio) /\ Over(img.w, img.h) # NaN
    THEN [w |-> Times(img.h, ratio), h |-> img.h]
    ELSE [w |-> img.w, h |-> Over(img.w, ratio)]

(* Which way each handle pulls the window's width and height. *)
PullX == [nw |-> -1, n |-> 0, ne |-> 1, w |-> -1, e |-> 1, sw |-> -1, s |-> 0, se |-> 1]
PullY == [nw |-> -1, n |-> -1, ne |-> -1, w |-> 0, e |-> 0, sw |-> 1, s |-> 1, se |-> 1]

(* The window after a handle was pulled by dx, dy: both sides move, a least *)
(* size is kept, and a locked ratio follows the side that is pulled.        *)
resizeCropFromHandle(handle, dx, dy, w, h, ratio) ==
    LET least == Int2Frac(MinCropSize)
        pw == Larger(Plus(w, Int2Frac(2 * PullX[handle] * dx)), least)
        ph == Larger(Plus(h, Int2Frac(2 * PullY[handle] * dy)), least)
    IN  IF ratio = Zero THEN [w |-> pw, h |-> ph]
        ELSE IF handle \in {"w", "e"} THEN [w |-> pw, h |-> Over(pw, ratio)]
        ELSE [w |-> Times(ph, ratio), h |-> ph]

-----------------------------------------------------------------------------

(* Every corner of the crop window lies on the image: turned back by the    *)
(* angle, the window's corners stay within half the scaled image.           *)
Covered(w, h, img, scale, tx, ty, c, s) ==
    LET alongX == AbsOf(Plus(Times(tx, c), Times(ty, s)))
        alongY == AbsOf(Minus(Times(ty, c), Times(tx, s)))
    IN  /\ Leq(Plus(alongX, Half(RequiredW(w, h, c, s))), Half(Times(img.w, scale)))
        /\ Leq(Plus(alongY, Half(RequiredH(w, h, c, s))), Half(Times(img.h, scale)))
=============================================================================
