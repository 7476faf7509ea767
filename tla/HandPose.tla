------------------------------ MODULE HandPose ------------------------------
(***************************************************************************)
(* What the driver makes of a controller's pose in each interaction: the   *)
(* apply functions of MotionCompensationManager, on the members of one     *)
(* slot.  Lengths are integers of some unit; the trigger and the share     *)
(* alpha are counted in parts of Full, punchDist is a length.  Where the   *)
(* code divides, the operator gives the result times the divisor.          *)
(***************************************************************************)
EXTENDS PoseMath

CONSTANTS Margin,    \* how far behind the reference a hand may be shown (0.1)
          Shoulder,  \* the distance at which the full ratio holds (0.07)
          Full       \* a trigger that is pulled; a share of 1

ASSUME MarginAssumption == Margin \in Nat
ASSUME ShoulderAssumption == Shoulder \in Nat \ {0}
ASSUME FullAssumption == Full \in Nat \ {0}

Slot == [ref : Vector, ratio : Vector, offset : Vector, punchDist : Nat]

Smaller(a, b) == IF a <= b THEN a ELSE b
Abs(a) == IF a >= 0 THEN a ELSE -a

-----------------------------------------------------------------------------
(* The distance to the reference, stretched: one axis, and all of them. *)

Stretched(ref, ratio, offset, last) == ref + (last - ref) * ratio + offset

StretchedPosition(slot, last) ==
  Vec(Stretched(slot.ref.x, slot.ratio.x, slot.offset.x, last.x),
      Stretched(slot.ref.y, slot.ratio.y, slot.offset.y, last.y),
      Stretched(slot.ref.z, slot.ratio.z, slot.offset.z, last.z))

(* applyRotByQuat: the offset's rotation comes after the hand's own. *)
applyRotByQuat(rot, quat) == rot ** quat

(* applyGoGo: the thrust goes forward, which is against z; then the limit.
   The result is Full times the position on each axis. *)
applyGoGo(slot, trigger, last) ==
  LET p == StretchedPosition(slot, last)
  IN Vec(Full * p.x, Full * p.y,
         Smaller(Full * (slot.ref.z + Margin),
                 Full * p.z - trigger * slot.punchDist))

(* applyGoGoDelay: Full times the new last position, which is stretched. *)
Blend(alpha, now, last) == alpha * now + (Full - alpha) * last

Delayed(alpha, now, last) ==
  Vec(Blend(alpha, now.x, last.x), Blend(alpha, now.y, last.y),
      Blend(alpha, now.z, last.z))

(* applyGoGoSaber: qx and qy are the rotations about x and y that stand for
   the distances moved up and aside. *)
SaberRotation(rot, quat, qx, qy) ==
  applyRotByQuat(applyRotByQuat(applyRotByQuat(rot, quat), qx), qy)

(* applyGoGoAccel: a ratio that grows with the distance, one axis; Shoulder
   times the ratio, and Shoulder times the position. *)
AccelRatio(ref, ratio, last) ==
  LET dist == last - ref
  IN Abs(ratio * dist + (Shoulder - dist))

AccelStretched(ref, ratio, offset, last) ==
  Shoulder * (ref + offset) + (last - ref) * AccelRatio(ref, ratio, last)

-----------------------------------------------------------------------------
(* applyGamepadBoxing.  The curve of a blow depends on how far it has gone,
   here 1000 Full squared times it.  The hand of slot 1 hooks the other way. *)

Uppercut(trigger) == 105 * trigger * (7 * trigger - 10 * Full)

Hook(trigger, idx) ==
  1500 * trigger * (trigger - Full) * (IF idx > 0 THEN -1 ELSE 1)

(* x, y and z of the code, 1000 Full squared times each. *)
Blow(a, b, trigger, idx) ==
  Vec(IF b /\ ~a THEN Hook(trigger, idx) ELSE 0,
      IF a THEN Uppercut(trigger) ELSE 0,
      1000 * Full * trigger)

(* 100 Full squared times the position; the code's factor is 10. *)
applyGamepadBoxing(slot, a, b, trigger, idx) ==
  LET unit == 100 * Full * Full
      blow == Blow(a, b, trigger, idx)
      guard == slot.ref \oplus slot.offset
  IN Vec(unit * guard.x - blow.x * slot.punchDist,
         unit * guard.y + blow.y * slot.punchDist,
         unit * guard.z - blow.z * slot.punchDist)

(* applyGamepadSaber: the stick moves the hand on x and y, the trigger on z;
   stick is the stick's offset times its sensitivity. *)
applyGamepadSaber(slot, stick, trigger) ==
  LET p == slot.ref \oplus slot.offset \oplus stick
  IN Vec(Full * p.x, Full * p.y, Full * p.z + trigger * slot.punchDist)
=============================================================================
