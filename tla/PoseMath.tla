------------------------------ MODULE PoseMath ------------------------------
(***************************************************************************)
(* The arithmetic of poses (openvr_math.h) and what the driver computes    *)
(* with it: the conversion between driver and app space and the            *)
(* compensation by a reference tracker.                                    *)
(*                                                                         *)
(* Doubles are integers of some unit.  The unit quaternions of the code    *)
(* are quaternions of any length but 0 here, each standing for the         *)
(* rotation of its direction: sums and products then need no roots, and    *)
(* Rotate divides by the length where the code relies on it being 1.       *)
(***************************************************************************)
EXTENDS Integers

Quaternion == [w : Int, x : Int, y : Int, z : Int]
Vector == [x : Int, y : Int, z : Int]

Quat(w, x, y, z) == [w |-> w, x |-> x, y |-> y, z |-> z]
Vec(x, y, z) == [x |-> x, y |-> y, z |-> z]

Plus(u, v) == Vec(u.x + v.x, u.y + v.y, u.z + v.z)
Minus(u, v) == Vec(u.x - v.x, u.y - v.y, u.z - v.z)
Product(p, q) == Quat(p.w * q.w - p.x * q.x - p.y * q.y - p.z * q.z,
                      p.w * q.x + p.x * q.w + p.y * q.z - p.z * q.y,
                      p.w * q.y + p.y * q.w + p.z * q.x - p.x * q.z,
                      p.w * q.z + p.z * q.w + p.x * q.y - p.y * q.x)

(* The operators +, - and * of openvr_math.h. *)
u \oplus v == Plus(u, v)
u \ominus v == Minus(u, v)
p ** q == Product(p, q)

quaternionConjugate(q) == Quat(q.w, -q.x, -q.y, -q.z)

Norm(q) == q.w * q.w + q.x * q.x + q.y * q.y + q.z * q.z
Times(k, q) == Quat(k * q.w, k * q.x, k * q.y, k * q.z)
Pure(v) == Quat(0, v.x, v.y, v.z)

(* p and q turn everything alike: they differ in length and sign only. *)
SameRotation(p, q) ==
  LET r == p ** quaternionConjugate(q) IN r.x = 0 /\ r.y = 0 /\ r.z = 0

(* The vector p, as a quaternion, rotated, times the norm of q. *)
Turned(q, p) == (q ** p) ** quaternionConjugate(q)

(* quaternionRotateVector, forward and with reverse set. *)
Rotate(q, v) ==
  LET t == Turned(q, Pure(v))
  IN Vec(t.x \div Norm(q), t.y \div Norm(q), t.z \div Norm(q))

RotateBack(q, v) == Rotate(quaternionConjugate(q), v)

-----------------------------------------------------------------------------
(* Driver space to app space and back; D is the device's world-from-driver
   transform, which the code applies in reverse. *)

AppPosition(D, pos) == RotateBack(D.rot, pos) \ominus D.pos
AppRotation(D, rot) == quaternionConjugate(D.rot) ** rot

DriverPosition(D, pos) == Rotate(D.rot, pos \oplus D.pos)
DriverRotation(D, rot) == D.rot ** rot

(* _RefRot: how the tracker has turned since the zero point. *)
RefRotation(D, rot, zeroRot) ==
  AppRotation(D, rot) ** quaternionConjugate(zeroRot)

CompensatedPosition(D, zeroPos, ref, pos) ==
  DriverPosition(D,
    zeroPos \oplus RotateBack(ref.rot, AppPosition(D, pos) \ominus ref.pos))

CompensatedRotation(D, ref, rot) ==
  DriverRotation(D, quaternionConjugate(ref.rot) ** AppRotation(D, rot))
=============================================================================
