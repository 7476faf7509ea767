----------------------- MODULE CompensatedPose_proofs -----------------------
(***************************************************************************)
(* Proofs about the poses.  The algebra of quaternions that the            *)
(* compensation rests on, for all integer quaternions, that is for all     *)
(* rotations with rational coordinates, and that the compensation takes    *)
(* the motion of the platform out of the headset's pose.  What holds of a  *)
(* shown hand for all positions, ratios, offsets and triggers.  And that   *)
(* the compensation with its poses does what MotionCompensation says, so   *)
(* that what is proved of requests there holds of it.                      *)
(***************************************************************************)
EXTENDS CompensatedPose, HandPose, MotionCompensation_proofs

LEMMA ProductType ==
  ASSUME NEW p \in Quaternion, NEW q \in Quaternion
  PROVE  p ** q \in Quaternion
  BY DEF Quaternion, **, Product, Quat

LEMMA ConjugateType ==
  ASSUME NEW q \in Quaternion
  PROVE  quaternionConjugate(q) \in Quaternion
  BY DEF Quaternion, quaternionConjugate, Quat

LEMMA NormType ==
  ASSUME NEW q \in Quaternion
  PROVE  Norm(q) \in Int
  BY DEF Quaternion, Norm

LEMMA TimesType ==
  ASSUME NEW k \in Int, NEW q \in Quaternion
  PROVE  Times(k, q) \in Quaternion
  BY DEF Quaternion, Times, Quat

LEMMA ProductAssociates ==
  ASSUME NEW p \in Quaternion, NEW q \in Quaternion, NEW r \in Quaternion
  PROVE  (p ** q) ** r = p ** (q ** r)
  BY DEF Quaternion, **, Product, Quat

LEMMA NormOfProduct ==
  ASSUME NEW p \in Quaternion, NEW q \in Quaternion
  PROVE  Norm(p ** q) = Norm(p) * Norm(q)
  BY DEF Quaternion, **, Product, Quat, Norm

LEMMA ConjugateOfProduct ==
  ASSUME NEW p \in Quaternion, NEW q \in Quaternion
  PROVE  quaternionConjugate(p ** q)
           = quaternionConjugate(q) ** quaternionConjugate(p)
  BY DEF Quaternion, **, Product, Quat, quaternionConjugate

LEMMA ConjugateTwice ==
  ASSUME NEW q \in Quaternion
  PROVE  quaternionConjugate(quaternionConjugate(q)) = q
  BY DEF Quaternion, Quat, quaternionConjugate

LEMMA ConjugateCancels ==
  ASSUME NEW p \in Quaternion, NEW q \in Quaternion
  PROVE  /\ quaternionConjugate(p) ** (p ** q) = Times(Norm(p), q)
         /\ p ** (quaternionConjugate(p) ** q) = Times(Norm(p), q)
  BY DEF Quaternion, **, Product, Quat, quaternionConjugate, Times, Norm

LEMMA TimesMoves ==
  ASSUME NEW k \in Int, NEW p \in Quaternion, NEW q \in Quaternion
  PROVE  /\ p ** Times(k, q) = Times(k, p ** q)
         /\ Times(k, p) ** q = Times(k, p ** q)
  BY DEF Quaternion, **, Product, Quat, Times

LEMMA TimesTwice ==
  ASSUME NEW j \in Int, NEW k \in Int, NEW q \in Quaternion
  PROVE  Times(j, Times(k, q)) = Times(j * k, q)
  BY DEF Quaternion, Quat, Times

LEMMA MultipleIsSame ==
  ASSUME NEW k \in Int, NEW q \in Quaternion
  PROVE  SameRotation(Times(k, q), q)
  BY DEF Quaternion, Quat, Times, SameRotation, **, Product, quaternionConjugate

-----------------------------------------------------------------------------
(* The reference is q_0 . conj(q_t), seen from app space, when inverted. *)
LEMMA ReferenceInverse ==
  ASSUME NEW d \in Quaternion, NEW q0 \in Quaternion, NEW qt \in Quaternion
  PROVE  quaternionConjugate((quaternionConjugate(d) ** qt)
                               ** quaternionConjugate(quaternionConjugate(d) ** q0))
           = (quaternionConjugate(d) ** q0) ** (quaternionConjugate(qt) ** d)
  <1> DEFINE dc == quaternionConjugate(d)
             a == dc ** qt
             b == dc ** q0
  <1>1. dc \in Quaternion /\ a \in Quaternion /\ b \in Quaternion
    BY ConjugateType, ProductType
  <1>2. quaternionConjugate(b) \in Quaternion
    BY <1>1, ConjugateType
  <1>3. quaternionConjugate(a ** quaternionConjugate(b))
          = quaternionConjugate(quaternionConjugate(b)) ** quaternionConjugate(a)
    BY <1>1, <1>2, ConjugateOfProduct
  <1>4. quaternionConjugate(quaternionConjugate(b)) = b
    BY <1>1, ConjugateTwice
  <1>5. quaternionConjugate(a) = quaternionConjugate(qt) ** d
    BY <1>1, ConjugateOfProduct, ConjugateTwice
  <1> QED BY <1>3, <1>4, <1>5

(* The platform at the zero point had rotation q0, now it has qt, and the
   head is turned by r on it: what applyMotionCompensation passes on is the
   head on the platform of the zero point, for every world-from-driver
   rotation D.rot that tracker and headset share. *)
THEOREM RotationIsCancelled ==
  ASSUME NEW D, D.rot \in Quaternion,
         NEW q0 \in Quaternion, NEW qt \in Quaternion, NEW r \in Quaternion,
         NEW R, R.rot = RefRotation(D, qt, AppRotation(D, q0))
  PROVE  /\ CompensatedRotation(D, R, qt ** r)
              = Times((Norm(D.rot) * Norm(qt)) * Norm(D.rot), q0 ** r)
         /\ SameRotation(CompensatedRotation(D, R, qt ** r), q0 ** r)
  <1> DEFINE d == D.rot
             dc == quaternionConjugate(d)
             n == Norm(d)
             back == (dc ** q0) ** (quaternionConjugate(qt) ** d)
  <1>1. /\ d \in Quaternion /\ dc \in Quaternion /\ n \in Int
        /\ quaternionConjugate(qt) \in Quaternion
        /\ qt ** r \in Quaternion /\ q0 ** r \in Quaternion
        /\ Norm(qt) \in Int
    BY ConjugateType, NormType, ProductType
  <1>2. /\ dc ** q0 \in Quaternion
        /\ quaternionConjugate(qt) ** d \in Quaternion
        /\ dc ** (qt ** r) \in Quaternion
    BY <1>1, ProductType
  <1>3. CompensatedRotation(D, R, qt ** r) = d ** (back ** (dc ** (qt ** r)))
    BY <1>1, ReferenceInverse
       DEF CompensatedRotation, DriverRotation, AppRotation, RefRotation
  <1>4. (quaternionConjugate(qt) ** d) ** (dc ** (qt ** r))
          = Times(n * Norm(qt), r)
    <2>1. (quaternionConjugate(qt) ** d) ** (dc ** (qt ** r))
            = quaternionConjugate(qt) ** (d ** (dc ** (qt ** r)))
      BY <1>1, <1>2, ProductAssociates
    <2>2. d ** (dc ** (qt ** r)) = Times(n, qt ** r)
      BY <1>1, ConjugateCancels
    <2>3. quaternionConjugate(qt) ** Times(n, qt ** r)
            = Times(n, quaternionConjugate(qt) ** (qt ** r))
      BY <1>1, TimesMoves
    <2>4. quaternionConjugate(qt) ** (qt ** r) = Times(Norm(qt), r)
      BY ConjugateCancels
    <2> QED BY <1>1, <2>1, <2>2, <2>3, <2>4, TimesTwice
  <1>5. back ** (dc ** (qt ** r))
          = Times(n * Norm(qt), (dc ** q0) ** r)
    <2>1. back ** (dc ** (qt ** r))
            = (dc ** q0) ** ((quaternionConjugate(qt) ** d) ** (dc ** (qt ** r)))
      BY <1>1, <1>2, ProductAssociates
    <2>2. n * Norm(qt) \in Int
      BY <1>1
    <2> QED BY <1>2, <1>4, <2>1, <2>2, TimesMoves
  <1>6. d ** ((dc ** q0) ** r) = Times(n, q0 ** r)
    BY <1>1, ProductAssociates, ConjugateCancels
  <1>7. CompensatedRotation(D, R, qt ** r)
          = Times((n * Norm(qt)) * n, q0 ** r)
    <2>1. n * Norm(qt) \in Int /\ (dc ** q0) ** r \in Quaternion
      BY <1>1, <1>2, ProductType
    <2>2. d ** Times(n * Norm(qt), (dc ** q0) ** r)
            = Times(n * Norm(qt), d ** ((dc ** q0) ** r))
      BY <1>1, <2>1, TimesMoves
    <2> QED BY <1>1, <1>3, <1>5, <1>6, <2>1, <2>2, TimesTwice
  <1>8. (n * Norm(qt)) * n \in Int
    BY <1>1
  <1> QED BY <1>1, <1>7, <1>8, MultipleIsSame

LEMMA TurnedType ==
  ASSUME NEW q \in Quaternion, NEW p \in Quaternion
  PROVE  Turned(q, p) \in Quaternion
  BY ProductType, ConjugateType DEF Turned

LEMMA TurnedTwice ==
  ASSUME NEW p \in Quaternion, NEW q \in Quaternion, NEW v \in Quaternion
  PROVE  Turned(p, Turned(q, v)) = Turned(p ** q, v)
  <1> DEFINE pc == quaternionConjugate(p)
             qc == quaternionConjugate(q)
  <1>1. pc \in Quaternion /\ qc \in Quaternion
    BY ConjugateType
  <1>2. /\ q ** v \in Quaternion /\ (q ** v) ** qc \in Quaternion
        /\ p ** (q ** v) \in Quaternion /\ p ** q \in Quaternion
    BY <1>1, ProductType
  <1>3. Turned(p, Turned(q, v)) = ((p ** (q ** v)) ** qc) ** pc
    BY <1>1, <1>2, ProductAssociates DEF Turned
  <1>4. ((p ** (q ** v)) ** qc) ** pc = (p ** (q ** v)) ** (qc ** pc)
    BY <1>1, <1>2, ProductAssociates
  <1>5. qc ** pc = quaternionConjugate(p ** q) /\ p ** (q ** v) = (p ** q) ** v
    BY ConjugateOfProduct, ProductAssociates
  <1> QED BY <1>3, <1>4, <1>5 DEF Turned

LEMMA TurnedByMultiple ==
  ASSUME NEW k \in Int, NEW q \in Quaternion, NEW v \in Quaternion
  PROVE  Turned(Times(k, q), v) = Times(k * k, Turned(q, v))
  <1> DEFINE qc == quaternionConjugate(q)
  <1>1. qc \in Quaternion /\ q ** v \in Quaternion /\ (q ** v) ** qc \in Quaternion
    BY ConjugateType, ProductType
  <1>2. quaternionConjugate(Times(k, q)) = Times(k, qc)
    BY DEF Quaternion, Quat, Times, quaternionConjugate
  <1>3. Times(k, q) ** v = Times(k, q ** v)
    BY TimesMoves
  <1>4. Times(k, qc) \in Quaternion
    BY <1>1, TimesType
  <1>5. Times(k, q ** v) ** Times(k, qc) = Times(k, Times(k, (q ** v) ** qc))
    BY <1>1, <1>4, TimesMoves
  <1> QED BY <1>1, <1>2, <1>3, <1>5, TimesTwice DEF Turned

(* The same for the position: a point that is at h from the tracker, as the
   platform sees it, is put at h from the zero point on the platform of the
   zero point.  All lengths are times the squares of norms that Rotate
   divides by. *)
THEOREM DisplacementIsCancelled ==
  ASSUME NEW d \in Quaternion, NEW q0 \in Quaternion, NEW qt \in Quaternion,
         NEW h \in Quaternion,
         NEW refRot, refRot = RefRotation([rot |-> d], qt, AppRotation([rot |-> d], q0))
  PROVE  Turned(quaternionConjugate(refRot),
                Turned(quaternionConjugate(d), Turned(qt, h)))
           = Times((Norm(d) * Norm(qt)) * (Norm(d) * Norm(qt)),
                   Turned(quaternionConjugate(d), Turned(q0, h)))
  <1> DEFINE dc == quaternionConjugate(d)
             qtc == quaternionConjugate(qt)
             back == quaternionConjugate(refRot)
             k == Norm(d) * Norm(qt)
  <1>1. /\ dc \in Quaternion /\ qtc \in Quaternion
        /\ dc ** q0 \in Quaternion /\ qtc ** d \in Quaternion
        /\ dc ** qt \in Quaternion /\ Norm(d) \in Int /\ Norm(qt) \in Int
    BY ConjugateType, ProductType, NormType
  <1>2. back = (dc ** q0) ** (qtc ** d)
    BY ReferenceInverse DEF RefRotation, AppRotation
  <1>3. back \in Quaternion /\ back ** (dc ** qt) \in Quaternion
    BY <1>1, <1>2, ProductType
  <1>4. back ** (dc ** qt) = Times(k, dc ** q0)
    <2>1. back ** (dc ** qt) = (dc ** q0) ** ((qtc ** d) ** (dc ** qt))
      BY <1>1, <1>2, ProductAssociates
    <2>2. (qtc ** d) ** (dc ** qt) = qtc ** (d ** (dc ** qt))
      BY <1>1, ProductAssociates
    <2>3. d ** (dc ** qt) = Times(Norm(d), qt)
      BY ConjugateCancels
    <2>4. qtc ** Times(Norm(d), qt) = Times(Norm(d), qtc ** qt)
      BY <1>1, TimesMoves
    <2> DEFINE one == Quat(1, 0, 0, 0)
    <2>5. one \in Quaternion
      BY DEF Quaternion, Quat
    <2>6. qtc ** qt = Times(Norm(qt), one)
      BY DEF Quaternion, **, Product, Quat, quaternionConjugate, Times, Norm
    <2>7. (dc ** q0) ** Times(k, one) = Times(k, (dc ** q0) ** one)
      <3>1. k \in Int
        BY <1>1
      <3> QED BY <1>1, <2>5, <3>1, TimesMoves
    <2>8. (dc ** q0) ** one = dc ** q0
      <3> DEFINE q == dc ** q0
      <3>1. q \in Quaternion
        BY <1>1
      <3> HIDE DEF q
      <3>2. q ** one = q
        BY <3>1 DEF Quaternion, **, Product, Quat
      <3> QED BY <3>2 DEF q
    <2> QED BY <1>1, <2>1, <2>2, <2>3, <2>4, <2>5, <2>6, <2>7, <2>8, TimesTwice
  <1>5. Turned(back, Turned(dc, Turned(qt, h))) = Turned(back ** (dc ** qt), h)
    BY <1>1, <1>3, TurnedTwice, TurnedType
  <1>6. Turned(Times(k, dc ** q0), h) = Times(k * k, Turned(dc ** q0, h))
    <2>1. k \in Int
      BY <1>1
    <2> QED BY <1>1, <2>1, TurnedByMultiple
  <1>7. Turned(dc ** q0, h) = Turned(dc, Turned(q0, h))
    BY <1>1, TurnedTwice
  <1> QED BY <1>4, <1>5, <1>6, <1>7

-----------------------------------------------------------------------------
LEMMA SlotParts ==
  ASSUME NEW slot \in Slot
  PROVE  /\ slot.ref \in Vector /\ slot.ratio \in Vector
         /\ slot.offset \in Vector /\ slot.punchDist \in Nat
  BY DEF Slot

LEMMA VectorParts ==
  ASSUME NEW v \in Vector
  PROVE  v.x \in Int /\ v.y \in Int /\ v.z \in Int
  BY DEF Vector

(* A hand at its reference is shown there, moved by the offset and no more,
   whatever the ratio (applyGoGo): setting the reference, or changing the
   ratio of a hand held there, moves nothing.  The limit has to be clear of
   the offset. *)
THEOREM ReferenceStays ==
  ASSUME NEW slot \in Slot, slot.offset.z <= Margin
  PROVE  applyGoGo(slot, 0, slot.ref)
           = Vec(Full * (slot.ref.x + slot.offset.x),
                 Full * (slot.ref.y + slot.offset.y),
                 Full * (slot.ref.z + slot.offset.z))
  <1> DEFINE r == slot.ref
             o == slot.offset
             p == StretchedPosition(slot, r)
  <1>1. /\ r.x \in Int /\ r.y \in Int /\ r.z \in Int
        /\ o.x \in Int /\ o.y \in Int /\ o.z \in Int
        /\ slot.ratio.x \in Int /\ slot.ratio.y \in Int /\ slot.ratio.z \in Int
        /\ slot.punchDist \in Nat
    BY SlotParts, VectorParts
  <1>2. p.x = r.x + o.x /\ p.y = r.y + o.y /\ p.z = r.z + o.z
    <2>1. /\ (r.x - r.x) * slot.ratio.x = 0
          /\ (r.y - r.y) * slot.ratio.y = 0
          /\ (r.z - r.z) * slot.ratio.z = 0
      BY <1>1
    <2> QED BY <1>1, <2>1 DEF StretchedPosition, Stretched, Vec
  <1>3. Full * (r.z + o.z) <= Full * (r.z + Margin)
    <2>1. Full \in Nat /\ Margin \in Nat /\ o.z <= Margin
      BY FullAssumption, MarginAssumption
    <2>2. ASSUME NEW a \in Int, NEW b \in Int, NEW k \in Nat, a <= b
          PROVE  k * a <= k * b
      BY <2>2
    <2> QED BY <1>1, <2>1, <2>2
  <1>4. Smaller(Full * (r.z + Margin), Full * p.z - 0 * slot.punchDist)
          = Full * (r.z + o.z)
    <2>1. Full * (r.z + Margin) \in Int /\ Full * (r.z + o.z) \in Int
      BY <1>1, FullAssumption, MarginAssumption
    <2>2. Full * p.z - 0 * slot.punchDist = Full * (r.z + o.z)
      BY <1>1, <1>2, <2>1
    <2> QED BY <1>3, <2>1, <2>2 DEF Smaller
  <1> QED BY <1>2, <1>4 DEF applyGoGo

(* However far the hand, the offset and the trigger would move it, go-go
   never shows a hand further back than Margin behind its reference. *)
THEOREM NeverBehind ==
  ASSUME NEW slot \in Slot, NEW last \in Vector, NEW trigger \in 0..Full
  PROVE  applyGoGo(slot, trigger, last).z <= Full * (slot.ref.z + Margin)
  <1> DEFINE limit == Full * (slot.ref.z + Margin)
             there == Full * StretchedPosition(slot, last).z
                        - trigger * slot.punchDist
  <1>1. limit \in Int /\ there \in Int
    BY SlotParts, VectorParts, FullAssumption, MarginAssumption
       DEF StretchedPosition, Stretched, Vec
  <1>2. applyGoGo(slot, trigger, last).z = Smaller(limit, there)
    BY DEF applyGoGo, Vec
  <1> HIDE DEF limit, there
  <1>3. Smaller(limit, there) <= limit
    BY <1>1 DEF Smaller
  <1> QED BY <1>2, <1>3 DEF limit

(* A delayed hand (applyGoGoDelay) is between where it was and where it is,
   without overshoot, for any share alpha up to 1; the GUI sends up to 0.1. *)
THEOREM DelayedIsBetween ==
  ASSUME NEW alpha \in 0..Full, NEW now \in Int, NEW last \in Int,
         NEW low \in Int, NEW high \in Int,
         low <= now, now <= high, low <= last, last <= high
  PROVE  /\ Full * low <= Blend(alpha, now, last)
         /\ Blend(alpha, now, last) <= Full * high
  <1>1. Full \in Nat /\ alpha \in Nat /\ Full - alpha \in Nat
    BY FullAssumption
  <1>2. ASSUME NEW a \in Int, NEW b \in Int, NEW k \in Nat, a <= b
        PROVE  k * a <= k * b
    BY <1>2
  <1>3. /\ alpha * low <= alpha * now /\ alpha * now <= alpha * high
        /\ (Full - alpha) * low <= (Full - alpha) * last
        /\ (Full - alpha) * last <= (Full - alpha) * high
    BY <1>1, <1>2
  <1>4. /\ alpha * low + (Full - alpha) * low = Full * low
        /\ alpha * high + (Full - alpha) * high = Full * high
    BY <1>1
  <1>5. /\ alpha * low \in Int /\ alpha * now \in Int /\ alpha * high \in Int
        /\ (Full - alpha) * low \in Int /\ (Full - alpha) * last \in Int
        /\ (Full - alpha) * high \in Int
    BY <1>1
  <1> QED BY <1>3, <1>4, <1>5 DEF Blend

(* With acceleration (applyGoGoAccel) the shown hand turns back: at Shoulder/(ratio - 1) in
   front of its reference, on the side of smaller coordinates, it is shown
   where it is shown at the reference itself.  Towards z, that is in front
   of the user. *)
THEOREM AccelFoldsBack ==
  ASSUME NEW base \in Int, NEW ratio \in Int, NEW offset \in Int, NEW last \in Int,
         (last - base) * (ratio - 1) = -Shoulder
  PROVE  AccelStretched(base, ratio, offset, last)
           = AccelStretched(base, ratio, offset, base)
  <1>1. Shoulder \in Nat
    BY ShoulderAssumption
  <1>2. ratio * (last - base) + (Shoulder - (last - base)) = 0
    BY <1>1
  <1>3. AccelRatio(base, ratio, last) = 0
    BY <1>2 DEF AccelRatio, Abs
  <1>4. (last - base) * 0 = 0 /\ base - base = 0
    OBVIOUS
  <1>5. AccelRatio(base, ratio, base) \in Int
    BY <1>1 DEF AccelRatio, Abs
  <1>6. 0 * AccelRatio(base, ratio, base) = 0
    BY <1>5
  <1> QED BY <1>1, <1>3, <1>4, <1>6 DEF AccelStretched

(* The two hands hook towards each other (applyGamepadBoxing): with one guard and one pull of the
   trigger, slot 1 is shown where slot 0 is, mirrored at the guard. *)
THEOREM HooksMirror ==
  ASSUME NEW slot \in Slot, NEW trigger \in 0..Full
  PROVE  LET left == applyGamepadBoxing(slot, FALSE, TRUE, trigger, 0)
             right == applyGamepadBoxing(slot, FALSE, TRUE, trigger, 1)
             guard == 100 * Full * Full * (slot.ref.x + slot.offset.x)
         IN /\ left.x - guard = guard - right.x
            /\ left.y = right.y /\ left.z = right.z
  <1> DEFINE g == 100 * Full * Full * (slot.ref.x + slot.offset.x)
             h == 1500 * trigger * (trigger - Full)
             left == applyGamepadBoxing(slot, FALSE, TRUE, trigger, 0)
             right == applyGamepadBoxing(slot, FALSE, TRUE, trigger, 1)
  <1>1. /\ g \in Int /\ h \in Int /\ slot.punchDist \in Int
    BY SlotParts, VectorParts, FullAssumption
  <1>2. Hook(trigger, 0) = h * 1 /\ Hook(trigger, 1) = h * (-1)
    BY DEF Hook
  <1>3. /\ left.x = g - Hook(trigger, 0) * slot.punchDist
        /\ right.x = g - Hook(trigger, 1) * slot.punchDist
        /\ left.y = right.y /\ left.z = right.z
    BY DEF applyGamepadBoxing, Blow, Vec, \oplus, Plus
  <1> HIDE DEF g, h, left, right
  <1>4. left.x = g - h * slot.punchDist /\ right.x = g + h * slot.punchDist
    BY <1>1, <1>2, <1>3
  <1>5. h * slot.punchDist \in Int
    BY <1>1
  <1>6. left.x - g = g - right.x
    BY <1>1, <1>4, <1>5
  <1> QED BY <1>3, <1>6, Zenon DEF g, left, right

-----------------------------------------------------------------------------
(* With the poses beside it, each action is one of MotionCompensation or
   leaves its state: computing with poses changes nothing that decides about
   requests, and the headset's thread changes nothing at all there. *)
LEMMA PoseStepRefines == [PoseNext]_allVars => [Next]_vars
<1> SUFFICES ASSUME [PoseNext]_allVars PROVE [Next]_vars
  OBVIOUS
<1>1. ASSUME NEW p, MovePlatform(p) PROVE UNCHANGED vars
  BY <1>1 DEF MovePlatform
<1>2. CASE HandleRequest
  BY <1>2 DEF HandleRequest, Next
<1>3. ASSUME NEW d \in Device, TrackerPose(d) PROVE Next
  BY <1>3 DEF TrackerPose, Next
<1>4. ASSUME NEW d \in Device, Tracker(d) PROVE Next
  <2>1. PoseThread(d)
    BY <1>4 DEF Tracker, setZeroPose, UpdateRefPos, UpdateRefRot, FinishRef, PoseThread
  <2>. QED  BY <2>1 DEF Next
<1>5. ASSUME NEW r, HeadsetPose(r) PROVE UNCHANGED vars
  BY <1>5 DEF HeadsetPose
<1>6. CASE applyMotionCompensation
  BY <1>6 DEF applyMotionCompensation
<1>7. CASE FrameStep
  BY <1>7 DEF FrameStep, Next
<1>8. CASE UNCHANGED allVars
  BY <1>8 DEF allVars
<1>. QED  BY <1>1, <1>2, <1>3, <1>4, <1>5, <1>6, <1>7, <1>8 DEF PoseNext

LEMMA PoseInvariance == OneHeadset => (PoseSpec => []Inv)
<1> SUFFICES ASSUME OneHeadset PROVE PoseSpec => []Inv
  OBVIOUS
<1>1. PoseSpec => Init /\ [][PoseNext]_allVars
  BY DEF PoseSpec, PoseInit
<1>2. Inv /\ [Next]_vars => Inv'
  BY NextInv
<1>. QED  BY <1>1, <1>2, InitInv, PoseStepRefines, PTL

(* So an answered request is in effect, but for the modes that frames have
   set since, also while the platform moves and the poses are computed, *)
THEOREM ComposedRequestsTakeEffect ==
  OneHeadset => (PoseSpec => []RequestTakesEffect)
<1> SUFFICES ASSUME OneHeadset PROVE PoseSpec => []RequestTakesEffect
  OBVIOUS
<1>. QED  BY AnsweredIsInEffect, PoseInvariance, PTL

(* and between requests the ids the manager stores name devices that no
   request has taken out of the modes of their roles. *)
THEOREM ComposedIdsKeepRoles ==
  OneHeadset => (PoseSpec => []IdsNameRoles)
<1> SUFFICES ASSUME OneHeadset PROVE PoseSpec => []IdsNameRoles
  OBVIOUS
<1>. QED  BY StoredIdsNameRoles, PoseInvariance, PTL
=============================================================================
