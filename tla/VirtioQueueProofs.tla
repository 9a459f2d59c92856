------------------------- MODULE VirtioQueueProofs -------------------------
(***************************************************************************)
(* Proofs about VirtioQueue, for a queue of any size, indices of any width *)
(* that is a multiple of it, and any number of requests and resets: with   *)
(* or without -e each request is served and handed back once, in order.    *)
(* Resets may come at any time; what is shown of service and cursors is     *)
(* void once one has cut a service short (cut), the types never are.       *)
(***************************************************************************)
EXTENDS VirtioQueue, FiniteSetTheorems, TLAPS

\* What the driver has yet to reap, and what the device has yet to return.
Unreaped == Distance(lastUsed, usedIdx)
Unserved == Distance(usedIdx, availIdx)
Outstanding == Unreaped + Unserved

\* The head of the chain that is k-th in line for the driver.
Ring(k) == (lastUsed + k) % Num
InLine(k) == IF k < Unreaped THEN used[Ring(k)] ELSE avail[Ring(k)]

Holding   == {"handle", "elem", "publish"}
Returning == {"elem", "publish"}

\* A reset device is left alone until it is set up.
Modes ==
  /\ ready <=> gpc # "reset"
  /\ gpc = "reset" => last = 0 /\ pc \notin Serving
  /\ pc \in Serving => at = epoch

\* The device works between what it has returned and the avail index it has read.
Cursors ==
  /\ Outstanding <= Num
  /\ gpc # "reset" => usedIdx = IF pc = "advance" THEN Plus(last) ELSE last
  /\ pc \in Serving => Distance(usedIdx, idx) <= Unserved
  /\ pc \in Holding => idx # usedIdx

\* The outstanding requests are the last that were submitted, in their order, and
\* own the descriptors that are not free.
Contents ==
  /\ Outstanding <= submitted
  /\ \A k \in 0..(Outstanding - 1) :
       InLine(k) \notin free /\ desc[InLine(k)] = submitted - Outstanding + 1 + k
  /\ Cardinality(free) = Num - Outstanding

\* The chain in the worker's hands is the first that is not returned.
InHand ==
  /\ pc \in Holding => head = avail[usedIdx % Num]
  /\ pc = "publish" => used[usedIdx % Num] = head

\* The newest request that was served.
Newest == submitted - Unserved + IF pc \in Returning THEN 1 ELSE 0

Histories ==
  /\ Increasing(handled) /\ \A j \in 1..Len(handled) : handled[j] <= Newest
  /\ Increasing(returned)
  /\ \A i \in 1..Len(returned) :
       /\ returned[i] <= submitted - Outstanding
       /\ \E j \in 1..Len(handled) : returned[i] = handled[j]
  /\ \A r \in (submitted - Outstanding + 1)..Newest :
       \E j \in 1..Len(handled) : handled[j] = r

Typed == TypeOK /\ (gpc = "reset" => epoch < MaxResets)
Sound == ~cut /\ Modes /\ Cursors /\ Contents /\ InHand /\ Histories
IInv == Typed /\ (cut \/ Sound)
-----------------------------------------------------------------------------
(* Indices that wrap.                                                      *)

LEMMA DivMod ==
  ASSUME NEW x \in Nat, NEW m \in Nat \ {0}
  PROVE  /\ x % m \in 0..(m - 1) /\ x \div m \in Nat
         /\ x = m * (x \div m) + (x % m)
OBVIOUS

LEMMA Remainder ==
  ASSUME NEW x \in Nat, NEW m \in Nat \ {0}, NEW q \in Nat, NEW r \in 0..(m - 1),
         x = m * q + r
  PROVE  x % m = r
OBVIOUS

\* A whole number of turns does not matter.
LEMMA Turns ==
  ASSUME NEW m \in Nat \ {0}, NEW k \in Nat \ {0}, m % k = 0, NEW j \in Nat
  PROVE  (j + m) % k = j % k
<1>1. PICK q \in Nat : m = k * q
  <2>1. m = k * (m \div k) + (m % k) /\ m \div k \in Nat
    BY DivMod
  <2> QED
    BY <2>1
<1>2. j = k * (j \div k) + (j % k) /\ j \div k \in Nat /\ j % k \in 0..(k - 1)
  BY DivMod
<1> DEFINE p == j \div k
           r == j % k
<1>3. p + q \in Nat /\ r \in 0..(k - 1) /\ j + m \in Nat
  BY <1>1, <1>2
<1>4. j + m = k * (p + q) + r
  BY <1>1, <1>2
<1> HIDE DEF p, r
<1>5. (j + m) % k = r
  BY <1>3, <1>4, Remainder
<1> QED
  BY <1>5 DEF r

\* Fewer than m places apart is apart in a ring of m.
LEMMA Apart ==
  ASSUME NEW m \in Nat \ {0}, NEW x \in Nat, NEW y \in Nat, x < y, y < x + m
  PROVE  x % m # y % m
<1>1. x = m * (x \div m) + (x % m) /\ x \div m \in Nat /\ x % m \in 0..(m - 1)
  BY DivMod
<1>2. y = m * (y \div m) + (y % m) /\ y \div m \in Nat /\ y % m \in 0..(m - 1)
  BY DivMod
<1> DEFINE p == x \div m
           q == y \div m
<1>3. SUFFICES ASSUME x % m = y % m PROVE FALSE
  OBVIOUS
<1>4. m * q - m * p \in 1..(m - 1)
  BY <1>1, <1>2, <1>3
<1>5. m * q - m * p = m * (q - p)
  BY <1>1, <1>2
<1>6. CASE q - p >= 1
  BY <1>1, <1>2, <1>4, <1>5, <1>6
<1>7. CASE q - p <= 0
  BY <1>1, <1>2, <1>4, <1>5, <1>7
<1> QED
  BY <1>1, <1>2, <1>6, <1>7

LEMMA Wraps ==
  ASSUME NEW m \in Nat \ {0}, NEW x \in 0..(m - 1)
  PROVE  x % m = x /\ (x + m) % m = x
OBVIOUS

LEMMA Sizes == Num \in Nat \ {0} /\ IdxMod \in Nat \ {0} /\ Num < IdxMod
BY SizesOK DEF SizesOK

LEMMA PlusIs ==
  ASSUME NEW x \in Idx
  PROVE  Plus(x) \in Idx /\ Plus(x) = IF x = IdxMod - 1 THEN 0 ELSE x + 1
BY SizesOK DEF SizesOK, Plus, Idx

LEMMA DistanceIs ==
  ASSUME NEW x \in Idx, NEW y \in Idx
  PROVE  /\ Distance(x, y) \in Idx
         /\ Distance(x, y) = IF y >= x THEN y - x ELSE y + IdxMod - x
<1>1. CASE y >= x
  <2>1. y + IdxMod - x = (y - x) + IdxMod /\ y - x \in 0..(IdxMod - 1)
    BY SizesOK, <1>1 DEF SizesOK, Idx
  <2> QED
    BY SizesOK, <1>1, <2>1, Wraps DEF SizesOK, Distance, Idx
<1>2. CASE y < x
  <2>1. y + IdxMod - x \in 0..(IdxMod - 1)
    BY SizesOK, <1>2 DEF SizesOK, Idx
  <2> QED
    BY SizesOK, <1>2, <2>1, Wraps DEF SizesOK, Distance, Idx
<1> QED
  BY <1>1, <1>2, SizesOK DEF SizesOK, Idx

LEMMA DistanceZero ==
  ASSUME NEW x \in Idx, NEW y \in Idx
  PROVE  Distance(x, y) \in Nat /\ (Distance(x, y) = 0 <=> x = y)
<1>1. Distance(x, y) = IF y >= x THEN y - x ELSE y + IdxMod - x
  BY DistanceIs
<1> QED
  BY <1>1, Sizes DEF Idx

\* Each end of a distance can move by one, and distances add up.
LEMMA DistanceTo ==
  ASSUME NEW x \in Idx, NEW y \in Idx, Distance(x, y) < Num
  PROVE  Distance(x, Plus(y)) = Distance(x, y) + 1
<1>1. Plus(y) \in Idx /\ Plus(y) = IF y = IdxMod - 1 THEN 0 ELSE y + 1
  BY PlusIs
<1>2. Distance(x, y) = IF y >= x THEN y - x ELSE y + IdxMod - x
  BY DistanceIs
<1>3. Distance(x, Plus(y)) = IF Plus(y) >= x THEN Plus(y) - x
                                             ELSE Plus(y) + IdxMod - x
  BY <1>1, DistanceIs
<1> QED
  BY <1>1, <1>2, <1>3, Sizes DEF Idx

LEMMA DistanceFrom ==
  ASSUME NEW x \in Idx, NEW y \in Idx, x # y
  PROVE  Distance(Plus(x), y) = Distance(x, y) - 1
<1>1. Plus(x) \in Idx /\ Plus(x) = IF x = IdxMod - 1 THEN 0 ELSE x + 1
  BY PlusIs
<1>2. Distance(x, y) = IF y >= x THEN y - x ELSE y + IdxMod - x
  BY DistanceIs
<1>3. Distance(Plus(x), y) = IF y >= Plus(x) THEN y - Plus(x)
                                             ELSE y + IdxMod - Plus(x)
  BY <1>1, DistanceIs
<1> QED
  BY <1>1, <1>2, <1>3, Sizes DEF Idx

LEMMA DistanceSum ==
  ASSUME NEW x \in Idx, NEW y \in Idx, NEW z \in Idx,
         Distance(x, y) + Distance(y, z) <= Num
  PROVE  Distance(x, z) = Distance(x, y) + Distance(y, z)
<1>1. /\ Distance(x, y) = IF y >= x THEN y - x ELSE y + IdxMod - x
      /\ Distance(y, z) = IF z >= y THEN z - y ELSE z + IdxMod - y
      /\ Distance(x, z) = IF z >= x THEN z - x ELSE z + IdxMod - x
  BY DistanceIs
<1> QED
  BY <1>1, Sizes DEF Idx

\* The place of an index in the ring.
LEMMA SlotOf ==
  ASSUME NEW x \in Idx, NEW y \in Idx
  PROVE  y % Num = (x + Distance(x, y)) % Num
<1>1. x + Distance(x, y) = y \/ x + Distance(x, y) = y + IdxMod
  <2>1. Distance(x, y) = IF y >= x THEN y - x ELSE y + IdxMod - x
    BY DistanceIs
  <2> QED
    BY <2>1, Sizes DEF Idx
<1>2. (y + IdxMod) % Num = y % Num
  <2>1. y \in Nat /\ IdxMod % Num = 0
    BY Sizes, SizesOK DEF SizesOK, Idx
  <2> QED
    BY <2>1, Turns, Sizes
<1> QED
  BY <1>1, <1>2

\* Moving the start of the line by one moves every place by one.
LEMMA NextSlot ==
  ASSUME NEW x \in Idx, NEW k \in Nat
  PROVE  (Plus(x) + k) % Num = (x + (k + 1)) % Num
<1>1. /\ Plus(x) \in Nat
      /\ x + (k + 1) = Plus(x) + k \/ x + (k + 1) = (Plus(x) + k) + IdxMod
  <2>1. Plus(x) \in Idx /\ Plus(x) = IF x = IdxMod - 1 THEN 0 ELSE x + 1
    BY PlusIs
  <2> QED
    BY <2>1, Sizes DEF Idx
<1>2. ((Plus(x) + k) + IdxMod) % Num = (Plus(x) + k) % Num
  <2>1. Plus(x) + k \in Nat /\ IdxMod % Num = 0
    BY <1>1, SizesOK DEF SizesOK
  <2> QED
    BY <2>1, Turns, Sizes
<1> QED
  BY <1>1, <1>2

LEMMA IsSlot ==
  ASSUME NEW x \in Nat PROVE x % Num \in Slots
BY DivMod, Sizes DEF Slots
-----------------------------------------------------------------------------
(* The line of outstanding requests.                                       *)

LEMMA Indices ==
  ASSUME TypeOK
  PROVE  /\ lastUsed \in Idx /\ usedIdx \in Idx /\ availIdx \in Idx
         /\ last \in Idx /\ idx \in Idx
         /\ lastUsed \in Nat /\ usedIdx \in Nat /\ availIdx \in Nat
         /\ Unreaped \in Nat /\ Unserved \in Nat /\ Outstanding \in Nat
         /\ Unreaped = 0 <=> lastUsed = usedIdx
         /\ Unserved = 0 <=> usedIdx = availIdx
         /\ submitted \in Nat /\ MaxReq \in Nat /\ submitted <= MaxReq
<1>1. /\ lastUsed \in Idx /\ usedIdx \in Idx /\ availIdx \in Idx
      /\ last \in Idx /\ idx \in Idx /\ submitted \in 0..MaxReq
  BY DEF TypeOK
<1>2. /\ Unreaped \in Nat /\ (Unreaped = 0 <=> lastUsed = usedIdx)
      /\ Unserved \in Nat /\ (Unserved = 0 <=> usedIdx = availIdx)
  BY <1>1, DistanceZero DEF Unreaped, Unserved
<1>3. /\ MaxReq \in Nat
      /\ lastUsed \in Nat /\ usedIdx \in Nat /\ availIdx \in Nat
  BY <1>1, SizesOK DEF SizesOK, Idx
<1> QED
  BY <1>1, <1>2, <1>3 DEF Outstanding

\* The used index and the avail index point behind the unreaped and behind the
\* outstanding chains, and no two places of the line are the same slot.
LEMMA Line ==
  ASSUME TypeOK, Outstanding <= Num
  PROVE  /\ Ring(Unreaped) = usedIdx % Num /\ Ring(Outstanding) = availIdx % Num
         /\ \A k \in Nat : Ring(k) \in Slots /\ InLine(k) \in Slots
         /\ \A i, j \in Nat : i < j /\ j < i + Num => Ring(i) # Ring(j)
<1> USE Indices, Sizes
<1>1. Ring(Unreaped) = usedIdx % Num
  BY SlotOf DEF Ring, Unreaped
<1>2. Distance(lastUsed, availIdx) = Outstanding
  BY DistanceSum DEF Outstanding, Unreaped, Unserved
<1>3. Ring(Outstanding) = availIdx % Num
  BY <1>2, SlotOf DEF Ring
<1>4. ASSUME NEW k \in Nat PROVE Ring(k) \in Slots /\ InLine(k) \in Slots
  <2>1. Ring(k) \in Slots
    <3>1. lastUsed + k \in Nat
      OBVIOUS
    <3> QED
      BY <3>1, IsSlot DEF Ring
  <2> QED
    BY <2>1 DEF InLine, TypeOK
<1>5. ASSUME NEW i \in Nat, NEW j \in Nat, i < j, j < i + Num
      PROVE  Ring(i) # Ring(j)
  <2>1. /\ lastUsed + i \in Nat /\ lastUsed + j \in Nat /\ Num \in Nat \ {0}
        /\ lastUsed + i < lastUsed + j /\ lastUsed + j < (lastUsed + i) + Num
    BY <1>5
  <2> QED
    BY <2>1, Apart DEF Ring
<1> QED
  BY <1>1, <1>3, <1>4, <1>5

\* A free descriptor means room in the queue.
LEMMA Room ==
  ASSUME TypeOK, Contents
  PROVE  IsFiniteSet(free) /\ (free # {} => Outstanding < Num)
<1>1. IsFiniteSet(free)
  <2>1. IsFiniteSet(Slots)
    BY FS_Interval, Sizes DEF Slots
  <2> QED
    BY <2>1, FS_Subset DEF TypeOK
<1>2. ASSUME free # {} PROVE Cardinality(free) > 0
  BY <1>1, <1>2, FS_EmptySet, FS_CardinalityType
<1> QED
  BY <1>1, <1>2, Indices, Sizes DEF Contents

\* A request in line has its number in its descriptor.
LEMMA Numbers ==
  ASSUME TypeOK, Contents, NEW k \in 0..(Outstanding - 1)
  PROVE  /\ desc[InLine(k)] = submitted - Outstanding + 1 + k
         /\ desc[InLine(k)] \in Requests /\ InLine(k) \notin free
BY Indices DEF Contents, Requests

LEMMA Same ==
  ASSUME UNCHANGED <<rings, free, lastUsed, submitted>>
  PROVE  /\ Unreaped' = Unreaped /\ Unserved' = Unserved
         /\ Outstanding' = Outstanding /\ (Contents' <=> Contents)
BY DEF rings, Unreaped, Unserved, Outstanding, Contents, InLine, Ring
LEMMA Appended ==
  ASSUME NEW S, NEW s \in Seq(S), NEW x \in S, Increasing(s),
         \A i \in 1..Len(s) : s[i] < x
  PROVE  /\ Append(s, x) \in Seq(S) /\ Increasing(Append(s, x))
         /\ Len(Append(s, x)) = Len(s) + 1 /\ Append(s, x)[Len(s) + 1] = x
         /\ \A i \in 1..Len(s) : Append(s, x)[i] = s[i]
<1>1. /\ Append(s, x) \in Seq(S) /\ Len(Append(s, x)) = Len(s) + 1
      /\ Append(s, x)[Len(s) + 1] = x
      /\ \A i \in 1..Len(s) : Append(s, x)[i] = s[i]
  OBVIOUS
<1>2. Len(s) \in Nat
  OBVIOUS
<1>3. ASSUME NEW i \in 1..(Len(s) + 1), NEW j \in 1..(Len(s) + 1), i < j
      PROVE  Append(s, x)[i] < Append(s, x)[j]
  <2>1. i \in 1..Len(s)
    BY <1>2, <1>3
  <2>2. CASE j = Len(s) + 1
    BY <1>1, <2>1, <2>2
  <2>3. CASE j \in 1..Len(s)
    BY <1>1, <1>3, <2>1, <2>3 DEF Increasing
  <2> QED
    BY <1>2, <2>2, <2>3
<1> QED
  BY <1>1, <1>3 DEF Increasing

LEMMA KeepHistories ==
  ASSUME Histories, UNCHANGED <<handled, returned>>, Newest' = Newest,
         (submitted - Outstanding)' = submitted - Outstanding
  PROVE  Histories'
BY DEF Histories, Increasing
-----------------------------------------------------------------------------
(* The steps that move the line.                                           *)

LEMMA SubmitStep ==
  ASSUME Typed, Sound, Submit, UNCHANGED <<use_eventfd, cut>> PROVE Sound'
<1>0. TypeOK /\ ~cut /\ Modes /\ Cursors /\ Contents /\ InHand /\ Histories
  BY DEF Typed, Sound
<1> USE <1>0, Indices, Sizes
<1>1. PICK h \in free : /\ desc' = [desc EXCEPT ![h] = submitted + 1]
                        /\ avail' = [avail EXCEPT ![availIdx % Num] = h]
                        /\ free' = free \ {h}
  BY DEF Submit
<1>2. /\ availIdx' = Plus(availIdx) /\ submitted' = submitted + 1
      /\ submitted < MaxReq /\ gpc = "idle" /\ gpc' = "kick"
      /\ used' = used /\ usedIdx' = usedIdx /\ lastUsed' = lastUsed
      /\ UNCHANGED <<dev, kvm, server, status, loaded, epoch, handled, returned>>
  BY DEF Submit
<1>3. Outstanding < Num /\ IsFiniteSet(free) /\ h \in Slots /\ h \notin free'
  BY <1>1, Room DEF TypeOK
<1>4. Unreaped' = Unreaped /\ Unserved' = Unserved + 1
  <2>1. Unserved < Num
    BY <1>3 DEF Outstanding
  <2>2. Distance(usedIdx, Plus(availIdx)) = Distance(usedIdx, availIdx) + 1
    BY <2>1, DistanceTo DEF Unserved
  <2> QED
    BY <1>2, <2>2 DEF Unreaped, Unserved
<1>5. Outstanding' = Outstanding + 1
  BY <1>4 DEF Outstanding
<1>6. availIdx % Num \in Slots /\ availIdx' \in Idx
  BY <1>2, PlusIs, IsSlot
<1>8. Modes'
  BY <1>2 DEF Modes, dev, server
<1>9. Cursors'
  <2>1. pc' = pc /\ last' = last /\ idx' = idx /\ Outstanding' <= Num
    BY <1>2, <1>3, <1>5 DEF server, dev
  <2>2. pc \in Serving => Distance(usedIdx, idx) \in Nat
    BY DistanceZero
  <2> QED
    BY <1>2, <1>4, <2>1, <2>2 DEF Cursors
<1>10. Contents'
  <2>1. ASSUME NEW k \in 0..(Outstanding - 1)
        PROVE  InLine(k)' = InLine(k) /\ InLine(k) # h /\ InLine(k) \in Slots
    <3>1. Ring(k) # availIdx % Num /\ InLine(k) \in Slots /\ Ring(k) \in Slots
      BY <1>3, Line
    <3>2. Ring(k)' = Ring(k)
      BY <1>2 DEF Ring
    <3>3. avail'[Ring(k)] = avail[Ring(k)]
      BY <1>1, <3>1 DEF TypeOK
    <3>4. InLine(k) # h
      BY <1>1, Numbers
    <3> QED
      BY <1>2, <1>4, <3>1, <3>2, <3>3, <3>4 DEF InLine
  <2>2. ASSUME NEW k \in Nat, k = Outstanding PROVE InLine(k)' = h
    <3>1. Ring(k)' = availIdx % Num
      <4>1. Ring(k) = availIdx % Num
        BY <1>3, <2>2, Line
      <4> QED
        BY <1>2, <4>1 DEF Ring
    <3>2. avail'[availIdx % Num] = h /\ ~(k < Unreaped')
      BY SMTT(20), <1>1, <1>4, <1>6, <2>2 DEF TypeOK, Outstanding
    <3> QED
      BY <3>1, <3>2 DEF InLine
  <2>3. ASSUME NEW k \in 0..Outstanding
        PROVE  /\ InLine(k)' \notin free'
               /\ desc'[InLine(k)'] = submitted - Outstanding + 1 + k
    <3>1. CASE k = Outstanding
      BY <1>1, <1>3, <2>2, <3>1 DEF TypeOK
    <3>2. CASE k # Outstanding
      <4>1. k \in 0..(Outstanding - 1)
        BY <3>2
      <4>2. /\ InLine(k)' = InLine(k) /\ InLine(k) # h /\ InLine(k) \in Slots
            /\ InLine(k) \notin free
            /\ desc[InLine(k)] = submitted - Outstanding + 1 + k
        BY <2>1, <4>1, Numbers
      <4> QED
        BY <1>1, <4>2 DEF TypeOK
    <3> QED
      BY <3>1, <3>2
  <2>4. Cardinality(free') = Cardinality(free) - 1
    BY <1>1, <1>3, FS_RemoveElement
  <2>5. Outstanding <= submitted /\ Cardinality(free) = Num - Outstanding
    BY DEF Contents
  <2>6. submitted' - Outstanding' + 1 = submitted - Outstanding + 1
    BY <1>2, <1>5, <2>5
  <2> QED
    BY <1>2, <1>5, <2>3, <2>4, <2>5, <2>6 DEF Contents
<1>11. InHand'
  <2>1. ASSUME pc \in Holding PROVE avail'[usedIdx % Num] = avail[usedIdx % Num]
    <3>1. Unserved # 0
      <4>1. Distance(usedIdx, idx) \in Nat /\ Distance(usedIdx, idx) # 0
        BY <2>1, DistanceZero DEF Cursors, Holding
      <4> QED
        BY <2>1, <4>1 DEF Cursors, Holding, Serving
    <3>2. Ring(Unreaped) # Ring(Outstanding)
      BY <1>3, <3>1, Line DEF Outstanding
    <3>3. usedIdx % Num # availIdx % Num /\ usedIdx % Num \in Slots
      BY <1>3, <3>2, Line, IsSlot
    <3> QED
      BY <1>1, <3>3 DEF TypeOK
  <2> QED
    BY <1>2, <2>1 DEF InHand, server, Holding
<1>12. Histories'
  <2>1. Newest' = Newest
    BY <1>2, <1>4 DEF Newest, server
  <2>2. (submitted - Outstanding)' = submitted - Outstanding
    BY <1>2, <1>5
  <2> QED
    BY <1>2, <2>1, <2>2, KeepHistories
<1> QED
  BY <1>8, <1>9, <1>10, <1>11, <1>12 DEF Sound

\* While a chain is in the worker's hands it is the next to return.
LEMMA HandFull ==
  ASSUME TypeOK, Modes, Cursors, pc \in Holding
  PROVE  /\ Unserved > 0 /\ Unreaped < Num /\ Unreaped < Outstanding
         /\ usedIdx # availIdx /\ gpc # "reset" /\ usedIdx = last
         /\ usedIdx % Num \in Slots
<1> USE Indices, Sizes
<1>1. Distance(usedIdx, idx) \in Nat /\ Distance(usedIdx, idx) # 0
  BY DistanceZero DEF Cursors
<1>2. Unserved > 0
  BY <1>1 DEF Cursors, Holding, Serving
<1>3. gpc # "reset"
  BY DEF Modes, Holding, Serving
<1>4. Outstanding <= Num
  BY DEF Cursors
<1> QED
  BY <1>2, <1>3, <1>4, IsSlot DEF Outstanding, Cursors, Holding

LEMMA ElementStep ==
  ASSUME Typed, Sound, UsedElement, UNCHANGED <<use_eventfd, cut>> PROVE Sound'
<1>0. TypeOK /\ ~cut /\ Modes /\ Cursors /\ Contents /\ InHand /\ Histories
  BY DEF Typed, Sound
<1> USE <1>0, Indices, Sizes
<1>1. /\ pc = "elem" /\ pc' = "publish" /\ used' = [used EXCEPT ![usedIdx % Num] = head]
      /\ UNCHANGED <<desc, avail, availIdx, usedIdx, dev, kvm, idx, at, head, did,
                     driver, handled, returned>>
  BY DEF UsedElement, UsedSlot
<1>2. Unreaped < Num /\ usedIdx % Num \in Slots
  BY <1>1, HandFull DEF Holding
<1>3. Unreaped' = Unreaped /\ Unserved' = Unserved /\ Outstanding' = Outstanding
  BY <1>1 DEF Unreaped, Unserved, Outstanding, driver
<1>5. Modes' /\ Cursors'
  BY <1>1, <1>3 DEF Modes, Cursors, Serving, Holding, dev, server, driver
<1>6. ASSUME NEW k \in 0..(Outstanding - 1) PROVE InLine(k)' = InLine(k)
  <2>1. Outstanding <= Num /\ Ring(k)' = Ring(k) /\ Ring(k) \in Slots
    BY <1>1, Line DEF Cursors, Ring, driver
  <2>2. k < Unreaped => Ring(k) # usedIdx % Num
    BY <1>2, <2>1, Line
  <2> QED
    BY <1>1, <1>3, <2>1, <2>2 DEF InLine, TypeOK
<1>7. Contents'
  BY <1>1, <1>3, <1>6 DEF Contents, driver
<1>8. InHand'
  BY <1>1, <1>2 DEF InHand, Holding, TypeOK
<1>9. Histories'
  <2>1. Newest' = Newest
    BY <1>1, <1>3 DEF Newest, Returning, driver
  <2> QED
    BY <1>1, <1>3, <2>1, KeepHistories DEF driver
<1> QED
  BY <1>5, <1>7, <1>8, <1>9 DEF Sound

LEMMA IndexStep ==
  ASSUME Typed, Sound, UsedIndex, UNCHANGED <<use_eventfd, cut>> PROVE Sound'
<1>0. TypeOK /\ ~cut /\ Modes /\ Cursors /\ Contents /\ InHand /\ Histories
  BY DEF Typed, Sound
<1> USE <1>0, Indices, Sizes
<1>1. /\ pc = "publish" /\ pc' = "advance" /\ usedIdx' = Plus(usedIdx) /\ did' = TRUE
      /\ UNCHANGED <<desc, avail, availIdx, used, dev, kvm, idx, at, head, driver,
                     handled, returned>>
  BY DEF UsedIndex
<1>2. /\ Unserved > 0 /\ Unreaped < Num /\ usedIdx # availIdx /\ usedIdx = last
      /\ idx # usedIdx /\ Distance(usedIdx, idx) <= Unserved
  BY <1>1, HandFull DEF Holding, Cursors, Serving
<1>3. Unreaped' = Unreaped + 1 /\ Unserved' = Unserved - 1
  <2>1. /\ Distance(lastUsed, Plus(usedIdx)) = Distance(lastUsed, usedIdx) + 1
        /\ Distance(Plus(usedIdx), availIdx) = Distance(usedIdx, availIdx) - 1
    BY <1>2, DistanceTo, DistanceFrom DEF Unreaped
  <2> QED
    BY <1>1, <2>1 DEF Unreaped, Unserved, driver
<1>4. Outstanding' = Outstanding
  BY <1>3 DEF Outstanding
<1>6. Modes'
  BY <1>1 DEF Modes, Serving, dev, driver
<1>7. Cursors'
  <2>1. Distance(Plus(usedIdx), idx) = Distance(usedIdx, idx) - 1
    BY <1>2, DistanceFrom
  <2>2. Distance(usedIdx, idx) \in Nat
    BY DistanceZero
  <2> QED
    BY <1>1, <1>2, <1>3, <1>4, <2>1, <2>2 DEF Cursors, Serving, Holding, dev, driver
<1>8. ASSUME NEW k \in 0..(Outstanding - 1) PROVE InLine(k)' = InLine(k)
  <2>1. Outstanding <= Num /\ Ring(k)' = Ring(k)
    BY <1>1 DEF Cursors, Ring, driver
  <2>2. k = Unreaped => used[Ring(k)] = avail[Ring(k)]
    BY <1>1, <2>1, Line DEF InHand, Holding
  <2> QED
    BY <1>1, <1>3, <2>1, <2>2 DEF InLine
<1>9. Contents'
  BY <1>1, <1>4, <1>8 DEF Contents, driver
<1>10. InHand'
  BY <1>1 DEF InHand, Holding
<1>11. Histories'
  <2>1. Newest' = Newest
    BY <1>1, <1>3 DEF Newest, Returning, driver
  <2> QED
    BY <1>1, <1>4, <2>1, KeepHistories DEF driver
<1> QED
  BY <1>6, <1>7, <1>9, <1>10, <1>11 DEF Sound

LEMMA ReapStep ==
  ASSUME Typed, Sound, Reap, UNCHANGED <<use_eventfd, cut>> PROVE Sound'
<1>0. TypeOK /\ ~cut /\ Modes /\ Cursors /\ Contents /\ InHand /\ Histories
  BY DEF Typed, Sound
<1> USE <1>0, Indices, Sizes
<1> DEFINE h == used[lastUsed % Num]
<1>1. /\ gpc = "reap" /\ lastUsed # usedIdx /\ lastUsed' = Plus(lastUsed)
      /\ returned' = Append(returned, desc[h]) /\ free' = free \cup {h}
      /\ UNCHANGED <<rings, dev, kvm, server, gpc, status, loaded, submitted, epoch,
                     handled>>
  BY DEF Reap
<1>2. Unreaped' = Unreaped - 1 /\ Unserved' = Unserved /\ Unreaped > 0
  <2>1. Distance(Plus(lastUsed), usedIdx) = Distance(lastUsed, usedIdx) - 1
    BY <1>1, DistanceFrom
  <2> QED
    BY <1>1, <2>1 DEF Unreaped, Unserved, rings
<1>3. Outstanding' = Outstanding - 1 /\ Outstanding > 0 /\ Outstanding <= Num
  BY <1>2 DEF Outstanding, Cursors
<1>4. h = InLine(0)
  BY <1>2 DEF InLine, Ring
<1>5. /\ desc[h] = submitted - Outstanding + 1 /\ desc[h] \in Requests
      /\ h \notin free /\ h \in Slots
  <2>1. 0 \in 0..(Outstanding - 1)
    BY <1>3
  <2>2. desc[InLine(0)] = submitted - Outstanding + 1 + 0
    BY <2>1, Numbers
  <2> QED
    BY <1>3, <1>4, <2>1, <2>2, Numbers, Line
<1> HIDE DEF h
<1>7. Modes' /\ Cursors'
  BY <1>1, <1>2, <1>3 DEF Modes, Cursors, Serving, rings, dev, server
<1>8. ASSUME NEW k \in 0..(Outstanding - 2)
      PROVE  /\ InLine(k)' \notin free'
             /\ desc'[InLine(k)'] = submitted - Outstanding + 2 + k
  <2>1. InLine(k)' = InLine(k + 1)
    <3>1. Ring(k)' = Ring(k + 1)
      BY <1>1, NextSlot DEF Ring
    <3>2. k < Unreaped' <=> k + 1 < Unreaped
      BY <1>2, <1>8
    <3> QED
      BY <1>1, <3>1, <3>2 DEF InLine, rings
  <2>2. k + 1 \in 0..(Outstanding - 1)
    BY <1>3, <1>8
  <2>3. /\ InLine(k + 1) \notin free
        /\ desc[InLine(k + 1)] = submitted - Outstanding + 1 + (k + 1)
    BY <2>2, Numbers
  <2>4. InLine(k + 1) # h
    BY <1>5, <1>8, <2>3
  <2>5. free' = free \cup {h} /\ desc' = desc
    BY <1>1 DEF rings
  <2>6. submitted - Outstanding + 1 + (k + 1) = submitted - Outstanding + 2 + k
    BY <1>8
  <2> QED
    BY <2>1, <2>3, <2>4, <2>5, <2>6
<1>9. Contents'
  <2>1. Cardinality(free') = Cardinality(free) + 1
    BY <1>1, <1>5, Room, FS_AddElement
  <2>2. Outstanding <= submitted /\ Cardinality(free) = Num - Outstanding
    BY DEF Contents
  <2>3. /\ Outstanding' <= submitted' /\ Cardinality(free') = Num - Outstanding'
        /\ Outstanding' - 1 = Outstanding - 2
        /\ submitted' - Outstanding' + 1 = submitted - Outstanding + 2
    BY SMTT(20), <1>1, <1>3, <2>1, <2>2
  <2> QED
    BY <1>8, <2>3 DEF Contents
<1>10. InHand'
  BY <1>1 DEF InHand, rings, server
<1>11. Histories'
  <2>1. Newest' = Newest /\ submitted' = submitted /\ handled' = handled
    BY <1>1, <1>2 DEF Newest, server
  <2>2. Newest >= submitted - Unserved /\ Newest \in Int
    BY DEF Newest
  <2>3. /\ \A i \in 1..Len(returned) :
             /\ returned[i] <= submitted - Outstanding
             /\ \E j \in 1..Len(handled) : returned[i] = handled[j]
        /\ \A r \in (submitted - Outstanding + 1)..Newest :
             \E j \in 1..Len(handled) : handled[j] = r
        /\ Increasing(returned) /\ Increasing(handled)
        /\ \A j \in 1..Len(handled) : handled[j] <= Newest
    BY DEF Histories
  <2>4. /\ returned \in Seq(0..MaxReq) /\ desc[h] \in 0..MaxReq /\ Len(returned) \in Nat
        /\ \A i \in 1..Len(returned) : returned[i] \in Nat
    <3>1. returned \in Seq(0..MaxReq) /\ desc[h] \in 0..MaxReq
      BY <1>5 DEF TypeOK, Requests
    <3>2. ASSUME NEW i \in 1..Len(returned) PROVE returned[i] \in 0..MaxReq
      BY <3>1
    <3> QED
      BY <3>1, <3>2
  <2>5. /\ Increasing(returned') /\ Len(returned') = Len(returned) + 1
        /\ returned'[Len(returned) + 1] = desc[h]
        /\ \A i \in 1..Len(returned) : returned'[i] = returned[i]
    <3>1. ASSUME NEW i \in 1..Len(returned) PROVE returned[i] < desc[h]
      <4>1. /\ returned[i] <= submitted - Outstanding /\ returned[i] \in Nat
            /\ desc[h] = submitted - Outstanding + 1 /\ submitted - Outstanding \in Int
        BY <1>5, <2>3, <2>4
      <4> QED
        BY <4>1
    <3> DEFINE S == 0..MaxReq
    <3>2. Increasing(returned) /\ returned \in Seq(S) /\ desc[h] \in S
      BY <2>3, <2>4
    <3> HIDE DEF S
    <3>3. /\ Increasing(Append(returned, desc[h]))
          /\ Len(Append(returned, desc[h])) = Len(returned) + 1
          /\ Append(returned, desc[h])[Len(returned) + 1] = desc[h]
          /\ \A i \in 1..Len(returned) : Append(returned, desc[h])[i] = returned[i]
      BY <3>1, <3>2, Appended
    <3> QED
      BY <1>1, <3>3
  <2>6. \E j \in 1..Len(handled) : handled[j] = desc[h]
    <3>1. desc[h] \in (submitted - Outstanding + 1)..Newest
      BY <1>2, <1>5, <2>2 DEF Outstanding
    <3> QED
      BY <2>3, <3>1
  <2>7. submitted' - Outstanding' = submitted - Outstanding + 1
    BY <1>3, <2>1
  <2>8. ASSUME NEW i \in 1..Len(returned')
        PROVE  /\ returned'[i] <= submitted' - Outstanding'
               /\ \E j \in 1..Len(handled) : returned'[i] = handled[j]
    <3>1. CASE i = Len(returned) + 1
      BY <1>5, <2>5, <2>6, <2>7, <3>1
    <3>2. CASE i \in 1..Len(returned)
      <4>1. returned'[i] = returned[i]
        BY <2>5, <3>2
      <4> QED
        BY SMTT(30), <2>3, <2>4, <2>7, <3>2, <4>1
    <3>3. i = Len(returned) + 1 \/ i \in 1..Len(returned)
      BY <2>4, <2>5
    <3> QED
      BY <3>1, <3>2, <3>3
  <2>9. \A r \in (submitted' - Outstanding' + 1)..Newest' :
          \E j \in 1..Len(handled') : handled'[j] = r
    <3>1. ((submitted' - Outstanding' + 1)..Newest')
             \subseteq ((submitted - Outstanding + 1)..Newest)
      BY <2>1, <2>2, <2>7
    <3> QED
      BY <2>1, <2>3, <3>1
  <2>10. Increasing(handled') /\ \A j \in 1..Len(handled') : handled'[j] <= Newest'
    BY <2>1, <2>3
  <2> QED
    BY <2>1, <2>5, <2>8, <2>9, <2>10 DEF Histories
<1> QED
  BY <1>7, <1>9, <1>10, <1>11 DEF Sound

LEMMA SetupStep ==
  ASSUME Typed, Sound, Setup, UNCHANGED <<use_eventfd, cut>> PROVE Sound'
<1>0. TypeOK /\ ~cut /\ Modes /\ Cursors /\ Contents /\ InHand /\ Histories
  BY DEF Typed, Sound
<1> USE <1>0, Indices, Sizes
<1>1. /\ gpc = "reset" /\ gpc' = "idle" /\ ready' = TRUE
      /\ desc' = EmptyRing /\ avail' = EmptyRing /\ used' = EmptyRing
      /\ availIdx' = 0 /\ usedIdx' = 0 /\ lastUsed' = 0 /\ free' = Slots
      /\ epoch' = epoch + 1
      /\ UNCHANGED <<last, int_status, kvm, server, status, loaded, submitted,
                     handled, returned>>
  BY DEF Setup
<1>2. /\ pc \notin Serving /\ pc \notin Holding /\ pc \notin Returning
      /\ pc # "advance" /\ last = 0 /\ pc' = pc /\ last' = 0
  BY <1>1 DEF Modes, Serving, Holding, Returning, server
<1>3. Unreaped' = 0 /\ Unserved' = 0 /\ Outstanding' = 0
  <2>1. 0 \in Idx
    BY DEF Idx
  <2>2. Distance(0, 0) = 0
    BY <2>1, DistanceZero
  <2> QED
    BY <1>1, <2>2 DEF Unreaped, Unserved, Outstanding
<1>5. Modes' /\ Cursors' /\ InHand'
  BY <1>1, <1>2, <1>3 DEF Modes, Cursors, InHand, Serving, Holding
<1>6. Contents'
  <2>1. Cardinality(Slots) = Num
    BY FS_Interval DEF Slots
  <2>2. 0..(Outstanding' - 1) = {}
    BY <1>3
  <2> QED
    BY <1>1, <1>3, <2>1, <2>2 DEF Contents
<1>7. Histories'
  <2>1. Newest' = submitted /\ Newest <= submitted /\ Newest \in Int
    BY <1>1, <1>2, <1>3 DEF Newest, Returning
  <2>2. \A i \in 1..Len(returned) :
           returned[i] <= submitted /\
             \E j \in 1..Len(handled) : returned[i] = handled[j]
    <3>1. \A i \in 1..Len(returned) : returned[i] \in Nat
      BY SMTT(20) DEF TypeOK, Requests
    <3> QED
      BY <3>1 DEF Histories
  <2>3. \A j \in 1..Len(handled) : handled[j] <= submitted
    <3>1. \A j \in 1..Len(handled) : handled[j] \in Nat
      BY SMTT(20) DEF TypeOK, Requests
    <3> QED
      BY <2>1, <3>1 DEF Histories
  <2>4. Increasing(handled') /\ Increasing(returned')
    BY <1>1 DEF Histories, Increasing
  <2> QED
    BY <1>1, <1>3, <2>1, <2>2, <2>3, <2>4 DEF Histories
<1> QED
  BY <1>5, <1>6, <1>7 DEF Sound
-----------------------------------------------------------------------------
(* The steps that do not move it.                                          *)

\* dev_handle() of the first chain that is not returned yet: the next request.
LEMMA HandleStep ==
  ASSUME Typed, Sound, Handle, UNCHANGED <<use_eventfd, cut>> PROVE Sound'
<1>0. TypeOK /\ ~cut /\ Modes /\ Cursors /\ Contents /\ InHand /\ Histories
  BY DEF Typed, Sound
<1> USE <1>0, Indices, Sizes
<1>1. pc = "handle" /\ UNCHANGED <<rings, dev, kvm, idx, at, head, did, driver, returned>>
  BY DEF Handle
<1>2. /\ Unreaped' = Unreaped /\ Unserved' = Unserved /\ Outstanding' = Outstanding
      /\ Contents'
  BY <1>1, Same DEF driver
<1>3. /\ Unserved > 0 /\ Unreaped < Outstanding /\ Outstanding <= Num
      /\ head = avail[usedIdx % Num]
  BY <1>1, HandFull DEF Holding, Cursors, InHand
<1>4. desc[head] = submitted - Unserved + 1 /\ desc[head] \in Requests
  <2>1. Unreaped \in 0..(Outstanding - 1)
    BY <1>3
  <2>2. InLine(Unreaped) = head
    BY <1>3, Line DEF InLine
  <2>3. /\ desc[InLine(Unreaped)] = submitted - Outstanding + 1 + Unreaped
        /\ desc[InLine(Unreaped)] \in Requests
    BY <2>1, Numbers
  <2>4. Outstanding = Unreaped + Unserved
    BY DEF Outstanding
  <2> QED
    BY <2>2, <2>3, <2>4
<1>5. pc' = "elem" /\ handled' = Append(handled, desc[head])
  BY <1>4 DEF Handle
<1>6. /\ Newest = submitted - Unserved /\ Newest \in Int /\ Newest' = Newest + 1
      /\ submitted' = submitted
  BY <1>1, <1>2, <1>5 DEF Newest, Returning, driver
<1>7. /\ Increasing(handled) /\ \A j \in 1..Len(handled) : handled[j] <= Newest
      /\ \A i \in 1..Len(returned) :
           /\ returned[i] <= submitted - Outstanding
           /\ \E j \in 1..Len(handled) : returned[i] = handled[j]
      /\ \A r \in (submitted - Outstanding + 1)..Newest :
           \E j \in 1..Len(handled) : handled[j] = r
  BY DEF Histories
<1>8. /\ handled \in Seq(Requests) /\ Len(handled) \in Nat
      /\ \A j \in 1..Len(handled) : handled[j] \in Nat
  BY SMTT(20) DEF TypeOK, Requests
<1>9. /\ handled' \in Seq(Requests) /\ Increasing(handled')
      /\ Len(handled') = Len(handled) + 1 /\ handled'[Len(handled) + 1] = Newest'
      /\ \A j \in 1..Len(handled) : handled'[j] = handled[j]
  <2>1. \A j \in 1..Len(handled) : handled[j] < desc[head]
    BY SMTT(20), <1>4, <1>6, <1>7, <1>8
  <2> QED
    BY SMTT(30), <1>4, <1>5, <1>6, <1>7, <1>8, <2>1, Appended
<1>11. Modes' /\ Cursors' /\ InHand'
  BY <1>1, <1>2, <1>5 DEF Modes, Cursors, InHand, Serving, Holding, rings, dev, driver
<1>12. Histories'
  <2>1. ASSUME NEW j \in 1..Len(handled') PROVE handled'[j] <= Newest'
    <3>1. CASE j = Len(handled) + 1
      BY <1>6, <1>9, <3>1
    <3>2. CASE j \in 1..Len(handled)
      BY SMTT(20), <1>6, <1>7, <1>8, <1>9, <3>2
    <3> QED
      BY <1>8, <1>9, <3>1, <3>2
  <2>2. ASSUME NEW i \in 1..Len(returned)
        PROVE  /\ returned[i] <= submitted - Outstanding
               /\ \E j \in 1..Len(handled') : returned[i] = handled'[j]
    <3>1. PICK j \in 1..Len(handled) : returned[i] = handled[j]
      BY <1>7
    <3>2. j \in 1..Len(handled') /\ handled'[j] = handled[j]
      BY <1>8, <1>9
    <3> QED
      BY <1>7, <3>1, <3>2
  <2>3. ASSUME NEW r \in (submitted - Outstanding + 1)..Newest'
        PROVE  \E j \in 1..Len(handled') : handled'[j] = r
    <3>1. CASE r = Newest'
      <4>1. Len(handled) + 1 \in 1..Len(handled')
        BY <1>8, <1>9
      <4> QED
        BY <1>9, <3>1, <4>1
    <3>2. CASE r # Newest'
      <4>1. r \in (submitted - Outstanding + 1)..Newest
        BY <1>6, <3>2
      <4>2. PICK j \in 1..Len(handled) : handled[j] = r
        BY <1>7, <4>1
      <4>3. j \in 1..Len(handled') /\ handled'[j] = handled[j]
        BY <1>8, <1>9
      <4> QED
        BY <4>2, <4>3
    <3> QED
      BY <3>1, <3>2
  <2>4. Increasing(returned') /\ returned' = returned
    BY <1>1 DEF Histories
  <2> QED
    BY <1>2, <1>6, <1>9, <2>1, <2>2, <2>3, <2>4 DEF Histories
<1> QED
  BY <1>2, <1>11, <1>12 DEF Sound

\* The rest leaves the rings and the histories alone.
Quiet ==
  \/ WorkerWake \/ Snapshot \/ Take \/ Advance \/ Finish \/ RaiseStatus
  \/ RaiseSignal \/ Kick \/ Interrupt \/ ReadStatus \/ AckLoad \/ AckStore
  \/ ReapDone \/ Reset \/ UNCHANGED vars

LEMMA QuietStep ==
  ASSUME Typed, Sound, Quiet, UNCHANGED <<use_eventfd, cut>> PROVE Sound'
<1>0. TypeOK /\ ~cut /\ Modes /\ Cursors /\ Contents /\ InHand /\ Histories
  BY DEF Typed, Sound
<1> USE <1>0
<1>1. UNCHANGED <<rings, free, lastUsed, submitted, handled, returned>>
  BY DEF Quiet, WorkerWake, Snapshot, Take, Advance, Finish, RaiseStatus,
       RaiseSignal, Kick, Interrupt, ReadStatus, AckLoad, AckStore, ReapDone, Reset,
       driver, rings, vars
<1>2. /\ Unreaped' = Unreaped /\ Unserved' = Unserved /\ Outstanding' = Outstanding
      /\ Contents'
  BY <1>1, Same
<1>3. Histories'
  <2>1. pc' \in Returning <=> pc \in Returning
    BY DEF Quiet, WorkerWake, Snapshot, Take, Advance, Finish, RaiseStatus,
       RaiseSignal, Kick, Interrupt, ReadStatus, AckLoad, AckStore, ReapDone, Reset,
       GuestRuns, Returning, server, vars
  <2>2. Newest' = Newest
    BY <1>1, <1>2, <2>1 DEF Newest
  <2> QED
    BY <1>1, <1>2, <2>2, KeepHistories
<1>4. /\ last % Num \in Slots /\ Plus(last) \in Idx /\ 0 \in Idx
      /\ Unserved = Distance(usedIdx, availIdx) /\ Unserved \in Nat
  BY Indices, IsSlot, PlusIs, Sizes DEF Idx, Unserved
<1> HIDE <1>0
<1>5. CASE WorkerWake
  <2>2. Modes'
    BY <1>0, <1>5 DEF Modes, Serving, WorkerWake, rings, dev, driver
  <2>3. Cursors'
    BY <1>0, <1>1, <1>2, <1>4, <1>5 DEF Cursors, Modes, Serving, Holding,
       WorkerWake, rings, dev, driver
  <2>4. InHand'
    BY <1>0, <1>1, <1>5 DEF InHand, Modes, Cursors, Holding, WorkerWake, rings, dev,
       driver
  <2> QED
    BY <1>0, <1>2, <1>3, <2>2, <2>3, <2>4 DEF Sound
<1>6. CASE Snapshot
  <2>2. Modes'
    BY <1>0, <1>6 DEF Modes, Serving, Snapshot, rings, dev, kvm, driver
  <2>3. Cursors'
    BY <1>0, <1>1, <1>2, <1>4, <1>6 DEF Cursors, Modes, Serving, Holding, Snapshot,
       rings, dev, kvm, driver
  <2>4. InHand'
    BY <1>0, <1>1, <1>6 DEF InHand, Modes, Cursors, Holding, Snapshot, rings, dev,
       kvm, driver
  <2> QED
    BY <1>0, <1>2, <1>3, <2>2, <2>3, <2>4 DEF Sound
<1>7. CASE Take
  <2>2. Modes'
    BY <1>0, <1>7 DEF Modes, Serving, Take, rings, dev, kvm, driver
  <2>3. Cursors'
    BY <1>0, <1>1, <1>2, <1>4, <1>7 DEF Cursors, Modes, Serving, Holding, Take,
       rings, dev, kvm, driver
  <2>4. InHand'
    BY <1>0, <1>1, <1>7 DEF InHand, Modes, Cursors, Holding, Serving, Located, Take, rings, dev, kvm,
       driver
  <2> QED
    BY <1>0, <1>2, <1>3, <2>2, <2>3, <2>4 DEF Sound
<1>8. CASE Advance
  <2>2. Modes'
    BY <1>0, <1>8 DEF Modes, Serving, Advance, rings, kvm, driver
  <2>3. Cursors'
    BY <1>0, <1>1, <1>2, <1>4, <1>8 DEF Cursors, Modes, Serving, Holding, Advance,
       rings, kvm, driver
  <2>4. InHand'
    BY <1>0, <1>1, <1>8 DEF InHand, Modes, Cursors, Holding, Advance, rings, kvm,
       driver
  <2> QED
    BY <1>0, <1>2, <1>3, <2>2, <2>3, <2>4 DEF Sound
<1>9. CASE Finish
  <2>2. Modes'
    BY <1>0, <1>9 DEF Modes, Serving, Finish, rings, dev, kvm, driver
  <2>3. Cursors'
    BY <1>0, <1>1, <1>2, <1>4, <1>9 DEF Cursors, Modes, Serving, Holding, Finish,
       rings, dev, kvm, driver
  <2>4. InHand'
    BY <1>0, <1>1, <1>9 DEF InHand, Modes, Cursors, Holding, Finish, rings, dev,
       kvm, driver
  <2> QED
    BY <1>0, <1>2, <1>3, <2>2, <2>3, <2>4 DEF Sound
<1>10. CASE RaiseStatus
  <2>2. Modes'
    BY <1>0, <1>10 DEF Modes, Serving, RaiseStatus, rings, kvm, driver
  <2>3. Cursors'
    BY <1>0, <1>1, <1>2, <1>4, <1>10 DEF Cursors, Modes, Serving, Holding,
       RaiseStatus, rings, kvm, driver
  <2>4. InHand'
    BY <1>0, <1>1, <1>10 DEF InHand, Modes, Cursors, Holding, RaiseStatus, rings,
       kvm, driver
  <2> QED
    BY <1>0, <1>2, <1>3, <2>2, <2>3, <2>4 DEF Sound
<1>11. CASE RaiseSignal
  <2>2. Modes'
    BY <1>0, <1>11 DEF Modes, Serving, RaiseSignal, rings, dev, driver
  <2>3. Cursors'
    BY <1>0, <1>1, <1>2, <1>4, <1>11 DEF Cursors, Modes, Serving, Holding,
       RaiseSignal, rings, dev, driver
  <2>4. InHand'
    BY <1>0, <1>1, <1>11 DEF InHand, Modes, Cursors, Holding, RaiseSignal, rings,
       dev, driver
  <2> QED
    BY <1>0, <1>2, <1>3, <2>2, <2>3, <2>4 DEF Sound
<1>12. CASE Kick
  <2>2. Modes'
    BY <1>0, <1>12 DEF Modes, Serving, Kick, GuestRuns, rings, dev
  <2>3. Cursors'
    BY <1>0, <1>1, <1>2, <1>4, <1>12 DEF Cursors, Modes, Serving, Holding, Kick,
       GuestRuns, rings, dev
  <2>4. InHand'
    BY <1>0, <1>1, <1>12 DEF InHand, Modes, Cursors, Holding, Kick, GuestRuns,
       rings, dev
  <2> QED
    BY <1>0, <1>2, <1>3, <2>2, <2>3, <2>4 DEF Sound
<1>13. CASE Interrupt
  <2>2. Modes'
    BY <1>0, <1>13 DEF Modes, Serving, Interrupt, rings, dev, server
  <2>3. Cursors'
    BY <1>0, <1>1, <1>2, <1>4, <1>13 DEF Cursors, Modes, Serving, Holding,
       Interrupt, rings, dev, server
  <2>4. InHand'
    BY <1>0, <1>1, <1>13 DEF InHand, Modes, Cursors, Holding, Interrupt, rings, dev,
       server
  <2> QED
    BY <1>0, <1>2, <1>3, <2>2, <2>3, <2>4 DEF Sound
<1>14. CASE ReadStatus
  <2>2. Modes'
    BY <1>0, <1>14 DEF Modes, Serving, ReadStatus, rings, dev, kvm, server
  <2>3. Cursors'
    BY <1>0, <1>1, <1>2, <1>4, <1>14 DEF Cursors, Modes, Serving, Holding,
       ReadStatus, rings, dev, kvm, server
  <2>4. InHand'
    BY <1>0, <1>1, <1>14 DEF InHand, Modes, Cursors, Holding, ReadStatus, rings,
       dev, kvm, server
  <2> QED
    BY <1>0, <1>2, <1>3, <2>2, <2>3, <2>4 DEF Sound
<1>15. CASE AckLoad
  <2>2. Modes'
    BY <1>0, <1>15 DEF Modes, Serving, AckLoad, rings, dev, kvm, server
  <2>3. Cursors'
    BY <1>0, <1>1, <1>2, <1>4, <1>15 DEF Cursors, Modes, Serving, Holding, AckLoad,
       rings, dev, kvm, server
  <2>4. InHand'
    BY <1>0, <1>1, <1>15 DEF InHand, Modes, Cursors, Holding, AckLoad, rings, dev,
       kvm, server
  <2> QED
    BY <1>0, <1>2, <1>3, <2>2, <2>3, <2>4 DEF Sound
<1>16. CASE AckStore
  <2>2. Modes'
    BY <1>0, <1>16 DEF Modes, Serving, AckStore, Lower, rings, server
  <2>3. Cursors'
    BY <1>0, <1>1, <1>2, <1>4, <1>16 DEF Cursors, Modes, Serving, Holding, AckStore,
       Lower, rings, server
  <2>4. InHand'
    BY <1>0, <1>1, <1>16 DEF InHand, Modes, Cursors, Holding, AckStore, Lower,
       rings, server
  <2> QED
    BY <1>0, <1>2, <1>3, <2>2, <2>3, <2>4 DEF Sound
<1>17. CASE ReapDone
  <2>2. Modes'
    BY <1>0, <1>17 DEF Modes, Serving, ReapDone, rings, dev, kvm, server
  <2>3. Cursors'
    BY <1>0, <1>1, <1>2, <1>4, <1>17 DEF Cursors, Modes, Serving, Holding, ReapDone,
       rings, dev, kvm, server
  <2>4. InHand'
    BY <1>0, <1>1, <1>17 DEF InHand, Modes, Cursors, Holding, ReapDone, rings, dev,
       kvm, server
  <2> QED
    BY <1>0, <1>2, <1>3, <2>2, <2>3, <2>4 DEF Sound
<1>18. CASE Reset
  <2>1. pc \notin Serving
    <3>1. ASSUME pc \in Serving PROVE cut'
      BY <1>18, <3>1 DEF Reset
    <3>2. ~cut'
      BY <1>0
    <3> QED
      BY <3>1, <3>2
  <2>2. Modes'
    BY <1>0, <1>18, <2>1 DEF Modes, Serving, Reset, GuestRuns, ResetCursor, rings, server
  <2>3. Cursors'
    BY <1>0, <1>1, <1>2, <1>4, <1>18 DEF Cursors, Modes, Serving, Holding, Reset,
       GuestRuns, ResetCursor, rings, server
  <2>4. InHand'
    BY <1>0, <1>1, <1>18 DEF InHand, Modes, Cursors, Holding, Reset, GuestRuns,
       ResetCursor, rings, server
  <2> QED
    BY <1>0, <1>2, <1>3, <2>2, <2>3, <2>4 DEF Sound
<1>19. CASE UNCHANGED vars
  <2>1. Modes' /\ Cursors' /\ InHand'
    BY <1>0, <1>1, <1>2, <1>19
       DEF TypeOK, Modes, Cursors, InHand, vars, rings, dev, kvm, server, driver
  <2> QED
    BY <1>0, <1>2, <1>3, <2>1 DEF Sound
<1> QED
  BY <1>5, <1>6, <1>7, <1>8, <1>9, <1>10, <1>11, <1>12, <1>13, <1>14, <1>15, <1>16,
       <1>17, <1>18, <1>19 DEF Quiet

-----------------------------------------------------------------------------
(* Types are kept by every step, whatever was cut short before it.         *)

\* The types of one group of variables each.
RingTypes ==
  /\ desc \in [Slots -> 0..MaxReq]
  /\ avail \in [Slots -> Slots] /\ used \in [Slots -> Slots]
  /\ availIdx \in Idx /\ usedIdx \in Idx
DevTypes == ready \in BOOLEAN /\ last \in Idx /\ int_status \in BOOLEAN
KvmTypes == notify \in BOOLEAN /\ line \in BOOLEAN /\ irr \in BOOLEAN
ServerTypes ==
  /\ pc \in {"wait", "snap", "loop", "handle", "elem", "publish", "advance",
             "raise", "signal"}
  /\ idx \in Idx /\ at \in 0..MaxResets /\ head \in Slots /\ did \in BOOLEAN
DriverTypes ==
  /\ gpc \in {"idle", "kick", "isr", "ack", "store", "reap", "reset"}
  /\ free \in SUBSET Slots /\ lastUsed \in Idx
  /\ status \in BOOLEAN /\ loaded \in BOOLEAN
  /\ submitted \in 0..MaxReq /\ epoch \in 0..MaxResets
  /\ gpc = "reset" => epoch < MaxResets
HistTypes == handled \in Seq(Requests) /\ returned \in Seq(0..MaxReq)

LEMMA TypedParts ==
  Typed <=> /\ use_eventfd \in BOOLEAN /\ cut \in BOOLEAN
            /\ RingTypes /\ DevTypes /\ KvmTypes /\ ServerTypes /\ DriverTypes
            /\ HistTypes
BY DEF Typed, TypeOK, RingTypes, DevTypes, KvmTypes, ServerTypes, DriverTypes, HistTypes

\* A group that stays as it is keeps its types.
LEMMA SameTypes ==
  /\ RingTypes /\ UNCHANGED rings => RingTypes'
  /\ DevTypes /\ UNCHANGED dev => DevTypes'
  /\ KvmTypes /\ UNCHANGED kvm => KvmTypes'
  /\ ServerTypes /\ UNCHANGED server => ServerTypes'
  /\ DriverTypes /\ UNCHANGED driver => DriverTypes'
  /\ HistTypes /\ UNCHANGED <<handled, returned>> => HistTypes'
<1>1. RingTypes /\ UNCHANGED rings => RingTypes'
  BY DEF RingTypes, rings
<1>2. DevTypes /\ UNCHANGED dev => DevTypes'
  BY DEF DevTypes, dev
<1>3. KvmTypes /\ UNCHANGED kvm => KvmTypes'
  BY DEF KvmTypes, kvm
<1>4. ServerTypes /\ UNCHANGED server => ServerTypes'
  BY DEF ServerTypes, server
<1>5. DriverTypes /\ UNCHANGED driver => DriverTypes'
  BY DEF DriverTypes, driver
<1>6. HistTypes /\ UNCHANGED <<handled, returned>> => HistTypes'
  BY DEF HistTypes
<1> QED
  BY <1>1, <1>2, <1>3, <1>4, <1>5, <1>6

LEMMA TypeStep ==
  ASSUME Typed, Next PROVE Typed'
<1>0. /\ use_eventfd \in BOOLEAN /\ cut \in BOOLEAN
      /\ RingTypes /\ DevTypes /\ KvmTypes /\ ServerTypes /\ DriverTypes /\ HistTypes
  BY TypedParts
<1>1. /\ usedIdx % Num \in Slots /\ availIdx % Num \in Slots
      /\ Plus(last) \in Idx /\ Plus(usedIdx) \in Idx /\ Plus(availIdx) \in Idx
      /\ Plus(lastUsed) \in Idx
      /\ 0 \in Idx /\ 0 \in Slots /\ 0 \in 0..MaxResets
      /\ EmptyRing \in [Slots -> 0..MaxReq] /\ EmptyRing \in [Slots -> Slots]
      /\ avail[last % Num] \in Slots /\ used[lastUsed % Num] \in Slots
  <2>1. 0 \in Idx /\ 0 \in Slots /\ 0 \in 0..MaxResets /\ 0 \in 0..MaxReq
    BY Sizes, SizesOK DEF Idx, Slots, SizesOK
  <2>2. EmptyRing \in [Slots -> 0..MaxReq] /\ EmptyRing \in [Slots -> Slots]
    BY <2>1 DEF EmptyRing
  <2>3. \A i \in Nat : i % Num \in Slots
    BY IsSlot
  <2>4. /\ lastUsed \in Idx /\ usedIdx \in Idx /\ availIdx \in Idx /\ last \in Idx
        /\ avail \in [Slots -> Slots] /\ used \in [Slots -> Slots]
    BY <1>0 DEF RingTypes, DevTypes, DriverTypes
  <2>5. usedIdx \in Nat /\ availIdx \in Nat /\ last \in Nat /\ lastUsed \in Nat
    BY <2>4, Sizes DEF Idx
  <2>6. avail[last % Num] \in Slots /\ used[lastUsed % Num] \in Slots
    BY <2>3, <2>4, <2>5
  <2> QED
    BY <2>1, <2>2, <2>3, <2>4, <2>5, <2>6, PlusIs
<1>2. use_eventfd' \in BOOLEAN /\ cut' \in BOOLEAN
  BY <1>0 DEF Next, Service, Proceed, Begin, Submit, Reset
<1>3. SUFFICES /\ RingTypes' /\ DevTypes' /\ KvmTypes' /\ ServerTypes' /\ DriverTypes'
               /\ HistTypes'
  BY <1>2 DEF Typed, TypeOK, RingTypes, DevTypes, KvmTypes, ServerTypes, DriverTypes,
     HistTypes
<1>4. CASE WorkerWake
  <2>1. RingTypes' /\ DevTypes' /\ DriverTypes' /\ HistTypes'
    BY <1>0, <1>4, SameTypes DEF WorkerWake
  <2>2. KvmTypes' /\ ServerTypes'
    BY <1>0, <1>1, <1>4 DEF WorkerWake, KvmTypes, ServerTypes
  <2> QED
    BY <2>1, <2>2
<1>5. CASE Snapshot
  <2>1. RingTypes' /\ DevTypes' /\ KvmTypes' /\ DriverTypes' /\ HistTypes'
    BY <1>0, <1>5, SameTypes DEF Snapshot
  <2>2. ServerTypes'
    BY <1>0, <1>1, <1>5 DEF Snapshot, ServerTypes, RingTypes, DriverTypes
  <2> QED
    BY <2>1, <2>2
<1>6. CASE Take
  <2>1. RingTypes' /\ DevTypes' /\ KvmTypes' /\ DriverTypes' /\ HistTypes'
    BY <1>0, <1>6, SameTypes DEF Take
  <2>2. ServerTypes'
    BY <1>0, <1>1, <1>6 DEF Take, Located, ServerTypes
  <2> QED
    BY <2>1, <2>2
<1>7. CASE Handle
  <2>1. RingTypes' /\ DevTypes' /\ KvmTypes' /\ DriverTypes'
    BY <1>0, <1>7, SameTypes DEF Handle
  <2>2. ServerTypes'
    BY <1>0, <1>1, <1>7 DEF Handle, ServerTypes
  <2>3. HistTypes'
    <3>1. handled \in Seq(Requests)
      BY <1>0 DEF HistTypes
    <3>2. CASE desc[head] \in Requests
      BY <1>0, <1>7, <3>1, <3>2 DEF Handle, HistTypes
    <3>3. CASE desc[head] \notin Requests
      BY <1>0, <1>7, <3>1, <3>3 DEF Handle, HistTypes
    <3> QED
      BY <3>2, <3>3
  <2> QED
    BY <2>1, <2>2, <2>3
<1>8. CASE UsedElement
  <2>1. DevTypes' /\ KvmTypes' /\ DriverTypes' /\ HistTypes'
    BY <1>0, <1>8, SameTypes DEF UsedElement
  <2>2. RingTypes' /\ ServerTypes'
    BY <1>0, <1>1, <1>8 DEF UsedElement, UsedSlot, RingTypes, ServerTypes
  <2> QED
    BY <2>1, <2>2
<1>9. CASE UsedIndex
  <2>1. DevTypes' /\ KvmTypes' /\ DriverTypes' /\ HistTypes'
    BY <1>0, <1>9, SameTypes DEF UsedIndex
  <2>2. RingTypes' /\ ServerTypes'
    BY <1>0, <1>1, <1>9 DEF UsedIndex, RingTypes, ServerTypes
  <2> QED
    BY <2>1, <2>2
<1>10. CASE Advance
  <2>1. RingTypes' /\ KvmTypes' /\ DriverTypes' /\ HistTypes'
    BY <1>0, <1>10, SameTypes DEF Advance
  <2>2. DevTypes' /\ ServerTypes'
    BY <1>0, <1>1, <1>10 DEF Advance, DevTypes, ServerTypes
  <2> QED
    BY <2>1, <2>2
<1>11. CASE Finish
  <2>1. RingTypes' /\ DevTypes' /\ KvmTypes' /\ DriverTypes' /\ HistTypes'
    BY <1>0, <1>11, SameTypes DEF Finish
  <2>2. ServerTypes'
    BY <1>0, <1>1, <1>11 DEF Finish, Return, ServerTypes
  <2> QED
    BY <2>1, <2>2
<1>12. CASE RaiseStatus
  <2>1. RingTypes' /\ KvmTypes' /\ DriverTypes' /\ HistTypes'
    BY <1>0, <1>12, SameTypes DEF RaiseStatus
  <2>2. DevTypes' /\ ServerTypes'
    BY <1>0, <1>1, <1>12 DEF RaiseStatus, DevTypes, ServerTypes
  <2> QED
    BY <2>1, <2>2
<1>13. CASE RaiseSignal
  <2>1. RingTypes' /\ DevTypes' /\ DriverTypes' /\ HistTypes'
    BY <1>0, <1>13, SameTypes DEF RaiseSignal
  <2>2. KvmTypes' /\ ServerTypes'
    BY <1>0, <1>1, <1>13 DEF RaiseSignal, KvmTypes, ServerTypes
  <2> QED
    BY <2>1, <2>2
<1>14. CASE Kick
  <2>1. RingTypes' /\ DevTypes' /\ HistTypes'
    BY <1>0, <1>14, SameTypes DEF Kick
  <2>2. KvmTypes' /\ ServerTypes' /\ DriverTypes'
    BY <1>0, <1>1, <1>14 DEF Kick, KvmTypes, ServerTypes, DriverTypes
  <2> QED
    BY <2>1, <2>2
<1>15. CASE Interrupt
  <2>1. RingTypes' /\ DevTypes' /\ ServerTypes' /\ HistTypes'
    BY <1>0, <1>15, SameTypes DEF Interrupt
  <2>2. KvmTypes' /\ DriverTypes'
    BY <1>0, <1>1, <1>15 DEF Interrupt, KvmTypes, DriverTypes
  <2> QED
    BY <2>1, <2>2
<1>16. CASE ReadStatus
  <2>1. RingTypes' /\ DevTypes' /\ KvmTypes' /\ ServerTypes' /\ HistTypes'
    BY <1>0, <1>16, SameTypes DEF ReadStatus
  <2>2. DriverTypes'
    BY <1>0, <1>1, <1>16 DEF ReadStatus, DevTypes, DriverTypes
  <2> QED
    BY <2>1, <2>2
<1>17. CASE AckLoad
  <2>1. RingTypes' /\ DevTypes' /\ KvmTypes' /\ ServerTypes' /\ HistTypes'
    BY <1>0, <1>17, SameTypes DEF AckLoad
  <2>2. DriverTypes'
    BY <1>0, <1>1, <1>17 DEF AckLoad, DevTypes, DriverTypes
  <2> QED
    BY <2>1, <2>2
<1>18. CASE AckStore
  <2>1. RingTypes' /\ ServerTypes' /\ HistTypes'
    BY <1>0, <1>18, SameTypes DEF AckStore
  <2>2. DevTypes' /\ KvmTypes' /\ DriverTypes'
    BY <1>0, <1>1, <1>18 DEF AckStore, Lower, DevTypes, KvmTypes, DriverTypes
  <2> QED
    BY <2>1, <2>2
<1>19. CASE Reap
  <2>1. RingTypes' /\ DevTypes' /\ KvmTypes' /\ ServerTypes'
    BY <1>0, <1>19, SameTypes DEF Reap
  <2>2. desc[used[lastUsed % Num]] \in 0..MaxReq
    BY <1>0, <1>1 DEF RingTypes
  <2>3. HistTypes'
    BY <1>0, <1>19, <2>2 DEF Reap, HistTypes
  <2>4. DriverTypes'
    BY <1>0, <1>1, <1>19 DEF Reap, DriverTypes
  <2> QED
    BY <2>1, <2>3, <2>4
<1>20. CASE ReapDone
  <2>1. RingTypes' /\ DevTypes' /\ KvmTypes' /\ ServerTypes' /\ HistTypes'
    BY <1>0, <1>20, SameTypes DEF ReapDone
  <2>2. DriverTypes'
    BY <1>0, <1>1, <1>20 DEF ReapDone, DriverTypes
  <2> QED
    BY <2>1, <2>2
<1>21. CASE Setup
  <2>1. KvmTypes' /\ ServerTypes' /\ HistTypes'
    BY <1>0, <1>21, SameTypes DEF Setup
  <2>2. epoch' \in 0..MaxResets
    BY <1>0, <1>21, SizesOK DEF Setup, DriverTypes, SizesOK
  <2>3. RingTypes' /\ DevTypes'
    BY <1>0, <1>1, <1>21 DEF Setup, RingTypes, DevTypes
  <2>4. DriverTypes'
    BY <1>0, <1>1, <1>21, <2>2 DEF Setup, DriverTypes
  <2> QED
    BY <2>1, <2>3, <2>4
<1>22. CASE Submit
  <2>1. PICK h \in free : /\ desc' = [desc EXCEPT ![h] = submitted + 1]
                          /\ avail' = [avail EXCEPT ![availIdx % Num] = h]
                          /\ free' = free \ {h}
    BY <1>22 DEF Submit
  <2>2. /\ h \in Slots /\ submitted + 1 \in 0..MaxReq
        /\ submitted' = submitted + 1 /\ availIdx' = Plus(availIdx) /\ gpc' = "kick"
        /\ UNCHANGED <<used, usedIdx, lastUsed, status, loaded, epoch>>
    <3>1. /\ submitted < MaxReq
          /\ submitted' = submitted + 1 /\ availIdx' = Plus(availIdx) /\ gpc' = "kick"
          /\ UNCHANGED <<used, usedIdx, lastUsed, status, loaded, epoch>>
      BY <1>22 DEF Submit
    <3>2. submitted \in 0..MaxReq /\ h \in Slots
      BY <1>0, <2>1 DEF DriverTypes
    <3>3. submitted + 1 \in 0..MaxReq
      BY <3>1, <3>2, SizesOK DEF SizesOK
    <3> QED
      BY <3>1, <3>2, <3>3
  <2>3. DevTypes' /\ KvmTypes' /\ ServerTypes' /\ HistTypes'
    BY <1>0, <1>22, SameTypes DEF Submit
  <2>4. RingTypes'
    BY <1>0, <1>1, <2>1, <2>2 DEF RingTypes
  <2>5. DriverTypes'
    BY <1>0, <2>1, <2>2 DEF DriverTypes
  <2> QED
    BY <2>3, <2>4, <2>5
<1>23. CASE Reset
  <2>1. RingTypes' /\ ServerTypes' /\ HistTypes'
    BY <1>0, <1>23, SameTypes DEF Reset
  <2>2. DevTypes' /\ KvmTypes' /\ DriverTypes'
    BY <1>0, <1>1, <1>23 DEF Reset, ResetCursor, DevTypes, KvmTypes, DriverTypes
  <2> QED
    BY <2>1, <2>2
<1> QED
  BY <1>4, <1>5, <1>6, <1>7, <1>8, <1>9, <1>10, <1>11, <1>12, <1>13,
     <1>14, <1>15, <1>16, <1>17, <1>18, <1>19, <1>20, <1>21, <1>22, <1>23
     DEF Next, Service, Proceed, Begin

LEMMA Step == IInv /\ [Next]_vars => IInv'
<1>1. ASSUME IInv, Next PROVE IInv'
  <2>1. Typed /\ Typed'
    BY <1>1, TypeStep DEF IInv
  <2>2. cut => cut'
    BY <1>1 DEF Next, Service, Proceed, Begin, Submit, Reset
  <2>3. ASSUME ~cut' PROVE Sound'
    <3>1. cut \in BOOLEAN /\ cut' \in BOOLEAN
      BY <2>1 DEF Typed, TypeOK
    <3>2. UNCHANGED <<use_eventfd, cut>> /\ Sound
      BY <1>1, <2>2, <2>3, <3>1 DEF IInv, Next, Service, Proceed, Begin
    <3>3. Quiet \/ Handle \/ UsedElement \/ UsedIndex \/ Submit \/ Reap \/ Setup
      BY <1>1 DEF Next, Service, Proceed, Begin, Quiet
    <3> QED
      BY <2>1, <3>2, <3>3, QuietStep, HandleStep, ElementStep, IndexStep, SubmitStep,
         ReapStep, SetupStep
  <2> QED
    BY <2>1, <2>3 DEF IInv
<1>2. ASSUME IInv, UNCHANGED vars PROVE IInv'
  <2>1. Typed'
    BY <1>2 DEF IInv, Typed, TypeOK, vars, rings, dev, kvm, server, driver
  <2>2. CASE cut
    BY <1>2, <2>1, <2>2 DEF IInv, vars
  <2>3. CASE Sound
    <3>1. UNCHANGED <<use_eventfd, cut>>
      BY <1>2 DEF vars
    <3> QED
      BY <1>2, <2>1, <2>3, <3>1, QuietStep DEF Quiet, IInv
  <2> QED
    BY <1>2, <2>2, <2>3 DEF IInv
<1> QED
  BY <1>1, <1>2

LEMMA InitIInv == Init => IInv
<1> SUFFICES ASSUME Init PROVE IInv
  OBVIOUS
<1>1. Typed /\ ~cut
  <2>1. 0 \in Idx /\ 0 \in Slots /\ 0 \in 0..MaxResets /\ 0 \in 0..MaxReq
    BY Sizes, SizesOK DEF Idx, Slots, SizesOK
  <2>2. EmptyRing \in [Slots -> 0..MaxReq] /\ EmptyRing \in [Slots -> Slots]
    BY <2>1 DEF EmptyRing
  <2>3. <<>> \in Seq(Requests) /\ <<>> \in Seq(0..MaxReq)
    OBVIOUS
  <2>4. TypeOK
    BY <2>1, <2>2, <2>3 DEF Init, TypeOK
  <2> QED
    BY <2>4 DEF Init, Typed
<1>2. Unreaped = 0 /\ Unserved = 0 /\ Outstanding = 0
  <2>1. 0 \in Idx
    BY Sizes DEF Idx
  <2>2. Distance(0, 0) = 0
    BY <2>1, DistanceZero
  <2> QED
    BY <2>2 DEF Init, Unreaped, Unserved, Outstanding
<1>3. Modes /\ Cursors /\ InHand
  BY <1>2, Sizes DEF Init, Modes, Cursors, InHand, Serving, Holding
<1>4. Contents
  <2>1. Cardinality(Slots) = Num
    BY FS_Interval, Sizes DEF Slots
  <2>2. 0..(Outstanding - 1) = {}
    BY <1>2
  <2> QED
    BY <1>2, <2>1, <2>2, Sizes DEF Init, Contents
<1>5. Histories
  <2>1. Newest = 0
    BY <1>2 DEF Init, Newest, Returning
  <2> QED
    BY <1>2, <2>1 DEF Init, Histories, Increasing
<1> QED
  BY <1>1, <1>3, <1>4, <1>5 DEF IInv, Sound

LEMMA Always == Spec => []IInv
<1>1. IInv /\ [Next]_vars => IInv'
  BY Step
<1> QED
  BY InitIInv, <1>1, PTL DEF Spec
-----------------------------------------------------------------------------
(* Theorems.                                                               *)

\* Every variable keeps its type, after a reset that cut a service short too:
\* indices stay in their width, and what is taken from a ring is a descriptor of
\* the queue.
THEOREM TypeCorrect == Spec => []TypeOK
<1>1. IInv => TypeOK
  BY DEF IInv, Typed
<1> QED
  BY Always, <1>1, PTL

\* service_vq() handles each request once and in the order of submission, and the
\* driver gets back what was handled, in that order, across resets, however the
\* worker and the virtual CPU interleave, unless a reset cuts a service short.
THEOREM EachIsServedOnce == Spec => []ServedOnceInOrder
<1>1. IInv => ServedOnceInOrder
  BY DEF IInv, Sound, Histories, ServedOnceInOrder
<1> QED
  BY Always, <1>1, PTL

\* The free-running indices agree at every width, unless a reset cuts a service
\* short: each consumed chain is on the used ring, and no index runs ahead of the
\* one it follows.
THEOREM CursorsAgree == Spec => []CursorsInOrder
<1>1. ASSUME IInv, ~cut, gpc # "reset" PROVE CursorsInOrder
  <2> USE DEF IInv, Sound, Typed
  <2>1. usedIdx = (IF pc = "advance" THEN Plus(last) ELSE last) /\ Outstanding <= Num
    BY <1>1 DEF Cursors
  <2>2. Distance(lastUsed, availIdx) = Outstanding
    BY <1>1, <2>1, Indices, DistanceSum DEF Outstanding, Unreaped, Unserved
  <2>3. Unreaped \in Nat /\ Unserved \in Nat
    BY <1>1, Indices
  <2> QED
    BY <2>1, <2>2, <2>3, Sizes DEF CursorsInOrder, Outstanding, Unreaped
<1>2. IInv => CursorsInOrder
  BY <1>1 DEF CursorsInOrder
<1> QED
  BY Always, <1>2, PTL
=============================================================================
