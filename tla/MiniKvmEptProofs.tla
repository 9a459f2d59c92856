-------------------------- MODULE MiniKvmEptProofs --------------------------
(***************************************************************************)
(* Proofs about MiniKvmEpt, for tables of any size, any memory slot and    *)
(* any limit of tracked pages: tear-down returns every page, and the       *)
(* tables implement GuestMap.                                              *)
(***************************************************************************)
EXTENDS MiniKvmEpt, TLAPS, SequenceTheorems

\* The table that the walk for g is at when it reads the entry of level k.
At(g, k) == CASE k = 1 -> pml4      [] k = 2 -> Table2(g)
              [] k = 3 -> Table3(g) [] OTHER -> Table4(g)

\* The tables form a tree below pml4: a table entry leads to a tracked page and
\* no page is led to twice.
Tree ==
  /\ \A f \in held, i \in Index : Follow(f, i) \in TrackedSet \cup {None}
  /\ \A f1, f2 \in held, i1, i2 \in Index :
       Follow(f1, i1) = Follow(f2, i2) /\ Follow(f1, i1) # None => f1 = f2 /\ i1 = i2

\* A leaf is in a table of the last level, and no table entry is.
LeavesLast ==
  /\ \A f \in held, i \in Index : Leaf(f, i) # None => \E g \in Gpas : Table4(g) = f
  /\ \A g \in Gpas, i \in Index : Table4(g) # None => Follow(Table4(g), i) = None

\* A walk stands where the processor's would, for a page that is not mapped.
Stands(g, k) ==
  /\ gpa = g /\ level = k
  /\ table \in Frames /\ table = At(g, k) /\ Translate(g) = None
WalkInv == pc = "walk" => \E g \in DOMAIN Slot, k \in 1..4 : Stands(g, k)

\* There is a root as long as there is a VM.
Root ==
  IF pc = "none" THEN pml4 = None /\ tracked = <<>> ELSE pml4 \in Frames

IInv == TypeOK /\ TablesAccounted /\ Tree /\ LeavesLast /\ WalkInv /\ Root

-----------------------------------------------------------------------------
(* Lemmas about chains of tables.                                          *)

LEMMA NoneIsNoFrame == None \notin Frames /\ Junk \notin Frames /\ None # Junk
BY EptConstantsOK DEF EptConstantsOK

\* Each level is one table entry further.
LEMMA AtNext ==
  ASSUME NEW g \in Gpas, NEW k \in 1..3
  PROVE  At(g, k + 1) = Follow(At(g, k), g[k])
BY DEF At, Table2, Table3, Table4

LEMMA GpaIndex == \A g \in Gpas, k \in 1..4 : g[k] \in Index
BY EptConstantsOK DEF EptConstantsOK

\* A table on the way is a page that the VM holds; only the first is the root.
LEMMA AtHeld ==
  ASSUME TypeOK, TablesAccounted, Tree, NEW g \in Gpas, NEW k \in 1..4, At(g, k) # None
  PROVE  /\ At(g, k) \in held
         /\ k = 1 => At(g, k) = pml4
         /\ k # 1 => At(g, k) \in TrackedSet /\ At(g, k - 1) \in held
<1>0. /\ TrackedSet \subseteq held
      /\ (pml4 # None => pml4 \in held) /\ pml4 \in Frames \cup {None}
  BY DEF TablesAccounted, TypeOK
<1> DEFINE P(j) == At(g, j) # None => At(g, j) \in held
<1>1. P(1) /\ At(g, 1) = pml4
  BY <1>0 DEF At
<1>2. ASSUME NEW j \in 1..3, P(j)
      PROVE  /\ P(j + 1)
             /\ At(g, j + 1) # None => At(g, j + 1) \in TrackedSet /\ At(g, j) \in held
  <2>1. At(g, j + 1) = Follow(At(g, j), g[j]) /\ g[j] \in Index
    BY AtNext, GpaIndex
  <2>2. CASE At(g, j) = None
    BY <2>1, <2>2, NoneIsNoFrame DEF Follow
  <2>3. CASE At(g, j) # None
    BY <1>0, <1>2, <2>1, <2>3 DEF Tree
  <2> QED  BY <2>2, <2>3
<1>3. P(2) /\ (At(g, 2) # None => At(g, 2) \in TrackedSet /\ At(g, 1) \in held)
  BY <1>1, <1>2, 1 + 1 = 2
<1>4. P(3) /\ (At(g, 3) # None => At(g, 3) \in TrackedSet /\ At(g, 2) \in held)
  BY <1>3, <1>2, 2 + 1 = 3
<1>5. P(4) /\ (At(g, 4) # None => At(g, 4) \in TrackedSet /\ At(g, 3) \in held)
  BY <1>4, <1>2, 3 + 1 = 4
<1> QED
  <2>1. k = 1 \/ k = 2 \/ k = 3 \/ k = 4
    OBVIOUS
  <2>2. CASE k = 1
    BY <1>1, <2>2
  <2>3. CASE k = 2
    BY <1>3, <2>3
  <2>4. CASE k = 3
    BY <1>4, <2>4
  <2>5. CASE k = 4
    BY <1>5, <2>5
  <2> QED  BY <2>1, <2>2, <2>3, <2>4, <2>5

\* A page is reached at one level and along one path only.
LEMMA OnePath ==
  ASSUME TypeOK, TablesAccounted, Tree,
         NEW g \in Gpas, NEW h \in Gpas, NEW k \in 1..4, NEW l \in 1..4,
         At(g, k) # None, At(g, k) = At(h, l)
  PROVE  k = l /\ \A j \in 1..(k - 1) : g[j] = h[j]
<1> DEFINE Same(a, b) == At(g, a) # None /\ At(g, a) = At(h, b)
<1>1. ASSUME NEW a \in 1..4, NEW b \in 1..4, Same(a, b)
      PROVE  /\ a = 1 <=> b = 1
             /\ a # 1 => Same(a - 1, b - 1) /\ g[a - 1] = h[b - 1]
  <2>1. a = 1 <=> b = 1
    BY <1>1, AtHeld DEF TablesAccounted
  <2>2. CASE a # 1
    <3>1. a - 1 \in 1..3 /\ b - 1 \in 1..3 /\ (a - 1) + 1 = a /\ (b - 1) + 1 = b
      BY <2>1, <2>2
    <3>2. /\ At(g, a) = Follow(At(g, a - 1), g[a - 1])
          /\ At(h, b) = Follow(At(h, b - 1), h[b - 1])
      BY <3>1, AtNext
    <3>3. At(g, a - 1) \in held /\ At(h, b - 1) \in held
      BY <1>1, <2>1, <2>2, AtHeld
    <3>4. At(g, a - 1) = At(h, b - 1) /\ g[a - 1] = h[b - 1]
      <4>1. g[a - 1] \in Index /\ h[b - 1] \in Index
        BY <3>1, GpaIndex
      <4>2. /\ Follow(At(g, a - 1), g[a - 1]) = Follow(At(h, b - 1), h[b - 1])
            /\ Follow(At(g, a - 1), g[a - 1]) # None
        BY <1>1, <3>2
      <4> QED  BY <3>3, <4>1, <4>2 DEF Tree
    <3>5. At(g, a - 1) # None
      BY <3>3, NoneIsNoFrame DEF TypeOK
    <3> QED  BY <2>1, <3>4, <3>5
  <2> QED  BY <2>1, <2>2
<1>2. \A a, b \in 1..4 : Same(a, b) => (a = 1 <=> b = 1)
  BY <1>1
<1>3. \A a, b \in 1..4 :
         Same(a, b) /\ a # 1 => Same(a - 1, b - 1) /\ g[a - 1] = h[b - 1]
  BY <1>1
<1> HIDE DEF Same
<1>4. Same(k, l)
  BY DEF Same
<1>5. k = l
  BY <1>2, <1>3, <1>4
<1>6. \A j \in 1..(k - 1) : g[j] = h[j]
  <2>1. \A a \in 1..4 : Same(a, a) /\ a # 1 => Same(a - 1, a - 1) /\ g[a - 1] = h[a - 1]
    BY <1>3
  <2> QED  BY <1>4, <1>5, <2>1
<1> QED  BY <1>5, <1>6

\* Pages of the slot are not None, and an entry that is not absent says what it is.
LEMMA EntryKinds ==
  ASSUME TypeOK, NEW f \in Frames, NEW i \in Index
  PROVE  \/ mem[f][i] = Absent /\ Follow(f, i) = None /\ Leaf(f, i) = None
         \/ /\ mem[f][i].kind = "table"
            /\ Follow(f, i) = mem[f][i].to /\ Follow(f, i) # None
            /\ Leaf(f, i) = None
         \/ mem[f][i].kind = "page" /\ Leaf(f, i) = mem[f][i].to /\ Leaf(f, i) # None
            /\ Follow(f, i) = None
<1>1. mem[f][i] \in Entries
  BY DEF TypeOK
<1>2. \A p \in Pages : p # None
  BY EptConstantsOK DEF EptConstantsOK, Pages
<1> QED
  BY <1>1, <1>2, NoneIsNoFrame
     DEF Entries, Absent, TableEntry, PageEntry, Follow, Leaf

LEMMA AppendTracked ==
  ASSUME tracked \in Seq(Frames), NEW f \in Frames, tracked' = Append(tracked, f),
         f \notin TrackedSet,
         \A i, j \in DOMAIN tracked : tracked[i] = tracked[j] => i = j
  PROVE  /\ TrackedSet' = TrackedSet \cup {f}
         /\ \A i, j \in DOMAIN tracked' : tracked'[i] = tracked'[j] => i = j
<1>1. /\ DOMAIN tracked = 1..Len(tracked) /\ Len(tracked) \in Nat
      /\ DOMAIN tracked' = 1..(Len(tracked) + 1)
      /\ \A i \in 1..Len(tracked) : tracked'[i] = tracked[i]
      /\ tracked'[Len(tracked) + 1] = f
  OBVIOUS
<1>2. \A i \in DOMAIN tracked : tracked[i] # f
  BY DEF TrackedSet
<1> QED  BY <1>1, <1>2 DEF TrackedSet

-----------------------------------------------------------------------------
(* The steps that leave the tables alone.                                  *)

LEMMA SameTables ==
  ASSUME UNCHANGED <<mem, held, pml4, tracked>>
  PROVE  /\ \A g \in Gpas : Translate(g)' = Translate(g)
         /\ \A g \in Gpas, k \in 1..4 : At(g, k)' = At(g, k)
         /\ TablesAccounted => TablesAccounted'
         /\ Tree => Tree'
         /\ LeavesLast => LeavesLast'
<1>1. /\ \A f, i : Follow(f, i)' = Follow(f, i) /\ Leaf(f, i)' = Leaf(f, i)
      /\ TrackedSet' = TrackedSet
  BY DEF Follow, Leaf, TrackedSet
<1>2. \A g : Table2(g)' = Table2(g)
  BY <1>1 DEF Table2, Follow
<1>3. \A g : Table3(g)' = Table3(g)
  BY <1>2 DEF Table3, Follow
<1>4. \A g : Table4(g)' = Table4(g)
  BY <1>3 DEF Table4, Follow
<1>5. \A g : Translate(g)' = Translate(g)
  BY <1>4 DEF Translate, Leaf
<1>6. Tree => Tree'
  BY <1>1 DEF Tree, Follow
<1>7. LeavesLast => LeavesLast'
  BY <1>1, <1>4 DEF LeavesLast, Follow, Leaf
<1>8. TablesAccounted => TablesAccounted'
  BY <1>1 DEF TablesAccounted
<1>9. \A g \in Gpas, k \in 1..4 : At(g, k)' = At(g, k)
  BY <1>2, <1>3, <1>4 DEF At
<1> QED  BY <1>5, <1>6, <1>7, <1>8, <1>9

LEMMA ViolationStep ==
  ASSUME IInv, NEW g \in Gpas, Violation(g)
  PROVE  IInv' /\ \A h \in Gpas : Translate(h)' = Translate(h)
<1>1. UNCHANGED <<mem, held, pml4, tracked>> /\ UNCHANGED valid
  BY DEF Violation
<1>2. TypeOK' /\ Root'
  BY <1>1 DEF IInv, TypeOK, Root, Violation, Return
<1>3. WalkInv'
  <2>1. CASE InSlot(g)
    <3>1. /\ gpa' = g /\ table' = pml4 /\ level' = 1 /\ pc' = "walk" /\ pc = "run"
          /\ Translate(g) = None /\ g \in DOMAIN Slot
      BY <2>1 DEF Violation, InSlot
    <3>2. At(g, 1)' = pml4 /\ Translate(g)' = None
      BY <1>1, <3>1, SameTables DEF At
    <3>3. Stands(g, 1)'
      BY <1>1, <3>1, <3>2 DEF Stands, IInv, Root
    <3> QED  BY <3>1, <3>3 DEF WalkInv
  <2>2. CASE ~InSlot(g)
    BY <2>2 DEF Violation, Return, WalkInv
  <2> QED  BY <2>1, <2>2
<1> QED  BY <1>1, <1>2, <1>3, SameTables DEF IInv

LEMMA DescendStep ==
  ASSUME IInv, Descend
  PROVE  IInv' /\ \A h \in Gpas : Translate(h)' = Translate(h)
<1>1. UNCHANGED <<mem, held, pml4, tracked>> /\ UNCHANGED <<valid, pc, gpa, ret>>
  BY DEF Descend
<1>2. /\ pc = "walk" /\ level \in 1..3 /\ Entry # Absent
      /\ gpa \in DOMAIN Slot /\ gpa \in Gpas /\ Translate(gpa) = None
      /\ table \in Frames /\ table = At(gpa, level) /\ gpa[level] \in Index
  BY GpaIndex, EptConstantsOK DEF Descend, IInv, TypeOK, WalkInv, Stands, EptConstantsOK
<1>3. table \in held
  BY <1>2, AtHeld, NoneIsNoFrame DEF IInv
<1>4. Leaf(table, gpa[level]) = None
  <2>1. SUFFICES ASSUME NEW g \in Gpas, Table4(g) = table PROVE FALSE
    BY <1>2, <1>3 DEF IInv, LeavesLast
  <2>2. At(g, 4) = table
    BY <2>1 DEF At
  <2> QED  BY <1>2, <2>2, OnePath, NoneIsNoFrame DEF IInv
<1>5. Entry.to = Follow(table, gpa[level]) /\ Entry.to # None
  BY <1>2, <1>4, EntryKinds DEF Entry, IInv
<1>6. Entry.to \in TrackedSet /\ TrackedSet \subseteq Frames
  BY <1>2, <1>3, <1>5 DEF IInv, Tree, TablesAccounted, TypeOK
<1>7. Entry.to = At(gpa, level + 1)
  BY <1>2, <1>5, AtNext
<1>8. table' = Entry.to /\ level' = level + 1
  BY DEF Descend
<1>9. WalkInv'
  <2>1. PICK g \in DOMAIN Slot, k \in 1..3 : gpa = g /\ level = k
    BY <1>2
  <2>2. At(g, k + 1)' = At(g, k + 1) /\ Translate(g)' = None
    BY <1>1, <1>2, <2>1, SameTables
  <2>3. Stands(g, k + 1)'
    BY <1>1, <1>6, <1>7, <1>8, <2>1, <2>2 DEF Stands
  <2> QED  BY <2>1, <2>3 DEF WalkInv
<1>10. TypeOK' /\ Root'
  BY <1>1, <1>2, <1>6, <1>8 DEF IInv, TypeOK, Root
<1> QED  BY <1>1, <1>9, <1>10, SameTables DEF IInv

LEMMA QuietStep ==
  ASSUME IInv, SetSlot \/ WalkFails \/ UNCHANGED vars
  PROVE  IInv' /\ \A h \in Gpas : Translate(h)' = Translate(h)
<1>1. UNCHANGED <<mem, held, pml4, tracked>>
  BY DEF SetSlot, WalkFails, vars
<1>2. TypeOK' /\ Root'
  <2>1. CASE SetSlot
    BY <2>1 DEF IInv, TypeOK, Root, SetSlot, locals
  <2>2. CASE WalkFails
    BY <2>2 DEF IInv, TypeOK, Root, WalkFails, Return
  <2>3. CASE UNCHANGED vars
    BY <2>3 DEF IInv, TypeOK, Root, vars, locals
  <2> QED  BY <2>1, <2>2, <2>3
<1>3. WalkInv'
  <2>1. CASE SetSlot \/ WalkFails
    BY <2>1 DEF SetSlot, WalkFails, Return, WalkInv
  <2>2. CASE UNCHANGED vars /\ pc = "walk"
    <3>1. PICK g \in DOMAIN Slot, k \in 1..4 : Stands(g, k)
      BY <2>2 DEF IInv, WalkInv
    <3>2. UNCHANGED <<pc, gpa, table, level>> /\ g \in Gpas
      BY <2>2, EptConstantsOK DEF vars, locals, EptConstantsOK
    <3>3. Stands(g, k)'
      BY <1>1, <3>1, <3>2, SameTables DEF Stands
    <3> QED  BY <3>3 DEF WalkInv
  <2>3. CASE UNCHANGED vars /\ pc # "walk"
    BY <2>3 DEF vars, WalkInv
  <2> QED  BY <2>1, <2>2, <2>3
<1> QED  BY <1>1, <1>2, <1>3, SameTables DEF IInv

-----------------------------------------------------------------------------
(* The leaf.                                                               *)

LEMMA SetLeafStep ==
  ASSUME IInv, SetLeaf
  PROVE  /\ IInv'
         /\ gpa \in DOMAIN Slot /\ Translate(gpa) = None
         /\ \A h \in Gpas : Translate(h)' = IF h = gpa THEN Slot[gpa] ELSE Translate(h)
<1>1. /\ UNCHANGED <<held, pml4, tracked, valid>> /\ pc = "walk" /\ level = 4
      /\ pc' = "run" /\ ret' = "0" /\ gpa' = None /\ table' = None /\ level' = 1
      /\ mem' = [mem EXCEPT ![table][gpa[4]] = PageEntry(Slot[gpa])]
  BY DEF SetLeaf, Return, PinnedPage
<1>2. /\ gpa \in DOMAIN Slot /\ gpa \in Gpas /\ Translate(gpa) = None
      /\ table \in Frames /\ table = At(gpa, 4) /\ gpa[4] \in Index
  BY <1>1, GpaIndex, EptConstantsOK DEF IInv, WalkInv, Stands, EptConstantsOK
<1>3. table = Table4(gpa) /\ table \in held
  BY <1>2, AtHeld, NoneIsNoFrame DEF At, IInv
<1>4. Slot[gpa] \in Pages /\ Slot[gpa] # None
  BY <1>2, EptConstantsOK DEF Pages, EptConstantsOK
<1>5. mem \in [Frames -> [Index -> Entries]]
  BY DEF IInv, TypeOK
<1>6. /\ mem' \in [Frames -> [Index -> Entries]]
      /\ \A f \in Frames, i \in Index :
           mem'[f][i] = IF f = table /\ i = gpa[4] THEN PageEntry(Slot[gpa])
                        ELSE mem[f][i]
  <2>1. PageEntry(Slot[gpa]) \in Entries
    BY <1>4 DEF Entries
  <2> QED  BY <1>1, <1>2, <1>5, <2>1
<1>7. Follow(table, gpa[4]) = None
  BY <1>2, <1>3, NoneIsNoFrame DEF IInv, LeavesLast
<1>8. \A f, i : i \in Index => Follow(f, i)' = Follow(f, i)
  <2>1. SUFFICES ASSUME NEW f, NEW i \in Index PROVE Follow(f, i)' = Follow(f, i)
    OBVIOUS
  <2>2. CASE f \notin Frames
    BY <2>2 DEF Follow
  <2>3. CASE f = table /\ i = gpa[4]
    <3>1. Follow(f, i)' = None
      BY <1>2, <1>6, <2>3 DEF Follow, PageEntry
    <3> QED  BY <1>7, <2>3, <3>1
  <2>4. CASE f \in Frames /\ ~(f = table /\ i = gpa[4])
    BY <1>6, <2>4 DEF Follow
  <2> QED  BY <2>2, <2>3, <2>4
<1>9. \A f \in Frames, i \in Index :
        Leaf(f, i)' = IF f = table /\ i = gpa[4] THEN Slot[gpa] ELSE Leaf(f, i)
  BY <1>6 DEF Leaf, PageEntry
<1>10. \A g \in Gpas : Table2(g)' = Table2(g)
  BY <1>1, <1>8, GpaIndex DEF Table2
<1>11. \A g \in Gpas : Table3(g)' = Table3(g)
  BY <1>8, <1>10, GpaIndex DEF Table3
<1>12. \A g \in Gpas : Table4(g)' = Table4(g)
  BY <1>8, <1>11, GpaIndex DEF Table4
<1>13. \A h \in Gpas : Translate(h)' = IF h = gpa THEN Slot[gpa] ELSE Translate(h)
  <2>1. SUFFICES ASSUME NEW h \in Gpas
                 PROVE  Translate(h)' = IF h = gpa THEN Slot[gpa] ELSE Translate(h)
    OBVIOUS
  <2>2. h[4] \in Index
    BY GpaIndex
  <2>3. CASE Table4(h) = table /\ h[4] = gpa[4]
    <3>1. At(h, 4) = At(gpa, 4) /\ At(h, 4) # None
      BY <1>2, <2>3, NoneIsNoFrame DEF At
    <3>2. \A j \in 1..3 : h[j] = gpa[j]
      BY <1>2, <3>1, OnePath DEF IInv
    <3>3. h = gpa
      BY <1>2, <2>3, <3>2, EptConstantsOK DEF EptConstantsOK
    <3> QED  BY <1>2, <1>9, <1>12, <2>2, <2>3, <3>3 DEF Translate
  <2>4. CASE Table4(h) \in Frames /\ ~(Table4(h) = table /\ h[4] = gpa[4])
    <3>1. h # gpa
      BY <1>3, <2>4
    <3> QED  BY <1>9, <1>12, <2>2, <2>4, <3>1 DEF Translate
  <2>5. CASE Table4(h) \notin Frames
    <3>1. h # gpa /\ Translate(h) = None /\ Translate(h)' = None
      BY <1>2, <1>3, <1>12, <2>5 DEF Translate, Leaf
    <3> QED  BY <3>1
  <2> QED  BY <2>3, <2>4, <2>5
<1>14. TypeOK' /\ Root'
  BY <1>1, <1>6 DEF IInv, TypeOK, Root
<1>15. TrackedSet' = TrackedSet /\ held \subseteq Frames
  BY <1>1 DEF TrackedSet, IInv, TypeOK
<1>16. TablesAccounted'
  BY <1>1, <1>15 DEF IInv, TablesAccounted
<1>17. Tree'
  BY <1>1, <1>8, <1>15 DEF IInv, Tree
<1>18. LeavesLast'
  <2>1. ASSUME NEW f \in held, NEW i \in Index, Leaf(f, i)' # None
        PROVE  \E g \in Gpas : Table4(g)' = f
    <3>1. CASE f = table
      BY <1>2, <1>3, <1>12, <3>1
    <3>2. CASE f # table
      BY <1>9, <1>12, <1>15, <2>1, <3>2 DEF IInv, LeavesLast
    <3> QED  BY <3>1, <3>2
  <2>2. ASSUME NEW g \in Gpas, NEW i \in Index, Table4(g)' # None
        PROVE  Follow(Table4(g), i)' = None
    <3>1. Table4(g)' = Table4(g) /\ Follow(Table4(g), i) = None
      BY <1>12, <2>2 DEF IInv, LeavesLast
    <3>2. \A f : Follow(f, i)' = Follow(f, i)
      BY <1>8
    <3> QED  BY <3>1, <3>2 DEF Follow
  <2> QED  BY <1>1, <2>1, <2>2 DEF LeavesLast
<1>19. WalkInv'
  BY <1>1 DEF WalkInv
<1> QED  BY <1>2, <1>13, <1>14, <1>16, <1>17, <1>18, <1>19 DEF IInv

-----------------------------------------------------------------------------
(* A new table.                                                            *)

LEMMA AddTableStep ==
  ASSUME IInv, NEW f \in Frames, AddTable(f)
  PROVE  IInv' /\ \A h \in Gpas : Translate(h)' = Translate(h)
<1>1. /\ UNCHANGED <<pml4, valid, pc, gpa, ret>> /\ pc = "walk" /\ Entry = Absent
      /\ f \notin held /\ held' = held \cup {f} /\ tracked' = Append(tracked, f)
      /\ table' = f /\ level' = level + 1
      /\ mem' = [[mem EXCEPT ![f] = ZeroPage]
                   EXCEPT ![table][gpa[level]] = TableEntry(f)]
  BY DEF AddTable, Zeroed
<1>2. PICK g0 \in DOMAIN Slot, k0 \in 1..4 : Stands(g0, k0)
  BY <1>1 DEF IInv, WalkInv
<1>3. /\ gpa = g0 /\ level = k0 /\ k0 \in 1..3 /\ g0 \in Gpas /\ g0[k0] \in Index
      /\ table \in Frames /\ table = At(g0, k0) /\ Translate(g0) = None
  BY <1>2, GpaIndex, EptConstantsOK DEF Stands, AddTable, EptConstantsOK
<1>4. table \in held /\ held \subseteq Frames /\ table # f
  BY <1>1, <1>3, AtHeld, NoneIsNoFrame DEF IInv, TypeOK
<1>5. mem \in [Frames -> [Index -> Entries]] /\ mem[table][g0[k0]] = Absent
  BY <1>1, <1>3 DEF IInv, TypeOK, Entry
<1>6. /\ mem' \in [Frames -> [Index -> Entries]]
      /\ \A h \in Frames, i \in Index :
           mem'[h][i] = IF h = table /\ i = g0[k0] THEN TableEntry(f)
                        ELSE IF h = f THEN Absent ELSE mem[h][i]
  <2>1. TableEntry(f) \in Entries /\ ZeroPage \in [Index -> Entries]
    BY DEF Entries, ZeroPage
  <2>2. [mem EXCEPT ![f] = ZeroPage] \in [Frames -> [Index -> Entries]]
    BY <1>5, <2>1
  <2> QED  BY <1>1, <1>3, <1>4, <1>5, <2>1, <2>2 DEF ZeroPage
<1>7. \A h \in Frames, i \in Index :
        Follow(h, i)' = IF h = table /\ i = g0[k0] THEN f
                        ELSE IF h = f THEN None ELSE Follow(h, i)
  BY <1>6 DEF Follow, TableEntry, Absent
<1>8. \A h \in Frames, i \in Index : Leaf(h, i)' = IF h = f THEN None ELSE Leaf(h, i)
  BY <1>4, <1>5, <1>6 DEF Leaf, TableEntry, Absent
<1>9. \A i \in Index : /\ Follow(None, i) = None /\ Follow(None, i)' = None
                       /\ Leaf(None, i) = None /\ Leaf(None, i)' = None
  BY NoneIsNoFrame DEF Follow, Leaf
<1>10. Follow(table, g0[k0]) = None
  BY <1>4, <1>5 DEF Follow, Absent
<1> DEFINE New(g, k) == k = k0 + 1 /\ At(g, k0) = table /\ g[k0] = g0[k0]
<1>11. \A g \in Gpas, k \in 1..4 : New(g, k) => At(g, k) = None
  BY <1>3, <1>10, AtNext
<1>12. \A g \in Gpas, k \in 1..4 : At(g, k)' = IF New(g, k) THEN f ELSE At(g, k)
  <2>1. SUFFICES ASSUME NEW g \in Gpas
                 PROVE  \A k \in 1..4 : At(g, k)' = IF New(g, k) THEN f ELSE At(g, k)
    OBVIOUS
  <2> DEFINE C(k) == At(g, k)' = IF New(g, k) THEN f ELSE At(g, k)
  <2>2. C(1)
    BY <1>1, <1>3 DEF At
  <2>3. /\ At(g, 2)' = Follow(At(g, 1), g[1])' /\ At(g, 3)' = Follow(At(g, 2), g[2])'
        /\ At(g, 4)' = Follow(At(g, 3), g[3])'
    BY DEF At, Table2, Table3, Table4
  <2>4. ASSUME NEW k \in 1..3, C(k), At(g, k + 1)' = Follow(At(g, k), g[k])'
        PROVE  C(k + 1)
    <3>1. At(g, k + 1) = Follow(At(g, k), g[k]) /\ g[k] \in Index
      BY AtNext, GpaIndex
    <3>2. CASE New(g, k)
      <4>1. At(g, k)' = f /\ At(g, k) = None /\ ~New(g, k + 1)
        BY <1>11, <2>4, <3>2
      <4>2. Follow(f, g[k])' = None
        BY <1>4, <1>7, <3>1
      <4>3. Follow(At(g, k), g[k])' = None
        BY <4>1, <4>2 DEF Follow
      <4> QED  BY <1>9, <2>4, <3>1, <4>1, <4>3
    <3>3. CASE ~New(g, k) /\ At(g, k) = None
      <4>1. Follow(At(g, k), g[k])' = None /\ Follow(At(g, k), g[k]) = None
        BY <1>9, <2>4, <3>1, <3>3 DEF Follow
      <4>2. ~New(g, k + 1)
        BY <1>3, <3>3, NoneIsNoFrame
      <4> QED  BY <2>4, <3>1, <4>1, <4>2
    <3>4. CASE ~New(g, k) /\ At(g, k) # None
      <4>1. At(g, k)' = At(g, k) /\ At(g, k) \in held /\ At(g, k) # f
        BY <1>1, <2>4, <3>4, AtHeld DEF IInv
      <4>2. New(g, k + 1) <=> At(g, k) = table /\ g[k] = g0[k0]
        <5>1. At(g, k) = table => k = k0
          BY <1>3, <3>4, OnePath DEF IInv
        <5> QED  BY <1>3, <5>1
      <4>3. Follow(At(g, k), g[k])' =
               IF New(g, k + 1) THEN f ELSE Follow(At(g, k), g[k])
        <5>1. PICK h \in Frames : h = At(g, k)
          BY <1>4, <4>1
        <5>2. Follow(At(g, k), g[k])' = Follow(h, g[k])'
          BY <4>1, <5>1 DEF Follow
        <5> QED  BY <1>7, <3>1, <4>1, <4>2, <5>1, <5>2
      <4> QED  BY <2>4, <3>1, <4>3
    <3> QED  BY <3>2, <3>3, <3>4
  <2>5. C(2)
    BY <2>2, <2>3, <2>4, 1 + 1 = 2
  <2>6. C(3)
    BY <2>3, <2>4, <2>5, 2 + 1 = 3
  <2>7. C(4)
    BY <2>3, <2>4, <2>6, 3 + 1 = 4
  <2> QED
    <3> SUFFICES ASSUME NEW k \in 1..4 PROVE C(k)
      OBVIOUS
    <3> HIDE DEF C
    <3>1. CASE k = 1
      BY <2>2, <3>1
    <3>2. CASE k = 2
      BY <2>5, <3>2
    <3>3. CASE k = 3
      BY <2>6, <3>3
    <3>4. CASE k = 4
      BY <2>7, <3>4
    <3> QED  BY <3>1, <3>2, <3>3, <3>4
<1> HIDE DEF New
<1>13. \A g \in Gpas : /\ Table4(g) = At(g, 4) /\ Translate(g) = Leaf(At(g, 4), g[4])
                       /\ Table4(g)' = At(g, 4)'
                       /\ Translate(g)' = Leaf(At(g, 4), g[4])'
  BY DEF At, Translate
<1>14. \A g \in Gpas : At(g, 4) = None \/ (At(g, 4) \in held /\ At(g, 4) # table)
  <2>1. SUFFICES ASSUME NEW g \in Gpas, At(g, 4) # None
                 PROVE  At(g, 4) \in held /\ At(g, 4) # table
    OBVIOUS
  <2> QED  BY <1>3, <2>1, AtHeld, OnePath DEF IInv
<1>15. \A h \in Gpas : Translate(h)' = Translate(h)
  <2>1. SUFFICES ASSUME NEW h \in Gpas PROVE Translate(h)' = Translate(h)
    OBVIOUS
  <2>2. h[4] \in Index
    BY GpaIndex
  <2>3. CASE New(h, 4)
    <3>1. At(h, 4)' = f /\ At(h, 4) = None
      BY <1>11, <1>12, <2>3
    <3>2. Leaf(f, h[4])' = None
      BY <1>8, <2>2
    <3>3. Leaf(At(h, 4), h[4])' = None
      BY <3>1, <3>2 DEF Leaf
    <3> QED  BY <1>9, <1>13, <2>2, <3>1, <3>3
  <2>4. CASE ~New(h, 4) /\ At(h, 4) = None
    <3>1. Leaf(At(h, 4), h[4])' = None
      BY <1>9, <1>12, <2>2, <2>4 DEF Leaf
    <3> QED  BY <1>9, <1>13, <2>2, <2>4, <3>1
  <2>5. CASE ~New(h, 4) /\ At(h, 4) # None
    <3>1. PICK l \in held : l = At(h, 4)
      BY <1>14, <2>5
    <3>2. Leaf(At(h, 4), h[4])' = Leaf(l, h[4])'
      BY <1>12, <2>5, <3>1 DEF Leaf
    <3>3. l # f /\ l \in Frames
      BY <1>1, <1>4, <3>1
    <3> QED  BY <1>8, <1>13, <2>2, <3>1, <3>2, <3>3
  <2> QED  BY <2>3, <2>4, <2>5
<1>16. TypeOK' /\ Root'
  <2>1. tracked' \in Seq(Frames)
    BY <1>1 DEF IInv, TypeOK
  <2>2. level' \in 1..4 /\ table' \in Frames
    BY <1>1, <1>3
  <2> QED  BY <1>1, <1>6, <2>1, <2>2 DEF IInv, TypeOK, Root
<1>17. f \notin TrackedSet /\ f # pml4 /\ TrackedSet \subseteq held
  BY <1>1, NoneIsNoFrame DEF IInv, TablesAccounted
<1>18. TrackedSet' = TrackedSet \cup {f} /\ TablesAccounted'
  <2>1. /\ TrackedSet' = TrackedSet \cup {f}
        /\ \A i, j \in DOMAIN tracked' : tracked'[i] = tracked'[j] => i = j
    BY <1>1, <1>17, AppendTracked DEF IInv, TypeOK, TablesAccounted
  <2> QED  BY <1>1, <1>17, <2>1 DEF IInv, TablesAccounted
<1>19. Tree'
  <2>1. \A h \in held', i \in Index : Follow(h, i)' \in TrackedSet' \cup {None}
    BY <1>1, <1>4, <1>7, <1>18 DEF IInv, Tree
  <2>2. \A h \in held, i \in Index : Follow(h, i) # f
    BY <1>17, NoneIsNoFrame DEF IInv, Tree
  <2>3. ASSUME NEW h1 \in held', NEW h2 \in held', NEW i1 \in Index, NEW i2 \in Index,
               Follow(h1, i1)' = Follow(h2, i2)', Follow(h1, i1)' # None
        PROVE  h1 = h2 /\ i1 = i2
    <3>1. h1 \in Frames /\ h2 \in Frames
      BY <1>1, <1>4
    <3> QED  BY <1>1, <1>7, <2>2, <2>3, <3>1 DEF IInv, Tree
  <2> QED  BY <2>1, <2>3 DEF Tree
<1>20. LeavesLast'
  <2>1. ASSUME NEW h \in held', NEW i \in Index, Leaf(h, i)' # None
        PROVE  \E g \in Gpas : Table4(g)' = h
    <3>1. h \in held /\ Leaf(h, i) # None
      BY <1>1, <1>4, <1>8, <2>1
    <3>2. PICK g \in Gpas : Table4(g) = h
      BY <3>1 DEF IInv, LeavesLast
    <3>3. At(g, 4) # None
      BY <1>4, <1>13, <3>1, <3>2, NoneIsNoFrame
    <3>4. Table4(g)' = h
      BY <1>11, <1>12, <1>13, <3>2, <3>3
    <3> QED  BY <3>4
  <2>2. ASSUME NEW g \in Gpas, NEW i \in Index, Table4(g)' # None
        PROVE  Follow(Table4(g), i)' = None
    <3>1. PICK h : h = Table4(g)'
      OBVIOUS
    <3>2. Follow(Table4(g), i)' = Follow(h, i)'
      BY <3>1 DEF Follow
    <3>3. CASE New(g, 4)
      BY <1>4, <1>7, <1>12, <1>13, <3>1, <3>2, <3>3
    <3>4. CASE ~New(g, 4)
      <4>1. h = At(g, 4) /\ h \in held /\ h # table /\ h # f
        BY <1>1, <1>12, <1>13, <1>14, <2>2, <3>1, <3>4
      <4>2. Follow(h, i) = None
        BY <1>4, <1>13, <4>1, NoneIsNoFrame DEF IInv, LeavesLast
      <4> QED  BY <1>4, <1>7, <3>2, <4>1, <4>2
    <3> QED  BY <3>3, <3>4
  <2> QED  BY <2>1, <2>2 DEF LeavesLast
<1>21. WalkInv'
  <2>1. New(g0, k0 + 1)
    BY <1>3 DEF New
  <2>2. At(g0, k0 + 1)' = f
    BY <1>3, <1>12, <2>1
  <2>3. Stands(g0, k0 + 1)'
    BY <1>1, <1>3, <1>15, <2>2 DEF Stands
  <2>4. k0 + 1 \in 1..4
    BY <1>3
  <2> QED  BY <2>3, <2>4 DEF WalkInv
<1> QED  BY <1>15, <1>16, <1>18, <1>19, <1>20, <1>21 DEF IInv

-----------------------------------------------------------------------------
(* The VM comes and goes.                                                  *)

\* Without tables below the root nothing is mapped.
LEMMA Bare ==
  ASSUME pml4 \notin Frames \/ \A i \in Index : Follow(pml4, i) = None
  PROVE  \A g \in Gpas : Table4(g) = None /\ Translate(g) = None
<1> SUFFICES ASSUME NEW g \in Gpas PROVE Table4(g) = None /\ Translate(g) = None
  OBVIOUS
<1>1. Table2(g) = None
  BY GpaIndex DEF Table2, Follow
<1>2. Table3(g) = None
  BY <1>1, NoneIsNoFrame DEF Table3, Follow
<1>3. Table4(g) = None
  BY <1>2, NoneIsNoFrame DEF Table4, Follow
<1> QED  BY <1>3, NoneIsNoFrame DEF Translate, Leaf

LEMMA InitIInv == Init => IInv /\ \A h \in Gpas : Translate(h) = None
<1> SUFFICES ASSUME Init PROVE IInv /\ \A h \in Gpas : Translate(h) = None
  OBVIOUS
<1>1. TypeOK
  <2>1. JunkPage \in [Index -> Entries]
    BY DEF JunkPage, Entries
  <2>2. mem \in [Frames -> [Index -> Entries]]
    BY <2>1 DEF Init
  <2>3. tracked \in Seq(Frames)
    BY DEF Init
  <2>4. /\ held = {} /\ pml4 = None /\ valid = FALSE /\ pc = "none"
        /\ gpa = None /\ table = None /\ level = 1 /\ ret = "0"
    BY DEF Init
  <2>5. held \subseteq Frames
    BY <2>4
  <2>6. level \in 1..4
    BY <2>4
  <2>7. /\ gpa \in Gpas \cup {None} /\ table \in Frames \cup {None}
        /\ pml4 \in Frames \cup {None}
    BY <2>4
  <2>8. /\ valid \in BOOLEAN /\ pc \in {"none", "run", "walk"}
        /\ ret \in {"0", "EFAULT", "ENOMEM"}
    BY <2>4
  <2> QED  BY <2>2, <2>3, <2>5, <2>6, <2>7, <2>8 DEF TypeOK
<1>2. pml4 \notin Frames /\ held = {} /\ TrackedSet = {}
  BY NoneIsNoFrame DEF Init, TrackedSet
<1>3. \A h \in Gpas : Table4(h) = None /\ Translate(h) = None
  BY <1>2, Bare
<1> QED
  BY <1>1, <1>2, <1>3 DEF Init, IInv, TablesAccounted, Tree, LeavesLast, WalkInv, Root

LEMMA EptInitStep ==
  ASSUME IInv, NEW f \in Frames, EptInit(f)
  PROVE  IInv' /\ \A h \in Gpas : Translate(h)' = Translate(h)
<1>1. /\ pc = "none" /\ pml4 = None /\ tracked = <<>> /\ held' = held \cup {f}
      /\ mem' = [mem EXCEPT ![f] = ZeroPage] /\ pml4' = f /\ tracked' = <<>>
      /\ pc' = "run" /\ UNCHANGED <<valid, gpa, table, level, ret>>
  BY DEF EptInit, IInv, Root, Zeroed, locals
<1>2. TrackedSet = {} /\ TrackedSet' = {} /\ held' = {f}
  BY <1>1 DEF IInv, TablesAccounted, TrackedSet
<1>3. mem' \in [Frames -> [Index -> Entries]] /\ mem'[f] = ZeroPage
  BY <1>1 DEF IInv, TypeOK, Entries, ZeroPage
<1>4. \A i \in Index : Follow(f, i)' = None /\ Leaf(f, i)' = None
  BY <1>3 DEF Follow, Leaf, ZeroPage, Absent
<1>5. \A h \in Gpas : Table4(h)' = None /\ Translate(h)' = None
  <2>1. \A i \in Index : Follow(pml4, i)' = None
    BY <1>1, <1>4 DEF Follow
  <2>2. \A g \in Gpas : Table2(g)' = None
    BY <2>1, GpaIndex DEF Table2
  <2>3. \A g \in Gpas : Table3(g)' = None
    BY <2>2, NoneIsNoFrame DEF Table3, Follow
  <2>4. \A g \in Gpas : Table4(g)' = None
    BY <2>3, NoneIsNoFrame DEF Table4, Follow
  <2> QED  BY <2>4, NoneIsNoFrame DEF Translate, Leaf
<1>6. \A h \in Gpas : Translate(h) = None
  BY <1>1, Bare, NoneIsNoFrame
<1>7. TypeOK' /\ Root'
  BY <1>1, <1>2, <1>3 DEF IInv, TypeOK, Root
<1>8. TablesAccounted'
  BY <1>1, <1>2, NoneIsNoFrame DEF TablesAccounted
<1>9. Tree' /\ LeavesLast' /\ WalkInv'
  BY <1>1, <1>2, <1>4, <1>5 DEF Tree, LeavesLast, WalkInv
<1> QED  BY <1>5, <1>6, <1>7, <1>8, <1>9 DEF IInv

LEMMA EptDestroyStep ==
  ASSUME IInv, EptDestroy
  PROVE  IInv' /\ \A h \in Gpas : Translate(h)' = None
<1>1. /\ pc = "run" /\ pml4' = None /\ tracked' = <<>> /\ pc' = "none" /\ valid' = FALSE
      /\ held' = held \ (TrackedSet \cup {pml4})
      /\ mem' = [f \in Frames |-> IF f \in held' THEN mem[f] ELSE JunkPage]
      /\ UNCHANGED <<gpa, table, level, ret>>
  BY DEF EptDestroy, locals
<1>2. held' = {} /\ TrackedSet' = {}
  BY <1>1 DEF IInv, TablesAccounted, TrackedSet
<1>3. \A h \in Gpas : Table4(h)' = None /\ Translate(h)' = None
  <2>1. \A g \in Gpas : Table2(g)' = None
    BY <1>1, NoneIsNoFrame DEF Table2, Follow
  <2>2. \A g \in Gpas : Table3(g)' = None
    BY <2>1, NoneIsNoFrame DEF Table3, Follow
  <2>3. \A g \in Gpas : Table4(g)' = None
    BY <2>2, NoneIsNoFrame DEF Table4, Follow
  <2> QED  BY <2>3, NoneIsNoFrame DEF Translate, Leaf
<1>4. mem' \in [Frames -> [Index -> Entries]]
  <2>1. JunkPage \in [Index -> Entries]
    BY DEF JunkPage, Entries
  <2> QED  BY <1>1, <2>1 DEF IInv, TypeOK
<1>5. TypeOK' /\ Root'
  <2>1. /\ pml4' = None /\ tracked' = <<>> /\ pc' = "none" /\ valid' = FALSE
        /\ UNCHANGED <<gpa, table, level, ret>>
    BY <1>1
  <2>2. Root'
    BY <2>1 DEF Root
  <2>3. tracked' \in Seq(Frames)
    BY <2>1
  <2> QED  BY <1>2, <1>4, <2>1, <2>2, <2>3 DEF IInv, TypeOK
<1>6. TablesAccounted' /\ Tree' /\ LeavesLast' /\ WalkInv'
  BY <1>1, <1>2, <1>3 DEF TablesAccounted, Tree, LeavesLast, WalkInv
<1> QED  BY <1>3, <1>5, <1>6 DEF IInv

\* What a step does to the mapping: nothing, one more page, or all of them gone.
MapStep ==
  \/ \A h \in Gpas : Translate(h)' = Translate(h)
  \/ \E g \in DOMAIN Slot :
       /\ Translate(g) = None
       /\ \A h \in Gpas : Translate(h)' = IF h = g THEN Slot[g] ELSE Translate(h)
  \/ \A h \in Gpas : Translate(h)' = None

LEMMA Step == IInv /\ [Next]_vars => IInv' /\ MapStep
<1> SUFFICES ASSUME IInv, [Next]_vars PROVE IInv' /\ MapStep
  OBVIOUS
<1>1. ASSUME NEW f \in Frames, EptInit(f) PROVE IInv' /\ MapStep
  BY <1>1, EptInitStep DEF MapStep
<1>2. CASE SetSlot \/ WalkFails \/ UNCHANGED vars
  BY <1>2, QuietStep DEF MapStep
<1>3. CASE EptDestroy
  BY <1>3, EptDestroyStep DEF MapStep
<1>4. CASE Descend
  BY <1>4, DescendStep DEF MapStep
<1>5. CASE SetLeaf
  BY <1>5, SetLeafStep DEF MapStep
<1>6. ASSUME NEW f \in Frames, AddTable(f) PROVE IInv' /\ MapStep
  BY <1>6, AddTableStep DEF MapStep
<1>7. ASSUME NEW g \in Gpas, Violation(g) PROVE IInv' /\ MapStep
  BY <1>7, ViolationStep DEF MapStep
<1> QED  BY <1>1, <1>2, <1>3, <1>4, <1>5, <1>6, <1>7 DEF Next, Walk

LEMMA Always == Spec => []IInv
<1>1. Init => IInv
  BY InitIInv
<1>2. IInv /\ [Next]_vars => IInv'
  BY Step
<1> QED  BY <1>1, <1>2, PTL DEF Spec

-----------------------------------------------------------------------------
(* The theorems.                                                           *)

\* Types are kept.
THEOREM TypeCorrect == Spec => []TypeOK
<1>1. IInv => TypeOK
  BY DEF IInv
<1> QED  BY <1>1, Always, PTL

\* Every page the allocator gave out is the root or tracked once, wherever walks
\* failed.
THEOREM EveryPageAccounted == Spec => []TablesAccounted
<1>1. IInv => TablesAccounted
  BY DEF IInv
<1> QED  BY <1>1, Always, PTL

\* The tables implement the abstract map: each step is a stutter, maps one page
\* of the slot that was not mapped, or drops all.
THEOREM TablesImplementMap == Spec => ImplementsGuestMap
<1>1. Init => Mapping!Init
  BY InitIInv DEF Mapping!Init, Mapping!Empty
<1>2. IInv /\ [Next]_vars => [Mapping!Next]_([g \in Gpas |-> Translate(g)])
  <2> SUFFICES ASSUME IInv, [Next]_vars
               PROVE  \/ Mapping!Next
                      \/ UNCHANGED [g \in Gpas |-> Translate(g)]
    OBVIOUS
  <2>1. MapStep
    BY Step
  <2>2. CASE \A h \in Gpas : Translate(h)' = Translate(h)
    BY <2>2
  <2>3. ASSUME NEW g \in DOMAIN Slot, Translate(g) = None,
               \A h \in Gpas : Translate(h)' = IF h = g THEN Slot[g] ELSE Translate(h)
        PROVE  Mapping!Next
    <3>1. g \in Gpas
      BY EptConstantsOK DEF EptConstantsOK
    <3>2. Mapping!Map(g)
      BY <2>3, <3>1 DEF Mapping!Map
    <3> QED  BY <3>2 DEF Mapping!Next
  <2>4. CASE \A h \in Gpas : Translate(h)' = None
    BY <2>4 DEF Mapping!Next, Mapping!Drop, Mapping!Empty
  <2> QED  BY <2>1, <2>2, <2>3, <2>4 DEF MapStep
<1> QED  BY <1>1, <1>2, Always, PTL DEF Spec, ImplementsGuestMap, Mapping!Spec
=============================================================================
