----------------------------- MODULE MiniKvmEpt -----------------------------
(***************************************************************************)
(* The extended page table of a mini-kvm VM (ept.c): the walk that builds  *)
(* four levels of tables on demand, the list of table pages, tear-down.    *)
(*                                                                         *)
(* A guest page is the tuple of its four table indices.  One thread at a   *)
(* time is in KVM_RUN (MiniKvmVmcs), so walks do not overlap, and the last *)
(* reference to the VM goes when no walk is under way (MiniKvmLifecycle).  *)
(* A frame that is not allocated holds what its last user left there.      *)
(***************************************************************************)
EXTENDS Naturals, Sequences, FiniteSets

CONSTANTS
  Frames,    \* page frames the allocator hands out
  Index,     \* the entries of a table (512)
  Gpas,      \* guest-physical pages
  Slot,      \* slot->pages: the pinned page of each guest page of the slot
  TrackMax,  \* MINI_KVM_EPT_TRACK_MAX
  Junk,      \* what other users of a frame leave in it
  None

ASSUME EptConstantsOK ==
  /\ Gpas \subseteq Index \X Index \X Index \X Index
  /\ DOMAIN Slot \subseteq Gpas
  /\ TrackMax \in Nat
  /\ {None, Junk} \cap Frames = {} /\ None # Junk
  /\ \A g \in DOMAIN Slot : Slot[g] # None

VARIABLES
  mem,      \* contents of the page frames, as paging-structure entries
  held,     \* frames the allocator has given out
  pml4, tracked,
  valid,    \* slot->valid
  pc,       \* "none" (no VM), "run" or "walk"
  gpa, table, level,  \* locals of mini_ept_walk()
  ret       \* what the last violation returned

vars == <<mem, held, pml4, tracked, valid, pc, gpa, table, level, ret>>
locals == <<gpa, table, level>>

Pages == {Slot[g] : g \in DOMAIN Slot}

Absent == [kind |-> "absent", to |-> None]

\* Only a leaf has a memory type; in a table entry bits 7:3 must be zero.
TableEntry(f) == [kind |-> "table", to |-> f]
PageEntry(p) == [kind |-> "page", to |-> p]

Entries ==
  {Absent} \cup {TableEntry(f) : f \in Frames \cup {Junk}}
  \cup {PageEntry(p) : p \in Pages}

ZeroPage == [i \in Index |-> Absent]
JunkPage == [i \in Index |-> TableEntry(Junk)]

TrackedSet == {tracked[i] : i \in DOMAIN tracked}

TypeOK ==
  /\ mem \in [Frames -> [Index -> Entries]]
  /\ held \subseteq Frames
  /\ pml4 \in Frames \cup {None}
  /\ tracked \in Seq(Frames)
  /\ valid \in BOOLEAN
  /\ pc \in {"none", "run", "walk"}
  /\ gpa \in Gpas \cup {None}
  /\ table \in Frames \cup {None} /\ level \in 1..4
  /\ ret \in {"0", "EFAULT", "ENOMEM"}

Init ==
  /\ mem = [f \in Frames |-> JunkPage]
  /\ held = {} /\ pml4 = None /\ tracked = <<>> /\ valid = FALSE
  /\ pc = "none"
  /\ gpa = None /\ table = None /\ level = 1 /\ ret = "0"

\* alloc_page(... | __GFP_ZERO)
Zeroed(m, f) == [m EXCEPT ![f] = ZeroPage]

\* The handler returns and its locals are gone.
Return(r) ==
  /\ pc' = "run" /\ ret' = r
  /\ gpa' = None /\ table' = None /\ level' = 1

\* mini_ept_init(); when it or the fd that follows fails, no VM is left.
EptInit(f) ==
  /\ pc = "none" /\ f \in Frames \ held
  /\ held' = held \cup {f}
  /\ mem' = Zeroed(mem, f)
  /\ pml4' = f /\ tracked' = <<>>
  /\ pc' = "run"
  /\ UNCHANGED <<valid, locals, ret>>

\* KVM_SET_USER_MEMORY_REGION succeeded.
SetSlot ==
  /\ pc = "run" /\ ~valid
  /\ valid' = TRUE
  /\ UNCHANGED <<mem, held, pml4, tracked, pc, locals, ret>>

-----------------------------------------------------------------------------
(* What the processor finds: it follows table entries from the root.       *)

Follow(f, i) ==
  IF f \in Frames /\ mem[f][i].kind = "table" THEN mem[f][i].to ELSE None

Leaf(f, i) ==
  IF f \in Frames /\ mem[f][i].kind = "page" THEN mem[f][i].to ELSE None

Table2(g) == Follow(pml4, g[1])
Table3(g) == Follow(Table2(g), g[2])
Table4(g) == Follow(Table3(g), g[3])

Translate(g) == Leaf(Table4(g), g[4])

-----------------------------------------------------------------------------
(* mini_ept_handle_violation() and mini_ept_walk().                        *)

InSlot(g) == valid /\ g \in DOMAIN Slot

Violation(g) ==
  /\ pc = "run" /\ Translate(g) = None
  /\ IF InSlot(g)
     THEN /\ pc' = "walk"
          /\ gpa' = g /\ table' = pml4 /\ level' = 1
          /\ UNCHANGED ret
     ELSE Return("EFAULT")
  /\ UNCHANGED <<mem, held, pml4, tracked, valid>>

Entry == mem[table][gpa[level]]

Descend ==
  /\ pc = "walk" /\ level < 4 /\ Entry # Absent
  /\ table' = Entry.to /\ level' = level + 1
  /\ UNCHANGED <<mem, held, pml4, tracked, valid, pc, gpa, ret>>

\* A missing table: a page from the allocator, noted in tracked[] and linked.
AddTable(f) ==
  /\ pc = "walk" /\ level < 4 /\ Entry = Absent
  /\ Len(tracked) < TrackMax /\ f \in Frames \ held
  /\ held' = held \cup {f}
  /\ tracked' = Append(tracked, f)
  /\ mem' = [Zeroed(mem, f) EXCEPT ![table][gpa[level]] = TableEntry(f)]
  /\ table' = f /\ level' = level + 1
  /\ UNCHANGED <<pml4, valid, pc, gpa, ret>>

\* The list is full (tested before allocating) or GFP_ATOMIC found no page.
\* The tables added so far stay.
WalkFails_leak ==
  /\ pc = "walk" /\ level < 4 /\ Entry = Absent
  /\ Return("ENOMEM")
  /\ \E f \in Frames \ held : held' = held \cup {f}
  /\ UNCHANGED <<mem, pml4, tracked, valid>>
WalkFails ==
  /\ pc = "walk" /\ level < 4 /\ Entry = Absent
  /\ Return("ENOMEM")
  /\ UNCHANGED <<mem, held, pml4, tracked, valid>>

\* slot->pages[(gpa - base_gpa) >> PAGE_SHIFT]
PinnedPage_first(g) == CHOOSE p \in Pages : TRUE
PinnedPage(g) == Slot[g]

SetLeaf ==
  /\ pc = "walk" /\ level = 4
  /\ mem' = [mem EXCEPT ![table][gpa[4]] = PageEntry(PinnedPage(gpa))]
  /\ Return("0")
  /\ UNCHANGED <<held, pml4, tracked, valid>>

\* mini_ept_destroy(), from mini_kvm_destroy() or a failed creation.
EptDestroy ==
  /\ pc = "run"
  /\ held' = held \ (TrackedSet \cup {pml4})
  /\ mem' = [f \in Frames |-> IF f \in held' THEN mem[f] ELSE JunkPage]
  /\ tracked' = <<>> /\ pml4' = None /\ valid' = FALSE
  /\ pc' = "none"
  /\ UNCHANGED <<locals, ret>>

Walk == Descend \/ WalkFails \/ SetLeaf \/ \E f \in Frames : AddTable(f)

Next ==
  \/ \E f \in Frames : EptInit(f)
  \/ SetSlot \/ EptDestroy \/ Walk
  \/ \E g \in Gpas : Violation(g)

Spec == Init /\ [][Next]_vars

-----------------------------------------------------------------------------
(* Properties.                                                             *)

\* The page tables implement a map from guest pages to the slot's pages that
\* only grows while the VM lives: no step of a walk that fails half way, of a
\* later walk through the same tables or of a VM that reuses the frames maps a
\* page the handler did not map.
Mapping == INSTANCE GuestMap WITH map <- [g \in Gpas |-> Translate(g)]
ImplementsGuestMap == Mapping!Spec

\* Every page the allocator gave out is the root or is in tracked[], once, so
\* that tear-down returns all of them, whichever walks failed and wherever.
TablesAccounted ==
  /\ held = TrackedSet \cup ({pml4} \ {None})
  /\ pml4 \notin TrackedSet
  /\ \A i, j \in DOMAIN tracked : tracked[i] = tracked[j] => i = j
=============================================================================
