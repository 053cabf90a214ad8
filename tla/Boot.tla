-------------------------------- MODULE Boot --------------------------------
(***************************************************************************)
(* From reset to the first thread: the boot page table, the MMU being      *)
(* switched on under the running code, the jump to the high alias, the     *)
(* processes' images and page tables, the identity map being dropped, and  *)
(* then the address-space switches of the running system.                  *)
(*                                                                         *)
(* The unit is the 1 MB section: an address is a section number and a page *)
(* table a function from section numbers to descriptors.  With the MMU on  *)
(* the hardware may cache the descriptor of any section at any moment; an  *)
(* access then uses the cached descriptor or walks the table.  Coprocessor *)
(* writes take effect in program order.  IRQs are masked throughout boot.  *)
(***************************************************************************)
EXTENDS Integers, FiniteSets

CONSTANTS
  PGD_ENTRIES,       \* sections of the virtual address space
  RAM_BASE, RAM_SIZE,
  KERNEL_PHYS_BASE,  \* section of the kernel image, stacks and tables
  VA_KERNEL_BASE,    \* the high alias of RAM_BASE
  USER_VIRT_BASE,    \* the user window, one section
  USER_PHYS_BASE, USER_PHYS_STRIDE,
  NUM_PROCESSES,
  Peripherals,       \* device sections, mapped to themselves
  OFF, BOOT_PGD      \* values of ttbr0: MMU off, boot_pgd

Sections == 0 .. PGD_ENTRIES - 1

Ram == RAM_BASE .. RAM_BASE + RAM_SIZE - 1

PHYS_OFFSET == VA_KERNEL_BASE - RAM_BASE

Alias == VA_KERNEL_BASE .. VA_KERNEL_BASE + RAM_SIZE - 1

Procs == 0 .. NUM_PROCESSES - 1

\* p->user_phys_base.
UserPhys(p) == USER_PHYS_BASE + p * USER_PHYS_STRIDE

\* What the two board.h and the linker scripts fix.
ASSUME BootAssumption ==
  /\ PGD_ENTRIES \in Nat /\ RAM_BASE \in Nat /\ RAM_SIZE \in Nat \ {0}
  /\ VA_KERNEL_BASE \in Nat /\ USER_VIRT_BASE \in Nat
  /\ USER_PHYS_BASE \in Nat /\ USER_PHYS_STRIDE \in Nat \ {0}
  /\ NUM_PROCESSES \in Nat \ {0}
  /\ Ram \cup Alias \cup Peripherals \cup {USER_VIRT_BASE} \subseteq Sections \ {0}
  /\ Ram \cap Alias = {} /\ Ram \cap Peripherals = {} /\ Alias \cap Peripherals = {}
  /\ USER_VIRT_BASE \notin Ram \cup Alias \cup Peripherals
  /\ KERNEL_PHYS_BASE \in Ram
  /\ \A p \in Procs : UserPhys(p) \in Ram \ {KERNEL_PHYS_BASE}
  /\ OFF # BOOT_PGD /\ {OFF, BOOT_PGD} \cap Procs = {}

VARIABLES
  step,      \* the next step of boot
  at,        \* whether code and stack are addressed by "PA" or "VA"
  ttbr0,     \* OFF, BOOT_PGD or a process
  boot_pgd,
  proc_pgd,  \* p->pgd of every process
  tlb,       \* cached descriptors, pairs of a section and a descriptor
  mem,       \* what each RAM section holds
  unclean,   \* sections whose new contents sit in the D-cache only
  next_proc  \* loop index of process_init_all

bootVars == <<step, at, ttbr0, boot_pgd, proc_pgd, tlb, mem, unclean, next_proc>>

FAULT == [pa |-> -1, attr |-> "fault"]

Section(pa, attr) == [pa |-> pa, attr |-> attr]

\* Contents of a RAM section.
Kernel == [what |-> "kernel", of |-> 0]

Unknown == [what |-> "unknown", of |-> 0]

Image(p) == [what |-> "image", of |-> p]

Empty == [s \in Sections |-> FAULT]

\* What .bss may hold before start.S zeroes it.
Garbage == [s \in Sections |-> Section(0, "user")]

BootInit ==
  /\ step = "reset"
  /\ at = "PA"
  /\ ttbr0 = OFF
  /\ boot_pgd \in {Empty, Garbage}
  /\ proc_pgd \in [Procs -> {Empty, Garbage}]
  /\ tlb \in {{}, {<<KERNEL_PHYS_BASE, Section(0, "user")>>}}
  /\ mem = [s \in Ram |-> IF s = KERNEL_PHYS_BASE THEN Kernel ELSE Unknown]
  /\ unclean = {}
  /\ next_proc = 0

Table(root) == IF root = BOOT_PGD THEN boot_pgd ELSE proc_pgd[root]

MmuOn == ttbr0 # OFF

\* The descriptors an access to section va may use.
Translations(va) ==
  {Table(ttbr0)[va]} \cup {d \in {e[2] : e \in tlb} : <<va, d>> \in tlb}

-----------------------------------------------------------------------------
(* start.S up to the trampoline, at physical addresses.                    *)

ZeroBss ==
  /\ step = "reset"
  /\ boot_pgd' = Empty
  /\ proc_pgd' = [p \in Procs |-> Empty]
  /\ step' = "mmu_init"
  /\ UNCHANGED <<at, ttbr0, tlb, mem, unclean, next_proc>>

\* pgtable_map_range over sections S, each to itself minus offset.
pgtable_map_range(pgd, S, offset, attr) ==
  [s \in Sections |-> IF s \in S THEN Section(s - offset, attr) ELSE pgd[s]]

\* Mutant: no identity map.
MutantBuildNoIdentity(pgd) ==
  LET high == pgtable_map_range(pgd, Alias, PHYS_OFFSET, "kernel")
  IN  pgtable_map_range(high, Peripherals, 0, "device")

mmu_build_boot_pgd(pgd) ==
  LET ident == pgtable_map_range(pgd, Ram, 0, "kernel")
      high  == pgtable_map_range(ident, Alias, PHYS_OFFSET, "kernel")
  IN  pgtable_map_range(high, Peripherals, 0, "device")

\* mmu_init builds the table and calls mmu_enable.
mmu_init ==
  /\ step = "mmu_init"
  /\ boot_pgd' = mmu_build_boot_pgd(boot_pgd)
  /\ step' = "mmu_enable"
  /\ UNCHANGED <<at, ttbr0, proc_pgd, tlb, mem, unclean, next_proc>>

\* TTBR0, then TLBIALL, then SCTLR.M.
mmu_enable ==
  /\ step = "mmu_enable"
  /\ ttbr0' = BOOT_PGD
  /\ tlb' = {}
  /\ step' = "trampoline"
  /\ UNCHANGED <<at, boot_pgd, proc_pgd, mem, unclean, next_proc>>

\* ldr pc, =_start_va; every stack pointer follows.
Trampoline ==
  /\ step = "trampoline"
  /\ at' = "VA"
  /\ step' = "copy_image"
  /\ UNCHANGED <<ttbr0, boot_pgd, proc_pgd, tlb, mem, unclean, next_proc>>

-----------------------------------------------------------------------------
(* kmain: process_init_all, one process per round.                         *)

\* Mutant: every image goes to the first slot.
MutantCopyNoStride ==
  /\ step = "copy_image"
  /\ \E d \in Translations(UserPhys(0) + PHYS_OFFSET) :
       /\ mem' = [mem EXCEPT ![d.pa] = Image(next_proc)]
       /\ unclean' = unclean \cup {d.pa}
  /\ step' = "icache_sync"
  /\ UNCHANGED <<at, ttbr0, boot_pgd, proc_pgd, tlb, next_proc>>

\* kmemset and kmemcpy through the high alias of the process's slot.
CopyImage ==
  /\ step = "copy_image"
  /\ \E d \in Translations(UserPhys(next_proc) + PHYS_OFFSET) :
       /\ mem' = [mem EXCEPT ![d.pa] = Image(next_proc)]
       /\ unclean' = unclean \cup {d.pa}
  /\ step' = "icache_sync"
  /\ UNCHANGED <<at, ttbr0, boot_pgd, proc_pgd, tlb, next_proc>>

icache_sync ==
  /\ step = "icache_sync"
  /\ \E d \in Translations(UserPhys(next_proc) + PHYS_OFFSET) :
       unclean' = unclean \ {d.pa}
  /\ step' = "build_table"
  /\ UNCHANGED <<at, ttbr0, boot_pgd, proc_pgd, tlb, mem, next_proc>>

\* pgtable_build_for_proc: boot_pgd without the identity map, and the window.
pgtable_build_for_proc(user_pa) ==
  [s \in Sections |->
     IF s = USER_VIRT_BASE THEN Section(user_pa, "user")
     ELSE IF s \in Ram THEN FAULT
     ELSE boot_pgd[s]]

BuildTable ==
  /\ step = "build_table"
  /\ proc_pgd' = [proc_pgd EXCEPT ![next_proc] = pgtable_build_for_proc(UserPhys(next_proc))]
  /\ next_proc' = next_proc + 1
  /\ step' = IF next_proc' = NUM_PROCESSES THEN "drop_identity" ELSE "copy_image"
  /\ UNCHANGED <<at, ttbr0, boot_pgd, tlb, mem, unclean>>

-----------------------------------------------------------------------------
(* mmu_drop_identity, and the switches of the running system.              *)

DropIdentity ==
  /\ step = "drop_identity"
  /\ boot_pgd' = [s \in Sections |-> IF s \in Ram THEN FAULT ELSE boot_pgd[s]]
  /\ step' = "drop_flush"
  /\ UNCHANGED <<at, ttbr0, proc_pgd, tlb, mem, unclean, next_proc>>

\* Mutant: the table is edited but the TLB keeps what it had.
MutantNoDropFlush ==
  /\ step = "drop_flush"
  /\ step' = "kernel"
  /\ UNCHANGED <<at, ttbr0, boot_pgd, proc_pgd, tlb, mem, unclean, next_proc>>

DropFlush ==
  /\ step = "drop_flush"
  /\ tlb' = {}
  /\ step' = "kernel"
  /\ UNCHANGED <<at, ttbr0, boot_pgd, proc_pgd, mem, unclean, next_proc>>

\* ctxsw_switch_mm: the first thread from kmain, or a later switch.
SwitchMm ==
  /\ step = "kernel"
  /\ \E p \in Procs : ttbr0' = p
  /\ step' = "switch_flush"
  /\ UNCHANGED <<at, boot_pgd, proc_pgd, tlb, mem, unclean, next_proc>>

\* Mutant: TTBR0 changes and the TLB is not flushed.
MutantNoSwitchFlush ==
  /\ step = "switch_flush"
  /\ step' = "user"
  /\ UNCHANGED <<at, ttbr0, boot_pgd, proc_pgd, tlb, mem, unclean, next_proc>>

SwitchFlush ==
  /\ step = "switch_flush"
  /\ tlb' = {}
  /\ step' = "user"
  /\ UNCHANGED <<at, ttbr0, boot_pgd, proc_pgd, mem, unclean, next_proc>>

\* The next exception brings the CPU back into the kernel, same tables.
EnterKernel ==
  /\ step = "user"
  /\ step' = "kernel"
  /\ UNCHANGED <<at, ttbr0, boot_pgd, proc_pgd, tlb, mem, unclean, next_proc>>

\* It returns to the same thread, or to a sibling, without touching them.
ReturnToUser ==
  /\ step = "kernel"
  /\ ttbr0 \in Procs
  /\ step' = "user"
  /\ UNCHANGED <<at, ttbr0, boot_pgd, proc_pgd, tlb, mem, unclean, next_proc>>

\* The hardware caches any valid descriptor.
TlbFill ==
  /\ MmuOn
  /\ \E s \in Sections :
       /\ Table(ttbr0)[s] # FAULT
       /\ tlb' = tlb \cup {<<s, Table(ttbr0)[s]>>}
  /\ UNCHANGED <<step, at, ttbr0, boot_pgd, proc_pgd, mem, unclean, next_proc>>

BootNext ==
  \/ ZeroBss \/ mmu_init \/ mmu_enable \/ Trampoline
  \/ CopyImage \/ icache_sync \/ BuildTable
  \/ DropIdentity \/ DropFlush
  \/ SwitchMm \/ SwitchFlush \/ EnterKernel \/ ReturnToUser
  \/ TlbFill

BootSpec == BootInit /\ [][BootNext]_bootVars

-----------------------------------------------------------------------------
(* Properties.                                                             *)

\* The section the CPU fetches from and keeps its stack in.
CodeSection == IF at = "PA" THEN KERNEL_PHYS_BASE ELSE KERNEL_PHYS_BASE + PHYS_OFFSET

\* From the instant the MMU is on, the kernel's own section has exactly one
\* translation, the right one, and so have the devices: while boot runs at
\* physical addresses, after the trampoline, while the identity map goes away,
\* and between the write of TTBR0 and the flush of every later switch.
KernelReachable ==
  MmuOn =>
    /\ Translations(CodeSection) = {Section(KERNEL_PHYS_BASE, "kernel")}
    /\ \A s \in Peripherals : Translations(s) = {Section(s, "device")}

\* User code reaches its own slot through the window and nothing else: every
\* other translation is for the kernel only, whatever the TLB still holds.
UserIsolated ==
  step = "user" =>
    \A s \in Sections : \A d \in Translations(s) :
      IF s = USER_VIRT_BASE
      THEN d = Section(UserPhys(ttbr0), "user")
      ELSE d.attr # "user"

\* When user code runs its slot holds its own image, visible to instruction
\* fetches, no image overwrote another one's, and the kernel is intact.
ImagesIntact ==
  step = "user" =>
    /\ \A p \in Procs : mem[UserPhys(p)] = Image(p) /\ UserPhys(p) \notin unclean
    /\ mem[KERNEL_PHYS_BASE] = Kernel

\* mmu_drop_identity: afterwards a stray physical address faults, in the boot
\* table, in every process's table and in the TLB; a null pointer faults from
\* the start.
StrayPointersFault ==
  MmuOn =>
    /\ Translations(0) = {FAULT}
    /\ step \in {"kernel", "switch_flush", "user"} =>
         \A s \in Ram : Translations(s) = {FAULT}

=============================================================================
