------------------------------ MODULE TxlnTable ------------------------------
(***************************************************************************)
(* The ARMv8 translation tables: arch/armv8/txln_table.c, the page heap    *)
(* arch/armv8/heap.c they are carved from, and the part of                 *)
(* arch/armv8/mem.c that resets them and maps the fixed regions.           *)
(*                                                                         *)
(* The tables are cleared lazily.  A reset only drops the valid bits of    *)
(* the level 0 table and keeps the addresses of the tables below; a later  *)
(* walk that meets such an invalid descriptor reuses the table it still    *)
(* names, clearing it first, and takes a heap page only when the address   *)
(* is null.  Heap pages are handed out once and never given back.          *)
(*                                                                         *)
(* A call of mem_create_page_mapping_* is taken one C function at a time   *)
(* (get_l0_descriptor, get_l1_descriptor, get_l2_descriptor,               *)
(* insert_mapping), because arch_abort can stop it between any two.        *)
(***************************************************************************)
EXTENDS Naturals, Sequences

CONSTANTS
    Idx,            \* indices into one table (512 in the code)
    HeapPages,      \* pages between _HEAP_START and _HEAP_END
    Frames,         \* page addresses; 0 is the null address
    Attrs,          \* PRIVS_DATA, PRIVS_CODE, device: a leaf's attributes
    NoAttr,         \* the attribute bits of a table descriptor
    Unmapped,       \* a virtual page the tables do not translate
    InitMappings,   \* what syscall_mem_init maps: text, data, devices
    Requests        \* the mappings that callers ask for

VirtPages == [0..3 -> Idx]
Mappings == [pa : Frames, attr : Attrs]
RequestType == [va : VirtPages, pa : Frames, attr : Attrs]
Pages == 1..HeapPages

\* Heap pages are page addresses, and there is room for the level 0 table.
ASSUME HeapAssumption ==
    HeapPages \in Nat \ {0} /\ 0 \in Frames /\ Pages \subseteq Frames
ASSUME AttrAssumption == NoAttr \notin Attrs /\ Unmapped \notin Mappings
ASSUME RequestAssumption ==
    InitMappings \in Seq(RequestType) /\ Requests \subseteq RequestType

VARIABLES
    heap_ptr,   \* heap pages taken so far
    l0_table,   \* the level 0 table, 0 until it is first needed
    mem,        \* the descriptors in each heap page
    kind,       \* the C type a page is used as: level 0..3, or Untaken
    pc,         \* the level being walked (0..3), Idle, or Aborted
    cur,        \* the table that the walk has reached
    queue       \* the mappings still to create; the head is being created

vars == <<heap_ptr, l0_table, mem, kind, pc, cur, queue>>

Untaken == 4
Idle == 4
Aborted == 5

\* A descriptor: its low two bits (0 not present, 3 table or page), the page
\* address and the attributes.
Descriptor == [bits : {0, 3}, addr : Frames, attr : Attrs \cup {NoAttr}]

TypeOK ==
    /\ heap_ptr \in 0..(HeapPages + 1)
    /\ l0_table \in {0} \cup Pages
    /\ mem \in [Pages -> [Idx -> Descriptor]]
    /\ kind \in [Pages -> 0..Untaken]
    /\ pc \in 0..Aborted
    /\ cur \in {0} \cup Pages
    /\ queue \in Seq(RequestType)

------------------------------------------------------------------------------
(* Heap and descriptors *)

\* A heap page nobody has written yet: the heap lies outside the loaded image
\* and nothing clears it, so it holds what RAM holds at reset, taken here to
\* be zero.  Mutant: RAM that comes up with an address in it.
GarbagePage == [i \in Idx |-> [bits |-> 0, addr |-> 1, attr |-> NoAttr]]
FreshPage == [i \in Idx |-> [bits |-> 0, addr |-> 0, attr |-> NoAttr]]

\* armv8_heap_get_page, when it does not run past _HEAP_END.  Mutant: the
\* limit is tested before heap_ptr moves.
NextPage == heap_ptr + 1
HeapGetPagePastEnd(level) ==
    /\ heap_ptr <= HeapPages
    /\ heap_ptr' = NextPage
    /\ kind' = [kind EXCEPT ![NextPage] = level]
HeapGetPage(level) ==
    /\ heap_ptr < HeapPages
    /\ heap_ptr' = NextPage
    /\ kind' = [kind EXCEPT ![NextPage] = level]

\* clear_lN_table: drop the valid bits, keep the addresses.  Mutant: the
\* whole descriptor is zeroed.
ZeroTable(t) == FreshPage
ClearTable(t) ==
    [i \in Idx |-> [bits |-> 0, addr |-> t[i].addr, attr |-> t[i].attr]]

\* A descriptor of levels 0..2 naming the table at page p.  Mutant: the
\* descriptor is stored without "|= 3".
InvalidDescriptor(p) == [bits |-> 0, addr |-> p, attr |-> NoAttr]
TableDescriptor(p) == [bits |-> 3, addr |-> p, attr |-> NoAttr]

------------------------------------------------------------------------------
(* What the hardware sees: the walk from the level 0 table *)

T1(va) == mem[l0_table][va[0]].addr
T2(va) == mem[T1(va)][va[1]].addr
T3(va) == mem[T2(va)][va[2]].addr
Leaf(va) == mem[T3(va)][va[3]]

Valid0(va) == l0_table # 0 /\ mem[l0_table][va[0]].bits = 3
Valid1(va) == Valid0(va) /\ mem[T1(va)][va[1]].bits = 3
Valid2(va) == Valid1(va) /\ mem[T2(va)][va[2]].bits = 3
Present(va) == Valid2(va) /\ Leaf(va).bits = 3

Translate(va) ==
    IF Present(va) THEN [pa |-> Leaf(va).addr, attr |-> Leaf(va).attr]
                   ELSE Unmapped
VisibleMap == [va \in VirtPages |-> Translate(va)]

------------------------------------------------------------------------------
Init ==
    /\ heap_ptr = 0
    /\ l0_table = 0
    /\ mem = [p \in Pages |-> FreshPage]
    /\ kind = [p \in Pages |-> Untaken]
    /\ pc = Idle
    /\ cur = 0
    /\ queue = <<>>

\* syscall_mem_init: find or take the level 0 table, clear it, and map the
\* simbench image and the devices before returning.
MemInit ==
    /\ pc = Idle /\ queue = <<>>
    /\ \/ l0_table # 0 /\ UNCHANGED <<heap_ptr, kind, l0_table>>
       \/ l0_table = 0 /\ HeapGetPage(0) /\ l0_table' = NextPage
    /\ mem' = [mem EXCEPT ![l0_table'] = ClearTable(@)]
    /\ queue' = InitMappings
    /\ UNCHANGED <<pc, cur>>

\* The start of mem_create_page_mapping_*: get_l0_table.
GetL0Table ==
    /\ pc = Idle
    /\ \/ l0_table # 0 /\ UNCHANGED <<heap_ptr, kind, l0_table>>
       \/ l0_table = 0 /\ HeapGetPage(0) /\ l0_table' = NextPage
    /\ cur' = l0_table'
    /\ pc' = 0
    /\ UNCHANGED mem

\* A caller asks for one mapping.
CreatePageMapping(r) ==
    /\ queue = <<>>
    /\ GetL0Table
    /\ queue' = <<r>>

\* The region loops of syscall_mem_init go on to their next page.
NextRegionPage ==
    /\ queue # <<>>
    /\ GetL0Table
    /\ UNCHANGED queue

\* Slot of the current table that the virtual address selects.
Slot == Head(queue).va[pc]
Entry == mem[cur][Slot]

\* The table at page p is cleared before the descriptor that names it is made
\* valid.  Mutant: a reused table keeps its old entries.
InstallUncleared(p) == [mem EXCEPT ![cur][Slot] = TableDescriptor(p)]
InstallTable(p) == [mem EXCEPT ![p] = ClearTable(@), ![cur][Slot] = TableDescriptor(p)]

\* get_lN_descriptor, N = pc in 0..2, then get_l(N+1)_table: follow a valid
\* descriptor; otherwise install the table that the descriptor still names,
\* or a new heap page if it names none.
GetDescriptor ==
    /\ pc \in 0..2
    /\ \/ /\ Entry.bits = 3
          /\ cur' = Entry.addr
          /\ UNCHANGED <<heap_ptr, kind, mem>>
       \/ /\ Entry.bits = 0 /\ Entry.addr # 0
          /\ cur' = Entry.addr
          /\ mem' = InstallTable(Entry.addr)
          /\ UNCHANGED <<heap_ptr, kind>>
       \/ /\ Entry.bits = 0 /\ Entry.addr = 0
          /\ HeapGetPage(pc + 1)
          /\ cur' = NextPage
          /\ mem' = InstallTable(NextPage)
    /\ pc' = pc + 1
    /\ UNCHANGED <<l0_table, queue>>

\* armv8_heap_get_page past _HEAP_END: heap_ptr has moved, arch_abort spins.
OutOfHeap ==
    /\ pc \in 0..2
    /\ Entry.bits = 0 /\ Entry.addr = 0
    /\ heap_ptr = HeapPages
    /\ heap_ptr' = NextPage
    /\ pc' = Aborted
    /\ UNCHANGED <<l0_table, mem, kind, cur, queue>>

\* insert_mapping and insert_mapping_device: write the leaf and return.
InsertMapping ==
    /\ pc = 3
    /\ mem' = [mem EXCEPT ![cur][Slot] =
                 [bits |-> 3, addr |-> Head(queue).pa, attr |-> Head(queue).attr]]
    /\ pc' = Idle
    /\ cur' = 0
    /\ queue' = Tail(queue)
    /\ UNCHANGED <<heap_ptr, l0_table, kind>>

\* arch_abort: while(1).
Spin == pc = Aborted /\ UNCHANGED vars

Next ==
    \/ MemInit
    \/ \E r \in Requests : CreatePageMapping(r)
    \/ NextRegionPage
    \/ GetDescriptor
    \/ OutOfHeap
    \/ InsertMapping
    \/ Spin

Spec == Init /\ [][Next]_vars

------------------------------------------------------------------------------
(* Properties *)

\* Pages are taken in order, the level 0 table is the only page of its type,
\* and pages not yet taken are as RAM was at reset.
HeapInOrder ==
    /\ \A p \in Pages : (kind[p] = Untaken) <=> (p > heap_ptr)
    /\ \A p \in Pages : kind[p] = 0 <=> p = l0_table
    /\ \A p \in Pages : kind[p] = Untaken => mem[p] = FreshPage

\* A descriptor of levels 0..2, valid or not, names a table of the next level
\* or nothing; a valid one names a table.
LinksDown ==
    \A p \in Pages, i \in Idx : kind[p] < 3 =>
        LET d == mem[p][i] IN
        /\ d.addr # 0 => d.addr \in Pages /\ kind[d.addr] = kind[p] + 1
        /\ d.bits = 3 => d.addr # 0

\* No table is named by two descriptors, not even by invalid ones: the
\* addresses that clear_lN_table keeps (txln_table.c:74) never make two
\* virtual regions share a table after a reset.
NoSharing ==
    \A p, q \in Pages, i, j \in Idx :
        /\ kind[p] < 3 /\ kind[q] < 3
        /\ mem[p][i].addr = mem[q][j].addr
        /\ mem[p][i].addr # 0
        => p = q /\ i = j

\* The tables, with the stale ones, always form a tree of depth four rooted
\* at l0_table, whatever sequence of resets and mappings is made.
TablesFormATree == HeapInOrder /\ LinksDown /\ NoSharing

\* Every page taken from the heap is the level 0 table or is still named by a
\* descriptor one level up: resets never leak a table (the heap has no free),
\* so "OUT OF HEAP" is raised only when every page is in use as a table.
NoTableLost ==
    \A p \in Pages : kind[p] \in 1..3 =>
        \E q \in Pages, i \in Idx : kind[q] + 1 = kind[p] /\ mem[q][i].addr = p

\* While a mapping is being created the table reached is the one the hardware
\* would reach by valid descriptors: insert_mapping writes a reachable leaf.
WalkOnPath ==
    /\ pc \in 0..3 => queue # <<>> /\ l0_table # 0 /\ cur \in Pages /\ kind[cur] = pc
    /\ pc = 0 => cur = l0_table
    /\ pc = 1 => Valid0(Head(queue).va) /\ cur = T1(Head(queue).va)
    /\ pc = 2 => Valid1(Head(queue).va) /\ cur = T2(Head(queue).va)
    /\ pc = 3 => Valid2(Head(queue).va) /\ cur = T3(Head(queue).va)

\* What the hardware translates behaves as a plain map: mem_init empties it,
\* a finished mapping changes exactly one page, and no stale mapping comes
\* back when a kept table is reused (txln_table.c:105-114).
PM == INSTANCE PageMap WITH map <- VisibleMap
RefinesPageMap == PM!Spec
==============================================================================
