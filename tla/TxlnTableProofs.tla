--------------------------- MODULE TxlnTableProofs ---------------------------
(***************************************************************************)
(* Proofs about the ARMv8 translation tables for every table size, heap    *)
(* size, set of requests and list of boot mappings.                        *)
(***************************************************************************)
EXTENDS TxlnTable, TLAPS

\* The inductive invariant.  No conjunct stands alone: the type of cur needs
\* LinksDown (a descriptor names a heap page), LinksDown needs HeapInOrder
\* (the page taken next is named by nobody), and NoSharing needs WalkOnPath
\* (the walk writes a table of the level it believes it is at).
IInv ==
    /\ TypeOK
    /\ TablesFormATree
    /\ NoTableLost
    /\ WalkOnPath

\* The initial state satisfies the inductive invariant.
LEMMA InitIInv == Init => IInv
<1> SUFFICES ASSUME Init PROVE IInv
  OBVIOUS
<1> USE HeapAssumption DEF Init, Pages, Untaken, Idle, Aborted
<1>1. TypeOK
  BY DEF TypeOK, FreshPage, Descriptor
<1>2. HeapInOrder
  BY DEF HeapInOrder
<1>3. LinksDown
  BY DEF LinksDown
<1>4. NoSharing
  BY DEF NoSharing
<1>5. NoTableLost
  BY DEF NoTableLost
<1>6. WalkOnPath
  BY DEF WalkOnPath
<1> QED
  BY <1>1, <1>2, <1>3, <1>4, <1>5, <1>6 DEF IInv, TablesFormATree

------------------------------------------------------------------------------
(* Facts about the operators *)

\* Clearing a table drops the valid bits and keeps the addresses.
LEMMA ClearKeepsAddr ==
    ASSUME NEW t \in [Idx -> Descriptor]
    PROVE  /\ ClearTable(t) \in [Idx -> Descriptor]
           /\ \A i \in Idx : ClearTable(t)[i].bits = 0 /\ ClearTable(t)[i].addr = t[i].addr
BY DEF ClearTable, Descriptor

\* Clearing a page that nobody has written changes nothing.
LEMMA ClearFresh == ClearTable(FreshPage) = FreshPage
BY DEF ClearTable, FreshPage

\* An unwritten page is a table of null descriptors.
LEMMA FreshPageType ==
    /\ FreshPage \in [Idx -> Descriptor]
    /\ \A i \in Idx : FreshPage[i].bits = 0 /\ FreshPage[i].addr = 0
BY HeapAssumption DEF FreshPage, Descriptor

\* A caller's virtual address selects one slot in each table.
LEMMA HeadRequest ==
    ASSUME TypeOK, queue # <<>>
    PROVE  /\ Head(queue) \in RequestType
           /\ \A l \in 0..3 : Head(queue).va[l] \in Idx
           /\ Tail(queue) \in Seq(RequestType)
<1>1. Head(queue) \in RequestType /\ Tail(queue) \in Seq(RequestType)
  BY DEF TypeOK
<1>2. Head(queue).va \in [0..3 -> Idx]
  BY <1>1 DEF RequestType, VirtPages
<1> QED
  BY <1>1, <1>2

------------------------------------------------------------------------------
(* Each action preserves the inductive invariant *)

\* Taking a heap page for a table of the given level keeps the heap in order;
\* nothing names the page yet.
LEMMA TakePage ==
    ASSUME TypeOK, HeapInOrder, LinksDown, NEW level \in 0..3, HeapGetPage(level)
    PROVE  /\ NextPage \in Pages
           /\ kind[NextPage] = Untaken
           /\ mem[NextPage] = FreshPage
           /\ heap_ptr' \in 0..(HeapPages + 1)
           /\ kind' \in [Pages -> 0..Untaken]
           /\ kind'[NextPage] = level
           /\ \A p \in Pages \ {NextPage} : kind'[p] = kind[p]
           /\ \A p \in Pages : (kind'[p] = Untaken) <=> (p > heap_ptr')
           /\ \A p \in Pages, i \in Idx : kind[p] < 3 => mem[p][i].addr # NextPage
<1> USE HeapAssumption DEF Pages, NextPage, Untaken, HeapGetPage, TypeOK
<1>1. NextPage \in Pages /\ kind[NextPage] = Untaken /\ mem[NextPage] = FreshPage
  BY DEF HeapInOrder
<1>2. \A p \in Pages : (kind'[p] = Untaken) <=> (p > heap_ptr')
  BY <1>1 DEF HeapInOrder
<1>3. ASSUME NEW p \in Pages, NEW i \in Idx, kind[p] < 3, mem[p][i].addr = NextPage
      PROVE  FALSE
  <2>1. mem[p][i].addr # 0
    BY <1>3
  <2>2. kind[NextPage] = kind[p] + 1
    BY <1>3, <2>1 DEF LinksDown
  <2>3. kind[p] \in Nat /\ kind[p] < 3
    BY <1>3
  <2>4. kind[NextPage] = 4
    BY <1>1
  <2> HIDE DEF TypeOK, NextPage, Pages, HeapGetPage
  <2> QED
    BY <2>2, <2>3, <2>4
<1> QED
  BY <1>1, <1>2, <1>3

\* Taking the level 0 table keeps the tree: it is the only table, and empty.
LEMMA TakeL0Table ==
    ASSUME TypeOK, TablesFormATree, NoTableLost,
           l0_table = 0, HeapGetPage(0), l0_table' = NextPage, mem' = mem
    PROVE  /\ TablesFormATree'
           /\ NoTableLost'
           /\ l0_table' \in Pages
<1> USE DEF TablesFormATree
<1>0. l0_table' \in Pages
  BY TakePage
<1>1. HeapInOrder'
  BY TakePage DEF HeapInOrder, Untaken, TypeOK, Pages
<1>2. \A i \in Idx : mem[NextPage][i].addr = 0 /\ mem[NextPage][i].bits = 0
  BY TakePage, FreshPageType
<1>3. LinksDown'
  BY <1>2, TakePage DEF LinksDown, TypeOK, Untaken
<1>4. NoSharing'
  BY <1>2, TakePage DEF NoSharing, TypeOK
<1>5. NoTableLost'
  <2> SUFFICES ASSUME NEW p \in Pages, kind'[p] \in 1..3
               PROVE  \E q \in Pages, i \in Idx : kind'[q] + 1 = kind'[p] /\ mem'[q][i].addr = p
    BY DEF NoTableLost
  <2>1. kind'[p] = kind[p]
    BY TakePage
  <2>2. PICK q \in Pages, i \in Idx : kind[q] + 1 = kind[p] /\ mem[q][i].addr = p
    BY <2>1 DEF NoTableLost
  <2>3. kind'[q] = kind[q]
    BY <2>1, <2>2, TakePage DEF Untaken
  <2> QED
    BY <2>1, <2>2, <2>3
<1> QED
  BY <1>0, <1>1, <1>3, <1>4, <1>5

\* mem_init: the level 0 table, old or new, loses its valid bits.
LEMMA MemInitIInv == IInv /\ MemInit => IInv'
<1> SUFFICES ASSUME IInv, MemInit PROVE IInv'
  OBVIOUS
<1> USE HeapAssumption DEF IInv, TablesFormATree
<1>a. \A t \in [Idx -> Descriptor] :
        /\ ClearTable(t) \in [Idx -> Descriptor]
        /\ \A i \in Idx : ClearTable(t)[i].bits = 0 /\ ClearTable(t)[i].addr = t[i].addr
  BY ClearKeepsAddr
<1>1. CASE l0_table # 0 /\ UNCHANGED <<heap_ptr, kind, l0_table>>
  <2>1. /\ l0_table \in Pages
        /\ mem' = [mem EXCEPT ![l0_table] = ClearTable(@)]
        /\ mem' \in [Pages -> [Idx -> Descriptor]]
        /\ kind[l0_table] = 0
    BY <1>1, <1>a DEF MemInit, TypeOK, HeapInOrder
  <2>2. \A p \in Pages, i \in Idx :
          /\ mem'[p][i].addr = mem[p][i].addr
          /\ mem'[p][i].bits = 3 => mem[p][i].bits = 3
    BY <2>1, <1>a DEF TypeOK
  <2>3. TypeOK'
    BY <1>1, <2>1, RequestAssumption DEF TypeOK, MemInit
  <2>4. HeapInOrder'
    BY <1>1, <2>1 DEF HeapInOrder, Untaken, TypeOK
  <2>5. LinksDown' /\ NoSharing' /\ NoTableLost'
    <3>1. LinksDown'
      BY <1>1, <2>2 DEF LinksDown
    <3>2. NoSharing'
      BY <1>1, <2>2 DEF NoSharing
    <3>3. NoTableLost'
      BY <1>1, <2>2 DEF NoTableLost
    <3> QED
      BY <3>1, <3>2, <3>3
  <2>6. WalkOnPath'
    BY DEF MemInit, WalkOnPath, Idle
  <2> QED
    BY <2>3, <2>4, <2>5, <2>6
<1>2. CASE l0_table = 0 /\ HeapGetPage(0) /\ l0_table' = NextPage
  <2>1. mem' = mem
    BY <1>2, TakePage, ClearFresh DEF MemInit, TypeOK
  <2>2. TypeOK'
    BY <1>2, <2>1, TakePage, RequestAssumption DEF TypeOK, MemInit
  <2>3. TablesFormATree' /\ NoTableLost'
    BY <1>2, <2>1, TakeL0Table
  <2>4. WalkOnPath'
    BY DEF MemInit, WalkOnPath, Idle
  <2> QED
    BY <2>2, <2>3, <2>4
<1> QED
  BY <1>1, <1>2 DEF MemInit

\* mem_create_page_mapping_* before the walk: the level 0 table is found or
\* taken and nothing else changes.
LEMMA GetL0TableIInv ==
    ASSUME IInv, GetL0Table, queue' \in Seq(RequestType), queue' # <<>>
    PROVE  IInv'
<1> USE HeapAssumption DEF IInv
<1>1. /\ TablesFormATree' /\ NoTableLost'
      /\ l0_table' \in Pages
      /\ heap_ptr' \in 0..(HeapPages + 1)
      /\ kind' \in [Pages -> 0..Untaken]
  <2>1. CASE l0_table # 0 /\ UNCHANGED <<heap_ptr, kind, l0_table>>
    <3>1. mem' = mem
      BY DEF GetL0Table
    <3>2. HeapInOrder' /\ LinksDown' /\ NoSharing' /\ NoTableLost'
      BY <2>1, <3>1 DEF TablesFormATree, HeapInOrder, LinksDown, NoSharing, NoTableLost
    <3> QED
      BY <2>1, <3>2 DEF TypeOK, TablesFormATree
  <2>2. CASE l0_table = 0 /\ HeapGetPage(0) /\ l0_table' = NextPage
    <3>1. mem' = mem
      BY DEF GetL0Table
    <3> QED
      BY <2>2, <3>1, TakePage, TakeL0Table DEF TablesFormATree
  <2> QED
    BY <2>1, <2>2 DEF GetL0Table
<1>2. TypeOK'
  BY <1>1 DEF TypeOK, GetL0Table, Aborted
<1>3. kind'[l0_table'] = 0
  BY <1>1 DEF TablesFormATree, HeapInOrder
<1>4. WalkOnPath'
  BY <1>1, <1>3 DEF WalkOnPath, GetL0Table, Pages
<1> QED
  BY <1>1, <1>2, <1>4

\* Running past the end of the heap stops the walk and changes no table.
LEMMA OutOfHeapIInv == IInv /\ OutOfHeap => IInv'
<1> SUFFICES ASSUME IInv, OutOfHeap PROVE IInv'
  OBVIOUS
<1> USE HeapAssumption DEF IInv, OutOfHeap
<1>1. TypeOK'
  BY DEF TypeOK, NextPage, Aborted
<1>2. HeapInOrder'
  BY DEF TablesFormATree, HeapInOrder, TypeOK, NextPage, Pages
<1>3. LinksDown' /\ NoSharing' /\ NoTableLost'
  BY DEF TablesFormATree, LinksDown, NoSharing, NoTableLost
<1>4. WalkOnPath'
  BY DEF WalkOnPath, Aborted
<1> QED
  BY <1>1, <1>2, <1>3, <1>4 DEF TablesFormATree

\* Writing the leaf descriptor touches a level 3 table only.
LEMMA InsertMappingIInv == IInv /\ InsertMapping => IInv'
<1> SUFFICES ASSUME IInv, InsertMapping PROVE IInv'
  OBVIOUS
<1> USE HeapAssumption DEF IInv
<1>1. queue # <<>> /\ cur \in Pages /\ kind[cur] = 3 /\ pc = 3
  BY DEF WalkOnPath, InsertMapping
<1>2. Head(queue) \in RequestType /\ Slot \in Idx /\ Tail(queue) \in Seq(RequestType)
  BY <1>1, HeadRequest DEF Slot
<1>3. /\ mem' \in [Pages -> [Idx -> Descriptor]]
      /\ \A p \in Pages : p # cur => mem'[p] = mem[p]
  BY <1>1, <1>2 DEF TypeOK, InsertMapping, Descriptor, RequestType
<1>4. TypeOK'
  BY <1>2, <1>3 DEF TypeOK, InsertMapping, Idle, Aborted
<1>5. kind' = kind /\ heap_ptr' = heap_ptr /\ l0_table' = l0_table
  BY DEF InsertMapping
<1>6. HeapInOrder'
  BY <1>1, <1>3, <1>5 DEF TablesFormATree, HeapInOrder, Untaken
<1>7. LinksDown'
  BY <1>1, <1>3, <1>5 DEF TablesFormATree, LinksDown
<1>8. NoSharing'
  BY <1>1, <1>3, <1>5 DEF TablesFormATree, NoSharing
<1>9. NoTableLost'
  <2> SUFFICES ASSUME NEW p \in Pages, kind'[p] \in 1..3
               PROVE  \E q \in Pages, i \in Idx : kind'[q] + 1 = kind'[p] /\ mem'[q][i].addr = p
    BY DEF NoTableLost
  <2>1. PICK q \in Pages, i \in Idx : kind[q] + 1 = kind[p] /\ mem[q][i].addr = p
    BY <1>5 DEF NoTableLost
  <2>2. q # cur
    BY <1>1, <1>5, <2>1
  <2> QED
    BY <1>3, <1>5, <2>1, <2>2
<1>10. WalkOnPath'
  BY DEF WalkOnPath, InsertMapping, Idle
<1> QED
  BY <1>4, <1>6, <1>7, <1>8, <1>9, <1>10 DEF TablesFormATree

\* What installing the table at page n below the current slot writes.
LEMMA InstallTableWrites ==
    ASSUME IInv, pc \in 0..2, NEW n \in Pages, n # cur, mem' = InstallTable(n)
    PROVE  /\ mem' \in [Pages -> [Idx -> Descriptor]]
           /\ cur \in Pages /\ Slot \in Idx
           /\ mem'[cur][Slot] = TableDescriptor(n)
           /\ \A i \in Idx \ {Slot} : mem'[cur][i] = mem[cur][i]
           /\ mem'[n] = ClearTable(mem[n])
           /\ \A p \in Pages \ {n, cur} : mem'[p] = mem[p]
<1> USE HeapAssumption DEF IInv
<1>1. cur \in Pages /\ Slot \in Idx
  BY HeadRequest DEF WalkOnPath, Slot
<1>2. TableDescriptor(n) \in Descriptor
  BY DEF TableDescriptor, Descriptor
<1>3. ClearTable(mem[n]) \in [Idx -> Descriptor]
  BY ClearKeepsAddr DEF TypeOK
<1> QED
  BY <1>1, <1>2, <1>3 DEF InstallTable, TypeOK

\* The path from the level 0 table to the current one is of higher levels
\* than the tables that installing n writes below it.
LEMMA InstallTableOnPath ==
    ASSUME IInv, pc \in 0..2, NEW n \in Pages, n # cur, mem' = InstallTable(n),
           kind[n] > pc, kind'[n] = pc + 1, \A p \in Pages \ {n} : kind'[p] = kind[p],
           cur' = n, pc' = pc + 1, l0_table' = l0_table, queue' = queue
    PROVE  WalkOnPath'
<1> DEFINE va == Head(queue).va
<1>0. /\ cur \in Pages /\ Slot \in Idx /\ Slot = va[pc]
      /\ mem'[cur][Slot].bits = 3 /\ mem'[cur][Slot].addr = n
      /\ \A p \in Pages \ {n, cur} : mem'[p] = mem[p]
  <2>1. /\ cur \in Pages /\ Slot \in Idx /\ mem'[cur][Slot] = TableDescriptor(n)
        /\ \A p \in Pages \ {n, cur} : mem'[p] = mem[p]
    BY InstallTableWrites
  <2>2. Slot = va[pc]
    BY DEF Slot
  <2>3. TableDescriptor(n).bits = 3 /\ TableDescriptor(n).addr = n
    BY DEF TableDescriptor
  <2> QED
    BY <2>1, <2>2, <2>3
<1>1. /\ queue # <<>> /\ l0_table # 0 /\ l0_table \in Pages
      /\ kind[cur] = pc /\ kind[l0_table] = 0
      /\ va[0] \in Idx /\ va[1] \in Idx /\ va[2] \in Idx
  <2>1. queue # <<>> /\ l0_table # 0 /\ kind[cur] = pc
    BY DEF IInv, WalkOnPath
  <2>2. l0_table \in Pages /\ kind[l0_table] = 0
    BY <2>1 DEF IInv, TypeOK, TablesFormATree, HeapInOrder
  <2>3. \A l \in 0..3 : va[l] \in Idx
    BY <2>1, HeadRequest DEF IInv
  <2> QED
    BY <2>1, <2>2, <2>3
<1>2. CASE pc = 0
  <2>1. cur = l0_table
    BY <1>2 DEF IInv, WalkOnPath
  <2>2. Valid0(va)' /\ T1(va)' = n
    BY <1>0, <1>1, <1>2, <2>1 DEF Valid0, T1
  <2> QED
    BY <1>1, <1>2, <2>2 DEF WalkOnPath
<1>3. CASE pc = 1
  <2>1. cur = T1(va) /\ Valid0(va)
    BY <1>3 DEF IInv, WalkOnPath
  <2>2. mem'[l0_table] = mem[l0_table]
    BY <1>0, <1>1, <1>3
  <2>3. T1(va)' = cur /\ Valid0(va)'
    BY <2>1, <2>2 DEF T1, Valid0
  <2>4. Valid1(va)' /\ T2(va)' = n
    BY <1>0, <1>3, <2>3 DEF Valid1, T2
  <2> QED
    BY <1>1, <1>3, <2>4 DEF WalkOnPath
<1>4. CASE pc = 2
  <2>1. cur = T2(va) /\ Valid1(va)
    BY <1>4 DEF IInv, WalkOnPath
  <2>2. mem'[l0_table] = mem[l0_table]
    BY <1>0, <1>1, <1>4
  <2>3. T1(va) \in Pages /\ kind[T1(va)] = 1
    BY <1>1, <2>1 DEF Valid1, Valid0, T1, IInv, TablesFormATree, LinksDown
  <2>4. mem'[T1(va)] = mem[T1(va)]
    BY <1>0, <1>1, <1>4, <2>3
  <2>5. T1(va)' = T1(va) /\ Valid0(va)'
    BY <2>1, <2>2 DEF T1, Valid0, Valid1
  <2>6. T2(va)' = cur /\ Valid1(va)'
    BY <2>1, <2>4, <2>5 DEF T2, Valid1
  <2>7. Valid2(va)' /\ T3(va)' = n
    BY <1>0, <1>4, <2>6 DEF Valid2, T3
  <2> QED
    BY <1>1, <1>4, <2>7 DEF WalkOnPath
<1> QED
  BY <1>2, <1>3, <1>4

\* One level of the walk: follow a valid descriptor, reuse the table an
\* invalid one still names, or take a heap page.
LEMMA GetDescriptorIInv == IInv /\ GetDescriptor => IInv'
<1> SUFFICES ASSUME IInv, GetDescriptor PROVE IInv'
  OBVIOUS
<1> USE HeapAssumption
<1>1. /\ TypeOK /\ HeapInOrder /\ LinksDown /\ NoSharing /\ NoTableLost /\ WalkOnPath
      /\ pc \in 0..2 /\ cur \in Pages /\ kind[cur] = pc /\ Slot \in Idx
      /\ pc' = pc + 1 /\ l0_table' = l0_table /\ queue' = queue
      /\ queue # <<>> /\ l0_table # 0
  BY HeadRequest DEF IInv, TablesFormATree, WalkOnPath, GetDescriptor, Slot
<1>2. Entry = mem[cur][Slot] /\ Entry \in Descriptor
  BY <1>1 DEF Entry, TypeOK
<1>3. Entry.addr # 0 => Entry.addr \in Pages /\ kind[Entry.addr] = pc + 1 /\ Entry.addr # cur
  BY <1>1, <1>2 DEF LinksDown
<1>4. CASE Entry.bits = 3 /\ cur' = Entry.addr /\ UNCHANGED <<heap_ptr, kind, mem>>
  <2>1. Entry.addr # 0
    BY <1>1, <1>2, <1>4 DEF LinksDown
  <2>2. TypeOK'
    BY <1>1, <1>3, <1>4, <2>1 DEF TypeOK, Aborted
  <2>3. HeapInOrder' /\ LinksDown' /\ NoSharing' /\ NoTableLost'
    BY <1>1, <1>4 DEF HeapInOrder, LinksDown, NoSharing, NoTableLost
  <2>4. WalkOnPath'
    <3>1. /\ T1(Head(queue).va)' = T1(Head(queue).va)
          /\ T2(Head(queue).va)' = T2(Head(queue).va)
          /\ T3(Head(queue).va)' = T3(Head(queue).va)
          /\ Valid0(Head(queue).va)' = Valid0(Head(queue).va)
          /\ Valid1(Head(queue).va)' = Valid1(Head(queue).va)
          /\ Valid2(Head(queue).va)' = Valid2(Head(queue).va)
      BY <1>1, <1>4 DEF T1, T2, T3, Valid0, Valid1, Valid2
    <3>2. pc = 0 => Valid0(Head(queue).va) /\ cur' = T1(Head(queue).va)
      BY <1>1, <1>2, <1>4 DEF WalkOnPath, Valid0, T1, Slot
    <3>3. pc = 1 => Valid1(Head(queue).va) /\ cur' = T2(Head(queue).va)
      BY <1>1, <1>2, <1>4 DEF WalkOnPath, Valid1, T2, Slot
    <3>4. pc = 2 => Valid2(Head(queue).va) /\ cur' = T3(Head(queue).va)
      BY <1>1, <1>2, <1>4 DEF WalkOnPath, Valid2, T3, Slot
    <3> QED
      BY <1>1, <1>3, <1>4, <2>1, <3>1, <3>2, <3>3, <3>4 DEF WalkOnPath
  <2> QED
    BY <2>2, <2>3, <2>4 DEF IInv, TablesFormATree
<1>5. CASE /\ Entry.bits = 0 /\ Entry.addr # 0 /\ cur' = Entry.addr
           /\ mem' = InstallTable(Entry.addr) /\ UNCHANGED <<heap_ptr, kind>>
  <2> DEFINE n == Entry.addr
  <2>1. /\ n \in Pages /\ n # cur /\ kind[n] = pc + 1
        /\ mem' \in [Pages -> [Idx -> Descriptor]]
        /\ mem'[cur][Slot] = TableDescriptor(n)
        /\ \A i \in Idx \ {Slot} : mem'[cur][i] = mem[cur][i]
        /\ mem'[n] = ClearTable(mem[n])
        /\ \A p \in Pages \ {n, cur} : mem'[p] = mem[p]
    BY <1>1, <1>3, <1>5, InstallTableWrites
  <2>2. \A i \in Idx : ClearTable(mem[n])[i].bits = 0 /\ ClearTable(mem[n])[i].addr = mem[n][i].addr
    BY <1>1, <2>1, ClearKeepsAddr DEF TypeOK
  <2>3. TableDescriptor(n).addr = n /\ TableDescriptor(n).bits = 3
    BY DEF TableDescriptor
  <2> HIDE DEF n
  <2>4. \A p \in Pages, i \in Idx :
          /\ mem'[p][i].addr = mem[p][i].addr
          /\ mem'[p][i].bits = 3 => mem[p][i].bits = 3 \/ (p = cur /\ i = Slot)
    <3> SUFFICES ASSUME NEW p \in Pages, NEW i \in Idx
                 PROVE  /\ mem'[p][i].addr = mem[p][i].addr
                        /\ mem'[p][i].bits = 3 => mem[p][i].bits = 3 \/ (p = cur /\ i = Slot)
      OBVIOUS
    <3>1. CASE p = n
      BY <3>1, <2>1, <2>2
    <3>2. CASE p = cur /\ i = Slot
      BY <3>2, <2>1, <2>3, <1>2 DEF n
    <3>3. CASE p = cur /\ i # Slot
      BY <3>3, <2>1
    <3>4. CASE p # n /\ p # cur
      BY <3>4, <2>1
    <3> QED
      BY <3>1, <3>2, <3>3, <3>4
  <2>5. TypeOK'
    BY <1>1, <1>5, <2>1 DEF TypeOK, Aborted, n
  <2>6. HeapInOrder'
    BY <1>1, <1>5, <2>1 DEF HeapInOrder, Untaken
  <2>7. LinksDown'
    BY <1>1, <1>2, <1>5, <2>4 DEF LinksDown
  <2>8. NoSharing'
    BY <1>1, <1>5, <2>4 DEF NoSharing
  <2>9. NoTableLost'
    BY <1>1, <1>5, <2>4 DEF NoTableLost
  <2>10. WalkOnPath'
    BY <1>1, <1>5, <2>1, InstallTableOnPath DEF n
  <2> QED
    BY <2>5, <2>6, <2>7, <2>8, <2>9, <2>10 DEF IInv, TablesFormATree
<1>6. CASE /\ Entry.bits = 0 /\ Entry.addr = 0 /\ HeapGetPage(pc + 1)
           /\ cur' = NextPage /\ mem' = InstallTable(NextPage)
  <2> DEFINE n == NextPage
  <2>1. /\ n \in Pages /\ kind[n] = Untaken /\ mem[n] = FreshPage
        /\ heap_ptr' \in 0..(HeapPages + 1)
        /\ kind' \in [Pages -> 0..Untaken]
        /\ kind'[n] = pc + 1
        /\ \A p \in Pages \ {n} : kind'[p] = kind[p]
        /\ \A p \in Pages : (kind'[p] = Untaken) <=> (p > heap_ptr')
        /\ \A p \in Pages, i \in Idx : kind[p] < 3 => mem[p][i].addr # n
    BY <1>1, <1>6, TakePage
  <2>2. n # cur
    BY <1>1, <2>1 DEF Untaken
  <2>3. /\ mem' \in [Pages -> [Idx -> Descriptor]]
        /\ mem'[cur][Slot] = TableDescriptor(n)
        /\ \A i \in Idx \ {Slot} : mem'[cur][i] = mem[cur][i]
        /\ mem'[n] = FreshPage
        /\ \A p \in Pages \ {n, cur} : mem'[p] = mem[p]
    BY <1>1, <1>6, <2>1, <2>2, InstallTableWrites, ClearFresh
  <2>4. /\ TableDescriptor(n).addr = n /\ TableDescriptor(n).bits = 3
        /\ \A i \in Idx : FreshPage[i].addr = 0 /\ FreshPage[i].bits = 0
    BY FreshPageType DEF TableDescriptor
  <2> HIDE DEF n
  <2>5. TypeOK'
    BY <1>1, <1>6, <2>1, <2>3 DEF TypeOK, Aborted, n
  <2>6. HeapInOrder'
    <3>1. \A p \in Pages : kind'[p] = 0 <=> p = l0_table'
      BY <1>1, <2>1 DEF HeapInOrder, Untaken
    <3>2. \A p \in Pages : kind'[p] = Untaken => mem'[p] = FreshPage
      BY <1>1, <2>1, <2>3 DEF HeapInOrder, Untaken
    <3> QED
      BY <2>1, <3>1, <3>2 DEF HeapInOrder
  <2>7. LinksDown'
    <3> SUFFICES ASSUME NEW p \in Pages, NEW i \in Idx, kind'[p] < 3
                 PROVE  LET d == mem'[p][i] IN
                        /\ d.addr # 0 => d.addr \in Pages /\ kind'[d.addr] = kind'[p] + 1
                        /\ d.bits = 3 => d.addr # 0
      BY DEF LinksDown
    <3>1. CASE p = n
      BY <3>1, <2>3, <2>4
    <3>2. CASE p = cur /\ i = Slot
      BY <3>2, <1>1, <2>1, <2>2, <2>3, <2>4 DEF Pages
    <3>3. CASE p # n /\ ~(p = cur /\ i = Slot)
      BY <3>3, <1>1, <2>1, <2>3 DEF LinksDown
    <3> QED
      BY <3>1, <3>2, <3>3
  <2>8. NoSharing'
    <3> SUFFICES ASSUME NEW p \in Pages, NEW q \in Pages, NEW i \in Idx, NEW j \in Idx,
                        kind'[p] < 3, kind'[q] < 3,
                        mem'[p][i].addr = mem'[q][j].addr, mem'[p][i].addr # 0
                 PROVE  p = q /\ i = j
      BY DEF NoSharing
    <3>1. p # n /\ q # n
      BY <2>3, <2>4
    <3>2. CASE p = cur /\ i = Slot
      BY <3>1, <3>2, <1>1, <2>1, <2>3, <2>4
    <3>3. CASE q = cur /\ j = Slot
      BY <3>1, <3>3, <1>1, <2>1, <2>3, <2>4
    <3>4. CASE ~(p = cur /\ i = Slot) /\ ~(q = cur /\ j = Slot)
      <4>1. mem'[p][i] = mem[p][i] /\ mem'[q][j] = mem[q][j]
        BY <3>1, <3>4, <2>3
      <4>2. kind[p] < 3 /\ kind[q] < 3
        BY <3>1, <2>1
      <4> QED
        BY <4>1, <4>2, <1>1 DEF NoSharing
    <3> QED
      BY <3>2, <3>3, <3>4
  <2>9. NoTableLost'
    <3> SUFFICES ASSUME NEW p \in Pages, kind'[p] \in 1..3
                 PROVE  \E q \in Pages, i \in Idx : kind'[q] + 1 = kind'[p] /\ mem'[q][i].addr = p
      BY DEF NoTableLost
    <3>1. CASE p = n
      <4>1. kind'[cur] + 1 = kind'[p] /\ mem'[cur][Slot].addr = p
        BY <3>1, <1>1, <2>1, <2>2, <2>3, <2>4
      <4> QED
        BY <4>1, <1>1
    <3>2. CASE p # n
      <4>1. kind[p] \in 1..3 /\ kind'[p] = kind[p]
        BY <3>2, <2>1
      <4>2. PICK q \in Pages, i \in Idx : kind[q] + 1 = kind[p] /\ mem[q][i].addr = p
        BY <4>1, <1>1 DEF NoTableLost
      <4>3. q # n
        BY <4>1, <4>2, <2>1 DEF Untaken
      <4>4. p # 0
        BY DEF Pages
      <4>5. mem'[q][i] = mem[q][i]
        BY <4>2, <4>3, <4>4, <1>2, <1>6, <2>3
      <4> QED
        BY <4>1, <4>2, <4>3, <4>5, <2>1
    <3> QED
      BY <3>1, <3>2
  <2>10. WalkOnPath'
    BY <1>1, <1>6, <2>1, <2>2, InstallTableOnPath DEF n, Untaken
  <2> QED
    BY <2>5, <2>6, <2>7, <2>8, <2>9, <2>10 DEF IInv, TablesFormATree
<1> QED
  BY <1>4, <1>5, <1>6 DEF GetDescriptor

\* Every step, and every stuttering step, preserves the inductive invariant.
LEMMA NextIInv == IInv /\ [Next]_vars => IInv'
<1> SUFFICES ASSUME IInv, [Next]_vars PROVE IInv'
  OBVIOUS
<1>1. CASE MemInit
  BY <1>1, MemInitIInv
<1>2. ASSUME NEW r \in Requests, CreatePageMapping(r) PROVE IInv'
  <2>1. queue' \in Seq(RequestType) /\ queue' # <<>> /\ GetL0Table
    BY <1>2, RequestAssumption DEF CreatePageMapping
  <2> QED
    BY <2>1, GetL0TableIInv
<1>3. CASE NextRegionPage
  <2>1. queue' \in Seq(RequestType) /\ queue' # <<>> /\ GetL0Table
    BY <1>3 DEF NextRegionPage, IInv, TypeOK
  <2> QED
    BY <2>1, GetL0TableIInv
<1>4. CASE GetDescriptor
  BY <1>4, GetDescriptorIInv
<1>5. CASE OutOfHeap
  BY <1>5, OutOfHeapIInv
<1>6. CASE InsertMapping
  BY <1>6, InsertMappingIInv
<1>7. CASE UNCHANGED vars
  <2>1. TypeOK' /\ HeapInOrder' /\ LinksDown' /\ NoSharing' /\ NoTableLost'
    BY <1>7 DEF vars, IInv, TypeOK, TablesFormATree, HeapInOrder, LinksDown, NoSharing,
                NoTableLost
  <2>2. WalkOnPath'
    BY <1>7 DEF vars, IInv, WalkOnPath, T1, T2, T3, Valid0, Valid1, Valid2
  <2> QED
    BY <2>1, <2>2 DEF IInv, TablesFormATree
<1> QED
  BY <1>1, <1>2, <1>3, <1>4, <1>5, <1>6, <1>7 DEF Next, Spin

------------------------------------------------------------------------------
(* The results *)

\* The inductive invariant holds in every reachable state.
LEMMA Invariant == Spec => []IInv
BY InitIInv, NextIInv, PTL DEF Spec

\* Type correctness: in particular every address the code dereferences is
\* null or a heap page, and heap_ptr stops one page past _HEAP_END.
THEOREM TypeCorrect == Spec => []TypeOK
<1>1. IInv => TypeOK
  BY DEF IInv
<1> QED
  BY <1>1, Invariant, PTL

\* The tables of arch/armv8/txln_table.c form a tree for every sequence of
\* resets and mappings: no table is shared, at any level, valid or stale.
THEOREM TreeCorrect == Spec => []TablesFormATree
<1>1. IInv => TablesFormATree
  BY DEF IInv
<1> QED
  BY <1>1, Invariant, PTL

\* No heap page is ever lost to a reset, so the heap needs as many pages as
\* there are tables and no more, however often mem_reset runs.
THEOREM HeapCorrect == Spec => []NoTableLost
<1>1. IInv => NoTableLost
  BY DEF IInv
<1> QED
  BY <1>1, Invariant, PTL

\* A mapping is written into a leaf the hardware walk reaches.
THEOREM WalkCorrect == Spec => []WalkOnPath
<1>1. IInv => WalkOnPath
  BY DEF IInv
<1> QED
  BY <1>1, Invariant, PTL
==============================================================================
