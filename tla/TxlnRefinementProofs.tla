------------------------ MODULE TxlnRefinementProofs -------------------------
(***************************************************************************)
(* The lazily cleared tables implement the plain map of PageMap, for every *)
(* value of the constants.                                                 *)
(***************************************************************************)
EXTENDS TxlnTableProofs

\* A present translation goes through one table of each level.
LEMMA PathLevels ==
    ASSUME IInv, NEW va \in VirtPages
    PROVE  /\ Valid0(va) => /\ l0_table \in Pages /\ kind[l0_table] = 0
                            /\ T1(va) \in Pages /\ kind[T1(va)] = 1
           /\ Valid1(va) => T2(va) \in Pages /\ kind[T2(va)] = 2
           /\ Valid2(va) => T3(va) \in Pages /\ kind[T3(va)] = 3
           /\ \A l \in 0..3 : va[l] \in Idx
<1>1. \A l \in 0..3 : va[l] \in Idx
  BY DEF VirtPages
<1>2. TypeOK /\ HeapInOrder /\ LinksDown
  BY DEF IInv, TablesFormATree
<1>3. ASSUME Valid0(va)
      PROVE  /\ l0_table \in Pages /\ kind[l0_table] = 0
             /\ T1(va) \in Pages /\ kind[T1(va)] = 1
  <2>1. l0_table \in Pages /\ kind[l0_table] = 0
    BY <1>2, <1>3 DEF Valid0, TypeOK, HeapInOrder
  <2> QED
    BY <1>1, <1>2, <1>3, <2>1 DEF Valid0, T1, LinksDown
<1>4. ASSUME Valid1(va) PROVE T2(va) \in Pages /\ kind[T2(va)] = 2
  <2>1. T1(va) \in Pages /\ kind[T1(va)] = 1 /\ mem[T1(va)][va[1]].bits = 3
    BY <1>3, <1>4 DEF Valid1
  <2> QED
    BY <1>1, <1>2, <2>1 DEF T2, LinksDown
<1>5. ASSUME Valid2(va) PROVE T3(va) \in Pages /\ kind[T3(va)] = 3
  <2>1. T2(va) \in Pages /\ kind[T2(va)] = 2 /\ mem[T2(va)][va[2]].bits = 3
    BY <1>4, <1>5 DEF Valid2
  <2> QED
    BY <1>1, <1>2, <2>1 DEF T3, LinksDown
<1> QED
  BY <1>1, <1>3, <1>4, <1>5

\* Nothing is visible while the level 0 table has no valid entry.
LEMMA NothingPresent ==
    ASSUME l0_table = 0 \/ \A i \in Idx : mem[l0_table][i].bits = 0
    PROVE  VisibleMap = PM!Empty
<1>1. ASSUME NEW va \in VirtPages PROVE Translate(va) = Unmapped
  <2>1. va[0] \in Idx
    BY DEF VirtPages
  <2> QED
    BY <2>1 DEF Translate, Present, Valid2, Valid1, Valid0
<1> QED
  BY <1>1 DEF VisibleMap, PM!Empty

\* The initial state shows the empty map.
LEMMA InitRefines == Init => PM!Init
<1> SUFFICES ASSUME Init PROVE VisibleMap = PM!Empty
  BY DEF PM!Init
<1> QED
  BY NothingPresent DEF Init

\* mem_init empties the visible map.
LEMMA MemInitRefines == IInv /\ MemInit => PM!Reset
<1> SUFFICES ASSUME IInv, MemInit PROVE VisibleMap' = PM!Empty
  BY DEF PM!Reset
<1>1. mem'[l0_table'] = ClearTable(mem[l0_table']) /\ l0_table' \in Pages
  <2>1. l0_table' \in Pages
    BY TakePage DEF MemInit, IInv, TablesFormATree, TypeOK
  <2> QED
    BY <2>1 DEF MemInit, IInv, TypeOK
<1>2. \A i \in Idx : mem'[l0_table'][i].bits = 0
  BY <1>1, ClearKeepsAddr DEF IInv, TypeOK
<1>3. \A va \in VirtPages : va[0] \in Idx
  BY DEF VirtPages
<1>4. \A va \in VirtPages : Translate(va)' = Unmapped
  BY <1>2, <1>3 DEF Translate, Present, Valid2, Valid1, Valid0
<1> QED
  BY <1>4 DEF VisibleMap, PM!Empty

\* Finding or taking the level 0 table shows nothing.
LEMMA GetL0TableInvisible == IInv /\ GetL0Table => UNCHANGED VisibleMap
<1> SUFFICES ASSUME IInv, GetL0Table PROVE VisibleMap' = VisibleMap
  OBVIOUS
<1>0. mem' = mem
  BY DEF GetL0Table
<1>1. CASE l0_table' = l0_table
  BY <1>0, <1>1 DEF VisibleMap, Translate, Present, Leaf, Valid2, Valid1, Valid0, T1, T2, T3
<1>2. CASE l0_table = 0 /\ HeapGetPage(0) /\ l0_table' = NextPage
  <2>1. \A i \in Idx : mem'[l0_table'][i].bits = 0
    BY <1>0, <1>2, TakePage, FreshPageType DEF IInv, TablesFormATree
  <2>2. \A va \in VirtPages : va[0] \in Idx
    BY DEF VirtPages
  <2>3. \A va \in VirtPages : Translate(va)' = Unmapped
    BY <2>1, <2>2 DEF Translate, Present, Valid2, Valid1, Valid0
  <2>4. \A va \in VirtPages : Translate(va) = Unmapped
    BY <1>2 DEF Translate, Present, Valid2, Valid1, Valid0
  <2> QED
    BY <2>3, <2>4 DEF VisibleMap
<1> QED
  BY <1>1, <1>2 DEF GetL0Table

\* If the slots of a present translation keep their contents, so does the
\* translation.
LEMMA SamePath ==
    ASSUME NEW va \in VirtPages, l0_table' = l0_table,
           Present(va),
           mem'[l0_table][va[0]] = mem[l0_table][va[0]],
           mem'[T1(va)][va[1]] = mem[T1(va)][va[1]],
           mem'[T2(va)][va[2]] = mem[T2(va)][va[2]],
           mem'[T3(va)][va[3]] = mem[T3(va)][va[3]]
    PROVE  Present(va)' /\ Translate(va)' = Translate(va)
<1>1. T1(va)' = T1(va) /\ Valid0(va)'
  BY DEF T1, Valid0, Present, Valid2, Valid1
<1>2. T2(va)' = T2(va) /\ Valid1(va)'
  BY <1>1 DEF T2, Valid1, Present, Valid2
<1>3. T3(va)' = T3(va) /\ Valid2(va)'
  BY <1>2 DEF T3, Valid2, Present
<1>4. Leaf(va)' = Leaf(va) /\ Present(va)'
  BY <1>3 DEF Leaf, Present
<1> QED
  BY <1>4 DEF Translate

\* Installing a table n below a slot that was not valid shows nothing: a
\* translation present before uses neither the slot nor n, and one present
\* after would need a valid entry in n, which has just been cleared.
LEMMA InstallInvisible ==
    ASSUME IInv, IInv', pc \in 0..2, Entry.bits = 0, l0_table' = l0_table,
           NEW n \in Pages, n # cur, mem' = InstallTable(n),
           kind[n] # 0, kind'[cur] < 3,
           \A p \in Pages, i \in Idx :
               kind[p] < 3 /\ mem[p][i].addr = n => p = cur /\ i = Slot
    PROVE  UNCHANGED VisibleMap
<1>1. /\ cur \in Pages /\ Slot \in Idx
      /\ mem'[cur][Slot].addr = n
      /\ mem[cur][Slot].bits = 0
      /\ \A p \in Pages, i \in Idx : p # n /\ ~(p = cur /\ i = Slot) => mem'[p][i] = mem[p][i]
      /\ \A i \in Idx : mem'[n][i].bits = 0
  <2>1. mem'[cur][Slot] = TableDescriptor(n) /\ mem'[n] = ClearTable(mem[n])
    BY InstallTableWrites
  <2>2. mem'[cur][Slot].addr = n
    BY <2>1 DEF TableDescriptor
  <2>3. \A i \in Idx : mem'[n][i].bits = 0
    <3>1. mem[n] \in [Idx -> Descriptor]
      BY DEF IInv, TypeOK
    <3>2. \A i \in Idx : ClearTable(mem[n])[i].bits = 0
      BY <3>1, ClearKeepsAddr
    <3> QED
      BY <2>1, <3>2
  <2>4. \A p \in Pages, i \in Idx : p # n /\ ~(p = cur /\ i = Slot) => mem'[p][i] = mem[p][i]
    BY InstallTableWrites
  <2>5. mem[cur][Slot].bits = 0
    BY DEF Entry
  <2> QED
    BY <2>2, <2>3, <2>4, <2>5, InstallTableWrites
<1>2. ASSUME NEW va \in VirtPages, Present(va)
      PROVE  Present(va)' /\ Translate(va)' = Translate(va)
  <2>1. Valid0(va) /\ Valid1(va) /\ Valid2(va) /\ Leaf(va).bits = 3
    BY <1>2 DEF Present, Valid2, Valid1
  <2>2. /\ l0_table \in Pages /\ kind[l0_table] = 0
        /\ T1(va) \in Pages /\ kind[T1(va)] = 1
        /\ T2(va) \in Pages /\ kind[T2(va)] = 2
        /\ T3(va) \in Pages /\ kind[T3(va)] = 3
        /\ va[0] \in Idx /\ va[1] \in Idx /\ va[2] \in Idx /\ va[3] \in Idx
    BY <2>1, PathLevels
  <2>3. mem'[l0_table][va[0]] = mem[l0_table][va[0]]
    BY <1>1, <2>1, <2>2 DEF Valid0
  <2>4. T1(va) # n
    BY <1>1, <2>1, <2>2 DEF Valid0, T1
  <2>5. mem'[T1(va)][va[1]] = mem[T1(va)][va[1]]
    BY <1>1, <2>1, <2>2, <2>4 DEF Valid1
  <2>6. T2(va) # n
    BY <1>1, <2>1, <2>2 DEF Valid1, T2
  <2>7. mem'[T2(va)][va[2]] = mem[T2(va)][va[2]]
    BY <1>1, <2>1, <2>2, <2>6 DEF Valid2
  <2>8. T3(va) # n
    BY <1>1, <2>1, <2>2 DEF Valid2, T3
  <2>9. mem'[T3(va)][va[3]] = mem[T3(va)][va[3]]
    BY <1>1, <2>1, <2>2, <2>8 DEF Leaf
  <2> QED
    BY <1>2, <2>3, <2>5, <2>7, <2>9, SamePath
<1>3. ASSUME NEW va \in VirtPages, Present(va)' PROVE Present(va)
  <2> DEFINE P1 == mem'[l0_table][va[0]].addr
             P2 == mem'[P1][va[1]].addr
             P3 == mem'[P2][va[2]].addr
  <2>1. /\ l0_table # 0
        /\ mem'[l0_table][va[0]].bits = 3 /\ P1 = mem'[l0_table][va[0]].addr
        /\ mem'[P1][va[1]].bits = 3 /\ P2 = mem'[P1][va[1]].addr
        /\ mem'[P2][va[2]].bits = 3 /\ P3 = mem'[P2][va[2]].addr
        /\ mem'[P3][va[3]].bits = 3
    BY <1>3 DEF Present, Valid2, Valid1, Valid0, Leaf, T1, T2, T3
  <2> HIDE DEF P1, P2, P3
  <2>2. /\ l0_table \in Pages
        /\ P1 \in Pages /\ P2 \in Pages /\ P3 \in Pages
        /\ kind'[P3] = 3
        /\ va[0] \in Idx /\ va[1] \in Idx /\ va[2] \in Idx /\ va[3] \in Idx
    <3>2. LinksDown' /\ HeapInOrder' /\ TypeOK'
      BY DEF IInv, TablesFormATree
    <3>3. \A l \in 0..3 : va[l] \in Idx
      BY DEF VirtPages
    <3>4. l0_table \in Pages /\ kind'[l0_table] = 0
      BY <2>1, <3>2 DEF TypeOK, HeapInOrder
    <3>5. \A p \in Pages, i \in Idx : kind'[p] = 0 /\ mem'[p][i].bits = 3 =>
             mem'[p][i].addr \in Pages /\ kind'[mem'[p][i].addr] = 1
      BY <3>2 DEF LinksDown
    <3>6. \A p \in Pages, i \in Idx : kind'[p] = 1 /\ mem'[p][i].bits = 3 =>
             mem'[p][i].addr \in Pages /\ kind'[mem'[p][i].addr] = 2
      BY <3>2 DEF LinksDown
    <3>7. \A p \in Pages, i \in Idx : kind'[p] = 2 /\ mem'[p][i].bits = 3 =>
             mem'[p][i].addr \in Pages /\ kind'[mem'[p][i].addr] = 3
      BY <3>2 DEF LinksDown
    <3>8. va[0] \in Idx /\ va[1] \in Idx /\ va[2] \in Idx /\ va[3] \in Idx
      BY <3>3
    <3>9. P1 \in Pages /\ kind'[P1] = 1
      BY <2>1, <3>4, <3>5, <3>8, Zenon
    <3>10. P2 \in Pages /\ kind'[P2] = 2
      BY <2>1, <3>6, <3>8, <3>9, Zenon
    <3>11. P3 \in Pages /\ kind'[P3] = 3
      BY <2>1, <3>7, <3>8, <3>10, Zenon
    <3> QED
      BY <3>4, <3>8, <3>9, <3>10, <3>11
  <2>3. l0_table # n /\ P1 # n /\ P2 # n /\ P3 # n
    <3>1. \A i \in Idx : mem'[n][i].bits # 3
      BY <1>1
    <3> QED
      BY <3>1, <2>1, <2>2
  <2>4. mem'[l0_table][va[0]] = mem[l0_table][va[0]]
    BY <1>1, <2>1, <2>2, <2>3
  <2>5. mem'[P1][va[1]] = mem[P1][va[1]]
    BY <1>1, <2>1, <2>2, <2>3
  <2>6. mem'[P2][va[2]] = mem[P2][va[2]]
    BY <1>1, <2>1, <2>2, <2>3
  <2>7. mem'[P3][va[3]] = mem[P3][va[3]]
    BY <1>1, <2>2, <2>3
  <2>8. T1(va) = P1 /\ Valid0(va)
    BY <2>1, <2>4 DEF T1, Valid0
  <2>9. T2(va) = P2 /\ Valid1(va)
    BY <2>1, <2>5, <2>8 DEF T2, Valid1
  <2>10. T3(va) = P3 /\ Valid2(va)
    BY <2>1, <2>6, <2>9 DEF T3, Valid2
  <2> QED
    BY <2>1, <2>7, <2>10 DEF Present, Leaf
<1>4. ASSUME NEW va \in VirtPages PROVE Translate(va)' = Translate(va)
  <2>1. CASE Present(va)
    BY <2>1, <1>2
  <2>2. CASE ~Present(va)
    <3>1. ~Present(va)'
      BY <2>2, <1>3
    <3> QED
      BY <2>2, <3>1 DEF Translate
  <2> QED
    BY <2>1, <2>2
<1> QED
  BY <1>4 DEF VisibleMap

\* One level of the walk shows nothing.
LEMMA GetDescriptorInvisible == IInv /\ IInv' /\ GetDescriptor => UNCHANGED VisibleMap
<1> SUFFICES ASSUME IInv, IInv', GetDescriptor PROVE UNCHANGED VisibleMap
  OBVIOUS
<1>1. /\ HeapInOrder /\ LinksDown /\ NoSharing /\ TypeOK
      /\ pc \in 0..2 /\ cur \in Pages /\ kind[cur] = pc /\ Slot \in Idx
      /\ l0_table' = l0_table
  BY HeadRequest DEF IInv, TablesFormATree, WalkOnPath, GetDescriptor, Slot
<1>2. Entry = mem[cur][Slot]
  BY DEF Entry
<1>3. CASE mem' = mem
  BY <1>1, <1>3 DEF VisibleMap, Translate, Present, Leaf, Valid2, Valid1, Valid0, T1, T2, T3
<1>4. CASE /\ Entry.bits = 0 /\ Entry.addr # 0 /\ mem' = InstallTable(Entry.addr)
           /\ kind' = kind
  <2>1. Entry.addr \in Pages /\ kind[Entry.addr] = pc + 1
    BY <1>1, <1>2, <1>4 DEF LinksDown
  <2>2. Entry.addr # cur /\ kind[Entry.addr] # 0 /\ kind'[cur] < 3
    BY <1>1, <1>4, <2>1
  <2>3. \A p \in Pages, i \in Idx :
          kind[p] < 3 /\ mem[p][i].addr = Entry.addr => p = cur /\ i = Slot
    BY <1>1, <1>2, <1>4 DEF NoSharing
  <2> QED
    BY <1>1, <1>4, <2>1, <2>2, <2>3, InstallInvisible
<1>5. CASE Entry.bits = 0 /\ HeapGetPage(pc + 1) /\ mem' = InstallTable(NextPage)
  <2>1. /\ NextPage \in Pages /\ kind[NextPage] = Untaken
        /\ \A p \in Pages \ {NextPage} : kind'[p] = kind[p]
        /\ \A p \in Pages, i \in Idx : kind[p] < 3 => mem[p][i].addr # NextPage
    BY <1>1, <1>5, TakePage
  <2>2. NextPage # cur /\ kind[NextPage] # 0 /\ kind'[cur] < 3
    BY <1>1, <2>1 DEF Untaken
  <2> QED
    BY <1>1, <1>5, <2>1, <2>2, InstallInvisible
<1> QED
  BY <1>3, <1>4, <1>5 DEF GetDescriptor

\* Two virtual pages whose walks meet in one leaf slot are the same page.
LEMMA LeafOfOnePage ==
    ASSUME IInv, NEW va \in VirtPages, NEW wa \in VirtPages, Valid2(va), Valid2(wa),
           T3(va) = T3(wa), va[3] = wa[3]
    PROVE  va = wa
<1>1. /\ Valid0(va) /\ Valid1(va) /\ Valid0(wa) /\ Valid1(wa)
  BY DEF Valid2, Valid1
<1>2. /\ NoSharing
      /\ \A l \in 0..3 : va[l] \in Idx
      /\ \A l \in 0..3 : wa[l] \in Idx
  BY PathLevels DEF IInv, TablesFormATree
<1>3. /\ T2(va) \in Pages /\ kind[T2(va)] = 2 /\ T2(wa) \in Pages /\ kind[T2(wa)] = 2
      /\ T1(va) \in Pages /\ kind[T1(va)] = 1 /\ T1(wa) \in Pages /\ kind[T1(wa)] = 1
      /\ l0_table \in Pages /\ kind[l0_table] = 0 /\ T3(va) \in Pages
  BY <1>1, PathLevels
<1>4. \A p \in Pages : p # 0
  BY DEF Pages
<1>5. T2(va) = T2(wa) /\ va[2] = wa[2]
  <2>1. mem[T2(va)][va[2]].addr = mem[T2(wa)][wa[2]].addr /\ mem[T2(va)][va[2]].addr # 0
    BY <1>3, <1>4 DEF T3
  <2>2. kind[T2(va)] < 3 /\ kind[T2(wa)] < 3 /\ va[2] \in Idx /\ wa[2] \in Idx
    BY <1>2, <1>3
  <2> QED
    BY <1>2, <1>3, <2>1, <2>2 DEF NoSharing
<1>6. T1(va) = T1(wa) /\ va[1] = wa[1]
  <2>1. mem[T1(va)][va[1]].addr = mem[T1(wa)][wa[1]].addr /\ mem[T1(va)][va[1]].addr # 0
    BY <1>3, <1>4, <1>5 DEF T2
  <2>2. kind[T1(va)] < 3 /\ kind[T1(wa)] < 3 /\ va[1] \in Idx /\ wa[1] \in Idx
    BY <1>2, <1>3
  <2> QED
    BY <1>2, <1>3, <2>1, <2>2 DEF NoSharing
<1>7. va[0] = wa[0]
  <2>1. mem[l0_table][va[0]].addr = mem[l0_table][wa[0]].addr /\ mem[l0_table][va[0]].addr # 0
    BY <1>3, <1>4, <1>6 DEF T1
  <2>2. kind[l0_table] < 3 /\ va[0] \in Idx /\ wa[0] \in Idx
    BY <1>2, <1>3
  <2> QED
    BY <1>2, <1>3, <2>1, <2>2 DEF NoSharing
<1>8. \A l \in 0..3 : l = 0 \/ l = 1 \/ l = 2 \/ l = 3
  OBVIOUS
<1>9. \A l \in 0..3 : va[l] = wa[l]
  BY <1>5, <1>6, <1>7, <1>8
<1> QED
  BY <1>9 DEF VirtPages

\* Writing the leaf changes the visible map at the requested page only.
LEMMA InsertMappingRefines == IInv /\ InsertMapping => PM!Next
<1> SUFFICES ASSUME IInv, InsertMapping PROVE PM!Next
  OBVIOUS
<1>1. /\ queue # <<>> /\ cur \in Pages /\ kind[cur] = 3 /\ pc = 3
      /\ Valid2(Head(queue).va) /\ cur = T3(Head(queue).va)
  BY DEF IInv, WalkOnPath, InsertMapping
<1>2. Head(queue) \in RequestType
  BY <1>1, HeadRequest DEF IInv
<1>3. PICK wa \in VirtPages, pa \in Frames, at \in Attrs :
        wa = Head(queue).va /\ pa = Head(queue).pa /\ at = Head(queue).attr
  BY <1>2 DEF RequestType
<1> DEFINE m == [pa |-> pa, attr |-> at]
           d == [bits |-> 3, addr |-> pa, attr |-> at]
<1>4. /\ Valid2(wa) /\ cur = T3(wa) /\ wa[3] \in Idx /\ Slot = wa[3]
  BY <1>1, <1>3, HeadRequest DEF IInv, Slot
<1>5. /\ mem'[cur][wa[3]] = d
      /\ \A p \in Pages, i \in Idx : ~(p = cur /\ i = wa[3]) => mem'[p][i] = mem[p][i]
      /\ l0_table' = l0_table
  BY <1>1, <1>3, <1>4 DEF InsertMapping, IInv, TypeOK
<1>6. d.bits = 3 /\ m = [pa |-> d.addr, attr |-> d.attr] /\ m \in Mappings
  BY DEF Mappings
<1> HIDE DEF d, m
<1>7. ASSUME NEW va \in VirtPages
      PROVE  Valid2(va)' = Valid2(va) /\ (Valid2(va) => T3(va)' = T3(va))
  <2>1. /\ Valid0(va) => /\ l0_table \in Pages /\ kind[l0_table] = 0
                         /\ T1(va) \in Pages /\ kind[T1(va)] = 1
        /\ Valid1(va) => T2(va) \in Pages /\ kind[T2(va)] = 2
        /\ va[0] \in Idx /\ va[1] \in Idx /\ va[2] \in Idx
    BY PathLevels
  <2>2. l0_table # 0 => l0_table \in Pages /\ l0_table # cur
    BY <1>1 DEF IInv, TypeOK, TablesFormATree, HeapInOrder
  <2>3. l0_table # 0 => mem'[l0_table][va[0]] = mem[l0_table][va[0]]
    BY <1>5, <2>1, <2>2
  <2>4. Valid0(va)' = Valid0(va) /\ (Valid0(va) => T1(va)' = T1(va))
    BY <1>5, <2>3 DEF Valid0, T1
  <2>5. Valid0(va) => mem'[T1(va)][va[1]] = mem[T1(va)][va[1]]
    BY <1>1, <1>5, <2>1
  <2>6. Valid1(va)' = Valid1(va) /\ (Valid1(va) => T2(va)' = T2(va))
    BY <2>4, <2>5 DEF Valid1, T2
  <2>7. Valid1(va) => mem'[T2(va)][va[2]] = mem[T2(va)][va[2]]
    BY <1>1, <1>5, <2>1
  <2> QED
    BY <2>6, <2>7 DEF Valid2, T3
<1>8. Translate(wa)' = m
  <2>1. Valid2(wa)' /\ T3(wa)' = cur
    BY <1>4, <1>7
  <2>2. Present(wa)' /\ Leaf(wa)' = d
    BY <1>5, <1>6, <2>1 DEF Present, Leaf
  <2> QED
    BY <1>6, <2>2 DEF Translate
<1>9. ASSUME NEW va \in VirtPages, va # wa PROVE Translate(va)' = Translate(va)
  <2>1. CASE Valid2(va)
    <3>1. T3(va) \in Pages /\ va[3] \in Idx
      BY <2>1, PathLevels
    <3>2. ~(T3(va) = cur /\ va[3] = wa[3])
      BY <1>4, <1>9, <2>1, LeafOfOnePage
    <3>3. Leaf(va)' = Leaf(va)
      BY <1>5, <1>7, <2>1, <3>1, <3>2 DEF Leaf
    <3> QED
      BY <1>7, <2>1, <3>3 DEF Translate, Present
  <2>2. CASE ~Valid2(va)
    BY <1>7, <2>2 DEF Translate, Present
  <2> QED
    BY <2>1, <2>2
<1>10. VisibleMap' = [VisibleMap EXCEPT ![wa] = m]
  BY <1>8, <1>9 DEF VisibleMap
<1> QED
  BY <1>6, <1>10 DEF PM!Next, PM!Map

\* Every step of the tables is a step of the plain map or is invisible.
LEMMA NextRefines == IInv /\ IInv' /\ [Next]_vars => [PM!Next]_VisibleMap
<1> SUFFICES ASSUME IInv, IInv', [Next]_vars PROVE PM!Next \/ UNCHANGED VisibleMap
  OBVIOUS
<1>1. CASE MemInit
  BY <1>1, MemInitRefines DEF PM!Next
<1>2. ASSUME NEW r \in Requests, CreatePageMapping(r) PROVE UNCHANGED VisibleMap
  BY <1>2, GetL0TableInvisible DEF CreatePageMapping
<1>3. CASE NextRegionPage
  BY <1>3, GetL0TableInvisible DEF NextRegionPage
<1>4. CASE GetDescriptor
  BY <1>4, GetDescriptorInvisible
<1>5. CASE InsertMapping
  BY <1>5, InsertMappingRefines
<1>6. CASE OutOfHeap \/ UNCHANGED vars
  <2>1. mem' = mem /\ l0_table' = l0_table
    BY <1>6 DEF OutOfHeap, vars
  <2> QED
    BY <2>1 DEF VisibleMap, Translate, Present, Leaf, Valid2, Valid1, Valid0, T1, T2, T3
<1> QED
  BY <1>1, <1>2, <1>3, <1>4, <1>5, <1>6 DEF Next, Spin

\* Resetting lazily and reusing kept tables is indistinguishable from keeping
\* a plain map: no stale mapping ever reappears, and creating one mapping
\* changes no other.
THEOREM RefinementCorrect == Spec => RefinesPageMap
<1>1. Init => PM!Init
  BY InitRefines
<1>2. IInv /\ IInv' /\ [Next]_vars => [PM!Next]_VisibleMap
  BY NextRefines
<1>3. Spec => PM!Spec
  BY <1>1, <1>2, Invariant, PTL DEF Spec, PM!Spec
<1> QED
  BY <1>3 DEF RefinesPageMap
==============================================================================
