--------------------------- MODULE SwiBoardsProofs ---------------------------
(***************************************************************************)
(* Proofs about the interrupt benchmark on the ARM boards, for every       *)
(* number of iterations and every period of the sa1100's timer.            *)
(***************************************************************************)
EXTENDS SwiBoards, TLAPS

GicBoards == {"vexpress_a9", "vexpress_a15", "realview_pba8", "arndale", "virt"}

\* The accesses that make a controller assert the line, the other ones of
\* platform_trigger_swi, and the steps of the handler.
Fires == {"sgir", "pl190_softint", "oier_on"}
Prepares == {"pl190_enable", "icmr", "osmr", "oscr"}
Steps == Registers \cup Fires \cup Prepares \cup {"check_pidr"}
HandlerSteps ==
    {"set_flag", "iar", "cpendsgir", "eoir", "pl190_softintclear", "ossr", "oier_off"}

------------------------------------------------------------------------------
(* What the boards have in common *)

\* The check of the controller comes first; one access of a trigger fires.
BoardShape(bd) ==
    LET init == Board[bd].init
        trigger == Board[bd].trigger
    IN  /\ init \in Seq(Steps) /\ trigger \in Seq(Steps)
        /\ \A i \in 1..Len(init) : init[i] \in Registers \/ (init[i] = "check_pidr" /\ i = 1)
        /\ \A i \in 1..Len(trigger) :
             \/ trigger[i] \in Registers /\ init = <<>>
             \/ trigger[i] = "check_pidr" /\ i = 1 /\ init = <<>>
             \/ trigger[i] \in Fires \cup Prepares
        /\ \E a \in 1..Len(trigger) : \A i \in 1..Len(trigger) : trigger[i] \in Fires <=> i = a

\* Each board fires its own controller.
KindShape(bd) ==
    LET trigger == Board[bd].trigger
    IN  /\ \A i \in 1..Len(trigger) :
             /\ trigger[i] = "sgir" => bd \in GicBoards
             /\ trigger[i] = "pl190_softint" => bd = "versatile"
             /\ trigger[i] = "oier_on" => bd = "sa1100"
        /\ bd \in GicBoards => /\ Board[bd].filter = 2 \/ (Board[bd].filter = 0 /\ 0 \in Board[bd].list)
                               /\ Board[bd].id % 16 = 0

HandlerShape(bd) ==
    LET h == Handler(bd)
    IN  /\ h[1] = "set_flag"
        /\ bd \in GicBoards => Len(h) = 4 /\ h[2] = "iar" /\ h[3] = "cpendsgir" /\ h[4] = "eoir"
        /\ bd = "versatile" => Len(h) = 2 /\ h[2] = "pl190_softintclear"
        /\ bd = "sa1100" => Len(h) = 3 /\ h[2] = "ossr" /\ h[3] = "oier_off"

\* The sequences of the boards.
LEMMA SetupFacts ==
    /\ GicSetup \in Seq(Steps) /\ Len(GicSetup) = 5
    /\ GicSetup[1] = "isenabler" /\ GicSetup[2] = "ipriorityr" /\ GicSetup[3] = "pmr"
    /\ GicSetup[4] = "gicd_ctlr" /\ GicSetup[5] = "gicc_ctlr"
<1>1. {"isenabler", "ipriorityr", "pmr", "gicd_ctlr", "gicc_ctlr"} \subseteq Steps
  BY DEF Steps, Registers
<1> QED
  BY <1>1 DEF GicSetup

LEMMA AppendFacts ==
    ASSUME NEW S, NEW q \in Seq(S), NEW x \in S, NEW r, r = Append(q, x)
    PROVE  /\ r \in Seq(S) /\ Len(r) = Len(q) + 1
           /\ r[Len(q) + 1] = x /\ \A i \in 1..Len(q) : r[i] = q[i]
OBVIOUS

LEMMA ConcatFacts ==
    ASSUME NEW S, NEW p \in Seq(S), NEW q \in Seq(S), NEW r, r = p \o q
    PROVE  /\ r \in Seq(S) /\ Len(r) = Len(p) + Len(q)
           /\ \A i \in 1..Len(p) : r[i] = p[i]
           /\ \A i \in 1..Len(q) : r[Len(p) + i] = q[i]
OBVIOUS

LEMMA BoardFacts == \A bd \in DOMAIN Board : BoardShape(bd) /\ KindShape(bd)
<1> SUFFICES ASSUME NEW bd \in DOMAIN Board PROVE BoardShape(bd) /\ KindShape(bd)
  OBVIOUS
<1> DEFINE init == Board[bd].init
           trigger == Board[bd].trigger
<1>e. <<>> \in Seq(Steps) /\ Len(<<>>) = 0
  OBVIOUS
<1>s. Fires \subseteq Steps /\ Prepares \subseteq Steps /\ Registers \subseteq Steps /\ "check_pidr" \in Steps
  BY DEF Steps
<1>1. CASE bd = "versatile"
  <2>1. init = <<>> /\ trigger = <<"pl190_enable", "pl190_softint">>
    BY <1>1 DEF Board, Versatile, Plain
  <2> HIDE DEF init, trigger
  <2>2. /\ trigger[1] = "pl190_enable" /\ trigger[2] = "pl190_softint" /\ Len(trigger) = 2
        /\ trigger \in Seq(Steps)
    BY <1>s, <2>1 DEF Fires, Prepares
  <2>3. \A i \in 1..2 : (trigger[i] \in Fires <=> i = 2) /\ trigger[i] \in Fires \cup Prepares
    BY <2>2 DEF Fires, Prepares
  <2>4. BoardShape(bd)
    BY <1>e, <2>1, <2>2, <2>3 DEF BoardShape, init, trigger
  <2>5. KindShape(bd)
    BY <1>1, <2>2 DEF KindShape, trigger, GicBoards
  <2> QED
    BY <2>4, <2>5
<1>2. CASE bd = "sa1100"
  <2>1. init = <<>> /\ trigger = <<"icmr", "oier_on", "osmr", "oscr">>
    BY <1>2 DEF Board, Sa1100, Plain
  <2> HIDE DEF init, trigger
  <2>2. /\ trigger[1] = "icmr" /\ trigger[2] = "oier_on" /\ trigger[3] = "osmr" /\ trigger[4] = "oscr"
        /\ Len(trigger) = 4 /\ trigger \in Seq(Steps)
    BY <1>s, <2>1 DEF Fires, Prepares
  <2>3. \A i \in 1..4 : (trigger[i] \in Fires <=> i = 2) /\ trigger[i] \in Fires \cup Prepares
    BY <2>2 DEF Fires, Prepares
  <2>4. BoardShape(bd)
    BY <1>e, <2>1, <2>2, <2>3 DEF BoardShape, init, trigger
  <2>5. KindShape(bd)
    BY <1>2, <2>2 DEF KindShape, trigger, GicBoards
  <2> QED
    BY <2>4, <2>5
<1>3. CASE bd = "arndale"
  <2>1. /\ init = <<"check_pidr", "ies5", "isenabler", "ipriorityr", "igroupr", "pmr", "gicd_ctlr", "gicc_ctlr">>
        /\ trigger = Append(<<>>, "sgir")
    BY <1>3 DEF Board, ArndaleBoard, Gic
  <2>2. Board[bd].filter = 0 /\ 0 \in Board[bd].list /\ Board[bd].id = 0
    BY <1>3 DEF Board, ArndaleBoard, Gic
  <2> HIDE DEF init, trigger
  <2>3. "sgir" \in Steps
    BY <1>s DEF Fires
  <2>4. Len(trigger) = 1 /\ trigger[1] = "sgir" /\ trigger \in Seq(Steps)
    BY <1>e, <2>1, <2>3
  <2>5. init \in Seq(Steps)
    BY <1>s, <2>1 DEF Registers
  <2>6. /\ Len(init) = 8 /\ init[1] = "check_pidr" /\ init[2] = "ies5" /\ init[3] = "isenabler"
        /\ init[4] = "ipriorityr" /\ init[5] = "igroupr" /\ init[6] = "pmr" /\ init[7] = "gicd_ctlr"
        /\ init[8] = "gicc_ctlr"
    BY <2>1
  <2>7. \A i \in 1..8 : init[i] \in Registers \/ (init[i] = "check_pidr" /\ i = 1)
    BY <2>6 DEF Registers
  <2>8. \A i \in 1..1 : (trigger[i] \in Fires <=> i = 1) /\ trigger[i] \in Fires \cup Prepares
    BY <2>4 DEF Fires
  <2>9. BoardShape(bd)
    BY <2>4, <2>5, <2>6, <2>7, <2>8 DEF BoardShape, init, trigger
  <2>10. KindShape(bd)
    BY <1>3, <2>2, <2>4 DEF KindShape, trigger, GicBoards
  <2> QED
    BY <2>9, <2>10
<1>4. CASE bd \in {"vexpress_a15", "virt"}
  <2>1. init = <<>> /\ trigger = Append(GicSetup, "sgir")
    BY <1>4 DEF Board, VexpressA15, Virt, Gic
  <2>2. Board[bd].filter = 2 /\ Board[bd].id = 0
    BY <1>4 DEF Board, VexpressA15, Virt, Gic
  <2>3. "sgir" \in Steps
    BY <1>s DEF Fires
  <2> HIDE DEF init, trigger
  <2>a. GicSetup \in Seq(Steps) /\ Len(GicSetup) = 5
    BY SetupFacts
  <2>b. /\ trigger \in Seq(Steps) /\ Len(trigger) = Len(GicSetup) + 1
        /\ trigger[Len(GicSetup) + 1] = "sgir" /\ \A i \in 1..Len(GicSetup) : trigger[i] = GicSetup[i]
    BY <2>1, <2>3, <2>a, AppendFacts
  <2>4. /\ Len(trigger) = 6 /\ trigger \in Seq(Steps)
        /\ trigger[6] = "sgir" /\ \A i \in 1..5 : trigger[i] = GicSetup[i]
    BY <2>a, <2>b
  <2>5. \A i \in 1..6 : (trigger[i] \in Fires <=> i = 6) /\ (trigger[i] \in Registers <=> i # 6)
    BY <2>4, SetupFacts DEF Fires, Registers
  <2>c. \E a \in 1..6 : \A i \in 1..6 : trigger[i] \in Fires <=> i = a
    <3>1. 6 \in 1..6
      OBVIOUS
    <3> QED
      BY <2>5, <3>1
  <2>d. \A i \in 1..6 : trigger[i] \in Registers \/ trigger[i] \in Fires
    BY <2>5
  <2>6. BoardShape(bd)
    <3>1. Len(init) = 0 /\ init \in Seq(Steps)
      BY <1>e, <2>1
    <3>2. \A i \in 1..Len(trigger) : trigger[i] \in Registers \/ trigger[i] \in Fires \cup Prepares
      BY <2>4, <2>d
    <3>3. \E a \in 1..Len(trigger) : \A i \in 1..Len(trigger) : trigger[i] \in Fires <=> i = a
      BY <2>4, <2>c
    <3>4. \A i \in 1..Len(init) : init[i] \in Registers \/ (init[i] = "check_pidr" /\ i = 1)
      BY <3>1
    <3> QED
      BY <3>1, <3>2, <3>3, <3>4, <2>1, <2>4 DEF BoardShape, init, trigger
  <2>7. KindShape(bd)
    BY <1>4, <2>2, <2>4, SetupFacts DEF KindShape, trigger, GicBoards
  <2> QED
    BY <2>6, <2>7
<1>5. CASE bd = "vexpress_a9"
  <2>1. init = <<>> /\ trigger = Append(<<"check_pidr">> \o GicSetup, "sgir")
    BY <1>5 DEF Board, VexpressA9, Gic
  <2>2. Board[bd].filter = 0 /\ 0 \in Board[bd].list /\ Board[bd].id = 0
    BY <1>5 DEF Board, VexpressA9, Gic
  <2>3. "sgir" \in Steps
    BY <1>s DEF Fires
  <2>4. <<"check_pidr">> \in Seq(Steps)
    BY <1>s
  <2> HIDE DEF init, trigger
  <2>5. /\ Len(trigger) = 7 /\ trigger \in Seq(Steps) /\ trigger[1] = "check_pidr"
        /\ trigger[7] = "sgir" /\ \A i \in 1..5 : trigger[i + 1] = GicSetup[i]
    <3> DEFINE q == <<"check_pidr">> \o GicSetup
    <3>1. Len(<<"check_pidr">>) = 1 /\ <<"check_pidr">>[1] = "check_pidr"
      OBVIOUS
    <3>a. GicSetup \in Seq(Steps) /\ Len(GicSetup) = 5
      BY SetupFacts
    <3> DEFINE c == <<"check_pidr">>
    <3>b. /\ q \in Seq(Steps) /\ Len(q) = Len(c) + Len(GicSetup)
          /\ \A i \in 1..Len(c) : q[i] = c[i]
          /\ \A i \in 1..Len(GicSetup) : q[Len(c) + i] = GicSetup[i]
      <4>1. c \in Seq(Steps) /\ q = c \o GicSetup
        BY <2>4
      <4>2. GicSetup \in Seq(Steps)
        BY <3>a
      <4> HIDE DEF c, q
      <4> QED
        BY <4>1, <4>2, ConcatFacts
    <3>2. q \in Seq(Steps) /\ Len(q) = 6 /\ q[1] = "check_pidr" /\ \A i \in 1..5 : q[1 + i] = GicSetup[i]
      BY <3>1, <3>a, <3>b
    <3>3. trigger = Append(q, "sgir")
      BY <2>1
    <3> HIDE DEF q
    <3>c. /\ trigger \in Seq(Steps) /\ Len(trigger) = Len(q) + 1
          /\ trigger[Len(q) + 1] = "sgir" /\ \A i \in 1..Len(q) : trigger[i] = q[i]
      <4>1. q \in Seq(Steps)
        BY <3>2
      <4> QED
        BY <2>3, <4>1, <3>3, AppendFacts
    <3>4. trigger \in Seq(Steps) /\ Len(trigger) = 7 /\ trigger[7] = "sgir" /\ \A i \in 1..6 : trigger[i] = q[i]
      BY <3>2, <3>c
    <3> QED
      BY <3>2, <3>4
  <2>6. /\ trigger[2] = "isenabler" /\ trigger[3] = "ipriorityr" /\ trigger[4] = "pmr"
        /\ trigger[5] = "gicd_ctlr" /\ trigger[6] = "gicc_ctlr"
    BY <2>5, SetupFacts
  <2>7. \A i \in 1..7 : (trigger[i] \in Fires <=> i = 7) /\ (trigger[i] \in Registers <=> i \in 2..6)
    BY <2>5, <2>6 DEF Fires, Registers
  <2>a. \E a \in 1..7 : \A i \in 1..7 : trigger[i] \in Fires <=> i = a
    <3>1. 7 \in 1..7
      OBVIOUS
    <3> QED
      BY <2>7, <3>1
  <2>b. \A i \in 1..7 : trigger[i] \in Registers \/ trigger[i] \in Fires \/ (trigger[i] = "check_pidr" /\ i = 1)
    BY <2>5, <2>7
  <2>8. BoardShape(bd)
    <3>1. Len(init) = 0 /\ init \in Seq(Steps)
      BY <1>e, <2>1
    <3>2. \A i \in 1..Len(trigger) : \/ trigger[i] \in Registers
                                     \/ trigger[i] \in Fires \cup Prepares
                                     \/ trigger[i] = "check_pidr" /\ i = 1
      BY <2>5, <2>b
    <3>3. \E a \in 1..Len(trigger) : \A i \in 1..Len(trigger) : trigger[i] \in Fires <=> i = a
      BY <2>5, <2>a
    <3>4. \A i \in 1..Len(init) : init[i] \in Registers \/ (init[i] = "check_pidr" /\ i = 1)
      BY <3>1
    <3> QED
      BY <3>1, <3>2, <3>3, <3>4, <2>1, <2>5 DEF BoardShape, init, trigger
  <2>9. KindShape(bd)
    BY <1>5, <2>2, <2>5, <2>6 DEF KindShape, trigger, GicBoards
  <2> QED
    BY <2>8, <2>9
<1>6. CASE bd = "realview_pba8"
  <2> DEFINE q == <<"check_pidr", "isenabler", "isenabler1", "ipriorityr", "ipriorityr1", "pmr",
                    "gicd_ctlr", "gicc_ctlr">>
  <2>1. init = <<>> /\ trigger = Append(q, "sgir")
    BY <1>6 DEF Board, RealviewPba8, Gic
  <2>2. Board[bd].filter = 0 /\ 0 \in Board[bd].list /\ Board[bd].id = 32
    BY <1>6 DEF Board, RealviewPba8, Gic
  <2>3. "sgir" \in Steps
    BY <1>s DEF Fires
  <2>4. q \in Seq(Steps)
    BY <1>s DEF Registers
  <2>5. /\ Len(q) = 8 /\ q[1] = "check_pidr" /\ q[2] = "isenabler" /\ q[3] = "isenabler1"
        /\ q[4] = "ipriorityr" /\ q[5] = "ipriorityr1" /\ q[6] = "pmr" /\ q[7] = "gicd_ctlr"
        /\ q[8] = "gicc_ctlr"
    OBVIOUS
  <2> HIDE DEF init, trigger, q
  <2>6. /\ trigger \in Seq(Steps) /\ Len(trigger) = Len(q) + 1
        /\ trigger[Len(q) + 1] = "sgir" /\ \A i \in 1..Len(q) : trigger[i] = q[i]
    BY <2>1, <2>3, <2>4, AppendFacts
  <2>7. Len(trigger) = 9 /\ trigger[9] = "sgir" /\ \A i \in 1..8 : trigger[i] = q[i]
    BY <2>5, <2>6
  <2>8. q[1] \notin Fires /\ \A i \in 2..8 : q[i] \in Registers /\ q[i] \notin Fires
    BY <2>5 DEF Registers, Fires
  <2>9. \A i \in 1..9 : trigger[i] \in Fires <=> i = 9
    BY <2>7, <2>8 DEF Fires
  <2>10. \A i \in 1..9 : trigger[i] \in Registers \/ trigger[i] \in Fires \/ (trigger[i] = "check_pidr" /\ i = 1)
    BY <2>5, <2>7, <2>8, <2>9
  <2>11. BoardShape(bd)
    <3>1. Len(init) = 0 /\ init \in Seq(Steps)
      BY <1>e, <2>1
    <3>2. \A i \in 1..Len(trigger) : \/ trigger[i] \in Registers
                                     \/ trigger[i] \in Fires \cup Prepares
                                     \/ trigger[i] = "check_pidr" /\ i = 1
      BY <2>7, <2>10
    <3>3. \E a \in 1..Len(trigger) : \A i \in 1..Len(trigger) : trigger[i] \in Fires <=> i = a
      <4>1. 9 \in 1..Len(trigger)
        BY <2>7
      <4> QED
        BY <2>7, <2>9, <4>1
    <3>4. \A i \in 1..Len(init) : init[i] \in Registers \/ (init[i] = "check_pidr" /\ i = 1)
      BY <3>1
    <3> QED
      BY <3>1, <3>2, <3>3, <3>4, <2>1, <2>6 DEF BoardShape, init, trigger
  <2>12. KindShape(bd)
    <3>1. \A i \in 1..Len(trigger) : trigger[i] # "pl190_softint" /\ trigger[i] # "oier_on"
      BY <2>7, <2>9 DEF Fires
    <3>2. Board[bd].id % 16 = 0
      BY <2>2
    <3> QED
      BY <1>6, <2>2, <3>1, <3>2 DEF KindShape, trigger, GicBoards
  <2> QED
    BY <2>11, <2>12
<1> QED
  BY <1>1, <1>2, <1>3, <1>4, <1>5, <1>6 DEF Board

------------------------------------------------------------------------------
(* The benchmark of a board: where its loop is, and where it fires *)

FireAt(bd) == CHOOSE i \in 1..Len(Benchmark(bd)) : Benchmark(bd)[i] \in Fires

ProgramShape(bd) ==
    LET p == Benchmark(bd)
        n == Len(p)
        s == LoopStart(bd)
        e == LoopEnd(bd)
        f == FireAt(bd)
    IN  /\ n \in Nat /\ s \in Nat /\ s > 2 /\ f \in Nat /\ s < f /\ f < e /\ e \in Nat /\ n = e + 1
        /\ \A i \in 1..n :
             /\ p[i] \notin HandlerSteps
             /\ p[i] \in Fires <=> i = f
             /\ p[i] = "irq_install" <=> i = s - 2
             /\ p[i] = "irq_enable" <=> i = s - 1
             /\ p[i] = "clear_flag" <=> i = s
             /\ p[i] = "wait" <=> i = e
             /\ p[i] = "irq_disable" <=> i = n
             /\ p[i] = "check_pidr" => i < f /\ i <= s + 1
             /\ p[i] = "sgir" => bd \in GicBoards
             /\ p[i] = "pl190_softint" => bd = "versatile"
             /\ p[i] = "oier_on" => bd = "sa1100"
        /\ \A i, j \in 1..n : p[i] = "check_pidr" /\ p[j] \in Registers => i < j
        /\ \A i \in 1..n : p[i] \in (ToSet(Board[bd].trigger) \ {"check_pidr"}) \cup {"wait"}
                             <=> i > s /\ i <= e /\ p[i] # "check_pidr"

Ops == Steps \cup {"irq_install", "irq_enable", "clear_flag", "wait", "irq_disable"}

\* The step at every place of a benchmark.
PlacesOf(bd) ==
    LET m == Len(Board[bd].init)
        t == Len(Board[bd].trigger)
        p == Benchmark(bd)
    IN  /\ m \in Nat /\ t \in Nat /\ Len(p) = m + t + 5
        /\ LoopStart(bd) = m + 3 /\ LoopEnd(bd) = m + t + 4
        /\ \A i \in 1..m : p[i] = Board[bd].init[i]
        /\ p[m + 1] = "irq_install" /\ p[m + 2] = "irq_enable" /\ p[m + 3] = "clear_flag"
        /\ \A i \in 1..t : p[m + 3 + i] = Board[bd].trigger[i]
        /\ p[m + t + 4] = "wait" /\ p[m + t + 5] = "irq_disable"

LEMMA Places ==
    ASSUME NEW bd \in DOMAIN Board
    PROVE  PlacesOf(bd)
<1> DEFINE m == Len(Board[bd].init)
           t == Len(Board[bd].trigger)
           p == Benchmark(bd)
<1> DEFINE init == Board[bd].init
           trigger == Board[bd].trigger
           begin == <<"irq_install", "irq_enable">>
           clear == <<"clear_flag">>
           wait == <<"wait">>
           end == <<"irq_disable">>
           first == clear \o trigger
           body == first \o wait
           pre == init \o begin
           most == pre \o body
<1>1. BoardShape(bd)
  BY BoardFacts
<1>2. Steps \subseteq Ops /\ {"irq_install", "irq_enable", "clear_flag", "wait", "irq_disable"} \subseteq Ops
  BY DEF Ops
<1>3. init \in Seq(Ops) /\ trigger \in Seq(Ops)
  <2>1. init \in Seq(Steps) /\ trigger \in Seq(Steps)
    BY <1>1 DEF BoardShape
  <2> HIDE DEF init, trigger
  <2> QED
    BY <1>2, <2>1
<1>4. /\ begin \in Seq(Ops) /\ Len(begin) = 2 /\ begin[1] = "irq_install" /\ begin[2] = "irq_enable"
      /\ clear \in Seq(Ops) /\ Len(clear) = 1 /\ clear[1] = "clear_flag"
      /\ wait \in Seq(Ops) /\ Len(wait) = 1 /\ wait[1] = "wait"
      /\ end \in Seq(Ops) /\ Len(end) = 1 /\ end[1] = "irq_disable"
  BY <1>2
<1>5. p = most \o end /\ Iteration(bd) = body
  BY DEF Benchmark, Iteration
<1>6. m = Len(init) /\ t = Len(trigger) /\ m \in Nat /\ t \in Nat
  BY <1>3
<1>a. first = clear \o trigger /\ body = first \o wait /\ pre = init \o begin /\ most = pre \o body
  OBVIOUS
<1>b. /\ init \in Seq(Ops) /\ trigger \in Seq(Ops) /\ begin \in Seq(Ops)
      /\ clear \in Seq(Ops) /\ wait \in Seq(Ops) /\ end \in Seq(Ops)
  BY <1>3, <1>4
<1> HIDE DEF init, trigger, begin, clear, wait, end, first, body, pre, most, m, t, p
<1>7. /\ first \in Seq(Ops) /\ Len(first) = 1 + t /\ first[1] = "clear_flag"
      /\ \A i \in 1..t : first[1 + i] = trigger[i]
  <2>1. /\ first \in Seq(Ops) /\ Len(first) = Len(clear) + Len(trigger)
        /\ \A i \in 1..Len(clear) : first[i] = clear[i]
        /\ \A i \in 1..Len(trigger) : first[Len(clear) + i] = trigger[i]
    BY <1>a, <1>b, ConcatFacts
  <2> QED
    BY <1>4, <1>6, <2>1
<1>8. /\ body \in Seq(Ops) /\ Len(body) = 2 + t /\ body[1] = "clear_flag" /\ body[t + 2] = "wait"
      /\ \A i \in 1..t : body[1 + i] = trigger[i]
  <2>1. /\ body \in Seq(Ops) /\ Len(body) = Len(first) + Len(wait)
        /\ \A i \in 1..Len(first) : body[i] = first[i]
        /\ \A i \in 1..Len(wait) : body[Len(first) + i] = wait[i]
    <3>1. first \in Seq(Ops)
      BY <1>7
    <3> QED
      BY <1>a, <1>b, <3>1, ConcatFacts
  <2>2. body[1 + t + 1] = "wait"
    <3>1. body[Len(first) + 1] = wait[1]
      BY <1>4, <2>1
    <3> QED
      BY <1>4, <1>7, <3>1
  <2>3. \A i \in 1..t : 1 + i \in 1..Len(first)
    BY <1>6, <1>7
  <2>4. \A i \in 1..t : body[1 + i] = first[1 + i]
    BY <2>1, <2>3
  <2>5. body \in Seq(Ops) /\ Len(body) = 2 + t /\ body[1] = "clear_flag"
    BY <1>4, <1>6, <1>7, <2>1
  <2>6. 1 + t + 1 = t + 2
    BY <1>6
  <2> QED
    BY <1>7, <2>2, <2>4, <2>5, <2>6
<1>9. /\ pre \in Seq(Ops) /\ Len(pre) = m + 2 /\ pre[m + 1] = "irq_install" /\ pre[m + 2] = "irq_enable"
      /\ \A i \in 1..m : pre[i] = init[i]
  <2>1. /\ pre \in Seq(Ops) /\ Len(pre) = Len(init) + Len(begin)
        /\ \A i \in 1..Len(init) : pre[i] = init[i]
        /\ \A i \in 1..Len(begin) : pre[Len(init) + i] = begin[i]
    BY <1>a, <1>b, ConcatFacts
  <2> QED
    BY <1>4, <1>6, <2>1
<1>10. /\ most \in Seq(Ops) /\ Len(most) = m + t + 4
       /\ \A i \in 1..(m + 2) : most[i] = pre[i]
       /\ \A i \in 1..(t + 2) : most[m + 2 + i] = body[i]
  <2>1. /\ most \in Seq(Ops) /\ Len(most) = Len(pre) + Len(body)
        /\ \A i \in 1..Len(pre) : most[i] = pre[i]
        /\ \A i \in 1..Len(body) : most[Len(pre) + i] = body[i]
    <3>1. pre \in Seq(Ops) /\ body \in Seq(Ops)
      BY <1>8, <1>9
    <3> QED
      BY <1>a, <3>1, ConcatFacts
  <2> QED
    BY <1>6, <1>8, <1>9, <2>1
<1>11. /\ p \in Seq(Ops) /\ Len(p) = m + t + 5 /\ p[m + t + 5] = "irq_disable"
       /\ \A i \in 1..(m + t + 4) : p[i] = most[i]
  <2>1. /\ p \in Seq(Ops) /\ Len(p) = Len(most) + Len(end)
        /\ \A i \in 1..Len(most) : p[i] = most[i]
        /\ \A i \in 1..Len(end) : p[Len(most) + i] = end[i]
    <3>1. most \in Seq(Ops) /\ end \in Seq(Ops)
      BY <1>4, <1>10
    <3> QED
      BY <1>5, <3>1, ConcatFacts
  <2> QED
    BY <1>4, <1>6, <1>10, <2>1
<1>12. LoopStart(bd) = m + 3 /\ LoopEnd(bd) = m + t + 4
  <2>1. Len(Board[bd].init) = m /\ Len(Iteration(bd)) = 2 + t
    BY <1>5, <1>8 DEF m
  <2> QED
    BY <1>6, <2>1 DEF LoopStart, LoopEnd
<1>13. \A i \in 1..m : p[i] = init[i]
  <2> SUFFICES ASSUME NEW i \in 1..m PROVE p[i] = init[i]
    OBVIOUS
  <2>1. i \in 1..(m + t + 4) /\ i \in 1..(m + 2)
    BY <1>6
  <2>2. p[i] = most[i] /\ most[i] = pre[i]
    BY <1>10, <1>11, <2>1
  <2> QED
    BY <1>9, <2>2
<1>14. p[m + 1] = "irq_install" /\ p[m + 2] = "irq_enable"
  <2>1. m + 1 \in 1..(m + t + 4) /\ m + 1 \in 1..(m + 2) /\ m + 2 \in 1..(m + t + 4) /\ m + 2 \in 1..(m + 2)
    BY <1>6
  <2>2. p[m + 1] = most[m + 1] /\ most[m + 1] = pre[m + 1] /\ p[m + 2] = most[m + 2] /\ most[m + 2] = pre[m + 2]
    BY <1>10, <1>11, <2>1
  <2> QED
    BY <1>9, <2>2
<1>15. \A i \in 1..(t + 2) : p[m + 2 + i] = body[i]
  <2> SUFFICES ASSUME NEW i \in 1..(t + 2) PROVE p[m + 2 + i] = body[i]
    OBVIOUS
  <2>1. m + 2 + i \in 1..(m + t + 4)
    BY <1>6
  <2>2. p[m + 2 + i] = most[m + 2 + i]
    BY <1>11, <2>1
  <2> QED
    BY <1>10, <2>2
<1>16. p[m + 3] = "clear_flag" /\ p[m + t + 4] = "wait"
  <2>1. p[m + 2 + 1] = body[1] /\ p[m + 2 + (t + 2)] = body[t + 2]
    BY <1>6, <1>15
  <2>2. m + 2 + 1 = m + 3 /\ m + 2 + (t + 2) = m + t + 4
    BY <1>6
  <2> QED
    BY <1>8, <2>1, <2>2
<1>17. \A i \in 1..t : p[m + 3 + i] = trigger[i]
  <2> SUFFICES ASSUME NEW i \in 1..t PROVE p[m + 3 + i] = trigger[i]
    OBVIOUS
  <2>1. 1 + i \in 1..(t + 2) /\ m + 2 + (1 + i) = m + 3 + i
    BY <1>6
  <2>2. p[m + 2 + (1 + i)] = body[1 + i]
    BY <1>15, <2>1
  <2> QED
    BY <1>8, <2>1, <2>2
<1> QED
  BY <1>6, <1>11, <1>12, <1>13, <1>14, <1>16, <1>17 DEF PlacesOf, init, trigger, m, t, p

LEMMA ProgramFacts == \A bd \in DOMAIN Board : ProgramShape(bd)
<1> SUFFICES ASSUME NEW bd \in DOMAIN Board PROVE ProgramShape(bd)
  OBVIOUS
<1> DEFINE init == Board[bd].init
           trigger == Board[bd].trigger
           m == Len(init)
           t == Len(trigger)
           p == Benchmark(bd)
           n == Len(p)
           s == LoopStart(bd)
           e == LoopEnd(bd)
           f == FireAt(bd)
<1>1. /\ m \in Nat /\ t \in Nat /\ n = m + t + 5 /\ s = m + 3 /\ e = m + t + 4
      /\ \A i \in 1..m : p[i] = init[i]
      /\ p[m + 1] = "irq_install" /\ p[m + 2] = "irq_enable" /\ p[m + 3] = "clear_flag"
      /\ \A i \in 1..t : p[m + 3 + i] = trigger[i]
      /\ p[m + t + 4] = "wait" /\ p[m + t + 5] = "irq_disable"
  BY Places DEF PlacesOf
<1>2. /\ \A i \in 1..m : init[i] \in Registers \/ (init[i] = "check_pidr" /\ i = 1)
      /\ \A i \in 1..t : \/ trigger[i] \in Registers /\ init = <<>>
                         \/ trigger[i] = "check_pidr" /\ i = 1 /\ init = <<>>
                         \/ trigger[i] \in Fires \cup Prepares
      /\ \E a \in 1..t : \A i \in 1..t : trigger[i] \in Fires <=> i = a
  BY BoardFacts DEF BoardShape
<1>3. \A i \in 1..t : /\ trigger[i] = "sgir" => bd \in GicBoards
                      /\ trigger[i] = "pl190_softint" => bd = "versatile"
                      /\ trigger[i] = "oier_on" => bd = "sa1100"
  BY BoardFacts DEF KindShape
<1>4. init = <<>> => m = 0
  OBVIOUS
<1>4a. trigger \in Seq(Steps)
  BY BoardFacts DEF BoardShape
<1> HIDE DEF init, trigger, m, t, p, n, s, e
\* A place is in platform_init, in the trigger, or one of five others.
<1>5. \A i \in 1..n : i \in 1..m \/ i \in {m + 1, m + 2, m + 3, m + t + 4, m + t + 5} \/ i - (m + 3) \in 1..t
  BY <1>1
<1>6. ASSUME NEW i \in 1..n, i \in 1..m
      PROVE  /\ p[i] = init[i] /\ i < s - 2 /\ i < e
             /\ p[i] \in Registers \/ (p[i] = "check_pidr" /\ i = 1)
  BY <1>1, <1>2, <1>6
<1>7. ASSUME NEW i \in 1..n, i - (m + 3) \in 1..t
      PROVE  /\ p[i] = trigger[i - (m + 3)] /\ s < i /\ i < e
             /\ \/ p[i] \in Registers /\ m = 0
                \/ p[i] = "check_pidr" /\ i = s + 1 /\ m = 0
                \/ p[i] \in Fires \cup Prepares
  <2> DEFINE j == i - (m + 3)
  <2>1. j \in 1..t /\ m + 3 + j = i
    BY <1>1, <1>7
  <2>2. p[m + 3 + j] = trigger[j]
    BY <1>1, <2>1
  <2>3. \/ trigger[j] \in Registers /\ m = 0
        \/ trigger[j] = "check_pidr" /\ j = 1 /\ m = 0
        \/ trigger[j] \in Fires \cup Prepares
    BY <1>2, <1>4, <2>1
  <2>4. p[i] = trigger[j]
    BY <2>1, <2>2
  <2> QED
    BY <1>1, <2>1, <2>3, <2>4
<1>8. PICK a \in 1..t : \A i \in 1..t : trigger[i] \in Fires <=> i = a
  BY <1>2
<1>9. \A i \in 1..n : p[i] \in Fires <=> i = m + 3 + a
  <2> SUFFICES ASSUME NEW i \in 1..n PROVE p[i] \in Fires <=> i = m + 3 + a
    OBVIOUS
  <2>1. CASE i \in 1..m
    <3>1. p[i] \notin Fires
      BY <1>6, <2>1 DEF Registers, Fires
    <3> QED
      BY <1>1, <2>1, <3>1
  <2>2. CASE i \in {m + 1, m + 2, m + 3, m + t + 4, m + t + 5}
    <3>1. p[i] \notin Fires
      BY <1>1, <2>2 DEF Fires
    <3> QED
      BY <1>1, <2>2, <3>1
  <2>3. CASE i - (m + 3) \in 1..t
    <3>1. p[i] = trigger[i - (m + 3)]
      BY <1>7, <2>3
    <3> QED
      BY <1>1, <1>8, <2>3, <3>1
  <2> QED
    BY <1>5, <2>1, <2>2, <2>3
<1>10. f = m + 3 + a
  <2>1. m + 3 + a \in 1..n
    BY <1>1
  <2>2. \E i \in 1..n : p[i] \in Fires
    BY <1>9, <2>1
  <2>3. f \in 1..n /\ p[f] \in Fires
    BY <2>2 DEF FireAt, n, p
  <2> QED
    BY <1>9, <2>3
<1> HIDE DEF f
<1>11. n \in Nat /\ s \in Nat /\ s > 2 /\ f \in Nat /\ s < f /\ f < e /\ e \in Nat /\ n = e + 1
  BY <1>1, <1>10
<1>12. \A i \in 1..n : p[i] \in Fires <=> i = f
  BY <1>9, <1>10
\* What each place may hold.
<1>13. \A i \in 1..n : /\ p[i] \notin HandlerSteps
                       /\ p[i] = "irq_install" <=> i = s - 2
                       /\ p[i] = "irq_enable" <=> i = s - 1
                       /\ p[i] = "clear_flag" <=> i = s
                       /\ p[i] = "wait" <=> i = e
                       /\ p[i] = "irq_disable" <=> i = n
  <2> SUFFICES ASSUME NEW i \in 1..n
               PROVE  /\ p[i] \notin HandlerSteps
                      /\ p[i] = "irq_install" <=> i = s - 2
                      /\ p[i] = "irq_enable" <=> i = s - 1
                      /\ p[i] = "clear_flag" <=> i = s
                      /\ p[i] = "wait" <=> i = e
                      /\ p[i] = "irq_disable" <=> i = n
    OBVIOUS
  <2>1. CASE i \in 1..m
    <3>1. p[i] \in Registers \cup {"check_pidr"} /\ i < s - 2 /\ i < e
      BY <1>6, <2>1
    <3> QED
      BY <1>1, <3>1 DEF Registers, HandlerSteps
  <2>2. CASE i \in {m + 1, m + 2, m + 3, m + t + 4, m + t + 5}
    BY <1>1, <2>2 DEF HandlerSteps
  <2>3. CASE i - (m + 3) \in 1..t
    <3>1. p[i] \in Registers \cup {"check_pidr"} \cup Fires \cup Prepares /\ s < i /\ i < e
      BY <1>7, <2>3
    <3> QED
      BY <1>1, <3>1 DEF Registers, Fires, Prepares, HandlerSteps
  <2> QED
    BY <1>5, <2>1, <2>2, <2>3
<1>14. \A i \in 1..n : p[i] = "check_pidr" => i <= s + 1 /\ ((i > s /\ m = 0 /\ i = s + 1) \/ i = 1)
  <2> SUFFICES ASSUME NEW i \in 1..n, p[i] = "check_pidr"
               PROVE  i <= s + 1 /\ ((i > s /\ m = 0 /\ i = s + 1) \/ i = 1)
    OBVIOUS
  <2>1. CASE i \in 1..m
    BY <1>1, <1>6, <2>1 DEF Registers
  <2>2. CASE i \in {m + 1, m + 2, m + 3, m + t + 4, m + t + 5}
    BY <1>1, <2>2
  <2>3. CASE i - (m + 3) \in 1..t
    BY <1>1, <1>7, <2>3 DEF Registers, Fires, Prepares
  <2> QED
    BY <1>5, <2>1, <2>2, <2>3
<1>15. \A i \in 1..n : p[i] = "check_pidr" => i < f
  <2> SUFFICES ASSUME NEW i \in 1..n, p[i] = "check_pidr" PROVE i < f
    OBVIOUS
  <2>1. i # f
    BY <1>12 DEF Fires
  <2>2. i <= s + 1
    BY <1>14
  <2> QED
    BY <1>11, <2>1, <2>2
<1>16. \A i \in 1..n : /\ p[i] = "sgir" => bd \in GicBoards
                       /\ p[i] = "pl190_softint" => bd = "versatile"
                       /\ p[i] = "oier_on" => bd = "sa1100"
  <2>1. \A i \in 1..n : p[i] \in Fires => p[i] = trigger[a] /\ a \in 1..t
    BY <1>1, <1>9
  <2> QED
    BY <1>3, <2>1 DEF Fires
<1>17. \A i, j \in 1..n : p[i] = "check_pidr" /\ p[j] \in Registers => i < j
  <2> SUFFICES ASSUME NEW i \in 1..n, NEW j \in 1..n, p[i] = "check_pidr", p[j] \in Registers
               PROVE  i < j
    OBVIOUS
  <2>0. i # j
    BY DEF Registers
  <2>1. CASE i = 1
    BY <2>0, <2>1
  <2>2. CASE m = 0 /\ i = s + 1
    <3>1. j \notin {m + 1, m + 2, m + 3, m + t + 4, m + t + 5}
      BY <1>1 DEF Registers
    <3>2. j - (m + 3) \in 1..t
      BY <1>5, <2>2, <3>1
    <3>3. s < j
      BY <1>7, <3>2
    <3> QED
      BY <1>1, <2>0, <2>2, <3>3
  <2> QED
    BY <1>14, <2>1, <2>2
<1>18. \A i \in 1..n : p[i] \in (ToSet(trigger) \ {"check_pidr"}) \cup {"wait"}
                         <=> i > s /\ i <= e /\ p[i] # "check_pidr"
  <2> SUFFICES ASSUME NEW i \in 1..n
               PROVE  p[i] \in (ToSet(trigger) \ {"check_pidr"}) \cup {"wait"}
                        <=> i > s /\ i <= e /\ p[i] # "check_pidr"
    OBVIOUS
  <2>0. \A x : x \in ToSet(trigger) <=> \E k \in 1..t : trigger[k] = x
    BY <1>4a DEF ToSet, t
  <2>a. \A x \in ToSet(trigger) : x \in Registers \cup {"check_pidr"} \cup Fires \cup Prepares
    BY <1>2, <2>0
  <2>1. CASE i \in 1..m
    <3>1. i < s /\ (p[i] \in Registers \/ p[i] = "check_pidr") /\ m # 0
      BY <1>1, <1>6, <2>1
    <3>2. \A k \in 1..t : trigger[k] \in Fires \cup Prepares
      BY <1>2, <1>4, <3>1
    <3>3. p[i] \in Registers => \A k \in 1..t : trigger[k] # p[i]
      BY <3>2 DEF Registers, Fires, Prepares
    <3>4. p[i] # "wait"
      BY <3>1 DEF Registers
    <3> QED
      BY <1>1, <2>0, <3>1, <3>3, <3>4
  <2>2. CASE i \in {m + 1, m + 2, m + 3, m + t + 5}
    <3>1. p[i] \in {"irq_install", "irq_enable", "clear_flag", "irq_disable"} /\ ~(i > s /\ i <= e)
      BY <1>1, <2>2
    <3>2. p[i] \notin ToSet(trigger) /\ p[i] # "wait"
      BY <2>a, <3>1 DEF Registers, Fires, Prepares
    <3> QED
      BY <3>1, <3>2
  <2>3. CASE i = m + t + 4
    BY <1>1, <2>3
  <2>4. CASE i - (m + 3) \in 1..t
    <3>1. p[i] = trigger[i - (m + 3)] /\ s < i /\ i < e
      BY <1>7, <2>4
    <3>2. p[i] \in ToSet(trigger)
      BY <2>0, <2>4, <3>1
    <3>3. p[i] # "wait"
      BY <1>13, <3>1, <1>1
    <3> QED
      BY <1>1, <3>1, <3>2, <3>3
  <2> QED
    BY <1>5, <2>1, <2>2, <2>3, <2>4
<1>19. \A i \in 1..n :
             /\ p[i] \notin HandlerSteps
             /\ p[i] \in Fires <=> i = f
             /\ p[i] = "irq_install" <=> i = s - 2
             /\ p[i] = "irq_enable" <=> i = s - 1
             /\ p[i] = "clear_flag" <=> i = s
             /\ p[i] = "wait" <=> i = e
             /\ p[i] = "irq_disable" <=> i = n
             /\ p[i] = "check_pidr" => i < f /\ i <= s + 1
             /\ p[i] = "sgir" => bd \in GicBoards
             /\ p[i] = "pl190_softint" => bd = "versatile"
             /\ p[i] = "oier_on" => bd = "sa1100"
  BY <1>12, <1>13, <1>14, <1>15, <1>16
<1> QED
  BY <1>11, <1>17, <1>18, <1>19 DEF ProgramShape, trigger, p, n, s, e, f

------------------------------------------------------------------------------
(* The inductive invariant *)

Position ==
    /\ board \in Boards /\ status \in {"run", "abort", "done"}
    /\ at \in 1..(Len(Benchmark(board)) + 1) /\ iter \in 1..Iters /\ isr \in 0..Len(Handler(board))
    /\ masked \in BOOLEAN /\ installed \in BOOLEAN /\ flag \in BOOLEAN /\ identified \in BOOLEAN

Devices ==
    /\ gic \in [configured : SUBSET Registers, pending : SUBSET {0}, active : SUBSET {0}]
    /\ pl190 \in [enable : BOOLEAN, softint : BOOLEAN]
    /\ ost \in [icmr : BOOLEAN, oier : BOOLEAN, ossr : BOOLEAN, osmr : {0, 1}, oscr : 0..(TimerWrap - 1)]

\* A board has one controller.
Kinds ==
    /\ board \notin GicBoards => gic.pending = {}
    /\ board # "versatile" => ~pl190.softint
    /\ board # "sa1100" => ~ost.oier

\* What the line needs, on the board that has it.
Asserted == gic.pending # {} \/ pl190.softint \/ ost.oier

\* The trigger has fired and the loop has not seen the flag yet.
Armed == FireAt(board) < at /\ at <= LoopEnd(board)

\* The line is asserted, and the handler runs, only between the firing access
\* and the end of the wait; a request that has set the flag is withdrawn
\* before the handler returns.
Quiet ==
    /\ Asserted \/ InHandler => Armed
    /\ Asserted => ~flag \/ InHandler
    /\ InHandler => (isr = 1 <=> ~flag)
    /\ gic.active # {} => board \in GicBoards /\ isr \in {3, 4}
    /\ board \in GicBoards /\ isr > 2 => gic.pending = {}
    /\ LoopStart(board) < at /\ at <= FireAt(board) => ~flag
    /\ at > LoopStart(board) - 2 => installed

\* One run of the handler for each iteration.
Count ==
    served = IF at > LoopEnd(board) \/ (at > LoopStart(board) /\ flag) THEN iter ELSE iter - 1

\* No access to the controller comes before the check of its identity.
Checked ==
    /\ \A i \in 1..Len(Benchmark(board)) :
         status = "run" /\ ~identified /\ Benchmark(board)[i] = "check_pidr"
           => at <= i /\ gic.configured \subseteq {"isenabler"}
    /\ UnknownGicUntouched

IInv == Position /\ Devices /\ Kinds /\ Quiet /\ Count /\ Checked

------------------------------------------------------------------------------
(* The steps of the handler *)

LEMMA HandlerFacts == \A bd \in DOMAIN Board : HandlerShape(bd)
<1> SUFFICES ASSUME NEW bd \in DOMAIN Board PROVE HandlerShape(bd)
  OBVIOUS
<1> DEFINE c == Board[bd].clear
           h == Handler(bd)
<1>1. CASE bd \in GicBoards
  <2>1. c = <<"iar", "cpendsgir", "eoir">>
    BY <1>1 DEF GicBoards, Board, VexpressA9, VexpressA15, RealviewPba8, ArndaleBoard, Virt, Gic, GicClear
  <2>2. h = <<"set_flag">> \o <<"iar", "cpendsgir", "eoir">>
    BY <2>1 DEF Handler
  <2>3. Len(h) = 4 /\ h[1] = "set_flag" /\ h[2] = "iar" /\ h[3] = "cpendsgir" /\ h[4] = "eoir"
    BY <2>2
  <2> QED
    BY <1>1, <2>3 DEF HandlerShape, GicBoards
<1>2. CASE bd = "versatile"
  <2>1. c = <<"pl190_softintclear">>
    BY <1>2 DEF Board, Versatile, Plain
  <2>2. h = <<"set_flag">> \o <<"pl190_softintclear">>
    BY <2>1 DEF Handler
  <2>3. Len(h) = 2 /\ h[1] = "set_flag" /\ h[2] = "pl190_softintclear"
    BY <2>2
  <2> QED
    BY <1>2, <2>3 DEF HandlerShape, GicBoards
<1>3. CASE bd = "sa1100"
  <2>1. c = <<"ossr", "oier_off">>
    BY <1>3 DEF Board, Sa1100, Plain, Sa1100Clear
  <2>2. h = <<"set_flag">> \o <<"ossr", "oier_off">>
    BY <2>1 DEF Handler
  <2>3. Len(h) = 3 /\ h[1] = "set_flag" /\ h[2] = "ossr" /\ h[3] = "oier_off"
    BY <2>2
  <2> QED
    BY <1>3, <2>3 DEF HandlerShape, GicBoards
<1> QED
  BY <1>1, <1>2, <1>3 DEF Board, GicBoards

LEMMA BoardKinds == DOMAIN Board = GicBoards \cup {"versatile", "sa1100"}
BY DEF Board, GicBoards

\* A step of the handler, by its name: its place says which it is.
LEMMA HandlerStep ==
    ASSUME Position, NEW op, op \in HandlerSteps, Does(op)
    PROVE  /\ status = "run" /\ InHandler /\ board \in DOMAIN Board
           /\ UNCHANGED <<board, identified, at, iter>>
           /\ \/ op = "set_flag" /\ isr = 1 /\ isr' = 2
              \/ op = "iar" /\ board \in GicBoards /\ isr = 2 /\ isr' = 3
              \/ op = "cpendsgir" /\ board \in GicBoards /\ isr = 3 /\ isr' = 4
              \/ op = "eoir" /\ board \in GicBoards /\ isr = 4 /\ isr' = 0
              \/ op = "pl190_softintclear" /\ board = "versatile" /\ isr = 2 /\ isr' = 0
              \/ op = "ossr" /\ board = "sa1100" /\ isr = 2 /\ isr' = 3
              \/ op = "oier_off" /\ board = "sa1100" /\ isr = 3 /\ isr' = 0
<1>1. board \in DOMAIN Board /\ isr \in 0..Len(Handler(board)) /\ at \in 1..(Len(Benchmark(board)) + 1)
  BY BoardsAssumption DEF Position
<1>2. HandlerShape(board) /\ ProgramShape(board)
  BY <1>1, HandlerFacts, ProgramFacts
<1>3. /\ status = "run" /\ InHandler /\ Handler(board)[isr] = op
      /\ isr' = IF isr < Len(Handler(board)) THEN isr + 1 ELSE 0
      /\ UNCHANGED <<board, identified, at, iter>>
  <2>1. Ended \/ Benchmark(board)[at] # op
    BY <1>1, <1>2 DEF ProgramShape, Ended
  <2> QED
    BY <2>1 DEF Does
<1>4. isr \in 1..Len(Handler(board))
  BY <1>1, <1>3 DEF InHandler
<1>5. CASE board \in GicBoards
  <2>1. board # "versatile" /\ board # "sa1100"
    BY <1>5 DEF GicBoards
  <2>2. isr \in 1..4 /\ Len(Handler(board)) = 4
    BY <1>2, <1>4, <1>5 DEF HandlerShape
  <2> QED
    <3>1. /\ Handler(board)[1] = "set_flag" /\ Handler(board)[2] = "iar"
          /\ Handler(board)[3] = "cpendsgir" /\ Handler(board)[4] = "eoir"
      BY <1>2, <1>5 DEF HandlerShape
    <3>2. isr = 1 \/ isr = 2 \/ isr = 3 \/ isr = 4
      BY <2>2
    <3>3. isr' = IF isr < 4 THEN isr + 1 ELSE 0
      BY <1>3, <2>2
    <3> QED
      BY <1>1, <1>3, <1>5, <3>1, <3>2, <3>3
<1>6. CASE board = "versatile"
  <2>1. /\ isr \in 1..2 /\ Len(Handler(board)) = 2
        /\ Handler(board)[1] = "set_flag" /\ Handler(board)[2] = "pl190_softintclear"
    BY <1>2, <1>4, <1>6 DEF HandlerShape
  <2>2. isr = 1 \/ isr = 2
    BY <2>1
  <2>3. isr' = IF isr < 2 THEN isr + 1 ELSE 0
    BY <1>3, <2>1
  <2>4. (isr = 1 /\ op = "set_flag" /\ isr' = 2) \/ (isr = 2 /\ op = "pl190_softintclear" /\ isr' = 0)
    BY <1>3, <2>1, <2>2, <2>3
  <2> QED
    BY <1>1, <1>3, <1>6, <2>4
<1>7. CASE board = "sa1100"
  <2>1. isr \in 1..3 /\ Len(Handler(board)) = 3
    BY <1>2, <1>4, <1>7 DEF HandlerShape
  <2> QED
    BY <1>1, <1>2, <1>3, <1>7, <2>1 DEF HandlerShape
<1> QED
  BY <1>1, <1>5, <1>6, <1>7, BoardKinds

\* A step of the benchmark is taken outside the handler.
LEMMA BenchmarkStep ==
    ASSUME Position, NEW op, op \notin HandlerSteps, Does(op)
    PROVE  /\ status = "run" /\ ~InHandler /\ isr = 0 /\ board \in DOMAIN Board
           /\ at \in 1..Len(Benchmark(board)) /\ Benchmark(board)[at] = op
           /\ UNCHANGED <<board, identified, isr>>
           /\ \/ at = LoopEnd(board) /\ iter < Iters /\ at' = LoopStart(board) /\ iter' = iter + 1
              \/ at' = at + 1 /\ iter' = iter
<1>1. board \in DOMAIN Board /\ isr \in 0..Len(Handler(board)) /\ at \in 1..(Len(Benchmark(board)) + 1)
  BY BoardsAssumption DEF Position
<1>2. HandlerShape(board) /\ ProgramShape(board)
  BY <1>1, HandlerFacts, ProgramFacts
<1>3. Len(Benchmark(board)) \in Nat
  BY <1>2 DEF ProgramShape
<1>4. isr > 0 => Handler(board)[isr] \in HandlerSteps
  <2> SUFFICES ASSUME isr > 0 PROVE Handler(board)[isr] \in HandlerSteps
    OBVIOUS
  <2>1. isr \in 1..Len(Handler(board))
    BY <1>1
  <2>2. CASE board \in GicBoards
    <3>1. /\ Handler(board)[1] = "set_flag" /\ Handler(board)[2] = "iar" /\ Len(Handler(board)) = 4
          /\ Handler(board)[3] = "cpendsgir" /\ Handler(board)[4] = "eoir"
      BY <1>2, <2>2 DEF HandlerShape
    <3>2. isr = 1 \/ isr = 2 \/ isr = 3 \/ isr = 4
      BY <2>1, <3>1
    <3> QED
      BY <3>1, <3>2 DEF HandlerSteps
  <2>3. CASE board = "versatile"
    BY <1>2, <2>1, <2>3 DEF HandlerShape, HandlerSteps
  <2>4. CASE board = "sa1100"
    BY <1>2, <2>1, <2>4 DEF HandlerShape, HandlerSteps
  <2> QED
    BY <1>1, <2>2, <2>3, <2>4, BoardKinds
<1>5. ~InHandler /\ isr = 0
  <2>1. ~InHandler
    BY <1>4 DEF Does, InHandler
  <2> QED
    BY <1>1, <2>1 DEF InHandler
<1>6. ~Ended /\ Benchmark(board)[at] = op /\ status = "run"
  BY <1>5 DEF Does
<1>7. /\ UNCHANGED <<board, identified, isr>>
      /\ \/ at = LoopEnd(board) /\ iter < Iters /\ at' = LoopStart(board) /\ iter' = iter + 1
         \/ at' = at + 1 /\ iter' = iter
  BY <1>5 DEF Does
<1>8. at \in 1..Len(Benchmark(board))
  BY <1>1, <1>3, <1>6 DEF Ended
<1> QED
  BY <1>1, <1>5, <1>6, <1>7, <1>8

------------------------------------------------------------------------------
(* What steps keep *)

LEMMA Shape ==
    ASSUME Position
    PROVE  board \in DOMAIN Board /\ ProgramShape(board) /\ HandlerShape(board)
BY BoardsAssumption, ProgramFacts, HandlerFacts DEF Position

LEMMA PositionKept ==
    ASSUME Position, NEW op, Does(op),
           status' \in {"run", "abort", "done"}, masked' \in BOOLEAN,
           installed' \in BOOLEAN, flag' \in BOOLEAN
    PROVE  Position'
<1>1. /\ board \in Boards /\ at \in 1..(Len(Benchmark(board)) + 1) /\ iter \in 1..Iters
      /\ isr \in 0..Len(Handler(board)) /\ identified \in BOOLEAN
  BY DEF Position
<1>2. Iters \in Nat
  BY SwiAssumption
<1>3. /\ Len(Benchmark(board)) \in Nat /\ LoopStart(board) \in 1..Len(Benchmark(board))
      /\ Len(Handler(board)) \in {2, 3, 4} /\ HandlerShape(board)
  <2>1. board \in DOMAIN Board /\ ProgramShape(board) /\ HandlerShape(board)
    BY Shape
  <2>2. Len(Handler(board)) \in {2, 3, 4}
    BY <2>1, BoardKinds DEF HandlerShape
  <2> QED
    BY <2>1, <2>2 DEF ProgramShape
<1>4. board' = board /\ identified' = identified
  BY DEF Does
<1>5. CASE op \in HandlerSteps
  <2>1. at' = at /\ iter' = iter /\ isr' \in 0..4
    BY <1>5, HandlerStep
  <2>2. isr' \in 0..Len(Handler(board))
    <3>1. isr' = 0 \/ (isr' = 2) \/ (isr' = 3 /\ board # "versatile") \/ (isr' = 4 /\ board \in GicBoards)
      BY <1>5, HandlerStep DEF GicBoards
    <3>2. board \in GicBoards => Len(Handler(board)) = 4
      BY <1>3 DEF HandlerShape
    <3>3. board # "versatile" => Len(Handler(board)) \in {3, 4}
      BY <1>3, Shape, BoardKinds DEF HandlerShape
    <3>4. Len(Handler(board)) = 2 \/ Len(Handler(board)) = 3 \/ Len(Handler(board)) = 4
      BY <1>3
    <3>5. CASE isr' = 0 \/ isr' = 2
      BY <3>4, <3>5
    <3>6. CASE isr' = 3 /\ board # "versatile"
      BY <3>3, <3>6
    <3>7. CASE isr' = 4 /\ board \in GicBoards
      BY <3>2, <3>7
    <3> QED
      BY <3>1, <3>5, <3>6, <3>7
  <2> QED
    BY <1>1, <1>4, <2>1, <2>2 DEF Position
<1>6. CASE op \notin HandlerSteps
  <2>1. /\ at \in 1..Len(Benchmark(board)) /\ isr' = isr
        /\ \/ iter < Iters /\ at' = LoopStart(board) /\ iter' = iter + 1
           \/ at' = at + 1 /\ iter' = iter
    BY <1>6, BenchmarkStep
  <2>2. at' \in 1..(Len(Benchmark(board)) + 1) /\ iter' \in 1..Iters
    BY <1>1, <1>2, <1>3, <2>1
  <2> QED
    BY <1>1, <1>4, <2>1, <2>2 DEF Position
<1> QED
  BY <1>5, <1>6

\* A step of the benchmark that neither fires nor concerns the flag.
LEMMA QuietOnward ==
    ASSUME Position, Kinds, Quiet, Count,
           NEW op, op \notin HandlerSteps \cup Fires \cup {"clear_flag", "wait"}, Does(op),
           UNCHANGED <<flag, served>>, gic'.pending = gic.pending, gic'.active = gic.active,
           pl190'.softint = pl190.softint, ost'.oier = ost.oier,
           op = "irq_install" => installed', installed => installed'
    PROVE  Kinds' /\ Quiet' /\ Count'
<1> DEFINE s == LoopStart(board)
           e == LoopEnd(board)
           f == FireAt(board)
<1>1. ProgramShape(board)
  BY Shape
<1>2. /\ isr = 0 /\ ~InHandler /\ at \in 1..Len(Benchmark(board)) /\ Benchmark(board)[at] = op
      /\ board' = board /\ isr' = isr
      /\ \/ at = e /\ at' = s
         \/ at' = at + 1 /\ iter' = iter
  BY BenchmarkStep
<1>3. /\ s \in Nat /\ s > 2 /\ f \in Nat /\ s < f /\ f < e /\ Len(Benchmark(board)) = e + 1 /\ e \in Nat
  BY <1>1 DEF ProgramShape
<1>4. at # f /\ at # s /\ at # e
  BY <1>1, <1>2 DEF ProgramShape
<1>5. at' = at + 1 /\ iter' = iter /\ at \in Nat
  BY <1>2, <1>3, <1>4
<1>6. at = s - 2 => installed'
  BY <1>1, <1>2 DEF ProgramShape
<1>7. s' = s /\ e' = e /\ f' = f
  BY <1>2
<1> HIDE DEF s, e, f
<1>8. Kinds'
  BY <1>2 DEF Kinds
<1>9. Armed' <=> Armed
  <2>1. Armed <=> f < at /\ at <= e
    BY DEF Armed, f, e
  <2>2. Armed' <=> f < at' /\ at' <= e
    BY <1>7 DEF Armed, f, e
  <2> QED
    BY <1>3, <1>4, <1>5, <2>1, <2>2
<1>10. Quiet'
  <2>1. Asserted' <=> Asserted
    BY DEF Asserted
  <2>2. InHandler' <=> InHandler
    BY <1>2 DEF InHandler
  <2>3. s' < at' /\ at' <= f' => ~flag
    <3>1. s < at /\ at <= f => ~flag
      BY DEF Quiet, s, f
    <3> QED
      BY <1>3, <1>4, <1>5, <1>7, <3>1
  <2>4. at' > s' - 2 => installed'
    <3>1. at > s - 2 => installed
      BY DEF Quiet, s
    <3> QED
      BY <1>3, <1>5, <1>6, <1>7, <3>1
  <2> QED
    BY <1>2, <1>9, <2>1, <2>2, <2>3, <2>4 DEF Quiet, s, f
<1>11. Count'
  <2>1. served = IF at > e \/ (at > s /\ flag) THEN iter ELSE iter - 1
    BY DEF Count, s, e
  <2>2. served' = IF at' > e' \/ (at' > s' /\ flag') THEN iter' ELSE iter' - 1
    BY <1>3, <1>4, <1>5, <1>7, <2>1
  <2> QED
    BY <2>2 DEF Count, s, e
<1> QED
  BY <1>8, <1>10, <1>11

\* A step of the benchmark after which it runs on.
LEMMA CheckedOnward ==
    ASSUME Position, Checked,
           NEW op, op \notin HandlerSteps, op # "check_pidr", Does(op), status' = status,
           gic'.configured = gic.configured \/ op \in Registers
    PROVE  Checked'
<1>1. ProgramShape(board)
  BY Shape
<1>2. /\ at \in 1..Len(Benchmark(board)) /\ Benchmark(board)[at] = op /\ status = "run"
      /\ board' = board /\ identified' = identified
      /\ \/ at = LoopEnd(board) /\ at' = LoopStart(board)
         \/ at' = at + 1
  BY BenchmarkStep
<1>3. UnknownGicUntouched'
  BY <1>2 DEF UnknownGicUntouched
<1>4. ASSUME NEW i \in 1..Len(Benchmark(board)), ~identified, Benchmark(board)[i] = "check_pidr"
      PROVE  at' <= i /\ gic'.configured \subseteq {"isenabler"}
  <2>1. at <= i /\ gic.configured \subseteq {"isenabler"}
    BY <1>2, <1>4 DEF Checked
  <2>2. at # i /\ i < FireAt(board) /\ FireAt(board) < LoopEnd(board) /\ LoopEnd(board) \in Nat /\ FireAt(board) \in Nat
    BY <1>1, <1>2, <1>4 DEF ProgramShape
  <2>3. op \notin Registers
    <3>1. op \in Registers => i < at
      BY <1>1, <1>2, <1>4 DEF ProgramShape
    <3>2. at \in Nat /\ i \in Nat
      BY <1>2
    <3> QED
      BY <2>1, <3>1, <3>2
  <2>4. at' = at + 1
    BY <1>2, <2>1, <2>2
  <2> QED
    BY <1>2, <2>1, <2>2, <2>3, <2>4
<1> QED
  BY <1>2, <1>3, <1>4 DEF Checked

\* A step of the handler, or one beside the program.
LEMMA CheckedBeside ==
    ASSUME Checked, UNCHANGED <<board, identified, at, status>>, gic'.configured = gic.configured,
           status = "run" \/ gic'.pending = gic.pending
    PROVE  Checked'
<1>1. UnknownGicUntouched'
  BY DEF Checked, UnknownGicUntouched
<1> QED
  BY <1>1 DEF Checked

------------------------------------------------------------------------------
(* The steps of the benchmark *)

LEMMA CheckPidrKeeps == IInv /\ CheckPidr => IInv'
<1> SUFFICES ASSUME IInv, CheckPidr PROVE IInv'
  OBVIOUS
<1>1. Position /\ Devices /\ Kinds /\ Quiet /\ Count /\ Checked
  BY DEF IInv
<1>2. Does("check_pidr") /\ status' = (IF identified THEN "run" ELSE "abort") /\ UNCHANGED <<cpu, devices>>
  BY DEF CheckPidr
<1>3. /\ masked' = masked /\ installed' = installed /\ flag' = flag /\ served' = served
      /\ gic' = gic /\ pl190' = pl190 /\ ost' = ost
  BY <1>2 DEF cpu, devices
<1>4. Position'
  <2>1. masked \in BOOLEAN /\ installed \in BOOLEAN /\ flag \in BOOLEAN
    BY <1>1 DEF Position
  <2> QED
    BY <1>1, <1>2, <1>3, <2>1, PositionKept
<1>5. Devices'
  BY <1>1, <1>3 DEF Devices
<1>6. "check_pidr" \notin HandlerSteps \cup Fires \cup {"clear_flag", "wait"}
  BY DEF HandlerSteps, Fires
<1>7. Kinds' /\ Quiet' /\ Count'
  <2>1. "check_pidr" # "irq_install"
    OBVIOUS
  <2> QED
    BY <1>1, <1>2, <1>3, <1>6, <2>1, QuietOnward
<1>8. Checked'
  <2>1. /\ at \in 1..Len(Benchmark(board)) /\ Benchmark(board)[at] = "check_pidr" /\ status = "run"
        /\ board' = board /\ identified' = identified /\ ~InHandler
    BY <1>1, <1>2, <1>6, BenchmarkStep
  <2>2. CASE identified
    BY <1>2, <2>1, <2>2 DEF Checked, UnknownGicUntouched
  <2>3. CASE ~identified
    <3>1. gic.configured \subseteq {"isenabler"}
      BY <1>1, <2>1, <2>3 DEF Checked
    <3>2. gic.pending = {}
      <4>1. ProgramShape(board)
        BY <1>1, Shape
      <4>2. at < FireAt(board) /\ FireAt(board) \in Nat /\ at \in Nat
        BY <2>1, <4>1 DEF ProgramShape
      <4>3. ~Armed
        BY <4>2 DEF Armed
      <4> QED
        BY <1>1, <4>3 DEF Quiet, Asserted
    <3>3. status' = "abort"
      BY <1>2, <2>3
    <3>4. UnknownGicUntouched'
      BY <1>3, <2>1, <2>3, <3>1, <3>2 DEF UnknownGicUntouched
    <3> QED
      BY <3>3, <3>4 DEF Checked
  <2> QED
    BY <2>2, <2>3
<1> QED
  BY <1>4, <1>5, <1>7, <1>8 DEF IInv

\* A step of the benchmark that changes no more than registers which do not
\* fire anything, the mask and the handler's address.
LEMMA OtherKeeps ==
    ASSUME IInv, NEW op, op \notin HandlerSteps \cup Fires \cup {"clear_flag", "wait", "check_pidr"}, Does(op),
           UNCHANGED <<status, flag, served>>, masked' \in BOOLEAN,
           installed' \in BOOLEAN, op = "irq_install" => installed', installed => installed',
           Devices', gic'.pending = gic.pending, gic'.active = gic.active,
           gic'.configured = gic.configured \/ op \in Registers,
           pl190'.softint = pl190.softint, ost'.oier = ost.oier
    PROVE  IInv'
<1>1. Position /\ Devices /\ Kinds /\ Quiet /\ Count /\ Checked
  BY DEF IInv
<1>2. op \notin HandlerSteps \cup Fires \cup {"clear_flag", "wait"} /\ op \notin HandlerSteps /\ op # "check_pidr"
  OBVIOUS
<1>3. Position'
  <2>1. status' \in {"run", "abort", "done"} /\ flag' \in BOOLEAN
    BY <1>1 DEF Position
  <2> QED
    BY <1>1, <2>1, PositionKept
<1>4. Kinds' /\ Quiet' /\ Count'
  BY <1>1, <1>2, QuietOnward
<1>5. Checked'
  BY <1>1, <1>2, CheckedOnward
<1> QED
  BY <1>3, <1>4, <1>5 DEF IInv

LEMMA GicConfigureKeeps == IInv /\ GicConfigure => IInv'
<1> SUFFICES ASSUME IInv, GicConfigure PROVE IInv'
  OBVIOUS
<1>1. PICK reg \in Registers :
          /\ Does(reg) /\ gic' = [gic EXCEPT !.configured = @ \cup {reg}]
          /\ UNCHANGED <<status, cpu, pl190, ost>>
  BY DEF GicConfigure
<1>2. Position /\ Devices
  BY DEF IInv
<1>3. reg \notin HandlerSteps \cup Fires \cup {"clear_flag", "wait", "check_pidr"} /\ reg # "irq_install"
  BY DEF Registers, HandlerSteps, Fires
<1>4. gic'.pending = gic.pending /\ gic'.active = gic.active /\ gic'.configured = gic.configured \cup {reg}
  BY <1>1, <1>2 DEF Devices
<1>5. /\ Devices' /\ pl190'.softint = pl190.softint /\ ost'.oier = ost.oier
  BY <1>1, <1>2 DEF Devices
<1>6. /\ masked' = masked /\ installed' = installed /\ flag' = flag /\ served' = served
      /\ masked \in BOOLEAN /\ installed \in BOOLEAN /\ status' = status
  BY <1>1, <1>2 DEF cpu, Position
<1> QED
  BY <1>1, <1>3, <1>4, <1>5, <1>6, OtherKeeps

LEMMA PreparesKeep == IInv /\ (Pl190Enable \/ Icmr \/ Osmr \/ Oscr) => IInv'
<1> SUFFICES ASSUME IInv, Pl190Enable \/ Icmr \/ Osmr \/ Oscr PROVE IInv'
  OBVIOUS
<1>1. Position /\ Devices
  BY DEF IInv
<1>2. PICK op \in Prepares :
          /\ Does(op) /\ UNCHANGED <<status, cpu, gic>>
          /\ Devices' /\ pl190'.softint = pl190.softint /\ ost'.oier = ost.oier
  <2>0. TimerWrap \in Nat /\ TimerWrap > 2
    BY SwiAssumption
  <2>1. CASE Pl190Enable
    <3>1. /\ Does("pl190_enable") /\ pl190' = [pl190 EXCEPT !["enable"] = TRUE]
          /\ UNCHANGED <<status, cpu, gic, ost>>
      BY <2>1 DEF Pl190Enable, Pl190Write
    <3>2. Devices' /\ pl190'.softint = pl190.softint
      BY <1>1, <3>1 DEF Devices
    <3> QED
      BY <3>1, <3>2 DEF Prepares
  <2>2. CASE Icmr
    <3>1. /\ Does("icmr") /\ ost' = [ost EXCEPT !["icmr"] = TRUE]
          /\ UNCHANGED <<status, cpu, gic, pl190>>
      BY <2>2 DEF Icmr, OstWrite
    <3>2. Devices' /\ ost'.oier = ost.oier
      BY <1>1, <3>1 DEF Devices
    <3> QED
      BY <3>1, <3>2 DEF Prepares
  <2>3. CASE Osmr
    <3>1. PICK match \in {ost.ossr, ost.ossr \/ ost.oscr = 1} :
              ost' = [ost EXCEPT !.osmr = 1, !.ossr = match]
      BY <2>3 DEF Osmr
    <3>2. Does("osmr") /\ UNCHANGED <<status, cpu, gic, pl190>>
      BY <2>3 DEF Osmr
    <3>3. match \in BOOLEAN
      BY <1>1, <3>1 DEF Devices
    <3>4. Devices' /\ ost'.oier = ost.oier
      BY <1>1, <3>1, <3>2, <3>3 DEF Devices
    <3> QED
      BY <3>2, <3>4 DEF Prepares
  <2>4. CASE Oscr
    <3>1. /\ Does("oscr") /\ ost' = [ost EXCEPT !["oscr"] = 0]
          /\ UNCHANGED <<status, cpu, gic, pl190>>
      BY <2>4 DEF Oscr, OstWrite
    <3>2. 0 \in 0..(TimerWrap - 1)
      BY <2>0
    <3>3. Devices' /\ ost'.oier = ost.oier
      BY <1>1, <3>1, <3>2 DEF Devices
    <3> QED
      BY <3>1, <3>3 DEF Prepares
  <2> QED
    BY <2>1, <2>2, <2>3, <2>4
<1>3. op \notin HandlerSteps \cup Fires \cup {"clear_flag", "wait", "check_pidr"} /\ op # "irq_install"
  BY <1>2 DEF Prepares, HandlerSteps, Fires
<1>4. /\ masked' = masked /\ installed' = installed /\ flag' = flag /\ served' = served
      /\ masked \in BOOLEAN /\ installed \in BOOLEAN /\ status' = status /\ gic' = gic
  BY <1>1, <1>2 DEF cpu, Position
<1> QED
  BY <1>2, <1>3, <1>4, OtherKeeps

LEMMA MasksKeep == IInv /\ (IrqEnable \/ IrqDisable \/ IrqInstall) => IInv'
<1> SUFFICES ASSUME IInv, IrqEnable \/ IrqDisable \/ IrqInstall PROVE IInv'
  OBVIOUS
<1>1. Position /\ Devices
  BY DEF IInv
<1>2. masked \in BOOLEAN /\ installed \in BOOLEAN
  BY <1>1 DEF Position
<1>3. PICK op \in {"irq_enable", "irq_disable", "irq_install"} :
          /\ Does(op) /\ UNCHANGED <<status, flag, served, devices>>
          /\ masked' \in BOOLEAN /\ installed' \in BOOLEAN
          /\ op = "irq_install" => installed'
          /\ installed => installed'
  <2>1. CASE IrqEnable
    BY <1>2, <2>1 DEF IrqEnable, SetMask
  <2>2. CASE IrqDisable
    BY <1>2, <2>2 DEF IrqDisable, SetMask
  <2>3. CASE IrqInstall
    BY <1>2, <2>3 DEF IrqInstall
  <2> QED
    BY <2>1, <2>2, <2>3
<1>4. op \notin HandlerSteps \cup Fires \cup {"clear_flag", "wait", "check_pidr"}
  BY DEF HandlerSteps, Fires
<1>5. gic' = gic /\ pl190' = pl190 /\ ost' = ost
  BY <1>3 DEF devices
<1>6. Devices'
  BY <1>1, <1>5 DEF Devices
<1> QED
  BY <1>3, <1>4, <1>5, <1>6, OtherKeeps

\* The access that fires: the flag is clear, and the trigger is armed after it.
LEMMA FireKeeps ==
    ASSUME IInv, NEW op, op \in Fires, Does(op), UNCHANGED <<status, cpu>>, Devices', Kinds',
           gic'.active = gic.active, gic'.configured = gic.configured
    PROVE  IInv'
<1> DEFINE s == LoopStart(board)
           e == LoopEnd(board)
           f == FireAt(board)
<1>1. Position /\ Devices /\ Quiet /\ Count /\ Checked
  BY DEF IInv
<1>2. masked' = masked /\ installed' = installed /\ flag' = flag /\ served' = served
  BY DEF cpu
<1>3. Position'
  <2>1. status \in {"run", "abort", "done"} /\ masked \in BOOLEAN /\ installed \in BOOLEAN /\ flag \in BOOLEAN
    BY <1>1 DEF Position
  <2> QED
    BY <1>1, <1>2, <2>1, PositionKept
<1>4. op \notin HandlerSteps /\ op # "check_pidr"
  BY DEF HandlerSteps, Fires
<1>5. Checked'
  BY <1>1, <1>4, CheckedOnward
<1>6. ProgramShape(board)
  BY <1>1, Shape
<1>7. /\ isr = 0 /\ at \in 1..Len(Benchmark(board)) /\ Benchmark(board)[at] = op
      /\ board' = board /\ isr' = isr /\ ~InHandler
      /\ at = e \/ (at' = at + 1 /\ iter' = iter)
  BY <1>1, <1>4, BenchmarkStep
<1>8. s \in Nat /\ s > 2 /\ f \in Nat /\ s < f /\ f < e /\ e \in Nat /\ at = f
  BY <1>6, <1>7 DEF ProgramShape
<1>9. at' = f + 1 /\ iter' = iter
  BY <1>7, <1>8
<1>10. s' = s /\ e' = e /\ f' = f
  BY <1>7
<1> HIDE DEF s, e, f
<1>11. ~flag /\ installed
  <2>1. (s < at /\ at <= f => ~flag) /\ (at > s - 2 => installed)
    BY <1>1 DEF Quiet, s, f
  <2> QED
    BY <1>8, <2>1
<1>12. Armed'
  <2>1. Armed' <=> f' < at' /\ at' <= e'
    BY DEF Armed, f, e
  <2> QED
    BY <1>8, <1>9, <1>10, <2>1
<1>13. Quiet'
  <2>1. ~InHandler'
    BY <1>7 DEF InHandler
  <2>2. gic.active = {}
    BY <1>1, <1>7 DEF Quiet
  <2> QED
    BY <1>2, <1>7, <1>11, <1>12, <2>1, <2>2 DEF Quiet
<1>14. Count'
  <2>1. served = IF at > e \/ (at > s /\ flag) THEN iter ELSE iter - 1
    BY <1>1 DEF Count, s, e
  <2>2. served' = IF at' > e' \/ (at' > s' /\ flag') THEN iter' ELSE iter' - 1
    BY <1>2, <1>8, <1>9, <1>10, <1>11, <2>1
  <2> QED
    BY <2>2 DEF Count, s, e
<1> QED
  BY <1>3, <1>5, <1>13, <1>14 DEF IInv

LEMMA FiresKeep == IInv /\ (Sgir \/ Pl190SoftInt \/ OierOn) => IInv'
<1> SUFFICES ASSUME IInv, Sgir \/ Pl190SoftInt \/ OierOn PROVE IInv'
  OBVIOUS
<1>1. Position /\ Devices /\ Kinds
  BY DEF IInv
<1>2. ASSUME NEW op \in Fires, Does(op)
      PROVE  /\ board' = board /\ op = "sgir" => board \in GicBoards
             /\ op = "pl190_softint" => board = "versatile"
             /\ op = "oier_on" => board = "sa1100"
  <2>1. ProgramShape(board)
    BY <1>1, Shape
  <2>2. op \notin HandlerSteps
    BY DEF Fires, HandlerSteps
  <2>3. at \in 1..Len(Benchmark(board)) /\ Benchmark(board)[at] = op /\ board' = board
    BY <1>1, <1>2, <2>2, BenchmarkStep
  <2> QED
    BY <2>1, <2>3 DEF ProgramShape
<1>3. CASE Sgir
  <2>1. Does("sgir") /\ UNCHANGED <<status, cpu, pl190, ost>> /\ "sgir" \in Fires
    BY <1>3 DEF Sgir, Fires
  <2>2. board \in GicBoards /\ board' = board /\ board \in DOMAIN Board
    BY <1>1, <1>2, <2>1, Shape DEF Does
  <2>3. SentToSelf /\ Board[board].id % 16 = 0
    BY <2>2, BoardFacts DEF KindShape, SentToSelf
  <2>4. gic' = [gic EXCEPT !.pending = @ \cup {0}]
    BY <1>3, <2>3 DEF Sgir
  <2>5. Devices' /\ gic'.active = gic.active /\ gic'.configured = gic.configured
    BY <1>1, <2>1, <2>4 DEF Devices
  <2>6. Kinds'
    BY <1>1, <2>1, <2>2 DEF Kinds
  <2> QED
    BY <2>1, <2>5, <2>6, FireKeeps
<1>4. CASE Pl190SoftInt
  <2>1. /\ Does("pl190_softint") /\ UNCHANGED <<status, cpu, gic, ost>> /\ "pl190_softint" \in Fires
        /\ pl190' = [pl190 EXCEPT !["softint"] = TRUE]
    BY <1>4 DEF Pl190SoftInt, Pl190Write, Fires
  <2>2. board = "versatile" /\ board' = board
    BY <1>2, <2>1 DEF Does
  <2>3. Devices' /\ gic' = gic
    BY <1>1, <2>1 DEF Devices
  <2>4. Kinds'
    BY <1>1, <2>1, <2>2 DEF Kinds
  <2> QED
    BY <2>1, <2>3, <2>4, FireKeeps
<1>5. CASE OierOn
  <2>1. /\ Does("oier_on") /\ UNCHANGED <<status, cpu, gic, pl190>> /\ "oier_on" \in Fires
        /\ ost' = [ost EXCEPT !["oier"] = TRUE]
    BY <1>5 DEF OierOn, OstWrite, Fires
  <2>2. board = "sa1100" /\ board' = board
    BY <1>2, <2>1 DEF Does
  <2>3. Devices' /\ gic' = gic
    BY <1>1, <2>1 DEF Devices
  <2>4. Kinds'
    BY <1>1, <2>1, <2>2 DEF Kinds
  <2> QED
    BY <2>1, <2>3, <2>4, FireKeeps
<1> QED
  BY <1>3, <1>4, <1>5

\* Clearing the flag, and seeing it set: nothing is asserted at either.
LEMMA LoopKeeps == IInv /\ (ClearFlag \/ Wait) => IInv'
<1> SUFFICES ASSUME IInv, ClearFlag \/ Wait PROVE IInv'
  OBVIOUS
<1> DEFINE s == LoopStart(board)
           e == LoopEnd(board)
           f == FireAt(board)
<1>1. Position /\ Devices /\ Kinds /\ Quiet /\ Count /\ Checked
  BY DEF IInv
<1>2. PICK op \in {"clear_flag", "wait"} :
          /\ Does(op)
          /\ UNCHANGED <<status, masked, installed, served, gic, pl190, ost>>
          /\ \/ op = "clear_flag" /\ flag' = FALSE
             \/ op = "wait" /\ flag /\ flag' = flag
  BY DEF ClearFlag, Wait, cpu, devices
<1>3. status \in {"run", "abort", "done"} /\ masked \in BOOLEAN /\ installed \in BOOLEAN /\ flag \in BOOLEAN
  BY <1>1 DEF Position
<1>4. flag' \in BOOLEAN
  BY <1>2, <1>3
<1>5. Position'
  BY <1>1, <1>2, <1>3, <1>4, PositionKept
<1>6. Devices'
  BY <1>1, <1>2 DEF Devices
<1>7. op \notin HandlerSteps /\ op # "check_pidr"
  BY DEF HandlerSteps
<1>8. Checked'
  BY <1>1, <1>2, <1>7, CheckedOnward
<1>9. ProgramShape(board)
  BY <1>1, Shape
<1>10. /\ isr = 0 /\ at \in 1..Len(Benchmark(board)) /\ Benchmark(board)[at] = op
       /\ board' = board /\ isr' = isr /\ ~InHandler
       /\ \/ at = e /\ iter < Iters /\ at' = s /\ iter' = iter + 1
          \/ at' = at + 1 /\ iter' = iter
  BY <1>1, <1>2, <1>7, BenchmarkStep
<1>11. s \in Nat /\ s > 2 /\ f \in Nat /\ s < f /\ f < e /\ e \in Nat
  BY <1>9 DEF ProgramShape
<1>12. (op = "clear_flag" => at = s) /\ (op = "wait" => at = e)
  BY <1>9, <1>10 DEF ProgramShape
<1>13. s' = s /\ e' = e /\ f' = f /\ iter \in Nat
  BY <1>1, <1>10, SwiAssumption DEF Position
<1> HIDE DEF s, e, f
<1>14. Kinds'
  BY <1>1, <1>2, <1>10 DEF Kinds
<1>15. Armed <=> f < at /\ at <= e
  BY DEF Armed, f, e
<1>16. Armed' <=> f' < at' /\ at' <= e'
  BY DEF Armed, f, e
<1>17. ~Asserted /\ ~InHandler
  <2>1. CASE op = "clear_flag"
    <3>1. ~Armed
      BY <1>11, <1>12, <1>15, <2>1
    <3> QED
      BY <1>1, <1>10, <3>1 DEF Quiet
  <2>2. CASE op = "wait"
    BY <1>1, <1>2, <1>10, <2>2 DEF Quiet
  <2> QED
    BY <2>1, <2>2
<1>18. ~Asserted' /\ ~InHandler' /\ gic'.active = {} /\ isr' = 0
  <2>1. gic.active = {}
    BY <1>1, <1>10 DEF Quiet
  <2> QED
    BY <1>2, <1>10, <1>17, <2>1 DEF Asserted, InHandler
<1>19. Quiet'
  <2>1. s' < at' /\ at' <= f' => ~flag'
    BY <1>2, <1>10, <1>11, <1>12, <1>13
  <2>2. installed'
    <3>1. at > s - 2 => installed
      BY <1>1 DEF Quiet, s
    <3> QED
      BY <1>2, <1>11, <1>12, <3>1
  <2> QED
    BY <1>18, <2>1, <2>2 DEF Quiet, s, f
<1>20. Count'
  <2>1. served = IF at > e \/ (at > s /\ flag) THEN iter ELSE iter - 1
    BY <1>1 DEF Count, s, e
  <2>2. served' = IF at' > e' \/ (at' > s' /\ flag') THEN iter' ELSE iter' - 1
    <3>1. CASE op = "clear_flag"
      BY <1>2, <1>10, <1>11, <1>12, <1>13, <2>1, <3>1
    <3>2. CASE op = "wait"
      BY <1>2, <1>10, <1>11, <1>12, <1>13, <2>1, <3>2
    <3> QED
      BY <3>1, <3>2
  <2> QED
    BY <2>2 DEF Count, s, e
<1> QED
  BY <1>5, <1>6, <1>8, <1>14, <1>19, <1>20 DEF IInv

------------------------------------------------------------------------------
(* The steps of the handler, and those beside the program *)

LEMMA SetFlagKeeps == IInv /\ SetFlag => IInv'
<1> SUFFICES ASSUME IInv, SetFlag PROVE IInv'
  OBVIOUS
<1>1. Position /\ Devices /\ Kinds /\ Quiet /\ Count /\ Checked
  BY DEF IInv
<1>2. Does("set_flag") /\ flag' = TRUE /\ served' = served + 1 /\ UNCHANGED <<status, masked, installed, gic, pl190, ost>>
  BY DEF SetFlag, devices
<1>3. "set_flag" \in HandlerSteps
  BY DEF HandlerSteps
<1>4. status = "run" /\ InHandler /\ UNCHANGED <<board, identified, at, iter>> /\ isr = 1 /\ isr' = 2
  BY <1>1, <1>2, <1>3, HandlerStep
<1>5. flag' \in BOOLEAN /\ flag'
  BY <1>2
<1>6. Position'
  <2>1. status \in {"run", "abort", "done"} /\ masked \in BOOLEAN /\ installed \in BOOLEAN
    BY <1>1 DEF Position
  <2> QED
    BY <1>1, <1>2, <1>5, <2>1, PositionKept
<1>7. Devices' /\ Kinds'
  BY <1>1, <1>2, <1>4 DEF Devices, Kinds
<1>8. Checked'
  BY <1>1, <1>2, <1>4, CheckedBeside
<1>9. ~flag /\ Armed /\ gic.active = {}
  BY <1>1, <1>4 DEF Quiet
<1>10. Armed' /\ InHandler'
  BY <1>4, <1>9 DEF Armed, InHandler
<1>11. ProgramShape(board) /\ at \in Nat /\ iter \in Nat
  BY <1>1, Shape, SwiAssumption DEF Position, ProgramShape
<1>12. /\ LoopStart(board) \in Nat /\ FireAt(board) \in Nat /\ LoopEnd(board) \in Nat
       /\ LoopStart(board) < FireAt(board) /\ FireAt(board) < at /\ at <= LoopEnd(board)
  BY <1>9, <1>11 DEF ProgramShape, Armed
<1>13. Quiet'
  <2>1. ~(at <= FireAt(board))
    BY <1>11, <1>12
  <2>2. installed
    BY <1>1, <1>11, <1>12 DEF Quiet
  <2> QED
    BY <1>2, <1>4, <1>5, <1>9, <1>10, <2>1, <2>2 DEF Quiet
<1>14. Count'
  <2>1. served = iter - 1
    BY <1>1, <1>9, <1>11, <1>12 DEF Count
  <2>2. served' = iter
    BY <1>2, <1>11, <2>1
  <2>3. at' > LoopStart(board)' /\ flag' /\ iter' = iter
    BY <1>4, <1>5, <1>11, <1>12
  <2> QED
    BY <2>2, <2>3 DEF Count
<1> QED
  BY <1>6, <1>7, <1>8, <1>13, <1>14 DEF IInv

\* An access of platform_clear_swi: the flag is set, and the request is
\* withdrawn by the time the handler returns.
LEMMA ClearKeeps ==
    ASSUME IInv, NEW op, op \in HandlerSteps, op # "set_flag", Does(op), UNCHANGED <<status, cpu>>,
           Devices', gic'.configured = gic.configured,
           gic'.pending \subseteq gic.pending, pl190'.softint => pl190.softint, ost'.oier => ost.oier,
           op \in {"iar", "cpendsgir"} => gic'.pending = {},
           op = "pl190_softintclear" => ~pl190'.softint, op = "oier_off" => ~ost'.oier,
           op = "eoir" => gic'.active = {}, op \notin {"iar", "cpendsgir"} => gic'.active \subseteq gic.active
    PROVE  IInv'
<1>1. Position /\ Devices /\ Kinds /\ Quiet /\ Count /\ Checked
  BY DEF IInv
<1>2. masked' = masked /\ installed' = installed /\ flag' = flag /\ served' = served
  BY DEF cpu
<1>3. Position'
  <2>1. status \in {"run", "abort", "done"} /\ masked \in BOOLEAN /\ installed \in BOOLEAN /\ flag \in BOOLEAN
    BY <1>1 DEF Position
  <2> QED
    BY <1>1, <1>2, <2>1, PositionKept
<1>4. /\ status = "run" /\ InHandler /\ UNCHANGED <<board, identified, at, iter>>
      /\ \/ op = "iar" /\ board \in GicBoards /\ isr = 2 /\ isr' = 3
         \/ op = "cpendsgir" /\ board \in GicBoards /\ isr = 3 /\ isr' = 4
         \/ op = "eoir" /\ board \in GicBoards /\ isr = 4 /\ isr' = 0
         \/ op = "pl190_softintclear" /\ board = "versatile" /\ isr = 2 /\ isr' = 0
         \/ op = "ossr" /\ board = "sa1100" /\ isr = 2 /\ isr' = 3
         \/ op = "oier_off" /\ board = "sa1100" /\ isr = 3 /\ isr' = 0
  BY <1>1, HandlerStep
<1>5. Checked'
  BY <1>1, <1>4, CheckedBeside
<1>6. Kinds'
  BY <1>1, <1>4 DEF Kinds
<1>7. flag /\ Armed /\ Armed'
  <2>1. isr # 1
    BY <1>4
  <2>2. flag /\ Armed
    BY <1>1, <1>4, <2>1 DEF Quiet, Position
  <2> QED
    BY <1>4, <2>2 DEF Armed
<1>8. Count'
  BY <1>1, <1>2, <1>4 DEF Count
<1>9. Quiet'
  <2>1. board \in GicBoards => ~pl190.softint /\ ~ost.oier
    BY <1>1 DEF Kinds, GicBoards
  <2>2. board \in GicBoards /\ isr > 2 => gic.pending = {}
    BY <1>1 DEF Quiet
  <2>3. board = "versatile" => gic.pending = {} /\ ~ost.oier
    BY <1>1 DEF Kinds, GicBoards
  <2>4. board = "sa1100" => gic.pending = {} /\ ~pl190.softint
    BY <1>1 DEF Kinds, GicBoards
  <2>5. isr' = 0 => ~Asserted'
    BY <1>4, <2>1, <2>2, <2>3, <2>4 DEF Asserted
  <2>6. InHandler' <=> isr' # 0
    BY <1>4 DEF InHandler
  <2>7. board \in GicBoards /\ isr' > 2 => gic'.pending = {}
    BY <1>4, <2>2 DEF GicBoards
  <2>8. gic'.active # {} => board \in GicBoards /\ isr' \in {3, 4}
    <3>1. gic.active # {} => board \in GicBoards /\ isr \in {3, 4}
      BY <1>1 DEF Quiet
    <3>2. "versatile" \notin GicBoards /\ "sa1100" \notin GicBoards
      BY DEF GicBoards
    <3> QED
      BY <1>4, <3>1, <3>2
  <2>9. /\ LoopStart(board) < at /\ at <= FireAt(board) => ~flag
        /\ at > LoopStart(board) - 2 => installed
    BY <1>1 DEF Quiet
  <2>10. isr' # 1
    BY <1>4
  <2> QED
    BY <1>2, <1>4, <1>7, <2>5, <2>6, <2>7, <2>8, <2>9, <2>10 DEF Quiet
<1> QED
  BY <1>3, <1>5, <1>6, <1>8, <1>9 DEF IInv

LEMMA ClearsKeep == IInv /\ (Iar \/ Cpendsgir \/ Eoir \/ Pl190SoftIntClear \/ Ossr \/ OierOff) => IInv'
<1> SUFFICES ASSUME IInv, Iar \/ Cpendsgir \/ Eoir \/ Pl190SoftIntClear \/ Ossr \/ OierOff PROVE IInv'
  OBVIOUS
<1>1. Devices
  BY DEF IInv
<1>2. CASE Iar
  <2>1. /\ Does("iar") /\ UNCHANGED <<status, cpu, pl190, ost>> /\ "iar" \in HandlerSteps
        /\ gic' = [gic EXCEPT !.active = @ \cup gic.pending, !.pending = {}]
    BY <1>2 DEF Iar, HandlerSteps
  <2>2. Devices' /\ gic'.configured = gic.configured /\ gic'.pending = {}
    BY <1>1, <2>1 DEF Devices
  <2> QED
    BY <2>1, <2>2, ClearKeeps
<1>3. CASE Cpendsgir
  <2>1. /\ Does("cpendsgir") /\ UNCHANGED <<status, cpu, pl190, ost>> /\ "cpendsgir" \in HandlerSteps
        /\ gic' = [gic EXCEPT !.pending = @ \ {0}]
    BY <1>3 DEF Cpendsgir, HandlerSteps
  <2>2. Devices' /\ gic'.configured = gic.configured /\ gic'.pending = {}
    BY <1>1, <2>1 DEF Devices
  <2> QED
    BY <2>1, <2>2, ClearKeeps
<1>4. CASE Eoir
  <2>1. /\ Does("eoir") /\ UNCHANGED <<status, cpu, pl190, ost>> /\ "eoir" \in HandlerSteps
        /\ gic' = [gic EXCEPT !.active = {}]
    BY <1>4 DEF Eoir, HandlerSteps
  <2>2. Devices' /\ gic'.configured = gic.configured /\ gic'.pending = gic.pending /\ gic'.active = {}
    BY <1>1, <2>1 DEF Devices
  <2> QED
    BY <2>1, <2>2, ClearKeeps
<1>5. CASE Pl190SoftIntClear
  <2>1. /\ Does("pl190_softintclear") /\ UNCHANGED <<status, cpu, gic, ost>> /\ "pl190_softintclear" \in HandlerSteps
        /\ pl190' = [pl190 EXCEPT !["softint"] = FALSE]
    BY <1>5 DEF Pl190SoftIntClear, Pl190Write, HandlerSteps
  <2>2. Devices' /\ gic' = gic /\ ~pl190'.softint
    BY <1>1, <2>1 DEF Devices
  <2> QED
    BY <2>1, <2>2, ClearKeeps
<1>6. CASE Ossr
  <2>1. /\ Does("ossr") /\ UNCHANGED <<status, cpu, gic, pl190>> /\ "ossr" \in HandlerSteps
        /\ ost' = [ost EXCEPT !["ossr"] = FALSE]
    BY <1>6 DEF Ossr, OstWrite, HandlerSteps
  <2>2. Devices' /\ gic' = gic /\ ost'.oier = ost.oier
    BY <1>1, <2>1 DEF Devices
  <2> QED
    BY <2>1, <2>2, ClearKeeps
<1>7. CASE OierOff
  <2>1. /\ Does("oier_off") /\ UNCHANGED <<status, cpu, gic, pl190>> /\ "oier_off" \in HandlerSteps
        /\ ost' = [ost EXCEPT !["oier"] = FALSE]
    BY <1>7 DEF OierOff, OstWrite, HandlerSteps
  <2>2. Devices' /\ gic' = gic /\ ~ost'.oier
    BY <1>1, <2>1 DEF Devices
  <2> QED
    BY <2>1, <2>2, ClearKeeps
<1> QED
  BY <1>2, <1>3, <1>4, <1>5, <1>6, <1>7

\* The line needs a request.
LEMMA LineAsserted ==
    ASSUME Devices
    PROVE  Line => Asserted
BY DEF Devices, Line, GicForwards, Pl190Asserts, TimerAsserts, Asserted

LEMMA TakeIrqKeeps == IInv /\ TakeIrq => IInv'
<1> SUFFICES ASSUME IInv, TakeIrq PROVE IInv'
  OBVIOUS
<1>1. Position /\ Devices /\ Kinds /\ Quiet /\ Count /\ Checked
  BY DEF IInv
<1>2. /\ status = "run" /\ Line /\ ~InHandler /\ UNCHANGED <<board, at, iter, identified>>
      /\ UNCHANGED <<masked, installed, flag, served, gic, pl190, ost>>
  BY DEF TakeIrq, cpu, devices
<1>3. Asserted /\ Armed /\ ~flag
  BY <1>1, <1>2, LineAsserted DEF Quiet
<1>4. ProgramShape(board) /\ HandlerShape(board) /\ board \in DOMAIN Board
  BY <1>1, Shape
<1>5. installed
  <2>1. /\ LoopStart(board) \in Nat /\ FireAt(board) \in Nat /\ at \in Nat
        /\ LoopStart(board) < FireAt(board) /\ FireAt(board) < at
    BY <1>1, <1>3, <1>4 DEF ProgramShape, Armed, Position
  <2> QED
    BY <1>1, <2>1 DEF Quiet
<1>6. isr' = 1 /\ status' = status
  BY <1>5 DEF TakeIrq
<1>7. isr = 0
  BY <1>1, <1>2 DEF Position, InHandler
<1>8. Position'
  <2>1. Len(Handler(board)) = 2 \/ Len(Handler(board)) = 3 \/ Len(Handler(board)) = 4
    BY <1>4, BoardKinds DEF HandlerShape
  <2>2. 1 \in 0..Len(Handler(board))
    BY <2>1
  <2> QED
    BY <1>1, <1>2, <1>6, <2>2 DEF Position
<1>9. Devices' /\ Kinds' /\ Count'
  BY <1>1, <1>2 DEF Devices, Kinds, Count
<1>10. Checked'
  BY <1>1, <1>2, <1>6, CheckedBeside
<1>11. Quiet'
  <2>1. Armed' /\ ~flag' /\ gic'.active = {} /\ InHandler'
    BY <1>1, <1>2, <1>3, <1>6, <1>7 DEF Armed, Quiet, InHandler
  <2> QED
    BY <1>1, <1>2, <1>6, <2>1 DEF Quiet
<1> QED
  BY <1>8, <1>9, <1>10, <1>11 DEF IInv

LEMMA TickKeeps == IInv /\ Tick => IInv'
<1> SUFFICES ASSUME IInv, Tick PROVE IInv'
  OBVIOUS
<1>1. Position /\ Devices /\ Kinds /\ Quiet /\ Count /\ Checked
  BY DEF IInv
<1>2. /\ UNCHANGED <<board, status, at, iter, isr, identified, gic, pl190>>
      /\ UNCHANGED <<masked, installed, flag, served>>
  BY DEF Tick, cpu
<1>3. Devices' /\ ost'.oier = ost.oier
  <2> DEFINE n == (ost.oscr + 1) % TimerWrap
             match == ost.ossr \/ n = ost.osmr
  <2>1. ost' = [ost EXCEPT !.oscr = n, !.ossr = match]
    BY DEF Tick
  <2>2. n \in 0..(TimerWrap - 1)
    <3>1. ost.oscr + 1 \in Nat /\ TimerWrap \in Nat /\ TimerWrap > 0
      BY <1>1, SwiAssumption DEF Devices
    <3> QED
      BY <3>1
  <2>3. match \in BOOLEAN
    OBVIOUS
  <2> HIDE DEF n, match
  <2> QED
    BY <1>1, <1>2, <2>1, <2>2, <2>3 DEF Devices
<1>4. Position' /\ Kinds' /\ Count'
  BY <1>1, <1>2, <1>3 DEF Position, Kinds, Count
<1>5. Checked'
  BY <1>1, <1>2, CheckedBeside
<1>6. Quiet'
  <2>1. (Asserted' <=> Asserted) /\ (Armed' <=> Armed) /\ (InHandler' <=> InHandler)
    BY <1>2, <1>3 DEF Asserted, Armed, InHandler
  <2> QED
    BY <1>1, <1>2, <2>1 DEF Quiet
<1> QED
  BY <1>3, <1>4, <1>5, <1>6 DEF IInv

LEMMA StoppedKeeps == IInv /\ (Finish \/ Spin \/ UNCHANGED vars) => IInv'
<1> SUFFICES ASSUME IInv, Finish \/ Spin \/ UNCHANGED vars PROVE IInv'
  OBVIOUS
<1>1. Position /\ Devices /\ Kinds /\ Quiet /\ Count /\ Checked
  BY DEF IInv
<1>2. /\ UNCHANGED <<board, at, iter, isr, identified, gic, pl190, ost>>
      /\ UNCHANGED <<masked, installed, flag, served>>
      /\ status' = status \/ (status = "run" /\ status' = "done")
  BY DEF Finish, Spin, vars, cpu, devices
<1>3. Position' /\ Devices' /\ Kinds' /\ Count'
  BY <1>1, <1>2 DEF Position, Devices, Kinds, Count
<1>4. Quiet'
  <2>1. (Asserted' <=> Asserted) /\ (Armed' <=> Armed) /\ (InHandler' <=> InHandler)
    BY <1>2 DEF Asserted, Armed, InHandler
  <2> QED
    BY <1>1, <1>2, <2>1 DEF Quiet
<1>5. Checked'
  <2>1. CASE status' = status
    BY <1>1, <1>2, <2>1, CheckedBeside
  <2>2. CASE status' = "done"
    BY <2>2 DEF Checked, UnknownGicUntouched
  <2> QED
    BY <1>2, <2>1, <2>2
<1> QED
  BY <1>3, <1>4, <1>5 DEF IInv

------------------------------------------------------------------------------
(* The invariant of the specification, and what follows *)

LEMMA InitIInv == Init => IInv
<1> SUFFICES ASSUME Init PROVE IInv
  OBVIOUS
<1>1. /\ board \in Boards /\ board \in DOMAIN Board /\ status = "run"
      /\ at = 1 /\ iter = 1 /\ isr = 0 /\ served = 0
      /\ installed = FALSE /\ flag = FALSE /\ identified \in BOOLEAN
  BY BoardsAssumption DEF Init
<1>2. ProgramShape(board) /\ HandlerShape(board)
  BY <1>1, ProgramFacts, HandlerFacts
<1>3. /\ LoopStart(board) \in Nat /\ LoopStart(board) > 2 /\ FireAt(board) \in Nat
      /\ LoopEnd(board) \in Nat /\ LoopStart(board) < FireAt(board) /\ FireAt(board) < LoopEnd(board)
      /\ Len(Benchmark(board)) = LoopEnd(board) + 1
  BY <1>2 DEF ProgramShape
<1>4. masked \in BOOLEAN
  <2>1. masked = Board[board].masks
    BY DEF Init
  <2>2. CASE board = "virt"
    <3>1. Board[board].masks = FALSE
      BY <2>2 DEF Board, Virt, Gic
    <3> QED
      BY <2>1, <3>1
  <2>3. CASE board \in {"versatile", "sa1100"}
    <3>1. Board[board].masks = TRUE
      BY <2>3 DEF Board, Versatile, Sa1100, Plain
    <3> QED
      BY <2>1, <3>1
  <2>4. CASE board \in {"vexpress_a9", "vexpress_a15", "realview_pba8", "arndale"}
    <3>1. Board[board].masks = TRUE
      BY <2>4 DEF Board, VexpressA9, VexpressA15, RealviewPba8, ArndaleBoard, Gic
    <3> QED
      BY <2>1, <3>1
  <2> QED
    BY <1>1, <2>2, <2>3, <2>4, BoardKinds DEF GicBoards
<1>5. Position
  <2>1. Len(Handler(board)) = 2 \/ Len(Handler(board)) = 3 \/ Len(Handler(board)) = 4
    BY <1>1, <1>2, BoardKinds DEF HandlerShape
  <2>2. at \in 1..(Len(Benchmark(board)) + 1) /\ iter \in 1..Iters
    BY <1>1, <1>3, SwiAssumption
  <2>3. isr \in 0..Len(Handler(board))
    BY <1>1, <2>1
  <2>4. installed \in BOOLEAN /\ flag \in BOOLEAN
    BY <1>1
  <2> QED
    BY <1>1, <1>4, <2>2, <2>3, <2>4 DEF Position
<1>6. /\ gic \in [configured : SUBSET Registers, pending : SUBSET {0}, active : SUBSET {0}]
      /\ gic.configured \subseteq {"isenabler"} /\ gic.pending = {} /\ gic.active = {}
  BY DEF Init, Registers
<1>7. pl190 \in [enable : BOOLEAN, softint : BOOLEAN] /\ ~pl190.softint
  BY DEF Init
<1>8. /\ ost \in [icmr : BOOLEAN, oier : BOOLEAN, ossr : BOOLEAN, osmr : {0, 1}, oscr : 0..(TimerWrap - 1)]
      /\ ~ost.oier
  <2>1. 0 \in 0..(TimerWrap - 1)
    BY SwiAssumption
  <2> QED
    BY <2>1 DEF Init
<1>9. Devices /\ Kinds
  BY <1>6, <1>7, <1>8 DEF Devices, Kinds
<1>10. ~Asserted /\ ~InHandler
  BY <1>1, <1>6, <1>7, <1>8 DEF Asserted, InHandler
<1>11. Quiet
  BY <1>1, <1>3, <1>6, <1>10 DEF Quiet
<1>12. Count
  BY <1>1, <1>3 DEF Count
<1>13. Checked
  BY <1>1, <1>6 DEF Checked, UnknownGicUntouched
<1> QED
  BY <1>5, <1>9, <1>11, <1>12, <1>13 DEF IInv

LEMMA NextIInv == IInv /\ [Next]_vars => IInv'
<1> SUFFICES ASSUME IInv, [Next]_vars PROVE IInv'
  OBVIOUS
<1>1. CASE Step
  BY <1>1, CheckPidrKeeps, GicConfigureKeeps, PreparesKeep, MasksKeep, FiresKeep, LoopKeeps, SetFlagKeeps,
     ClearsKeep, StoppedKeeps DEF Step
<1>2. CASE TakeIrq
  BY <1>2, TakeIrqKeeps
<1>3. CASE Tick
  BY <1>3, TickKeeps
<1>4. CASE Spin \/ UNCHANGED vars
  BY <1>4, StoppedKeeps
<1> QED
  BY <1>1, <1>2, <1>3, <1>4 DEF Next

LEMMA BoardsInvariant == Spec => []IInv
<1> QED
  BY InitIInv, NextIInv, PTL DEF Spec

\* Every place, register and counter keeps its type; the handler never runs
\* more often than the kernel iterates.
THEOREM BoardsTypeCorrect == Spec => []TypeOK
<1>1. IInv => TypeOK
  <2> SUFFICES ASSUME IInv PROVE TypeOK
    OBVIOUS
  <2>1. Position /\ Devices /\ Count
    BY DEF IInv
  <2>2. served \in 0..Iters
    <3>1. iter \in 1..Iters /\ Iters \in Nat
      BY <2>1, SwiAssumption DEF Position
    <3>2. served = iter \/ served = iter - 1
      BY <2>1 DEF Count
    <3> QED
      BY <3>1, <3>2
  <2>3. gic.pending \subseteq 0..15 /\ gic.active \subseteq 0..15
    <3>1. gic.pending \subseteq {0} /\ gic.active \subseteq {0}
      BY <2>1 DEF Devices
    <3> QED
      BY <3>1
  <2>4. /\ pl190 \in [enable : BOOLEAN, softint : BOOLEAN] /\ ost.osmr \in {0, 1}
        /\ ost.oscr \in 0..(TimerWrap - 1) /\ {ost.icmr, ost.oier, ost.ossr} \subseteq BOOLEAN
    BY <2>1 DEF Devices
  <2>5. {masked, installed, flag, identified} \subseteq BOOLEAN
    BY <2>1 DEF Position
  <2> QED
    BY <2>1, <2>2, <2>3, <2>4, <2>5 DEF TypeOK, Position
<1> QED
  BY <1>1, BoardsInvariant, PTL

\* The board code stops at a controller it does not know before it has
\* written a register of it: the check comes first on every board that has
\* one, and the only other stop, an interrupt without a handler, never
\* happens.
THEOREM BoardsUnknownGicUntouched == Spec => []UnknownGicUntouched
<1>1. IInv => UnknownGicUntouched
  BY DEF IInv, Checked
<1> QED
  BY <1>1, BoardsInvariant, PTL

\* Nothing is asserted once the kernel has ended, on any board: each handler
\* withdraws its own request before it returns, and nothing fires after the
\* last wait.
THEOREM BoardsQuietAtCleanup == Spec => []QuietAtCleanup
<1>1. IInv => QuietAtCleanup
  <2> SUFFICES ASSUME IInv, Ended PROVE ~Line /\ gic.active = {}
    BY DEF QuietAtCleanup
  <2>1. Position /\ Devices /\ Quiet
    BY DEF IInv
  <2>2. at > LoopEnd(board) /\ at \in Nat /\ LoopEnd(board) \in Nat
    <3>1. ProgramShape(board) /\ at \in Nat
      BY <2>1, Shape DEF Position, ProgramShape
    <3> QED
      BY <3>1 DEF ProgramShape, Ended
  <2>3. ~Armed
    BY <2>2 DEF Armed
  <2>4. ~Asserted /\ ~InHandler
    BY <2>1, <2>3 DEF Quiet
  <2>5. gic.active = {}
    BY <2>1, <2>4 DEF Quiet, InHandler
  <2> QED
    BY <2>1, <2>4, <2>5, LineAsserted
<1> QED
  BY <1>1, BoardsInvariant, PTL

\* The request of the contract, by places.
WaitingPlace ==
    /\ status = "run" /\ ~flag /\ LoopStart(board) < at /\ at <= LoopEnd(board)
    /\ Benchmark(board)[at] # "check_pidr"

LEMMA WaitingFacts == Position /\ Quiet => (Waiting <=> WaitingPlace)
<1> SUFFICES ASSUME Position, Quiet PROVE Waiting <=> WaitingPlace
  OBVIOUS
<1> DEFINE n == Len(Benchmark(board))
           s == LoopStart(board)
           e == LoopEnd(board)
<1>1. ProgramShape(board)
  BY Shape
<1>2. n \in Nat /\ s \in Nat /\ s > 2 /\ e \in Nat /\ n = e + 1 /\ at \in 1..(n + 1)
  BY <1>1 DEF ProgramShape, Position
<1>3. \A i \in 1..n : Benchmark(board)[i] \in (ToSet(Board[board].trigger) \ {"check_pidr"}) \cup {"wait"}
                        <=> i > s /\ i <= e /\ Benchmark(board)[i] # "check_pidr"
  BY <1>1 DEF ProgramShape
<1>4. at > s - 2 => installed
  BY DEF Quiet
<1>5. Ended <=> at > n
  BY DEF Ended
<1> HIDE DEF n, s, e
<1>6. CASE at \in 1..n
  <2>1. ~Ended
    BY <1>2, <1>5, <1>6
  <2>2. Benchmark(board)[at] \in (ToSet(Board[board].trigger) \ {"check_pidr"}) \cup {"wait"}
          <=> at > s /\ at <= e /\ Benchmark(board)[at] # "check_pidr"
    BY <1>3, <1>6
  <2>3. at > s => installed
    BY <1>2, <1>4, <1>6
  <2>4. at > s <=> s < at
    BY <1>2, <1>6
  <2> QED
    BY <2>1, <2>2, <2>3, <2>4 DEF Waiting, WaitingPlace, s, e
<1>7. CASE at = n + 1
  <2>1. Ended /\ ~(at <= e)
    BY <1>2, <1>5, <1>7
  <2> QED
    BY <2>1 DEF Waiting, WaitingPlace, e
<1> QED
  BY <1>2, <1>6, <1>7

\* Every step of a board is a step of the contract, or none.
LEMMA ContractStep ==
    ASSUME IInv, IInv', [Next]_vars
    PROVE  [Contract!Next]_<<Waiting, served>>
<1>1. Position /\ Quiet /\ Position' /\ Quiet'
  BY DEF IInv
<1>2. Waiting \in BOOLEAN /\ Waiting' \in BOOLEAN
  BY DEF Waiting
<1>w. Waiting <=> /\ status = "run" /\ ~flag /\ LoopStart(board) < at /\ at <= LoopEnd(board)
                  /\ Benchmark(board)[at] # "check_pidr"
  BY <1>1, WaitingFacts DEF WaitingPlace
<1>v. Waiting' <=> /\ status' = "run" /\ ~flag' /\ LoopStart(board') < at' /\ at' <= LoopEnd(board')
                   /\ Benchmark(board')[at'] # "check_pidr"
  <2>1. Waiting' <=> WaitingPlace'
    BY <1>1, WaitingFacts, PTL
  <2> QED
    BY <2>1 DEF WaitingPlace
<1>3. ProgramShape(board)
  BY <1>1, Shape
<1>4. /\ LoopStart(board) \in Nat /\ LoopEnd(board) \in Nat /\ FireAt(board) \in Nat /\ at \in Nat
      /\ LoopStart(board) < FireAt(board) /\ FireAt(board) < LoopEnd(board)
      /\ Len(Benchmark(board)) = LoopEnd(board) + 1
  BY <1>1, <1>3 DEF ProgramShape, Position
\* A step that leaves the flag, or clears it where nothing waits.
<1>5. ASSUME NEW op, op \notin HandlerSteps, Does(op), served' = served,
             flag' = flag \/ op = "clear_flag", op = "wait" => flag
      PROVE  Waiting => Waiting' \/ status' # "run"
  <2> SUFFICES ASSUME Waiting, status' = "run" PROVE Waiting'
    OBVIOUS
  <2>1. /\ at \in 1..Len(Benchmark(board)) /\ Benchmark(board)[at] = op /\ board' = board
        /\ at = LoopEnd(board) \/ at' = at + 1
    BY <1>1, <1>5, BenchmarkStep
  <2>2. ~flag /\ LoopStart(board) < at /\ at <= LoopEnd(board)
    BY <1>w
  <2>3. at # LoopEnd(board) /\ op # "clear_flag"
    BY <1>3, <1>4, <1>5, <2>1, <2>2 DEF ProgramShape
  <2>4. at' = at + 1 /\ at' <= LoopEnd(board) /\ LoopStart(board) + 1 < at' /\ at' \in 1..Len(Benchmark(board))
    BY <1>4, <2>1, <2>2, <2>3
  <2>5. Benchmark(board)[at'] # "check_pidr"
    BY <1>3, <1>4, <2>4 DEF ProgramShape
  <2> QED
    BY <1>v, <1>4, <1>5, <2>1, <2>2, <2>3, <2>4, <2>5
<1>6. ASSUME served' = served, Waiting => Waiting'
      PROVE  [Contract!Next]_<<Waiting, served>>
  <2>1. CASE Waiting
    <3>1. Waiting' = Waiting
      BY <1>2, <1>6, <2>1
    <3> QED
      BY <1>6, <3>1
  <2>2. CASE ~Waiting /\ Waiting'
    BY <1>2, <1>6, <2>2 DEF Contract!Next, Contract!Request
  <2>3. CASE ~Waiting /\ ~Waiting'
    BY <1>2, <1>6, <2>3
  <2> QED
    BY <2>1, <2>2, <2>3
\* The handler of swi.c serves the request.
<1>7. CASE SetFlag
  <2>1. "set_flag" \in HandlerSteps
    BY DEF HandlerSteps
  <2>2. status = "run" /\ InHandler /\ isr = 1
    BY <1>1, <1>7, <2>1, HandlerStep DEF SetFlag
  <2>3. ~flag /\ FireAt(board) < at /\ at <= LoopEnd(board)
    BY <1>1, <2>2 DEF Quiet, Armed
  <2>4. Benchmark(board)[at] # "check_pidr"
    BY <1>3, <1>4, <2>3 DEF ProgramShape
  <2>5. Waiting
    BY <1>w, <1>4, <2>2, <2>3, <2>4
  <2>6. ~Waiting' /\ served' = served + 1
    BY <1>v, <1>7 DEF SetFlag
  <2> QED
    BY <1>2, <2>5, <2>6 DEF Contract!Next, Contract!Serve
\* The accesses of platform_clear_swi: nothing waits any more.
<1>8. CASE Iar \/ Cpendsgir \/ Eoir \/ Pl190SoftIntClear \/ Ossr \/ OierOff
  <2>1. PICK op \in HandlerSteps \ {"set_flag"} : Does(op) /\ UNCHANGED cpu
    BY <1>8 DEF Iar, Cpendsgir, Eoir, Pl190SoftIntClear, Pl190Write, Ossr, OierOff, OstWrite, HandlerSteps
  <2>2. InHandler /\ isr # 1
    BY <1>1, <2>1, HandlerStep
  <2>3. flag
    BY <1>1, <2>2 DEF Quiet
  <2> QED
    BY <1>6, <1>w, <2>1, <2>3 DEF cpu
<1>9. CASE CheckPidr
  <2>1. "check_pidr" \notin HandlerSteps /\ Does("check_pidr") /\ UNCHANGED cpu
    BY <1>9 DEF HandlerSteps, CheckPidr
  <2>2. Benchmark(board)[at] = "check_pidr"
    BY <1>1, <2>1, BenchmarkStep
  <2> QED
    BY <1>6, <1>w, <2>1, <2>2 DEF cpu
<1>10. CASE \/ GicConfigure \/ Sgir \/ Pl190Enable \/ Pl190SoftInt \/ Icmr \/ OierOn \/ Oscr \/ Osmr
            \/ IrqInstall \/ IrqEnable \/ IrqDisable \/ ClearFlag \/ Wait
  <2>1. PICK op : /\ op \notin HandlerSteps /\ Does(op) /\ status' = status /\ served' = served
                  /\ flag' = flag \/ op = "clear_flag"
                  /\ op = "wait" => flag
    <3>1. CASE GicConfigure
      BY <3>1 DEF GicConfigure, Registers, HandlerSteps, cpu
    <3>2. CASE Sgir \/ Pl190Enable \/ Pl190SoftInt \/ Icmr \/ OierOn \/ Oscr \/ Osmr
      <4>1. PICK op \in Fires \cup Prepares : Does(op) /\ status' = status /\ UNCHANGED cpu
        <5>1. CASE Sgir
          BY <5>1 DEF Sgir, Fires
        <5>2. CASE Pl190Enable \/ Pl190SoftInt
          BY <5>2 DEF Pl190Enable, Pl190SoftInt, Pl190Write, Fires, Prepares
        <5>3. CASE Icmr \/ OierOn \/ Oscr
          BY <5>3 DEF Icmr, OierOn, Oscr, OstWrite, Fires, Prepares
        <5>4. CASE Osmr
          BY <5>4 DEF Osmr, Prepares
        <5> QED
          BY <3>2, <5>1, <5>2, <5>3, <5>4
      <4>2. op \notin HandlerSteps /\ op # "wait"
        BY DEF HandlerSteps, Fires, Prepares
      <4> QED
        BY <4>1, <4>2 DEF cpu
    <3>3. CASE IrqInstall \/ IrqEnable \/ IrqDisable \/ ClearFlag \/ Wait
      <4>1. CASE IrqInstall
        BY <4>1 DEF IrqInstall, HandlerSteps
      <4>2. CASE IrqEnable
        BY <4>2 DEF IrqEnable, SetMask, HandlerSteps
      <4>3. CASE IrqDisable
        BY <4>3 DEF IrqDisable, SetMask, HandlerSteps
      <4>4. CASE ClearFlag
        BY <4>4 DEF ClearFlag, HandlerSteps
      <4>5. CASE Wait
        BY <4>5 DEF Wait, HandlerSteps, cpu
      <4> QED
        BY <3>3, <4>1, <4>2, <4>3, <4>4, <4>5
    <3> QED
      BY <1>10, <3>1, <3>2, <3>3
  <2>2. status' = "run"
    BY <2>1 DEF Does
  <2> QED
    BY <1>5, <1>6, <2>1, <2>2
<1>11. CASE Finish
  <2>1. served' = served /\ at > LoopEnd(board)
    BY <1>11, <1>4 DEF Finish, Ended, cpu
  <2> QED
    BY <1>6, <1>w, <1>4, <2>1
<1>12. CASE TakeIrq
  <2>1. UNCHANGED <<board, at, flag, served>> /\ status = "run"
    BY <1>12 DEF TakeIrq, cpu
  <2>2. status' = "run" \/ ~Waiting
    <3>1. CASE installed
      BY <1>12, <2>1, <3>1 DEF TakeIrq
    <3>2. CASE ~installed
      BY <3>2 DEF Waiting
    <3> QED
      BY <3>1, <3>2
  <2> QED
    BY <1>6, <1>w, <1>v, <2>1, <2>2
<1>13. CASE Tick \/ Spin \/ UNCHANGED vars
  <2>1. UNCHANGED <<board, at, flag, served, status>>
    BY <1>13 DEF Tick, Spin, vars, cpu
  <2> QED
    BY <1>6, <1>w, <1>v, <2>1
<1> QED
  BY <1>7, <1>8, <1>9, <1>10, <1>11, <1>12, <1>13 DEF Next, Step

\* Each trigger of swi.c runs its handler once and nothing else does, on
\* every board, wherever between two device accesses the interrupt arrives
\* and however the sa1100's timer ticks (the safety part of
\* OneHandlerRunPerTrigger).
THEOREM BoardsRunHandlerPerTrigger == Spec => Contract!Safety
<1>1. Init => Contract!Init
  <2> SUFFICES ASSUME Init PROVE Contract!Init
    OBVIOUS
  <2>1. served = 0 /\ ~installed
    BY DEF Init
  <2>2. Waiting = FALSE
    BY <2>1 DEF Waiting
  <2> QED
    BY <2>1, <2>2 DEF Contract!Init
<1>2. IInv /\ IInv' /\ [Next]_vars => [Contract!Next]_<<Waiting, served>>
  BY ContractStep
<1> QED
  BY <1>1, <1>2, BoardsInvariant, PTL DEF Spec, Contract!Safety

=============================================================================
