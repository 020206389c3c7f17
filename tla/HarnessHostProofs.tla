------------------------- MODULE HarnessHostProofs -------------------------
(***************************************************************************)
(* What the host reports is what the guest did.                            *)
(*                                                                         *)
(* The stream is what the guest has printed and the host has not read.     *)
(* Every point between two of its characters is a place in the grammar of  *)
(* the protocol; the character in front of a place leads to the next one.  *)
(* The first place says where the host is, the last one where the guest    *)
(* is.  So a print only adds places at one end and a read only takes one   *)
(* away at the other, however the two interleave.                          *)
(*                                                                         *)
(* The places "bad" and "badword" stand for everything after a fault.      *)
(***************************************************************************)
EXTENDS HarnessTextProofs, SequenceTheorems

Stream == pipe \o out

Kinds == {"boot", "bol", "begun", "cat", "cat1", "dash", "name", "name1", "digit", "gap",
          "control", "regap", "kernel", "end1", "end2", "end3", "end4", "bad", "badword"}
Places == [kind : Kinds, b : 1..(N + 1), k : Nat]

\* Whether the guest may stop in the middle.
Faulty == MayDie \/ AbortTexts # {}

------------------------------------------------------------------------------
(* The places of the grammar *)

\* f is the set of what has returned.

\* From kind to kind within one benchmark.
Along(p, from, q, to) == p.kind = from /\ q.kind = to /\ q.b = p.b

BootLink(p, c, q) == Along(p, "boot", q, "boot") /\ c.class # "begin"
BootEnds(p, c, q) == Along(p, "boot", q, "bol") /\ c = Nl
BeginLink(p, c, q) == Along(p, "bol", q, "begun") /\ c = Begin
BegunLink(p, c, q) == Along(p, "begun", q, "cat") /\ c = Nl
BlankLink(p, c, q) == Along(p, "cat", q, "cat") /\ c = Nl
CatLink(p, c, q) ==
    Along(p, "cat", q, "cat1") /\ p.b \in 1..N /\ c = [class |-> "letter", of |-> p.b]
Cat1Link(p, c, q) == Along(p, "cat1", q, "dash") /\ c = Sp
DashLink(p, c, q) == Along(p, "dash", q, "name") /\ c = Ch("dash")
NameSpace(p, c, q) == Along(p, "name", q, "name") /\ c = Sp
NameLink(p, c, q) == Along(p, "name", q, "name1") /\ c = [class |-> "letter", of |-> p.b + N]
Name1Link(p, c, q) == Along(p, "name1", q, "digit") /\ q.k = 0 /\ c = Sp
DigitLink(p, c, q) ==
    /\ Along(p, "digit", q, "digit") /\ p.k < Len(CountChars(p.b)) /\ q.k = p.k + 1
    /\ c = CountChars(p.b)[q.k]
DigitsEnd(p, c, q) ==
    Along(p, "digit", q, "gap") /\ p.k = Len(CountChars(p.b)) /\ c = Sp
ControlOpen(p, c, q) ==
    Along(p, "gap", q, "control") /\ p.b \in HasControl /\ c = Ch("{")
ControlNoise(p, c, q) == Along(p, "control", q, "control") /\ c.class \in Skipped
ControlClose(p, c, q, f) ==
    /\ Along(p, "control", q, "regap") /\ c = Ch("}")
    /\ <<"control", p.b>> \in f
RegapSpace(p, c, q) == Along(p, "regap", q, "regap") /\ c = Sp
KernelOpen(p, c, q) ==
    /\ \/ Along(p, "gap", q, "kernel") /\ p.b \notin HasControl
       \/ Along(p, "regap", q, "kernel") /\ p.b \in HasControl
    /\ c = Ch("[")
KernelNoise(p, c, q) == Along(p, "kernel", q, "kernel") /\ c.class \in Skipped
KernelClose(p, c, q, f) ==
    /\ p.kind = "kernel" /\ q.kind = "cat" /\ q.b = p.b + 1 /\ c = Ch("]")
    /\ <<"kernel", p.b>> \in f
EndLink(p, c, q) == Along(p, "cat", q, "end1") /\ p.b = N + 1 /\ c = Ch("letter")
End1Link(p, c, q) == Along(p, "end1", q, "end2") /\ c = Sp
End2Link(p, c, q) == Along(p, "end2", q, "end3") /\ c = Ch("letter")
End3Link(p, c, q) == Along(p, "end3", q, "end4") /\ c = Nl

\* After a fault a dash stands inside a word only.
BadLink(p, c, q) ==
    /\ Faulty /\ q.kind \in {"bad", "badword"}
    /\ c.class = "dash" => p.kind = "badword"
    /\ q.kind = "badword" => c.class \notin White

StartLink(p, c, q) ==
    \/ BootLink(p, c, q) \/ BootEnds(p, c, q) \/ BeginLink(p, c, q) \/ BegunLink(p, c, q)
    \/ BlankLink(p, c, q)
HeaderLink(p, c, q) ==
    \/ CatLink(p, c, q) \/ Cat1Link(p, c, q) \/ DashLink(p, c, q) \/ NameSpace(p, c, q)
    \/ NameLink(p, c, q)
CountLink(p, c, q) == Name1Link(p, c, q) \/ DigitLink(p, c, q) \/ DigitsEnd(p, c, q)
TimingLink(p, c, q, f) ==
    \/ ControlOpen(p, c, q) \/ ControlNoise(p, c, q) \/ ControlClose(p, c, q, f)
    \/ RegapSpace(p, c, q) \/ KernelOpen(p, c, q) \/ KernelNoise(p, c, q)
    \/ KernelClose(p, c, q, f)
LastLink(p, c, q) ==
    EndLink(p, c, q) \/ End1Link(p, c, q) \/ End2Link(p, c, q) \/ End3Link(p, c, q)
GoodLink(p, c, q, f) ==
    \/ StartLink(p, c, q) \/ HeaderLink(p, c, q) \/ CountLink(p, c, q)
    \/ TimingLink(p, c, q, f) \/ LastLink(p, c, q)
Link(p, c, q, f) == GoodLink(p, c, q, f) \/ BadLink(p, c, q)

------------------------------------------------------------------------------
(* Where the host is *)

\* Whether a control has been timed, by name: SMT takes no truth value for the
\* field of a record.
On == TRUE
Off == FALSE

Filled(cat, name, iter, control) ==
    [cat |-> cat, name |-> name, iter |-> iter, control |-> control]
LineC(b) == Filled(CatText(b), <<>>, <<>>, Off)
LineN(b) == Filled(CatText(b), NameText(b), <<>>, Off)
LineI(b, control) == Filled(CatText(b), NameText(b), CountChars(b), control)
LineK(b) == LineI(b, IF b \in HasControl THEN On ELSE Off)
LineE == Filled(<<Ch("letter")>>, <<>>, <<>>, Off)

\* The host is at directive d, has gathered w and filled l.
HostIs(d, w, l) == hpc = d /\ word = w /\ line = l

\* Report i is right, and was made after the kernel it is about had returned.
Good(i) ==
    /\ i \in 1..N /\ Genuine(reports[i], i)
    /\ <<"kernel", i>> \in finished
    /\ i \in HasControl => <<"control", i>> \in finished
AllGood == \A i \in 1..Len(reports) : Good(i)
AllButLastGood == \A i \in 1..(Len(reports) - 1) : Good(i)

\* The first k digits of the count of b have been gathered.
DigitsRead(b, k) ==
    /\ k \in 0..Len(CountChars(b)) /\ word \in Seq(Char) /\ Len(word) = k
    /\ \A i \in 1..k : word[i] = CountChars(b)[i]

AtStart(p) ==
    /\ p.kind = "boot" =>
          /\ hpc = "line" /\ line = NoLine /\ word \in Seq(Char)
          /\ \A i \in 1..Len(word) : word[i].class # "begin"
    /\ p.kind = "bol" => HostIs("line", <<>>, NoLine)
    /\ p.kind = "begun" => HostIs("line", <<Begin>>, NoLine)
AtHeader(p) ==
    /\ p.kind = "cat" => HostIs("cat", <<>>, NoLine)
    /\ p.kind = "cat1" =>
          p.b \in 1..N /\ (HostIs("cat", CatText(p.b), NoLine) \/ HostIs("dash", <<>>, LineC(p.b)))
    /\ p.kind = "dash" => p.b \in 1..N /\ HostIs("dash", <<>>, LineC(p.b))
    /\ p.kind = "name" => p.b \in 1..N /\ HostIs("name", <<>>, LineC(p.b))
AtCount(p) ==
    /\ p.kind = "name1" =>
          p.b \in 1..N /\ (HostIs("name", NameText(p.b), LineC(p.b)) \/ HostIs("iter", <<>>, LineN(p.b)))
    /\ p.kind = "digit" =>
          /\ p.b \in 1..N
          /\ \/ hpc = "iter" /\ line = LineN(p.b) /\ DigitsRead(p.b, p.k)
             \/ p.k = Len(CountChars(p.b)) /\ HostIs("gap", <<>>, LineI(p.b, Off))
AtTiming(p) ==
    /\ p.kind = "gap" =>
          p.b \in 1..N /\ (HostIs("gap", <<>>, LineI(p.b, Off)) \/ HostIs("start", <<>>, LineI(p.b, Off)))
    /\ p.kind = "control" => p.b \in 1..N /\ HostIs("control", <<>>, LineI(p.b, Off))
    /\ p.kind = "regap" =>
          p.b \in 1..N /\ HostIs("restart", <<>>, LineI(p.b, On)) /\ <<"control", p.b>> \in finished
    /\ p.kind = "kernel" =>
          /\ p.b \in 1..N /\ HostIs("kernel", <<>>, LineK(p.b))
          /\ p.b \in HasControl => <<"control", p.b>> \in finished
AtEnd(p) ==
    /\ p.kind = "end1" => HostIs("cat", <<Ch("letter")>>, NoLine) \/ HostIs("dash", <<>>, LineE)
    /\ p.kind = "end2" => HostIs("dash", <<>>, LineE) \/ hpc = "done"
    /\ p.kind \in {"end3", "end4"} => hpc = "done"

GoodAt(p) ==
    /\ AllGood /\ Len(reports) = p.b - 1
    /\ AtStart(p) /\ AtHeader(p) /\ AtCount(p) /\ AtTiming(p) /\ AtEnd(p)
\* After a fault at most one more report, and then no other: for the next one
\* the host would have to read a dash behind white space.
Spoilt ==
    /\ Faulty
    /\ AllGood \/ (hpc \in {"cat", "dash", "done"} /\ AllButLastGood)
BadAt(p) == Spoilt /\ (p.kind = "badword" /\ hpc = "dash" => AllGood)
HostAt(p) == IF p.kind \in {"bad", "badword"} THEN BadAt(p) ELSE GoodAt(p)

------------------------------------------------------------------------------
(* Where the guest is *)

GuestAt(p) ==
    /\ phase \notin {"end", "shutdown", "aborted"} => bench \in 1..N
    /\ phase = "header" => p.kind = "cat" /\ p.b = bench
    /\ phase \in {"init", "iter"} => p.kind = "name1" /\ p.b = bench
    /\ (phase = "control_open" \/ (phase = "open" /\ bench \notin HasControl)) =>
          p.kind = "digit" /\ p.b = bench /\ p.k = Len(CountChars(bench))
    /\ phase \in {"control_open", "control", "control_close"} => bench \in HasControl
    /\ phase \in {"control", "control_close"} => p.kind = "control" /\ p.b = bench
    /\ phase = "control_close" => <<"control", bench>> \in finished
    /\ phase = "open" /\ bench \in HasControl => p.kind = "regap" /\ p.b = bench
    /\ phase \in {"kernel", "close"} => p.kind = "kernel" /\ p.b = bench
    /\ phase = "close" => <<"kernel", bench>> \in finished
    /\ phase = "cleanup" => p.kind = "cat" /\ p.b = bench + 1
    /\ phase = "end" => p.kind = "cat" /\ p.b = N + 1
    /\ phase = "shutdown" => p.kind = "end4"
    /\ phase # "exited"

------------------------------------------------------------------------------
(* The inductive invariant *)

\* at is a way through the grammar along the characters s.
Linked(at, s, f) ==
    /\ at \in [1..(Len(s) + 1) -> Places]
    /\ \A i \in 1..Len(s) : Link(at[i], s[i], at[i + 1], f)

\* It leads along the stream, from the host's place to the guest's.
Way(at) ==
    /\ Linked(at, Stream, finished)
    /\ HostAt(at[1])
    /\ ~closed => GuestAt(at[Len(Stream) + 1])
    /\ closed => MayDie \/ hpc = "done" \/ at[Len(Stream) + 1].kind = "end4"

HarnessTypeOK ==
    /\ TypeOK
    /\ pipe \in Seq(Char) /\ out \in Seq(Char)
    /\ \E S : reports \in Seq(S)
    /\ closed => phase = "exited" /\ out = <<>>
    /\ phase \notin {"end", "shutdown", "aborted", "exited"} => bench \in 1..N
    /\ phase \in {"control_open", "control", "control_close"} => bench \in HasControl

HarnessInv == HarnessTypeOK /\ \E at : Way(at)

------------------------------------------------------------------------------
(* The host takes a step *)

\* Which action it is follows from the directive in progress.
LEMMA HostActs ==
    ASSUME HostNext
    PROVE  /\ hpc # "done" /\ Readable /\ UNCHANGED <<guest, closed>>
           /\ hpc = "line" => ReadStart
           /\ hpc = "cat" => ScanCategory
           /\ hpc = "dash" => ScanDash
           /\ hpc = "name" => ScanName
           /\ hpc = "iter" => ScanIterations
           /\ hpc = "gap" => ScanGap
           /\ hpc \in {"start", "restart"} => ReadTimingStart
           /\ hpc \in {"control", "kernel"} => ReadTimingEnd
BY DEF HostNext, HostOnly, ReadStart, ScanCategory, ScanDash, ScanName, ScanIterations,
       ScanGap, ReadTimingStart, ReadTimingEnd, Scan

\* While the host only scans, the reports stay good.
LEMMA ReportsKept ==
    ASSUME AllGood, UNCHANGED <<reports, finished>>
    PROVE  AllGood'
BY DEF AllGood, Good

Reads(q) == pipe' = Tail(pipe) /\ HostAt(q)'
Waits(p) == pipe' = pipe /\ HostAt(p)'

\* Setting one field of the line.
LEMMA SetCat ==
    ASSUME NEW a, NEW b, NEW c, NEW d, NEW w
    PROVE  [Filled(a, b, c, d) EXCEPT !["cat"] = w] = Filled(w, b, c, d)
<1> DEFINE l == Filled(a, b, c, d)
<1>1. [l EXCEPT !["cat"] = w] = [l EXCEPT !.cat = w]
    OBVIOUS
<1>2. [l EXCEPT !.cat = w] = Filled(w, b, c, d)
    BY DEF Filled
<1> QED BY <1>1, <1>2

LEMMA SetName ==
    ASSUME NEW a, NEW b, NEW c, NEW d, NEW w
    PROVE  [Filled(a, b, c, d) EXCEPT !["name"] = w] = Filled(a, w, c, d)
<1> DEFINE l == Filled(a, b, c, d)
<1>1. [l EXCEPT !["name"] = w] = [l EXCEPT !.name = w]
    OBVIOUS
<1>2. [l EXCEPT !.name = w] = Filled(a, w, c, d)
    BY DEF Filled
<1> QED BY <1>1, <1>2

LEMMA SetIter ==
    ASSUME NEW a, NEW b, NEW c, NEW d, NEW w
    PROVE  [Filled(a, b, c, d) EXCEPT !["iter"] = w] = Filled(a, b, w, d)
<1> DEFINE l == Filled(a, b, c, d)
<1>1. [l EXCEPT !["iter"] = w] = [l EXCEPT !.iter = w]
    OBVIOUS
<1>2. [l EXCEPT !.iter = w] = Filled(a, b, w, d)
    BY DEF Filled
<1> QED BY <1>1, <1>2

LEMMA SetControl ==
    ASSUME NEW a, NEW b, NEW c, NEW d, NEW w
    PROVE  [Filled(a, b, c, d) EXCEPT !.control = w] = Filled(a, b, c, w)
BY DEF Filled

LEMMA SetIterValue ==
    ASSUME NEW a, NEW b, NEW c, NEW d, NEW w
    PROVE  [Filled(a, b, c, d) EXCEPT !.iter = w] = Filled(a, b, w, d)
BY DEF Filled

LEMMA NoLineFilled ==
    /\ NoLine = Filled(<<>>, <<>>, <<>>, Off)
    /\ \A l : [l EXCEPT !.control = TRUE] = [l EXCEPT !.control = On]
BY DEF NoLine, Filled, On, Off

\* The characters that have a meaning.
LEMMA CharFacts ==
    /\ \A x : Ch(x).class = x
    /\ Sp.class = "space" /\ Nl.class = "newline" /\ Begin.class = "begin" /\ Eof.class = "eof"
    /\ \A x, n : [class |-> x, of |-> n].class = x
    /\ Begin # Eof /\ Begin # Nl /\ Nl # Eof
    /\ \A s : Append(<<>>, s) = <<s>>
<1>1. \A x : Ch(x).class = x
    BY DEF Ch
<1>2. \A x, n : [class |-> x, of |-> n].class = x
    OBVIOUS
<1>3. \A s : Append(<<>>, s) = <<s>>
    OBVIOUS
<1> QED BY <1>1, <1>2, <1>3 DEF Sp, Nl, Begin, Eof

\* The BEGIN line begins.
LEMMA BeginStep ==
    ASSUME NEW p \in Places, NEW q \in Places, NEW c, c = Next1, pipe # <<>>, HostNext,
           GoodAt(p), BeginLink(p, c, q)
    PROVE  Reads(q) \/ Waits(p)
<1>1. /\ Along(p, "bol", q, "begun") /\ AllGood /\ Len(reports) = p.b - 1 /\ UNCHANGED finished
      /\ c = Begin
    BY HostActs DEF GoodAt, AtStart, BeginLink, Along, guest
<1>2. HostIs("line", <<>>, NoLine)
    BY <1>1 DEF GoodAt, AtStart, Along
<1>3. Next1.class = "begin"
    BY <1>1, CharFacts
<1>4. CASE HostIs("line", <<>>, NoLine)
  <2>1. ReadStart
      BY <1>4, HostActs DEF HostIs
  <2>2. pipe' = Tail(pipe) /\ UNCHANGED reports /\ hpc' = "line" /\ word' = <<Begin>> /\ UNCHANGED line
      BY <1>1, <1>3, <1>4, <2>1, CharFacts DEF ReadStart, Consume, HostIs, host, White, NonWhite, Skipped
  <2>3. HostIs("line", <<Begin>>, NoLine)'
      BY <1>1, <1>4, <2>2 DEF HostIs
  <2> QED BY <1>1, <2>2, <2>3, ReportsKept DEF Along, Reads, HostAt, GoodAt, AtStart, AtHeader, AtCount, AtTiming, AtEnd
<1> QED BY <1>2, <1>4

\* It ends, and the scanner takes over.
LEMMA BegunStep ==
    ASSUME NEW p \in Places, NEW q \in Places, NEW c, c = Next1, pipe # <<>>, HostNext,
           GoodAt(p), BegunLink(p, c, q)
    PROVE  Reads(q) \/ Waits(p)
<1>1. /\ Along(p, "begun", q, "cat") /\ AllGood /\ Len(reports) = p.b - 1 /\ UNCHANGED finished
      /\ c = Nl
    BY HostActs DEF GoodAt, AtStart, BegunLink, Along, guest
<1>2. HostIs("line", <<Begin>>, NoLine)
    BY <1>1 DEF GoodAt, AtStart, Along
<1>3. Next1.class = "newline"
    BY <1>1, CharFacts
<1>4. CASE HostIs("line", <<Begin>>, NoLine)
  <2>1. ReadStart
      BY <1>4, HostActs DEF HostIs
  <2>2. pipe' = Tail(pipe) /\ UNCHANGED reports /\ hpc' = "cat" /\ word' = <<>> /\ UNCHANGED line
      BY <1>1, <1>3, <1>4, <2>1, CharFacts DEF ReadStart, Consume, HostIs, host, White, NonWhite, Skipped
  <2>3. HostIs("cat", <<>>, NoLine)'
      BY <1>1, <1>4, <2>2 DEF HostIs
  <2> QED BY <1>1, <2>2, <2>3, ReportsKept DEF Along, Reads, HostAt, GoodAt, AtStart, AtHeader, AtCount, AtTiming, AtEnd
<1> QED BY <1>2, <1>4

\* The end of the line before a header is white space to %s.
LEMMA BlankStep ==
    ASSUME NEW p \in Places, NEW q \in Places, NEW c, c = Next1, pipe # <<>>, HostNext,
           GoodAt(p), BlankLink(p, c, q)
    PROVE  Reads(q) \/ Waits(p)
<1>1. /\ Along(p, "cat", q, "cat") /\ AllGood /\ Len(reports) = p.b - 1 /\ UNCHANGED finished
      /\ c = Nl
    BY HostActs DEF GoodAt, AtHeader, BlankLink, Along, guest
<1>2. HostIs("cat", <<>>, NoLine)
    BY <1>1 DEF GoodAt, AtHeader, Along
<1>3. Next1.class = "newline"
    BY <1>1, CharFacts
<1>4. CASE HostIs("cat", <<>>, NoLine)
  <2>1. ScanCategory
      BY <1>4, HostActs DEF HostIs
  <2>2. pipe' = Tail(pipe) /\ UNCHANGED reports /\ hpc' = "cat" /\ word' = <<>> /\ UNCHANGED line
      BY <1>1, <1>3, <1>4, <2>1, CharFacts DEF ScanCategory, Scan, Consume, HostIs, host, White, NonWhite, Skipped
  <2>3. HostIs("cat", <<>>, NoLine)'
      BY <1>1, <1>4, <2>2 DEF HostIs
  <2> QED BY <1>1, <2>2, <2>3, ReportsKept DEF Along, Reads, HostAt, GoodAt, AtStart, AtHeader, AtCount, AtTiming, AtEnd
<1> QED BY <1>2, <1>4

\* The category.
LEMMA CatStep ==
    ASSUME NEW p \in Places, NEW q \in Places, NEW c, c = Next1, pipe # <<>>, HostNext,
           GoodAt(p), CatLink(p, c, q)
    PROVE  Reads(q) \/ Waits(p)
<1>1. /\ Along(p, "cat", q, "cat1") /\ AllGood /\ Len(reports) = p.b - 1 /\ UNCHANGED finished
      /\ c = [class |-> "letter", of |-> p.b] /\ p.b \in 1..N
    BY HostActs DEF GoodAt, AtHeader, CatLink, Along, guest
<1>2. HostIs("cat", <<>>, NoLine)
    BY <1>1 DEF GoodAt, AtHeader, Along
<1>3. Next1.class = "letter"
    BY <1>1, CharFacts
<1>4. CASE HostIs("cat", <<>>, NoLine)
  <2>1. ScanCategory
      BY <1>4, HostActs DEF HostIs
  <2>2. pipe' = Tail(pipe) /\ UNCHANGED reports /\ hpc' = "cat" /\ word' = CatText(p.b) /\ UNCHANGED line
      BY <1>1, <1>3, <1>4, <2>1, CharFacts DEF ScanCategory, Scan, CatText, Consume, HostIs, host, White, NonWhite, Skipped
  <2>3. HostIs("cat", CatText(p.b), NoLine)'
      BY <1>1, <1>4, <2>2 DEF HostIs
  <2> QED BY <1>1, <2>2, <2>3, ReportsKept DEF Along, Reads, HostAt, GoodAt, AtStart, AtHeader, AtCount, AtTiming, AtEnd
<1> QED BY <1>2, <1>4

\* The space behind it ends %s, and is then skipped.
LEMMA Cat1Step ==
    ASSUME NEW p \in Places, NEW q \in Places, NEW c, c = Next1, pipe # <<>>, HostNext,
           GoodAt(p), Cat1Link(p, c, q)
    PROVE  Reads(q) \/ Waits(p)
<1>1. /\ Along(p, "cat1", q, "dash") /\ AllGood /\ Len(reports) = p.b - 1 /\ UNCHANGED finished
      /\ c = Sp /\ p.b \in 1..N
    BY HostActs DEF GoodAt, AtHeader, Cat1Link, Along, guest
<1>2. HostIs("cat", CatText(p.b), NoLine) \/ HostIs("dash", <<>>, LineC(p.b))
    BY <1>1 DEF GoodAt, AtHeader, Along
<1>3. Next1.class = "space"
    BY <1>1, CharFacts
<1>4. CASE HostIs("cat", CatText(p.b), NoLine)
  <2>1. ScanCategory
      BY <1>4, HostActs DEF HostIs
  <2>2. pipe' = pipe /\ UNCHANGED reports /\ hpc' = "dash" /\ word' = <<>> /\ line' = [line EXCEPT !["cat"] = word]
      BY <1>1, <1>3, <1>4, <2>1, CharFacts DEF ScanCategory, Scan, CatText, Consume, HostIs, host, White, NonWhite, Skipped
  <2>3. [line EXCEPT !["cat"] = word] = LineC(p.b)
    <3>1. line = Filled(<<>>, <<>>, <<>>, Off)
        BY <1>4, NoLineFilled DEF HostIs, LineC
    <3>2. [line EXCEPT !["cat"] = word] = Filled(word, <<>>, <<>>, Off)
        BY <3>1, SetCat
    <3> QED BY <1>4, <3>2, NoLineFilled DEF HostIs, LineC
  <2>4. HostIs("dash", <<>>, LineC(p.b))'
      BY <1>1, <1>4, <2>2, <2>3 DEF HostIs
  <2> QED BY <1>1, <2>2, <2>4, ReportsKept DEF Along, Waits, HostAt, GoodAt, AtStart, AtHeader, AtCount, AtTiming, AtEnd
<1>5. CASE HostIs("dash", <<>>, LineC(p.b))
  <2>1. ScanDash
      BY <1>5, HostActs DEF HostIs
  <2>2. pipe' = Tail(pipe) /\ UNCHANGED reports /\ UNCHANGED <<hpc, word, line>>
      BY <1>1, <1>3, <1>5, <2>1, CharFacts DEF ScanDash, Consume, HostIs, host, White, NonWhite, Skipped
  <2>3. HostIs("dash", <<>>, LineC(p.b))'
      BY <1>1, <1>5, <2>2 DEF HostIs
  <2> QED BY <1>1, <2>2, <2>3, ReportsKept DEF Along, Reads, HostAt, GoodAt, AtStart, AtHeader, AtCount, AtTiming, AtEnd
<1> QED BY <1>2, <1>4, <1>5

\* The dash.
LEMMA DashStep ==
    ASSUME NEW p \in Places, NEW q \in Places, NEW c, c = Next1, pipe # <<>>, HostNext,
           GoodAt(p), DashLink(p, c, q)
    PROVE  Reads(q) \/ Waits(p)
<1>1. /\ Along(p, "dash", q, "name") /\ AllGood /\ Len(reports) = p.b - 1 /\ UNCHANGED finished
      /\ c = Ch("dash") /\ p.b \in 1..N
    BY HostActs DEF GoodAt, AtHeader, DashLink, Along, guest
<1>2. HostIs("dash", <<>>, LineC(p.b))
    BY <1>1 DEF GoodAt, AtHeader, Along
<1>3. Next1.class = "dash"
    BY <1>1, CharFacts
<1>4. CASE HostIs("dash", <<>>, LineC(p.b))
  <2>1. ScanDash
      BY <1>4, HostActs DEF HostIs
  <2>2. pipe' = Tail(pipe) /\ UNCHANGED reports /\ hpc' = "name" /\ UNCHANGED <<word, line>>
      BY <1>1, <1>3, <1>4, <2>1, CharFacts DEF ScanDash, Consume, HostIs, host, White, NonWhite, Skipped
  <2>3. HostIs("name", <<>>, LineC(p.b))'
      BY <1>1, <1>4, <2>2 DEF HostIs
  <2> QED BY <1>1, <2>2, <2>3, ReportsKept DEF Along, Reads, HostAt, GoodAt, AtStart, AtHeader, AtCount, AtTiming, AtEnd
<1> QED BY <1>2, <1>4

\* The space behind the dash.
LEMMA NameSpaceStep ==
    ASSUME NEW p \in Places, NEW q \in Places, NEW c, c = Next1, pipe # <<>>, HostNext,
           GoodAt(p), NameSpace(p, c, q)
    PROVE  Reads(q) \/ Waits(p)
<1>1. /\ Along(p, "name", q, "name") /\ AllGood /\ Len(reports) = p.b - 1 /\ UNCHANGED finished
      /\ c = Sp /\ p.b \in 1..N
    BY HostActs DEF GoodAt, AtHeader, NameSpace, Along, guest
<1>2. HostIs("name", <<>>, LineC(p.b))
    BY <1>1 DEF GoodAt, AtHeader, Along
<1>3. Next1.class = "space"
    BY <1>1, CharFacts
<1>4. CASE HostIs("name", <<>>, LineC(p.b))
  <2>1. ScanName
      BY <1>4, HostActs DEF HostIs
  <2>2. pipe' = Tail(pipe) /\ UNCHANGED reports /\ hpc' = "name" /\ word' = <<>> /\ UNCHANGED line
      BY <1>1, <1>3, <1>4, <2>1, CharFacts DEF ScanName, Scan, Consume, HostIs, host, White, NonWhite, Skipped
  <2>3. HostIs("name", <<>>, LineC(p.b))'
      BY <1>1, <1>4, <2>2 DEF HostIs
  <2> QED BY <1>1, <2>2, <2>3, ReportsKept DEF Along, Reads, HostAt, GoodAt, AtStart, AtHeader, AtCount, AtTiming, AtEnd
<1> QED BY <1>2, <1>4

\* The name.
LEMMA NameStep ==
    ASSUME NEW p \in Places, NEW q \in Places, NEW c, c = Next1, pipe # <<>>, HostNext,
           GoodAt(p), NameLink(p, c, q)
    PROVE  Reads(q) \/ Waits(p)
<1>1. /\ Along(p, "name", q, "name1") /\ AllGood /\ Len(reports) = p.b - 1 /\ UNCHANGED finished
      /\ c = [class |-> "letter", of |-> p.b + N] /\ p.b \in 1..N
    BY HostActs DEF GoodAt, AtHeader, NameLink, Along, guest
<1>2. HostIs("name", <<>>, LineC(p.b))
    BY <1>1 DEF GoodAt, AtHeader, Along
<1>3. Next1.class = "letter"
    BY <1>1, CharFacts
<1>4. CASE HostIs("name", <<>>, LineC(p.b))
  <2>1. ScanName
      BY <1>4, HostActs DEF HostIs
  <2>2. pipe' = Tail(pipe) /\ UNCHANGED reports /\ hpc' = "name" /\ word' = NameText(p.b) /\ UNCHANGED line
      BY <1>1, <1>3, <1>4, <2>1, CharFacts DEF ScanName, Scan, NameText, Consume, HostIs, host, White, NonWhite, Skipped
  <2>3. HostIs("name", NameText(p.b), LineC(p.b))'
      BY <1>1, <1>4, <2>2 DEF HostIs
  <2> QED BY <1>1, <2>2, <2>3, ReportsKept DEF Along, Reads, HostAt, GoodAt, AtStart, AtHeader, AtCount, AtTiming, AtEnd
<1> QED BY <1>2, <1>4

\* The space behind it.
LEMMA Name1Step ==
    ASSUME NEW p \in Places, NEW q \in Places, NEW c, c = Next1, pipe # <<>>, HostNext,
           GoodAt(p), Name1Link(p, c, q)
    PROVE  Reads(q) \/ Waits(p)
<1>1. /\ Along(p, "name1", q, "digit") /\ AllGood /\ Len(reports) = p.b - 1 /\ UNCHANGED finished
      /\ c = Sp /\ p.b \in 1..N /\ q.k = 0
    BY HostActs DEF GoodAt, AtCount, Name1Link, Along, guest
<1>2. HostIs("name", NameText(p.b), LineC(p.b)) \/ HostIs("iter", <<>>, LineN(p.b))
    BY <1>1 DEF GoodAt, AtCount, Along
<1>3. Next1.class = "space"
    BY <1>1, CharFacts
<1>4. CASE HostIs("name", NameText(p.b), LineC(p.b))
  <2>1. ScanName
      BY <1>4, HostActs DEF HostIs
  <2>2. pipe' = pipe /\ UNCHANGED reports /\ hpc' = "iter" /\ word' = <<>> /\ line' = [line EXCEPT !["name"] = word]
      BY <1>1, <1>3, <1>4, <2>1, CharFacts DEF ScanName, Scan, NameText, Consume, HostIs, host, White, NonWhite, Skipped
  <2>3. [line EXCEPT !["name"] = word] = LineN(p.b)
    <3>1. line = Filled(CatText(p.b), <<>>, <<>>, Off)
        BY <1>4, NoLineFilled DEF HostIs, LineC, LineN
    <3>2. [line EXCEPT !["name"] = word] = Filled(CatText(p.b), word, <<>>, Off)
        BY <3>1, SetName
    <3> QED BY <1>4, <3>2, NoLineFilled DEF HostIs, LineC, LineN
  <2>4. HostIs("iter", <<>>, LineN(p.b))'
      BY <1>1, <1>4, <2>2, <2>3 DEF HostIs
  <2> QED BY <1>1, <2>2, <2>4, ReportsKept DEF Along, Waits, HostAt, GoodAt, AtStart, AtHeader, AtCount, AtTiming, AtEnd
<1>5. CASE HostIs("iter", <<>>, LineN(p.b))
  <2>1. ScanIterations
      BY <1>5, HostActs DEF HostIs
  <2>2. pipe' = Tail(pipe) /\ UNCHANGED reports /\ hpc' = "iter" /\ word' = <<>> /\ UNCHANGED line
      BY <1>1, <1>3, <1>5, <2>1, CharFacts DEF ScanIterations, Scan, Consume, HostIs, host, White, NonWhite, Skipped
  <2>3. (hpc = "iter" /\ line = LineN(p.b) /\ DigitsRead(p.b, 0))'
      BY <1>1, <1>5, <2>2 DEF HostIs, DigitsRead
  <2> QED BY <1>1, <2>2, <2>3, ReportsKept DEF Along, Reads, HostAt, GoodAt, AtStart, AtHeader, AtCount, AtTiming, AtEnd
<1> QED BY <1>2, <1>4, <1>5

\* A control begins.
LEMMA ControlOpenStep ==
    ASSUME NEW p \in Places, NEW q \in Places, NEW c, c = Next1, pipe # <<>>, HostNext,
           GoodAt(p), ControlOpen(p, c, q)
    PROVE  Reads(q) \/ Waits(p)
<1>1. /\ Along(p, "gap", q, "control") /\ AllGood /\ Len(reports) = p.b - 1 /\ UNCHANGED finished
      /\ c = Ch("{") /\ p.b \in 1..N
    BY HostActs DEF GoodAt, AtTiming, ControlOpen, Along, guest
<1>2. HostIs("gap", <<>>, LineI(p.b, Off)) \/ HostIs("start", <<>>, LineI(p.b, Off))
    BY <1>1 DEF GoodAt, AtTiming, Along
<1>3. Next1.class = "{"
    BY <1>1, CharFacts
<1>4. CASE HostIs("gap", <<>>, LineI(p.b, Off))
  <2>1. ScanGap
      BY <1>4, HostActs DEF HostIs
  <2>2. pipe' = pipe /\ UNCHANGED reports /\ hpc' = "start" /\ UNCHANGED <<word, line>>
      BY <1>1, <1>3, <1>4, <2>1, CharFacts DEF ScanGap, Consume, HostIs, host, White, NonWhite, Skipped
  <2>3. HostIs("start", <<>>, LineI(p.b, Off))'
      BY <1>1, <1>4, <2>2 DEF HostIs
  <2> QED BY <1>1, <2>2, <2>3, ReportsKept DEF Along, Waits, HostAt, GoodAt, AtStart, AtHeader, AtCount, AtTiming, AtEnd
<1>5. CASE HostIs("start", <<>>, LineI(p.b, Off))
  <2>1. ReadTimingStart
      BY <1>5, HostActs DEF HostIs
  <2>2. pipe' = Tail(pipe) /\ UNCHANGED reports /\ hpc' = "control" /\ UNCHANGED <<word, line>>
      BY <1>1, <1>3, <1>5, <2>1, CharFacts DEF ReadTimingStart, Consume, HostIs, host, White, NonWhite, Skipped
  <2>3. HostIs("control", <<>>, LineI(p.b, Off))'
      BY <1>1, <1>5, <2>2 DEF HostIs
  <2> QED BY <1>1, <2>2, <2>3, ReportsKept DEF Along, Reads, HostAt, GoodAt, AtStart, AtHeader, AtCount, AtTiming, AtEnd
<1> QED BY <1>2, <1>4, <1>5

\* The spinner in a control.
LEMMA ControlNoiseStep ==
    ASSUME NEW p \in Places, NEW q \in Places, NEW c, c = Next1, pipe # <<>>, HostNext,
           GoodAt(p), ControlNoise(p, c, q)
    PROVE  Reads(q) \/ Waits(p)
<1>1. /\ Along(p, "control", q, "control") /\ AllGood /\ Len(reports) = p.b - 1 /\ UNCHANGED finished
      /\ c.class \in Skipped /\ p.b \in 1..N
    BY HostActs DEF GoodAt, AtTiming, ControlNoise, Along, guest
<1>2. HostIs("control", <<>>, LineI(p.b, Off))
    BY <1>1 DEF GoodAt, AtTiming, Along
<1>3. Next1.class \in Skipped
    BY <1>1, CharFacts
<1>4. CASE HostIs("control", <<>>, LineI(p.b, Off))
  <2>1. ReadTimingEnd
      BY <1>4, HostActs DEF HostIs
  <2>2. pipe' = Tail(pipe) /\ UNCHANGED reports /\ UNCHANGED <<hpc, word, line>>
      BY <1>1, <1>3, <1>4, <2>1, CharFacts DEF ReadTimingEnd, Consume, HostIs, host, White, NonWhite, Skipped
  <2>3. HostIs("control", <<>>, LineI(p.b, Off))'
      BY <1>1, <1>4, <2>2 DEF HostIs
  <2> QED BY <1>1, <2>2, <2>3, ReportsKept DEF Along, Reads, HostAt, GoodAt, AtStart, AtHeader, AtCount, AtTiming, AtEnd
<1> QED BY <1>2, <1>4

\* A control ends, and has returned.
LEMMA ControlCloseStep ==
    ASSUME NEW p \in Places, NEW q \in Places, NEW c, c = Next1, pipe # <<>>, HostNext,
           GoodAt(p), ControlClose(p, c, q, finished)
    PROVE  Reads(q) \/ Waits(p)
<1>1. /\ Along(p, "control", q, "regap") /\ AllGood /\ Len(reports) = p.b - 1 /\ UNCHANGED finished
      /\ c = Ch("}") /\ p.b \in 1..N /\ <<"control", p.b>> \in finished
    BY HostActs DEF GoodAt, AtTiming, ControlClose, Along, guest
<1>2. HostIs("control", <<>>, LineI(p.b, Off))
    BY <1>1 DEF GoodAt, AtTiming, Along
<1>3. Next1.class = "}"
    BY <1>1, CharFacts
<1>4. CASE HostIs("control", <<>>, LineI(p.b, Off))
  <2>1. ReadTimingEnd
      BY <1>4, HostActs DEF HostIs
  <2>2. pipe' = Tail(pipe) /\ UNCHANGED reports /\ hpc' = "restart" /\ UNCHANGED word /\ line' = [line EXCEPT !.control = TRUE]
      BY <1>1, <1>3, <1>4, <2>1, CharFacts DEF ReadTimingEnd, Consume, HostIs, host, White, NonWhite, Skipped
  <2>3. [line EXCEPT !.control = TRUE] = LineI(p.b, On)
    <3>1. line = Filled(CatText(p.b), NameText(p.b), CountChars(p.b), Off)
        BY <1>4, NoLineFilled DEF HostIs, LineI
    <3>2. [line EXCEPT !.control = On] = Filled(CatText(p.b), NameText(p.b), CountChars(p.b), On)
        BY <3>1, SetControl
    <3> QED BY <1>4, <3>2, NoLineFilled DEF HostIs, LineI
  <2>4. HostIs("restart", <<>>, LineI(p.b, On))'
      BY <1>1, <1>4, <2>2, <2>3 DEF HostIs
  <2> QED BY <1>1, <2>2, <2>4, ReportsKept DEF Along, Reads, HostAt, GoodAt, AtStart, AtHeader, AtCount, AtTiming, AtEnd
<1> QED BY <1>2, <1>4

\* The space behind a control.
LEMMA RegapStep ==
    ASSUME NEW p \in Places, NEW q \in Places, NEW c, c = Next1, pipe # <<>>, HostNext,
           GoodAt(p), RegapSpace(p, c, q)
    PROVE  Reads(q) \/ Waits(p)
<1>1. /\ Along(p, "regap", q, "regap") /\ AllGood /\ Len(reports) = p.b - 1 /\ UNCHANGED finished
      /\ c = Sp /\ p.b \in 1..N /\ <<"control", p.b>> \in finished
    BY HostActs DEF GoodAt, AtTiming, RegapSpace, Along, guest
<1>2. HostIs("restart", <<>>, LineI(p.b, On))
    BY <1>1 DEF GoodAt, AtTiming, Along
<1>3. Next1.class = "space"
    BY <1>1, CharFacts
<1>4. CASE HostIs("restart", <<>>, LineI(p.b, On))
  <2>1. ReadTimingStart
      BY <1>4, HostActs DEF HostIs
  <2>2. pipe' = Tail(pipe) /\ UNCHANGED reports /\ UNCHANGED <<hpc, word, line>>
      BY <1>1, <1>3, <1>4, <2>1, CharFacts DEF ReadTimingStart, Consume, HostIs, host, White, NonWhite, Skipped
  <2>3. HostIs("restart", <<>>, LineI(p.b, On))'
      BY <1>1, <1>4, <2>2 DEF HostIs
  <2> QED BY <1>1, <2>2, <2>3, ReportsKept DEF Along, Reads, HostAt, GoodAt, AtStart, AtHeader, AtCount, AtTiming, AtEnd
<1> QED BY <1>2, <1>4

\* The spinner in a kernel.
LEMMA KernelNoiseStep ==
    ASSUME NEW p \in Places, NEW q \in Places, NEW c, c = Next1, pipe # <<>>, HostNext,
           GoodAt(p), KernelNoise(p, c, q)
    PROVE  Reads(q) \/ Waits(p)
<1>1. /\ Along(p, "kernel", q, "kernel") /\ AllGood /\ Len(reports) = p.b - 1 /\ UNCHANGED finished
      /\ c.class \in Skipped /\ p.b \in 1..N /\ (p.b \in HasControl => <<"control", p.b>> \in finished)
    BY HostActs DEF GoodAt, AtTiming, KernelNoise, Along, guest
<1>2. HostIs("kernel", <<>>, LineK(p.b))
    BY <1>1 DEF GoodAt, AtTiming, Along
<1>3. Next1.class \in Skipped
    BY <1>1, CharFacts
<1>4. CASE HostIs("kernel", <<>>, LineK(p.b))
  <2>1. ReadTimingEnd
      BY <1>4, HostActs DEF HostIs
  <2>2. pipe' = Tail(pipe) /\ UNCHANGED reports /\ UNCHANGED <<hpc, word, line>>
      BY <1>1, <1>3, <1>4, <2>1, CharFacts DEF ReadTimingEnd, Consume, HostIs, host, White, NonWhite, Skipped
  <2>3. HostIs("kernel", <<>>, LineK(p.b))'
      BY <1>1, <1>4, <2>2 DEF HostIs
  <2> QED BY <1>1, <2>2, <2>3, ReportsKept DEF Along, Reads, HostAt, GoodAt, AtStart, AtHeader, AtCount, AtTiming, AtEnd
<1> QED BY <1>2, <1>4

\* The first word of the END line.
LEMMA EndStep ==
    ASSUME NEW p \in Places, NEW q \in Places, NEW c, c = Next1, pipe # <<>>, HostNext,
           GoodAt(p), EndLink(p, c, q)
    PROVE  Reads(q) \/ Waits(p)
<1>1. /\ Along(p, "cat", q, "end1") /\ AllGood /\ Len(reports) = p.b - 1 /\ UNCHANGED finished
      /\ c = Ch("letter")
    BY HostActs DEF GoodAt, AtHeader, EndLink, Along, guest
<1>2. HostIs("cat", <<>>, NoLine)
    BY <1>1 DEF GoodAt, AtHeader, Along
<1>3. Next1.class = "letter"
    BY <1>1, CharFacts
<1>4. CASE HostIs("cat", <<>>, NoLine)
  <2>1. ScanCategory
      BY <1>4, HostActs DEF HostIs
  <2>2. pipe' = Tail(pipe) /\ UNCHANGED reports /\ hpc' = "cat" /\ word' = <<Ch("letter")>> /\ UNCHANGED line
      BY <1>1, <1>3, <1>4, <2>1, CharFacts DEF ScanCategory, Scan, Consume, HostIs, host, White, NonWhite, Skipped
  <2>3. HostIs("cat", <<Ch("letter")>>, NoLine)'
      BY <1>1, <1>4, <2>2 DEF HostIs
  <2> QED BY <1>1, <2>2, <2>3, ReportsKept DEF Along, Reads, HostAt, GoodAt, AtStart, AtHeader, AtCount, AtTiming, AtEnd
<1> QED BY <1>2, <1>4

\* The space behind it.
LEMMA End1Step ==
    ASSUME NEW p \in Places, NEW q \in Places, NEW c, c = Next1, pipe # <<>>, HostNext,
           GoodAt(p), End1Link(p, c, q)
    PROVE  Reads(q) \/ Waits(p)
<1>1. /\ Along(p, "end1", q, "end2") /\ AllGood /\ Len(reports) = p.b - 1 /\ UNCHANGED finished
      /\ c = Sp
    BY HostActs DEF GoodAt, AtEnd, End1Link, Along, guest
<1>2. HostIs("cat", <<Ch("letter")>>, NoLine) \/ HostIs("dash", <<>>, LineE)
    BY <1>1 DEF GoodAt, AtEnd, Along
<1>3. Next1.class = "space"
    BY <1>1, CharFacts
<1>4. CASE HostIs("cat", <<Ch("letter")>>, NoLine)
  <2>1. ScanCategory
      BY <1>4, HostActs DEF HostIs
  <2>2. pipe' = pipe /\ UNCHANGED reports /\ hpc' = "dash" /\ word' = <<>> /\ line' = [line EXCEPT !["cat"] = word]
      BY <1>1, <1>3, <1>4, <2>1, CharFacts DEF ScanCategory, Scan, Consume, HostIs, host, White, NonWhite, Skipped
  <2>3. [line EXCEPT !["cat"] = word] = LineE
    <3>1. line = Filled(<<>>, <<>>, <<>>, Off)
        BY <1>4, NoLineFilled DEF HostIs, LineE
    <3>2. [line EXCEPT !["cat"] = word] = Filled(word, <<>>, <<>>, Off)
        BY <3>1, SetCat
    <3> QED BY <1>4, <3>2, NoLineFilled DEF HostIs, LineE
  <2>4. HostIs("dash", <<>>, LineE)'
      BY <1>1, <1>4, <2>2, <2>3 DEF HostIs
  <2> QED BY <1>1, <2>2, <2>4, ReportsKept DEF Along, Waits, HostAt, GoodAt, AtStart, AtHeader, AtCount, AtTiming, AtEnd
<1>5. CASE HostIs("dash", <<>>, LineE)
  <2>1. ScanDash
      BY <1>5, HostActs DEF HostIs
  <2>2. pipe' = Tail(pipe) /\ UNCHANGED reports /\ UNCHANGED <<hpc, word, line>>
      BY <1>1, <1>3, <1>5, <2>1, CharFacts DEF ScanDash, Consume, HostIs, host, White, NonWhite, Skipped
  <2>3. HostIs("dash", <<>>, LineE)'
      BY <1>1, <1>5, <2>2 DEF HostIs
  <2> QED BY <1>1, <2>2, <2>3, ReportsKept DEF Along, Reads, HostAt, GoodAt, AtStart, AtHeader, AtCount, AtTiming, AtEnd
<1> QED BY <1>2, <1>4, <1>5

\* The second word is no dash: the host ends.
LEMMA End2Step ==
    ASSUME NEW p \in Places, NEW q \in Places, NEW c, c = Next1, pipe # <<>>, HostNext,
           GoodAt(p), End2Link(p, c, q)
    PROVE  Reads(q) \/ Waits(p)
<1>1. /\ Along(p, "end2", q, "end3") /\ AllGood /\ Len(reports) = p.b - 1 /\ UNCHANGED finished
      /\ c = Ch("letter")
    BY HostActs DEF GoodAt, AtEnd, End2Link, Along, guest
<1>2. HostIs("dash", <<>>, LineE) \/ hpc = "done"
    BY <1>1 DEF GoodAt, AtEnd, Along
<1>3. Next1.class = "letter"
    BY <1>1, CharFacts
<1>4. CASE HostIs("dash", <<>>, LineE)
  <2>1. ScanDash
      BY <1>4, HostActs DEF HostIs
  <2>2. pipe' = pipe /\ UNCHANGED reports /\ hpc' = "done"
      BY <1>1, <1>3, <1>4, <2>1, CharFacts DEF ScanDash, ScanFails, Consume, HostIs, host, White, NonWhite, Skipped
  <2>3. (hpc = "done")'
      BY <1>1, <1>4, <2>2 DEF HostIs
  <2> QED BY <1>1, <2>2, <2>3, ReportsKept DEF Along, Waits, HostAt, GoodAt, AtStart, AtHeader, AtCount, AtTiming, AtEnd
<1>5. CASE hpc = "done"
    BY <1>5, HostActs
<1> QED BY <1>2, <1>4, <1>5
\* A line of the banner.
LEMMA BootStep ==
    ASSUME NEW p \in Places, NEW q \in Places, NEW c \in Char, c = Next1, pipe # <<>>, HostNext,
           GoodAt(p), BootLink(p, c, q) \/ BootEnds(p, c, q)
    PROVE  Reads(q)
<1>1. /\ p.kind = "boot" /\ q.kind \in {"boot", "bol"} /\ q.b = p.b /\ c.class # "begin"
      /\ q.kind = "bol" => c = Nl
      /\ AllGood /\ Len(reports) = p.b - 1 /\ UNCHANGED finished
    BY HostActs, CharFacts DEF GoodAt, BootLink, BootEnds, Along, guest
<1>2. /\ hpc = "line" /\ line = NoLine /\ word \in Seq(Char)
      /\ \A i \in 1..Len(word) : word[i].class # "begin"
    BY <1>1 DEF GoodAt, AtStart
<1>3. ReadStart
    BY <1>2, HostActs
<1>4. word # <<Begin>> /\ c # Eof
  <2>1. ASSUME word = <<Begin>> PROVE FALSE
    <3>1. 1 \in 1..Len(word) /\ word[1] = Begin
        BY <2>1
    <3> QED BY <1>2, <3>1, CharFacts
  <2>2. word # <<Begin>>
      BY <2>1
  <2>3. c.class # "eof"
    <3>1. c.class \in White \cup NonWhite
        BY DEF Char
    <3> QED BY <3>1 DEF White, NonWhite
  <2> QED BY <2>2, <2>3, CharFacts
<1>5. /\ pipe' = Tail(pipe) /\ UNCHANGED <<line, reports>> /\ hpc' = "line"
      /\ word' = IF c.class = "newline" THEN <<>> ELSE Append(word, c)
    BY <1>2, <1>3, <1>4 DEF ReadStart, Consume
<1>6. word' \in Seq(Char) /\ \A i \in 1..Len(word') : word'[i].class # "begin"
  <2>1. CASE c.class = "newline"
      BY <1>5, <2>1
  <2>2. CASE c.class # "newline"
    <3> DEFINE r == Append(word, c)
    <3>1. r \in Seq(Char) /\ Len(r) = Len(word) + 1 /\ r[Len(word) + 1] = c
          /\ \A i \in 1..Len(word) : r[i] = word[i]
        BY <1>2
    <3>2. word' = r
        BY <1>5, <2>2
    <3> HIDE DEF r
    <3>3. \A i \in 1..Len(r) : r[i].class # "begin"
      <4>1. Len(word) \in Nat
          BY <1>2
      <4>2. \A i \in 1..Len(r) : i \in 1..Len(word) \/ i = Len(word) + 1
          BY <3>1, <4>1
      <4> QED BY <1>1, <1>2, <3>1, <4>2
    <3> QED BY <3>1, <3>2, <3>3
  <2> QED BY <2>1, <2>2
<1>7. q.kind = "bol" => word' = <<>>
    BY <1>1, <1>5, CharFacts
<1>8. AtStart(q)'
    BY <1>1, <1>2, <1>5, <1>6, <1>7 DEF AtStart, HostIs
<1> QED BY <1>1, <1>5, <1>8, ReportsKept DEF Reads, HostAt, GoodAt, AtHeader, AtCount, AtTiming, AtEnd

\* One more digit of the count.
LEMMA DigitStep ==
    ASSUME NEW p \in Places, NEW q \in Places, NEW c, c = Next1, pipe # <<>>, HostNext,
           GoodAt(p), DigitLink(p, c, q)
    PROVE  Reads(q)
<1> DEFINE b == p.b
           k == p.k
<1>1. /\ p.kind = "digit" /\ q.kind = "digit" /\ q.b = b /\ q.k = k + 1 /\ k < Len(CountChars(b))
      /\ c = CountChars(b)[k + 1] /\ AllGood /\ Len(reports) = b - 1 /\ UNCHANGED finished
    BY HostActs DEF GoodAt, DigitLink, Along, guest
<1>2. /\ b \in 1..N /\ k \in Nat
      /\ \/ hpc = "iter" /\ line = LineN(b) /\ DigitsRead(b, k)
         \/ k = Len(CountChars(b))
    BY <1>1 DEF GoodAt, AtCount, Places
<1> HIDE DEF b, k
<1>3. /\ CountChars(b) \in Seq(Char) /\ Len(CountChars(b)) \in Nat
      /\ \A i \in 1..Len(CountChars(b)) : CountChars(b)[i].class = "hex"
    BY <1>2, CountCharsType
<1>4. hpc = "iter" /\ line = LineN(b) /\ DigitsRead(b, k)
    BY <1>1, <1>2, <1>3
<1>5. k + 1 \in 1..Len(CountChars(b)) /\ Next1.class = "hex" /\ c \in Char
    BY <1>1, <1>2, <1>3
<1>6. ScanIterations
    BY <1>4, HostActs
<1>7. pipe' = Tail(pipe) /\ word' = Append(word, c) /\ UNCHANGED <<hpc, line, reports>>
    BY <1>5, <1>6 DEF ScanIterations, Scan, Consume, White
<1>8. DigitsRead(b, k + 1)'
  <2> DEFINE r == Append(word, c)
  <2>1. word \in Seq(Char) /\ Len(word) = k /\ \A i \in 1..k : word[i] = CountChars(b)[i]
      BY <1>4 DEF DigitsRead
  <2>2. /\ r \in Seq(Char) /\ Len(r) = k + 1 /\ r[k + 1] = c
        /\ \A i \in 1..k : r[i] = word[i]
      BY <1>5, <2>1
  <2>3. word' = r
      BY <1>7
  <2> HIDE DEF r
  <2>4. \A i \in 1..(k + 1) : i \in 1..k \/ i = k + 1
      BY <1>2
  <2>5. \A i \in 1..(k + 1) : r[i] = CountChars(b)[i]
      BY <1>1, <2>1, <2>2, <2>4
  <2>6. k + 1 \in 0..Len(CountChars(b))
      BY <1>2, <1>3, <1>5
  <2> QED BY <2>2, <2>3, <2>5, <2>6 DEF DigitsRead
<1>9. AtCount(q)'
  <2>1. hpc' = "iter" /\ line' = LineN(q.b) /\ DigitsRead(q.b, q.k)' /\ q.b \in 1..N
      BY <1>1, <1>2, <1>4, <1>7, <1>8
  <2> QED BY <1>1, <2>1 DEF AtCount
<1> QED BY <1>1, <1>7, <1>9, ReportsKept DEF Reads, HostAt, GoodAt, AtStart, AtHeader, AtTiming, AtEnd

\* All digits read, the word is the count.
LEMMA CountRead ==
    ASSUME NEW b \in 1..N, DigitsRead(b, Len(CountChars(b)))
    PROVE  word = CountChars(b) /\ word # <<>>
<1>1. CountChars(b) \in Seq(Char) /\ Len(CountChars(b)) \in Nat /\ Len(CountChars(b)) >= 1
    BY CountCharsType
<1>2. word \in Seq(Char) /\ Len(word) = Len(CountChars(b))
      /\ \A i \in 1..Len(word) : word[i] = CountChars(b)[i]
    BY DEF DigitsRead
<1> QED BY <1>1, <1>2

\* The space behind the count ends %lx, and is then skipped.
LEMMA DigitsEndStep ==
    ASSUME NEW p \in Places, NEW q \in Places, NEW c, c = Next1, pipe # <<>>, HostNext,
           GoodAt(p), DigitsEnd(p, c, q)
    PROVE  Reads(q) \/ Waits(p)
<1>1. /\ Along(p, "digit", q, "gap") /\ p.k = Len(CountChars(p.b)) /\ Next1.class = "space"
      /\ AllGood /\ Len(reports) = p.b - 1 /\ UNCHANGED finished
    BY HostActs, CharFacts DEF GoodAt, DigitsEnd, Along, guest
<1>2. /\ p.b \in 1..N
      /\ \/ hpc = "iter" /\ line = LineN(p.b) /\ DigitsRead(p.b, Len(CountChars(p.b)))
         \/ HostIs("gap", <<>>, LineI(p.b, Off))
    BY <1>1 DEF GoodAt, AtCount, Along
<1>3. CASE hpc = "iter" /\ line = LineN(p.b) /\ DigitsRead(p.b, Len(CountChars(p.b)))
  <2>1. ScanIterations
      BY <1>3, HostActs
  <2>2. word = CountChars(p.b) /\ word # <<>>
      BY <1>2, <1>3, CountRead
  <2>3. /\ pipe' = pipe /\ hpc' = "gap" /\ word' = <<>> /\ UNCHANGED reports
        /\ line' = [line EXCEPT !["iter"] = word]
      BY <1>1, <2>1, <2>2 DEF ScanIterations, Scan, White
  <2>4. line' = LineI(p.b, Off)
    <3>1. line = Filled(CatText(p.b), NameText(p.b), <<>>, Off)
        BY <1>3 DEF LineN
    <3>2. [line EXCEPT !["iter"] = word] = Filled(CatText(p.b), NameText(p.b), word, Off)
        BY <3>1, SetIter
    <3> QED BY <2>2, <2>3, <3>2 DEF LineI
  <2>5. HostIs("gap", <<>>, LineI(p.b, Off))'
      BY <2>3, <2>4 DEF HostIs
  <2> QED BY <1>1, <1>2, <2>3, <2>5, ReportsKept
          DEF Along, Waits, HostAt, GoodAt, AtStart, AtHeader, AtCount, AtTiming, AtEnd
<1>4. CASE HostIs("gap", <<>>, LineI(p.b, Off))
  <2>1. ScanGap
      BY <1>4, HostActs DEF HostIs
  <2>2. pipe' = Tail(pipe) /\ UNCHANGED host
      BY <1>1, <2>1 DEF ScanGap, Consume, White
  <2>3. HostIs("gap", <<>>, LineI(p.b, Off))' /\ UNCHANGED reports
      BY <1>4, <2>2 DEF HostIs, host
  <2> QED BY <1>1, <1>2, <2>2, <2>3, ReportsKept
          DEF Along, Reads, HostAt, GoodAt, AtStart, AtHeader, AtCount, AtTiming, AtEnd
<1> QED BY <1>2, <1>3, <1>4

\* The kernel begins.
LEMMA KernelOpenStep ==
    ASSUME NEW p \in Places, NEW q \in Places, NEW c, c = Next1, pipe # <<>>, HostNext,
           GoodAt(p), KernelOpen(p, c, q)
    PROVE  Reads(q) \/ Waits(p)
<1>1. /\ q.kind = "kernel" /\ q.b = p.b /\ Next1.class = "[" /\ AllGood
      /\ Len(reports) = p.b - 1 /\ UNCHANGED finished
      /\ \/ p.kind = "gap" /\ p.b \notin HasControl
         \/ p.kind = "regap" /\ p.b \in HasControl
    BY HostActs, CharFacts DEF GoodAt, KernelOpen, Along, guest
<1>2. /\ p.b \in 1..N
      /\ \/ HostIs("gap", <<>>, LineI(p.b, Off)) /\ p.kind = "gap"
         \/ HostIs("start", <<>>, LineK(p.b)) /\ p.b \notin HasControl
         \/ /\ HostIs("restart", <<>>, LineK(p.b)) /\ p.b \in HasControl
            /\ <<"control", p.b>> \in finished
    BY <1>1 DEF GoodAt, AtTiming, LineK
<1>3. CASE HostIs("gap", <<>>, LineI(p.b, Off)) /\ p.kind = "gap"
  <2>1. ScanGap
      BY <1>3, HostActs DEF HostIs
  <2>2. pipe' = pipe /\ hpc' = "start" /\ UNCHANGED <<word, line, reports>>
      BY <1>1, <2>1 DEF ScanGap, Consume, White
  <2>3. HostIs("start", <<>>, LineI(p.b, Off))'
      BY <1>3, <2>2 DEF HostIs
  <2> QED BY <1>1, <1>2, <1>3, <2>2, <2>3, ReportsKept
          DEF Waits, HostAt, GoodAt, AtStart, AtHeader, AtCount, AtTiming, AtEnd
<1>4. CASE /\ HostIs("start", <<>>, LineK(p.b)) \/ HostIs("restart", <<>>, LineK(p.b))
           /\ p.b \in HasControl => <<"control", p.b>> \in finished
  <2>1. ReadTimingStart
      BY <1>4, HostActs DEF HostIs
  <2>2. pipe' = Tail(pipe) /\ hpc' = "kernel" /\ UNCHANGED <<word, line, reports>>
      BY <1>1, <2>1 DEF ReadTimingStart, Consume, Skipped
  <2>3. HostIs("kernel", <<>>, LineK(p.b))'
      BY <1>4, <2>2 DEF HostIs
  <2> QED BY <1>1, <1>2, <1>4, <2>2, <2>3, ReportsKept
          DEF Reads, HostAt, GoodAt, AtStart, AtHeader, AtCount, AtTiming, AtEnd
<1> QED BY <1>2, <1>3, <1>4

\* A report is put behind the others.
LEMMA Appended ==
    ASSUME NEW S, NEW s \in Seq(S), NEW x, NEW r, r = Append(s, x)
    PROVE  /\ Len(s) \in Nat /\ Len(r) = Len(s) + 1 /\ r[Len(s) + 1] = x
           /\ \A i \in 1..Len(s) : r[i] = s[i]
           /\ r \in Seq(S \cup {x})
<1>1. s \in Seq(S \cup {x})
  <2>1. \A i \in 1..Len(s) : s[i] \in S \cup {x}
      OBVIOUS
  <2> QED BY <2>1
<1> QED BY <1>1

\* What the report of benchmark b shows.
LEMMA ReportShows ==
    ASSUME NEW b \in 1..N, line = LineK(b)
    PROVE  [line EXCEPT !.iter = HexValue(@)] =
              [cat |-> CatText(b), name |-> NameText(b), iter |-> Iterations[b],
               control |-> b \in HasControl]
<1> DEFINE k == IF b \in HasControl THEN On ELSE Off
<1>1. line = Filled(CatText(b), NameText(b), CountChars(b), k)
    BY DEF LineK, LineI
<1> HIDE DEF k
<1>2. line.iter = CountChars(b)
    BY <1>1 DEF Filled
<1>3. [line EXCEPT !.iter = Iterations[b]] = Filled(CatText(b), NameText(b), Iterations[b], k)
    BY <1>1, SetIterValue
<1>4. HexValue(line.iter) = Iterations[b]
    BY <1>2, CountSurvives
<1>5. [line EXCEPT !.iter = HexValue(@)] = Filled(CatText(b), NameText(b), Iterations[b], k)
    BY <1>3, <1>4
<1>6. k = (b \in HasControl)
  <2>1. CASE b \in HasControl
    <3>1. k = TRUE
        BY <2>1 DEF k, On
    <3>2. (b \in HasControl) = TRUE
        BY <2>1
    <3> QED BY <3>1, <3>2
  <2>2. CASE b \notin HasControl
    <3>1. k = FALSE
        BY <2>2 DEF k, Off
    <3>2. (b \in HasControl) = FALSE
        BY <2>2
    <3> QED BY <3>1, <3>2
  <2> QED BY <2>1, <2>2
<1> QED BY <1>5, <1>6 DEF Filled

\* The kernel has returned and ends: the report is right.
LEMMA KernelCloseStep ==
    ASSUME NEW p \in Places, NEW q \in Places, NEW c, c = Next1, pipe # <<>>, HostNext,
           NEW S, reports \in Seq(S), GoodAt(p), KernelClose(p, c, q, finished)
    PROVE  Reads(q)
<1> DEFINE b == p.b
<1>1. /\ p.kind = "kernel" /\ q.kind = "cat" /\ q.b = b + 1 /\ Next1.class = "]" /\ AllGood
      /\ Len(reports) = b - 1 /\ UNCHANGED finished /\ <<"kernel", b>> \in finished
    BY HostActs, CharFacts DEF GoodAt, KernelClose, guest
<1>2. /\ b \in 1..N /\ HostIs("kernel", <<>>, LineK(b))
      /\ b \in HasControl => <<"control", b>> \in finished
    BY <1>1 DEF GoodAt, AtTiming
<1> HIDE DEF b
<1>3. ReadTimingEnd
    BY <1>2, HostActs DEF HostIs
<1>4. pipe' = Tail(pipe) /\ word' = <<>> /\ Report("measured")
    BY <1>1, <1>2, <1>3 DEF ReadTimingEnd, Consume, Skipped, HostIs
<1> DEFINE x == [line |-> [line EXCEPT !.iter = HexValue(@)], time |-> "measured"]
<1>5. reports' = Append(reports, x) /\ line' = NoLine /\ hpc' = "cat"
    BY <1>4 DEF Report
<1>6. Genuine(x, b)
  <2>1. [line EXCEPT !.iter = HexValue(@)] =
           [cat |-> CatText(b), name |-> NameText(b), iter |-> Iterations[b],
            control |-> b \in HasControl]
      BY <1>2, ReportShows DEF HostIs
  <2>2. x.line = [line EXCEPT !.iter = HexValue(@)] /\ x.time = "measured"
      OBVIOUS
  <2> HIDE DEF x
  <2> QED BY <2>1, <2>2 DEF Genuine
<1> HIDE DEF x
<1>7. /\ Len(reports') = b /\ reports'[b] = x
      /\ \A i \in 1..(b - 1) : reports'[i] = reports[i]
    BY <1>1, <1>2, <1>5, Appended
<1>8. AllGood'
  <2>1. ASSUME NEW i \in 1..(b - 1) PROVE Good(i)'
    <3>1. Good(i) /\ reports'[i] = reports[i]
        BY <1>1, <1>7 DEF AllGood
    <3> QED BY <1>1, <3>1 DEF Good
  <2>2. Good(b)'
      BY <1>1, <1>2, <1>6, <1>7 DEF Good
  <2>3. \A i \in 1..b : i \in 1..(b - 1) \/ i = b
      BY <1>2
  <2> QED BY <1>7, <2>1, <2>2, <2>3 DEF AllGood
<1>9. HostIs("cat", <<>>, NoLine)' /\ Len(reports') = q.b - 1
    BY <1>1, <1>2, <1>4, <1>5, <1>7 DEF HostIs
<1> QED BY <1>1, <1>4, <1>8, <1>9 DEF Reads, HostAt, GoodAt, AtStart, AtHeader, AtCount, AtTiming, AtEnd

\* Every character that the grammar has takes the host along.
LEMMA GoodStep ==
    ASSUME NEW p \in Places, NEW q \in Places, NEW c \in Char, c = Next1, pipe # <<>>, HostNext,
           NEW S, reports \in Seq(S), GoodAt(p), GoodLink(p, c, q, finished)
    PROVE  Reads(q) \/ Waits(p)
<1>1. CASE StartLink(p, c, q)
    BY <1>1, BootStep, BeginStep, BegunStep, BlankStep DEF StartLink
<1>2. CASE HeaderLink(p, c, q)
    BY <1>2, CatStep, Cat1Step, DashStep, NameSpaceStep, NameStep DEF HeaderLink
<1>3. CASE CountLink(p, c, q)
    BY <1>3, Name1Step, DigitStep, DigitsEndStep DEF CountLink
<1>4. CASE TimingLink(p, c, q, finished)
    BY <1>4, ControlOpenStep, ControlNoiseStep, ControlCloseStep, RegapStep, KernelOpenStep,
       KernelNoiseStep, KernelCloseStep DEF TimingLink
<1>5. CASE LastLink(p, c, q)
  <2>1. CASE End3Link(p, c, q)
    <3>1. hpc = "done"
        BY <2>1 DEF End3Link, Along, GoodAt, AtEnd
    <3> QED BY <3>1, HostActs
  <2> QED BY <1>5, <2>1, EndStep, End1Step, End2Step DEF LastLink
<1> QED BY <1>1, <1>2, <1>3, <1>4, <1>5 DEF GoodLink

\* A reader takes at most one character.
LEMMA HostPipe ==
    ASSUME HostNext
    PROVE  pipe' = pipe \/ (pipe # <<>> /\ pipe' = Tail(pipe))
<1>1. Consume => pipe' = pipe \/ (pipe # <<>> /\ pipe' = Tail(pipe))
    BY DEF Consume
<1> QED BY <1>1 DEF HostNext, ReadStart, ScanCategory, ScanDash, ScanName, ScanIterations,
           ScanGap, ReadTimingStart, ReadTimingEnd, Scan, ScanFails, host

\* After a fault the host reports at most once.
LEMMA BadStep ==
    ASSUME NEW p, BadAt(p), HostNext, Next1.class = "dash" => p.kind = "badword",
           NEW S, reports \in Seq(S)
    PROVE  Spoilt'
<1>1. UNCHANGED finished /\ hpc # "done" /\ Faulty
    BY HostActs DEF guest, BadAt, Spoilt
<1>2. CASE UNCHANGED reports /\ AllGood
    BY <1>1, <1>2, ReportsKept DEF Spoilt, Faulty
<1>3. CASE hpc \in {"cat", "dash"}
  <2>1. ScanCategory \/ ScanDash
      BY <1>3, HostActs
  <2>2. /\ UNCHANGED reports
        /\ hpc' \in {"cat", "dash", "done"} \/ (hpc = "dash" /\ Next1.class = "dash")
      BY <1>3, <2>1 DEF ScanCategory, ScanDash, Scan, ScanFails, host
  <2>3. AllButLastGood => AllButLastGood'
      BY <1>1, <2>2 DEF AllButLastGood, Good
  <2> QED BY <1>1, <1>2, <2>2, <2>3 DEF BadAt, Spoilt, Faulty
<1>4. CASE hpc \notin {"cat", "dash"}
  <2>1. AllGood
      BY <1>1, <1>4 DEF BadAt, Spoilt
  <2>2. UNCHANGED reports \/ (hpc' = "cat" /\ \E x : reports' = Append(reports, x))
      BY <1>4 DEF HostNext, ReadStart, ScanCategory, ScanDash, ScanName, ScanIterations,
           ScanGap, ReadTimingStart, ReadTimingEnd, Scan, ScanFails, host, Report
  <2>3. ASSUME NEW x, reports' = Append(reports, x) PROVE AllButLastGood'
    <3>1. /\ Len(reports) \in Nat /\ Len(reports') = Len(reports) + 1
          /\ \A i \in 1..Len(reports) : reports'[i] = reports[i]
        BY <2>3, Appended
    <3>2. ASSUME NEW i \in 1..Len(reports) PROVE Good(i)'
      <4>1. Good(i) /\ reports'[i] = reports[i]
          BY <2>1, <3>1 DEF AllGood
      <4> QED BY <1>1, <4>1 DEF Good
    <3>3. Len(reports') - 1 = Len(reports)
        BY <3>1
    <3> QED BY <3>2, <3>3 DEF AllButLastGood
  <2> QED BY <1>1, <1>2, <2>1, <2>2, <2>3 DEF Spoilt, Faulty
<1> QED BY <1>3, <1>4

\* The scanner comes to the dash from white space.
LEMMA DashReached ==
    ASSUME HostNext, hpc' = "dash"
    PROVE  Next1.class # "dash" /\ (pipe' = pipe \/ Next1.class \in White)
<1>1. "dash" \in NonWhite
    BY DEF NonWhite
<1>2. ScanCategory => Next1.class # "dash" /\ pipe' = pipe
    BY <1>1 DEF ScanCategory, Scan, ScanFails
<1>3. ScanDash => Next1.class # "dash" /\ (pipe' = pipe \/ Next1.class \in White)
    BY DEF ScanDash, ScanFails, White, host
<1>4. ~(ReadStart \/ ScanName \/ ScanIterations \/ ScanGap \/ ReadTimingStart \/ ReadTimingEnd)
    BY DEF ReadStart, ScanName, ScanIterations, ScanGap, ReadTimingStart, ReadTimingEnd, Scan,
           ScanFails, Report, host
<1> QED BY <1>2, <1>3, <1>4 DEF HostNext

------------------------------------------------------------------------------
(* Ways along sequences *)

\* What is in front of the rest of the stream.
LEMMA StreamTail ==
    ASSUME NEW a \in Seq(Char), NEW z \in Seq(Char), a # <<>>,
           NEW s, s = a \o z, NEW t, t = Tail(a) \o z
    PROVE  /\ s \in Seq(Char) /\ t \in Seq(Char) /\ Len(t) \in Nat /\ Len(s) = Len(t) + 1
           /\ s[1] = Head(a) /\ Head(a) \in Char
           /\ \A i \in 1..Len(t) : t[i] = s[i + 1]
<1> DEFINE u == Tail(a)
<1>1. /\ u \in Seq(Char) /\ Len(u) = Len(a) - 1 /\ Len(a) \in Nat \ {0}
      /\ \A i \in 1..Len(u) : u[i] = a[i + 1]
      /\ Head(a) = a[1] /\ Head(a) \in Char
    OBVIOUS
<1>2. t = u \o z
    OBVIOUS
<1> HIDE DEF u
<1>3. /\ s \in Seq(Char) /\ Len(s) = Len(a) + Len(z) /\ Len(z) \in Nat
      /\ \A i \in 1..Len(a) : s[i] = a[i]
      /\ \A i \in 1..Len(z) : s[Len(a) + i] = z[i]
    BY <1>1
<1>4. /\ t \in Seq(Char) /\ Len(t) = Len(u) + Len(z)
      /\ \A i \in 1..Len(u) : t[i] = u[i]
      /\ \A i \in 1..Len(z) : t[Len(u) + i] = z[i]
    BY <1>1, <1>2
<1>5. ASSUME NEW i \in 1..Len(t) PROVE t[i] = s[i + 1]
  <2>1. CASE i <= Len(u)
    <3>1. i \in 1..Len(u) /\ i + 1 \in 1..Len(a)
        BY <1>1, <1>4, <2>1
    <3> QED BY <1>1, <1>3, <1>4, <3>1
  <2>2. CASE i > Len(u)
    <3>1. i - Len(u) \in 1..Len(z) /\ Len(u) + (i - Len(u)) = i /\ Len(a) + (i - Len(u)) = i + 1
        BY <1>1, <1>3, <1>4, <2>2
    <3>2. t[i] = z[i - Len(u)] /\ s[i + 1] = z[i - Len(u)]
        BY <1>3, <1>4, <3>1
    <3> QED BY <3>2
  <2> QED BY <1>1, <1>4, <2>1, <2>2
<1> QED BY <1>1, <1>3, <1>4, <1>5

\* A read takes the first place away.
LEMMA Shifted ==
    ASSUME NEW s \in Seq(Char), NEW t \in Seq(Char), Len(s) = Len(t) + 1,
           \A i \in 1..Len(t) : t[i] = s[i + 1],
           NEW at, NEW f, Linked(at, s, f)
    PROVE  Linked([i \in 1..(Len(t) + 1) |-> at[i + 1]], t, f)
<1> DEFINE al == [i \in 1..(Len(t) + 1) |-> at[i + 1]]
<1>1. Len(t) \in Nat
    OBVIOUS
<1>2. at \in [1..(Len(s) + 1) -> Places] /\ \A i \in 1..Len(s) : Link(at[i], s[i], at[i + 1], f)
    BY DEF Linked
<1>3. al \in [1..(Len(t) + 1) -> Places]
  <2>1. \A i \in 1..(Len(t) + 1) : i + 1 \in 1..(Len(s) + 1)
      BY <1>1
  <2> QED BY <1>2, <2>1
<1>4. ASSUME NEW i \in 1..Len(t) PROVE Link(al[i], t[i], al[i + 1], f)
  <2>1. i + 1 \in 1..Len(s) /\ i \in 1..(Len(t) + 1) /\ i + 1 \in 1..(Len(t) + 1)
      BY <1>1
  <2>2. al[i] = at[i + 1] /\ al[i + 1] = at[i + 1 + 1]
      BY <2>1
  <2> HIDE DEF al
  <2> QED BY <1>2, <2>1, <2>2
<1> HIDE DEF al
<1>5. Linked(al, t, f)
    BY <1>3, <1>4 DEF Linked
<1> QED BY <1>5 DEF al

\* Another first place that the first character links to the second.
LEMMA FirstChanged ==
    ASSUME NEW s \in Seq(Char), NEW at, NEW f, Linked(at, s, f), NEW p \in Places,
           Len(s) >= 1 => Link(p, s[1], at[2], f)
    PROVE  Linked([at EXCEPT ![1] = p], s, f)
<1> DEFINE al == [at EXCEPT ![1] = p]
<1>1. Len(s) \in Nat
    OBVIOUS
<1>2. at \in [1..(Len(s) + 1) -> Places] /\ \A i \in 1..Len(s) : Link(at[i], s[i], at[i + 1], f)
    BY DEF Linked
<1>3. al \in [1..(Len(s) + 1) -> Places]
    BY <1>2
<1>4. ASSUME NEW i \in 1..Len(s) PROVE Link(al[i], s[i], al[i + 1], f)
  <2>1. i + 1 # 1 /\ i + 1 \in 1..(Len(s) + 1) /\ i \in 1..(Len(s) + 1)
      BY <1>1
  <2>2. al[i + 1] = at[i + 1] /\ al[i] = IF i = 1 THEN p ELSE at[i]
      BY <1>2, <2>1
  <2>3. Link(at[i], s[i], at[i + 1], f)
      BY <1>2
  <2> HIDE DEF al
  <2>4. CASE i = 1
    <3>1. Len(s) >= 1 /\ i + 1 = 2
        BY <1>1, <2>4
    <3> QED BY <2>2, <2>4, <3>1
  <2> QED BY <2>2, <2>3, <2>4
<1> HIDE DEF al
<1>5. Linked(al, s, f)
    BY <1>3, <1>4 DEF Linked
<1> QED BY <1>5 DEF al

------------------------------------------------------------------------------
(* A host step keeps the way *)

\* The place from which only a fault leads on.
BadPlace(p) == [p EXCEPT !.kind = "bad"]

LEMMA BadPlaceFacts ==
    ASSUME NEW p \in Places
    PROVE  BadPlace(p) \in Places /\ BadPlace(p).kind = "bad"
BY DEF BadPlace, Places, Kinds

\* The grammar has no way on from a fault.
LEMMA NoGoodFromBad ==
    ASSUME NEW p, NEW c, NEW q, NEW f, p.kind \in {"bad", "badword"},
           Link(p, c, q, f)
    PROVE  BadLink(p, c, q)
BY DEF Link, GoodLink, StartLink, HeaderLink, CountLink, TimingLink, LastLink, BootLink, BootEnds,
       BeginLink, BegunLink, BlankLink, CatLink, Cat1Link, DashLink, NameSpace, NameLink, Name1Link,
       DigitLink, DigitsEnd, ControlOpen, ControlNoise, ControlClose, RegapSpace, KernelOpen,
       KernelNoise, KernelClose, EndLink, End1Link, End2Link, End3Link, Along

\* Before a fault the reports are good, so they are good enough after it.
LEMMA GoodIsNotBad ==
    ASSUME NEW p, HostAt(p), Faulty
    PROVE  BadAt(p)
BY DEF HostAt, GoodAt, BadAt, Spoilt

\* Where the guest is does not depend on the host.
LEMMA GuestStays ==
    ASSUME NEW p, GuestAt(p), UNCHANGED guest
    PROVE  GuestAt(p)'
BY DEF GuestAt, guest

LEMMA HostKeepsWay ==
    ASSUME HarnessTypeOK, NEW at, Way(at), HostNext
    PROVE  \E al : Way(al)'
<1>1. PICK S : reports \in Seq(S)
    BY DEF HarnessTypeOK
<1>2. pipe \in Seq(Char) /\ out \in Seq(Char) /\ (closed => out = <<>>)
    BY DEF HarnessTypeOK
<1>3. /\ UNCHANGED <<bench, phase, out, noise, finished, closed>> /\ hpc # "done" /\ Readable
      /\ UNCHANGED guest
    BY HostActs DEF guest
<1>4. PICK s : s = Stream
    OBVIOUS
<1>5. /\ Linked(at, s, finished) /\ HostAt(at[1])
      /\ ~closed => GuestAt(at[Len(s) + 1])
      /\ closed => MayDie \/ at[Len(s) + 1].kind = "end4"
    BY <1>3, <1>4 DEF Way
<1>6. s \in Seq(Char) /\ Len(s) \in Nat /\ at \in [1..(Len(s) + 1) -> Places] /\ at[1] \in Places
  <2>1. s \in Seq(Char)
      BY <1>2, <1>4 DEF Stream
  <2>2. Len(s) \in Nat /\ at \in [1..(Len(s) + 1) -> Places]
      BY <1>5, <2>1 DEF Linked
  <2> QED BY <2>1, <2>2
\* The host waits: the same characters, and perhaps another first place.
<1>7. ASSUME NEW al, pipe' = pipe, Linked(al, s, finished), HostAt(al[1])',
             al[Len(s) + 1] = at[Len(s) + 1] \/ (closed /\ MayDie)
      PROVE  \E x : Way(x)'
  <2>1. Stream' = s
      BY <1>3, <1>4, <1>7 DEF Stream
  <2>2. ~closed' => GuestAt(al[Len(s) + 1])'
      BY <1>3, <1>5, <1>7, GuestStays
  <2>3. closed' => MayDie \/ al[Len(s) + 1].kind = "end4"
      BY <1>3, <1>5, <1>7
  <2>4. Way(al)'
      BY <1>3, <1>7, <2>1, <2>2, <2>3 DEF Way
  <2> QED BY <2>4
\* The host reads: the places move up.
<1>8. ASSUME pipe # <<>>, pipe' = Tail(pipe), HostAt(at[2])'
      PROVE  \E x : Way(x)'
  <2>1. PICK t : t = Tail(pipe) \o out
      OBVIOUS
  <2>2. /\ t \in Seq(Char) /\ Len(t) \in Nat /\ Len(s) = Len(t) + 1
        /\ \A i \in 1..Len(t) : t[i] = s[i + 1]
      BY <1>2, <1>4, <1>8, <2>1, StreamTail DEF Stream
  <2> DEFINE al == [i \in 1..(Len(t) + 1) |-> at[i + 1]]
  <2>3. Linked(al, t, finished)
      BY <1>5, <1>6, <2>2, Shifted
  <2>4. al[1] = at[2] /\ al[Len(t) + 1] = at[Len(s) + 1]
    <3>1. 1 \in 1..(Len(t) + 1) /\ Len(t) + 1 \in 1..(Len(t) + 1) /\ 1 + 1 = 2
        BY <2>2
    <3> QED BY <2>2, <3>1
  <2>5. Stream' = t
      BY <1>3, <1>8, <2>1 DEF Stream
  <2> HIDE DEF al
  <2>6. ~closed' => GuestAt(al[Len(t) + 1])'
      BY <1>3, <1>5, <2>4, GuestStays
  <2>7. HostAt(al[1])'
      BY <1>8, <2>4
  <2>8. Way(al)'
      BY <1>3, <1>5, <2>3, <2>4, <2>5, <2>6, <2>7 DEF Way
  <2> QED BY <2>8
<1>9. CASE pipe # <<>>
  <2> DEFINE c == Head(pipe)
             q == at[2]
  <2>1. c = Next1 /\ c \in Char /\ s[1] = c /\ Len(s) >= 1
    <3>1. PICK t : t = Tail(pipe) \o out
        OBVIOUS
    <3>2. s[1] = c /\ c \in Char /\ Len(t) \in Nat /\ Len(s) = Len(t) + 1
        BY <1>2, <1>4, <1>9, <3>1, StreamTail DEF Stream
    <3> QED BY <1>9, <3>2 DEF Next1
  <2>2. q \in Places /\ Link(at[1], c, q, finished)
    <3>1. 1 \in 1..Len(s) /\ 2 \in 1..(Len(s) + 1) /\ 1 + 1 = 2
        BY <1>6, <2>1
    <3>2. Link(at[1], s[1], at[1 + 1], finished)
        BY <1>5, <3>1 DEF Linked
    <3> QED BY <1>6, <2>1, <3>1, <3>2
  <2>3. CASE BadLink(at[1], c, q)
    <3>1. Spoilt'
      <4>1. PICK p : p = at[1]
          OBVIOUS
      <4>2. BadAt(p) /\ (Next1.class = "dash" => p.kind = "badword")
          BY <1>5, <2>1, <2>3, <4>1, GoodIsNotBad DEF BadLink
      <4> QED BY <1>1, <4>2, BadStep
    <3>2. /\ q.kind \in {"bad", "badword"} /\ (c.class = "dash" => at[1].kind = "badword")
          /\ q.kind = "badword" => c.class \notin White
        BY <2>3 DEF BadLink
    <3>3. CASE pipe' = Tail(pipe)
      <4>1. pipe' # pipe
        <5>1. Len(Tail(pipe)) = Len(pipe) - 1 /\ Len(pipe) \in Nat
            BY <1>2, <1>9
        <5> QED BY <3>3, <5>1
      <4>2. PICK r : r = at[2]
          OBVIOUS
      <4>3. BadAt(r)'
          BY <2>1, <3>1, <3>2, <4>1, <4>2, DashReached DEF BadAt
      <4>4. HostAt(r)'
          BY <3>2, <4>2, <4>3 DEF HostAt
      <4> QED BY <1>8, <1>9, <3>3, <4>2, <4>4
    <3>4. CASE pipe' = pipe /\ c.class = "dash"
      <4>1. PICK p : p = at[1]
          OBVIOUS
      <4>2. p.kind = "badword" /\ hpc' # "dash"
          BY <2>1, <3>2, <3>4, <4>1, DashReached
      <4>3. HostAt(p)'
          BY <3>1, <4>2 DEF HostAt, BadAt
      <4> QED BY <1>5, <1>7, <3>4, <4>1, <4>3
    <3>5. CASE pipe' = pipe /\ c.class # "dash"
      <4> DEFINE b == BadPlace(at[1])
                 al == [at EXCEPT ![1] = b]
      <4>1. b \in Places /\ b.kind = "bad"
          BY <1>6, BadPlaceFacts
      <4>2. BadLink(b, s[1], at[2])
          BY <2>1, <2>3, <3>5 DEF BadLink
      <4>3. al[1] = b /\ al[Len(s) + 1] = at[Len(s) + 1]
        <5>1. 1 \in 1..(Len(s) + 1) /\ Len(s) + 1 \in 1..(Len(s) + 1) /\ Len(s) + 1 # 1
            BY <1>6, <2>1
        <5> QED BY <1>6, <5>1
      <4> HIDE DEF b
      <4>4. Linked(al, s, finished)
          BY <1>5, <1>6, <4>1, <4>2, FirstChanged DEF Link
      <4> HIDE DEF al
      <4>5. HostAt(al[1])'
          BY <3>1, <4>1, <4>3 DEF HostAt, BadAt
      <4> QED BY <1>7, <3>5, <4>3, <4>4, <4>5
    <3> QED BY <3>3, <3>4, <3>5, HostPipe
  <2>4. CASE ~BadLink(at[1], c, q)
    <3>1. GoodLink(at[1], c, q, finished) /\ at[1].kind \notin {"bad", "badword"}
        BY <2>2, <2>4, NoGoodFromBad DEF Link
    <3>2. GoodAt(at[1])
        BY <1>5, <3>1 DEF HostAt
    <3>3. PICK p0, q0 : p0 = at[1] /\ q0 = at[2]
        OBVIOUS
    <3>4. Reads(q0) \/ Waits(p0)
      <4>1. p0 \in Places /\ q0 \in Places /\ GoodAt(p0) /\ GoodLink(p0, c, q0, finished)
          BY <1>6, <2>2, <3>1, <3>2, <3>3
      <4>2. PICK c0 : c0 = c
          OBVIOUS
      <4>3. c0 \in Char /\ c0 = Next1 /\ GoodLink(p0, c0, q0, finished)
          BY <2>1, <4>1, <4>2
      <4> QED BY <1>1, <1>9, <4>1, <4>3, GoodStep
    <3>5. CASE Reads(q0)
        BY <1>8, <1>9, <3>3, <3>5 DEF Reads
    <3>6. CASE Waits(p0)
        BY <1>5, <1>7, <3>3, <3>6 DEF Waits
    <3> QED BY <3>4, <3>5, <3>6
  <2> QED BY <2>3, <2>4
<1>10. CASE pipe = <<>>
  <2>1. closed /\ out = <<>> /\ Next1 = Eof
      BY <1>2, <1>3, <1>10 DEF Readable, Next1
  <2>2. s = <<>> /\ Len(s) = 0
      BY <1>4, <1>10, <2>1 DEF Stream
  <2>3. pipe' = pipe
      BY <1>10, HostPipe
  <2>4. at[1].kind # "end4"
      BY <1>3, <1>5 DEF HostAt, GoodAt, AtEnd
  <2>5. MayDie
      BY <1>5, <2>1, <2>2, <2>4
  <2>6. Spoilt'
    <3>1. PICK p : p = at[1]
        OBVIOUS
    <3>2. BadAt(p) /\ Next1.class # "dash"
        BY <1>5, <2>1, <2>5, <3>1, GoodIsNotBad, CharFacts DEF Faulty
    <3> QED BY <1>1, <3>2, BadStep
  <2> DEFINE b == BadPlace(at[1])
             al == [at EXCEPT ![1] = b]
  <2>7. b \in Places /\ b.kind = "bad"
      BY <1>6, BadPlaceFacts
  <2>8. al[1] = b
      BY <1>6
  <2> HIDE DEF b
  <2>9. Linked(al, s, finished)
    <3>1. Len(s) >= 1 => Link(b, s[1], at[2], finished)
        BY <2>2
    <3> QED BY <1>5, <1>6, <2>7, <3>1, FirstChanged
  <2> HIDE DEF al
  <2>10. HostAt(al[1])'
      BY <2>6, <2>7, <2>8 DEF HostAt, BadAt
  <2> QED BY <1>7, <2>1, <2>3, <2>5, <2>9, <2>10
<1> QED BY <1>9, <1>10

------------------------------------------------------------------------------
(* The guest prints *)

\* What has returned stays returned, so links stay links.
LEMMA LinkGrows ==
    ASSUME NEW p, NEW c, NEW q, NEW f, NEW g, f \subseteq g, Link(p, c, q, f)
    PROVE  Link(p, c, q, g)
BY DEF Link, GoodLink, TimingLink, ControlClose, KernelClose

\* A text that leads from place to place along tp.
Prints(t, tp, f) ==
    /\ tp \in [0..Len(t) -> Places]
    /\ \A i \in 1..Len(t) : Link(tp[i - 1], t[i], tp[i], f)

\* Printing it leads the way on.
LEMMA Extended ==
    ASSUME NEW s \in Seq(Char), NEW t \in Seq(Char), NEW at, NEW f, NEW g, Linked(at, s, f),
           f \subseteq g, NEW tp, Prints(t, tp, g), tp[0] = at[Len(s) + 1]
    PROVE  \E al : /\ Linked(al, s \o t, g) /\ al[1] = at[1]
                   /\ al[Len(s \o t) + 1] = tp[Len(t)]
<1> DEFINE n == Len(s)
           m == Len(t)
           r == s \o t
           al == [i \in 1..(n + m + 1) |-> IF i <= n + 1 THEN at[i] ELSE tp[i - (n + 1)]]
<1>1. n \in Nat /\ m \in Nat
    OBVIOUS
<1>2. at \in [1..(n + 1) -> Places] /\ \A i \in 1..n : Link(at[i], s[i], at[i + 1], f)
    BY DEF Linked
<1>3. tp \in [0..m -> Places] /\ \A i \in 1..m : Link(tp[i - 1], t[i], tp[i], g)
    BY DEF Prints
<1>4. /\ r \in Seq(Char) /\ Len(r) = n + m
      /\ \A i \in 1..n : r[i] = s[i]
      /\ \A i \in 1..m : r[n + i] = t[i]
    OBVIOUS
<1> HIDE DEF n, m, r
<1>5. al \in [1..(n + m + 1) -> Places]
  <2>1. ASSUME NEW i \in 1..(n + m + 1)
        PROVE  (IF i <= n + 1 THEN at[i] ELSE tp[i - (n + 1)]) \in Places
    <3>1. CASE i <= n + 1
      <4>1. i \in 1..(n + 1)
          BY <1>1, <3>1
      <4> QED BY <1>2, <3>1, <4>1
    <3>2. CASE ~(i <= n + 1)
      <4>1. i - (n + 1) \in 0..m
          BY <1>1, <3>2
      <4> QED BY <1>3, <3>2, <4>1
    <3> QED BY <3>1, <3>2
  <2> QED BY <2>1
<1>6. tp[0] = at[n + 1]
    BY DEF n
<1>7. \A j \in 0..m : n + 1 + j \in 1..(n + m + 1) /\ al[n + 1 + j] = tp[j]
  <2>1. ASSUME NEW j \in 0..m PROVE n + 1 + j \in 1..(n + m + 1) /\ al[n + 1 + j] = tp[j]
    <3>1. n + 1 + j \in 1..(n + m + 1) /\ (n + 1 + j) - (n + 1) = j
        BY <1>1
    <3>2. CASE j = 0
      <4>1. n + 1 + j = n + 1 /\ n + 1 <= n + 1
          BY <1>1, <3>2
      <4> QED BY <1>6, <3>1, <3>2, <4>1
    <3>3. CASE j # 0
      <4>1. ~(n + 1 + j <= n + 1)
          BY <1>1, <3>3
      <4> QED BY <3>1, <4>1
    <3> QED BY <3>2, <3>3
  <2> QED BY <2>1
<1>8. \A i \in 1..(n + 1) : i \in 1..(n + m + 1) /\ al[i] = at[i]
  <2>1. \A i \in 1..(n + 1) : i \in 1..(n + m + 1) /\ i <= n + 1
      BY <1>1
  <2> QED BY <2>1
<1> HIDE DEF al
<1>9. ASSUME NEW i \in 1..(n + m) PROVE Link(al[i], r[i], al[i + 1], g)
  <2>1. CASE i <= n
    <3>1. i \in 1..n /\ i \in 1..(n + 1) /\ i + 1 \in 1..(n + 1)
        BY <1>1, <2>1
    <3>2. al[i] = at[i] /\ al[i + 1] = at[i + 1] /\ r[i] = s[i] /\ Link(at[i], s[i], at[i + 1], f)
        BY <1>2, <1>4, <1>8, <3>1
    <3> QED BY <3>2, LinkGrows
  <2>2. CASE ~(i <= n)
    <3> DEFINE j == i - n
    <3>1. /\ j \in 1..m /\ j - 1 \in 0..m /\ j \in 0..m
          /\ i = n + j /\ i = n + 1 + (j - 1) /\ i + 1 = n + 1 + j
        BY <1>1, <2>2
    <3> HIDE DEF j
    <3>2. al[i] = tp[j - 1] /\ al[i + 1] = tp[j] /\ r[i] = t[j]
        BY <1>4, <1>7, <3>1
    <3>3. Link(tp[j - 1], t[j], tp[j], g)
        BY <1>3, <3>1
    <3> QED BY <3>2, <3>3
  <2> QED BY <2>1, <2>2
<1>10. Linked(al, r, g)
    BY <1>4, <1>5, <1>9 DEF Linked
<1>11. al[1] = at[1] /\ al[Len(r) + 1] = tp[m]
  <2>1. 1 \in 1..(n + 1) /\ m \in 0..m /\ n + 1 + m = Len(r) + 1
      BY <1>1, <1>4
  <2>2. al[n + 1 + m] = tp[m]
      BY <1>7, <2>1
  <2> QED BY <1>8, <2>1, <2>2
<1> QED BY <1>10, <1>11 DEF r, m

\* The host stays where it is while more has returned.
LEMMA HostStays ==
    ASSUME NEW p, HostAt(p), UNCHANGED host, finished \subseteq finished'
    PROVE  HostAt(p)'
<1>1. UNCHANGED <<hpc, word, line, reports>>
    BY DEF host
<1>2. ASSUME NEW i, Good(i) PROVE Good(i)'
    BY <1>1, <1>2 DEF Good
<1>3. (AllGood => AllGood') /\ (AllButLastGood => AllButLastGood')
    BY <1>1, <1>2 DEF AllGood, AllButLastGood
<1>4. CASE p.kind \in {"bad", "badword"}
    BY <1>1, <1>3, <1>4 DEF HostAt, BadAt, Spoilt, Faulty
<1>5. CASE p.kind \notin {"bad", "badword"}
  <2>1. GoodAt(p)
      BY <1>5 DEF HostAt
  <2>2. AtStart(p)' /\ AtHeader(p)'
      BY <1>1, <2>1 DEF GoodAt, AtStart, AtHeader, HostIs
  <2>3. AtCount(p)' /\ AtEnd(p)'
      BY <1>1, <2>1 DEF GoodAt, AtCount, AtEnd, HostIs, DigitsRead
  <2>4. AtTiming(p)'
      BY <1>1, <2>1 DEF GoodAt, AtTiming, HostIs
  <2> QED BY <1>1, <1>3, <1>5, <2>1, <2>2, <2>3, <2>4 DEF HostAt, GoodAt
<1> QED BY <1>4, <1>5

\* A guest that prints t and goes on keeps the way, if t leads to its new place.
LEMMA PrintKeepsWay ==
    ASSUME HarnessTypeOK, NEW at, Way(at), out = <<>>, ~closed, NEW t \in Seq(Char), out' = t,
           UNCHANGED <<pipe, closed, host>>, finished \subseteq finished',
           NEW tp, Prints(t, tp, finished'), tp[0] = at[Len(Stream) + 1], GuestAt(tp[Len(t)])'
    PROVE  \E al : Way(al)'
<1>1. PICK s : s = Stream
    OBVIOUS
<1>2. pipe \in Seq(Char) /\ s = pipe /\ s \in Seq(Char)
    BY <1>1 DEF HarnessTypeOK, Stream
<1>3. Linked(at, s, finished) /\ HostAt(at[1]) /\ tp[0] = at[Len(s) + 1]
    BY <1>1 DEF Way
<1>4. PICK f, g : f = finished /\ g = finished'
    OBVIOUS
<1>5. PICK al : Linked(al, s \o t, g) /\ al[1] = at[1] /\ al[Len(s \o t) + 1] = tp[Len(t)]
  <2>1. Linked(at, s, f) /\ f \subseteq g /\ Prints(t, tp, g)
      BY <1>3, <1>4
  <2> QED BY <1>2, <1>3, <2>1, Extended
<1>6. Stream' = s \o t
    BY <1>2 DEF Stream
<1>7. HostAt(al[1])'
    BY <1>3, <1>5, HostStays
<1>8. GuestAt(al[Len(s \o t) + 1])'
    BY <1>5
<1>9. Way(al)'
    BY <1>4, <1>5, <1>6, <1>7, <1>8 DEF Way
<1> QED BY <1>9

------------------------------------------------------------------------------
(* The texts of the harness *)

Pl(kind, b, k) == [kind |-> kind, b |-> b, k |-> k]

LEMMA PlFacts ==
    ASSUME NEW kind \in Kinds, NEW b \in 1..(N + 1), NEW k \in Nat
    PROVE  /\ Pl(kind, b, k) \in Places
           /\ Pl(kind, b, k).kind = kind /\ Pl(kind, b, k).b = b /\ Pl(kind, b, k).k = k
BY DEF Pl, Places

\* t leads from p to q.
Leads(p, t, q, f) == \E tp : Prints(t, tp, f) /\ tp[0] = p /\ tp[Len(t)] = q

LEMMA LeadsOne ==
    ASSUME NEW p \in Places, NEW q \in Places, NEW c, NEW f, Link(p, c, q, f)
    PROVE  Leads(p, <<c>>, q, f)
<1> DEFINE tp == [i \in 0..1 |-> IF i = 0 THEN p ELSE q]
<1>1. Len(<<c>>) = 1 /\ <<c>>[1] = c
    OBVIOUS
<1>2. tp \in [0..1 -> Places] /\ tp[0] = p /\ tp[1] = q
    OBVIOUS
<1>3. \A i \in 1..1 : i = 1 /\ i - 1 = 0
    OBVIOUS
<1> HIDE DEF tp
<1>4. Prints(<<c>>, tp, f)
    BY <1>1, <1>2, <1>3 DEF Prints
<1> QED BY <1>1, <1>2, <1>4 DEF Leads

LEMMA LeadsJoin ==
    ASSUME NEW p, NEW o, NEW q, NEW t \in Seq(Char), NEW u \in Seq(Char), NEW f,
           Leads(p, t, o, f), Leads(o, u, q, f)
    PROVE  Leads(p, t \o u, q, f)
<1>1. PICK tp : Prints(t, tp, f) /\ tp[0] = p /\ tp[Len(t)] = o
    BY DEF Leads
<1>2. PICK up : Prints(u, up, f) /\ up[0] = o /\ up[Len(u)] = q
    BY DEF Leads
<1> DEFINE n == Len(t)
           m == Len(u)
           r == t \o u
           w == [i \in 0..(n + m) |-> IF i <= n THEN tp[i] ELSE up[i - n]]
<1>3. /\ n \in Nat /\ m \in Nat /\ Len(r) = n + m
      /\ \A i \in 1..n : r[i] = t[i]
      /\ \A i \in 1..m : r[n + i] = u[i]
    OBVIOUS
<1>4. tp \in [0..n -> Places] /\ \A i \in 1..n : Link(tp[i - 1], t[i], tp[i], f)
    BY <1>1 DEF Prints
<1>5. up \in [0..m -> Places] /\ \A i \in 1..m : Link(up[i - 1], u[i], up[i], f)
    BY <1>2 DEF Prints
<1>6. tp[0] = p /\ tp[n] = o /\ up[0] = o /\ up[m] = q
    BY <1>1, <1>2
<1> HIDE DEF n, m, r
<1>7. w \in [0..(n + m) -> Places]
  <2>1. ASSUME NEW i \in 0..(n + m) PROVE (IF i <= n THEN tp[i] ELSE up[i - n]) \in Places
    <3>1. CASE i <= n
      <4>1. i \in 0..n
          BY <1>3, <3>1
      <4> QED BY <1>4, <3>1, <4>1
    <3>2. CASE ~(i <= n)
      <4>1. i - n \in 0..m
          BY <1>3, <3>2
      <4> QED BY <1>5, <3>2, <4>1
    <3> QED BY <3>1, <3>2
  <2> QED BY <2>1
<1>8. \A i \in 0..n : i \in 0..(n + m) /\ w[i] = tp[i]
  <2>1. \A i \in 0..n : i \in 0..(n + m) /\ i <= n
      BY <1>3
  <2> QED BY <2>1
<1>9. \A j \in 0..m : n + j \in 0..(n + m) /\ w[n + j] = up[j]
  <2>1. ASSUME NEW j \in 0..m PROVE n + j \in 0..(n + m) /\ w[n + j] = up[j]
    <3>1. n + j \in 0..(n + m) /\ (n + j) - n = j
        BY <1>3
    <3>2. CASE j = 0
      <4>1. n + j = n /\ n <= n /\ n \in 0..n
          BY <1>3, <3>2
      <4> QED BY <1>6, <1>8, <3>1, <3>2, <4>1
    <3>3. CASE j # 0
      <4>1. ~(n + j <= n)
          BY <1>3, <3>3
      <4> QED BY <3>1, <4>1
    <3> QED BY <3>2, <3>3
  <2> QED BY <2>1
<1> HIDE DEF w
<1>10. ASSUME NEW i \in 1..(n + m) PROVE Link(w[i - 1], r[i], w[i], f)
  <2>1. CASE i <= n
    <3>1. i \in 1..n /\ i \in 0..n /\ i - 1 \in 0..n
        BY <1>3, <2>1
    <3> QED BY <1>3, <1>4, <1>8, <3>1
  <2>2. CASE ~(i <= n)
    <3> DEFINE j == i - n
    <3>1. j \in 1..m /\ j \in 0..m /\ j - 1 \in 0..m /\ i = n + j /\ i - 1 = n + (j - 1)
        BY <1>3, <2>2
    <3> HIDE DEF j
    <3>2. w[i - 1] = up[j - 1] /\ w[i] = up[j] /\ r[i] = u[j]
        BY <1>3, <1>9, <3>1
    <3> QED BY <1>5, <3>1, <3>2
  <2> QED BY <2>1, <2>2
<1>11. Prints(r, w, f)
    BY <1>3, <1>7, <1>10 DEF Prints
<1>12. w[0] = p /\ w[Len(r)] = q
  <2>1. 0 \in 0..n /\ m \in 0..m
      BY <1>3
  <2> QED BY <1>3, <1>6, <1>8, <1>9, <2>1
<1> QED BY <1>11, <1>12 DEF Leads, r

\* Sequences are equal when their elements are.
LEMMA SameSeq ==
    ASSUME NEW S, NEW q \in Seq(S), NEW r \in Seq(S), Len(q) = Len(r),
           \A i \in 1..Len(q) : q[i] = r[i]
    PROVE  q = r
OBVIOUS

LEMMA JoinTwo ==
    ASSUME NEW S, NEW a \in S, NEW b \in S
    PROVE  <<a>> \o <<b>> = <<a, b>>
<1> DEFINE r == <<a>> \o <<b>>
           q == <<a, b>>
<1>1. r \in Seq(S) /\ Len(r) = 2 /\ r[1] = a /\ r[2] = b
    OBVIOUS
<1>2. q \in Seq(S) /\ Len(q) = 2 /\ q[1] = a /\ q[2] = b
    OBVIOUS
<1>3. \A i \in 1..2 : i = 1 \/ i = 2
    OBVIOUS
<1> HIDE DEF r, q
<1>4. r = q
    BY <1>1, <1>2, <1>3, SameSeq
<1> QED BY <1>4 DEF r, q

LEMMA JoinThree ==
    ASSUME NEW S, NEW a \in S, NEW b \in S, NEW c \in S
    PROVE  <<a, b>> \o <<c>> = <<a, b, c>>
<1> DEFINE r == <<a, b>> \o <<c>>
           q == <<a, b, c>>
<1>1. r \in Seq(S) /\ Len(r) = 3 /\ r[1] = a /\ r[2] = b /\ r[3] = c
    OBVIOUS
<1>2. q \in Seq(S) /\ Len(q) = 3 /\ q[1] = a /\ q[2] = b /\ q[3] = c
    OBVIOUS
<1>3. \A i \in 1..3 : i = 1 \/ i = 2 \/ i = 3
    OBVIOUS
<1> HIDE DEF r, q
<1>4. r = q
    BY <1>1, <1>2, <1>3, SameSeq
<1> QED BY <1>4 DEF r, q

LEMMA JoinFour ==
    ASSUME NEW S, NEW a \in S, NEW b \in S, NEW c \in S, NEW d \in S
    PROVE  <<a, b>> \o <<c, d>> = <<a, b, c, d>>
<1> DEFINE r == <<a, b>> \o <<c, d>>
           q == <<a, b, c, d>>
<1>1. r \in Seq(S) /\ Len(r) = 4 /\ r[1] = a /\ r[2] = b /\ r[3] = c /\ r[4] = d
    OBVIOUS
<1>2. q \in Seq(S) /\ Len(q) = 4 /\ q[1] = a /\ q[2] = b /\ q[3] = c /\ q[4] = d
    OBVIOUS
<1>3. \A i \in 1..4 : i = 1 \/ i = 2 \/ i = 3 \/ i = 4
    OBVIOUS
<1> HIDE DEF r, q
<1>4. r = q
    BY <1>1, <1>2, <1>3, SameSeq
<1> QED BY <1>4 DEF r, q

\* Two, three and four characters.
LEMMA LeadsTwo ==
    ASSUME NEW p \in Places, NEW o \in Places, NEW q \in Places, NEW c \in Char, NEW d \in Char,
           NEW f, Link(p, c, o, f), Link(o, d, q, f)
    PROVE  Leads(p, <<c, d>>, q, f)
<1>1. Leads(p, <<c>>, o, f) /\ Leads(o, <<d>>, q, f)
    BY LeadsOne
<1>2. <<c>> \in Seq(Char) /\ <<d>> \in Seq(Char)
    OBVIOUS
<1>3. Leads(p, <<c>> \o <<d>>, q, f)
    BY <1>1, <1>2, LeadsJoin
<1>4. <<c>> \o <<d>> = <<c, d>>
    BY JoinTwo
<1> QED BY <1>3, <1>4

LEMMA LeadsThree ==
    ASSUME NEW p \in Places, NEW p1 \in Places, NEW p2 \in Places, NEW q \in Places,
           NEW c1 \in Char, NEW c2 \in Char, NEW c3 \in Char, NEW f,
           Link(p, c1, p1, f), Link(p1, c2, p2, f), Link(p2, c3, q, f)
    PROVE  Leads(p, <<c1, c2, c3>>, q, f)
<1>1. Leads(p, <<c1, c2>>, p2, f) /\ Leads(p2, <<c3>>, q, f)
    BY LeadsOne, LeadsTwo
<1>2. <<c1, c2>> \in Seq(Char) /\ <<c3>> \in Seq(Char)
    OBVIOUS
<1>3. Leads(p, <<c1, c2>> \o <<c3>>, q, f)
    BY <1>1, <1>2, LeadsJoin
<1>4. <<c1, c2>> \o <<c3>> = <<c1, c2, c3>>
    BY JoinThree
<1> QED BY <1>3, <1>4

LEMMA LeadsFour ==
    ASSUME NEW p \in Places, NEW p1 \in Places, NEW p2 \in Places, NEW p3 \in Places,
           NEW q \in Places,
           NEW c1 \in Char, NEW c2 \in Char, NEW c3 \in Char, NEW c4 \in Char, NEW f,
           Link(p, c1, p1, f), Link(p1, c2, p2, f), Link(p2, c3, p3, f), Link(p3, c4, q, f)
    PROVE  Leads(p, <<c1, c2, c3, c4>>, q, f)
<1>1. Leads(p, <<c1, c2>>, p2, f) /\ Leads(p2, <<c3, c4>>, q, f)
    BY LeadsTwo
<1>2. <<c1, c2>> \in Seq(Char) /\ <<c3, c4>> \in Seq(Char)
    OBVIOUS
<1>3. Leads(p, <<c1, c2>> \o <<c3, c4>>, q, f)
    BY <1>1, <1>2, LeadsJoin
<1>4. <<c1, c2>> \o <<c3, c4>> = <<c1, c2, c3, c4>>
    BY JoinFour
<1> QED BY <1>3, <1>4

\* Any number of characters that lead back to the same place.
LEMMA LeadsAround ==
    ASSUME NEW p \in Places, NEW t \in Seq(Char), NEW f, \A i \in 1..Len(t) : Link(p, t[i], p, f)
    PROVE  Leads(p, t, p, f)
<1> DEFINE tp == [i \in 0..Len(t) |-> p]
<1>1. Len(t) \in Nat
    OBVIOUS
<1>2. \A i \in 1..Len(t) : i - 1 \in 0..Len(t) /\ i \in 0..Len(t)
    BY <1>1
<1>3. \A i \in 1..Len(t) : tp[i - 1] = p /\ tp[i] = p
    BY <1>2
<1>4. tp \in [0..Len(t) -> Places] /\ tp[0] = p /\ tp[Len(t)] = p
    BY <1>1
<1> HIDE DEF tp
<1>5. Prints(t, tp, f)
    BY <1>3, <1>4 DEF Prints
<1> QED BY <1>4, <1>5 DEF Leads

\* The characters of the texts are characters.
LEMMA TextChars ==
    /\ Sp \in Char /\ Nl \in Char /\ Begin \in Char
    /\ \A x \in White \cup NonWhite : Ch(x) \in Char
    /\ \A n \in Nat : [class |-> "letter", of |-> n] \in Char
<1>1. \A x \in White \cup NonWhite : Ch(x) \in Char
    BY DEF Ch, Char
<1>2. \A n \in Nat : [class |-> "letter", of |-> n] \in Char
    BY DEF Char, NonWhite
<1>3. "space" \in White /\ "newline" \in White /\ "begin" \in NonWhite
    BY DEF White, NonWhite
<1> QED BY <1>1, <1>2, <1>3 DEF Sp, Nl, Begin

\* The header.
LEMMA HeaderLeads ==
    ASSUME NEW b \in 1..N, NEW f, NEW p \in Places, p.kind = "cat", p.b = b
    PROVE  /\ Text("header", b) \in Seq(Char)
           /\ \E q \in Places : Leads(p, Text("header", b), q, f) /\ q.kind = "name1" /\ q.b = b
<1> DEFINE p1 == Pl("cat1", b, 0)
           p2 == Pl("dash", b, 0)
           p3 == Pl("name", b, 0)
           q == Pl("name1", b, 0)
           d == Ch("dash")
           c == [class |-> "letter", of |-> b]
           n == [class |-> "letter", of |-> b + N]
<1>1. b \in 1..(N + 1) /\ b \in Nat /\ b + N \in Nat
    BY HarnessAssumption
<1>2. /\ p1 \in Places /\ p1.kind = "cat1" /\ p1.b = b
      /\ p2 \in Places /\ p2.kind = "dash" /\ p2.b = b
      /\ p3 \in Places /\ p3.kind = "name" /\ p3.b = b
      /\ q \in Places /\ q.kind = "name1" /\ q.b = b
    BY <1>1, PlFacts DEF Kinds
<1>3. d \in Char /\ c \in Char /\ n \in Char /\ Sp \in Char
    BY <1>1, TextChars DEF NonWhite
<1>4. /\ CatLink(p, c, p1) /\ Cat1Link(p1, Sp, p2) /\ DashLink(p2, d, p3)
      /\ NameSpace(p3, Sp, p3) /\ NameLink(p3, n, q)
  <2> HIDE DEF p1, p2, p3, q
  <2> QED BY <1>2 DEF CatLink, Cat1Link, DashLink, NameSpace, NameLink, Along
<1> HIDE DEF p1, p2, p3, q, d, c, n
<1>5. /\ Link(p, c, p1, f) /\ Link(p1, Sp, p2, f) /\ Link(p2, d, p3, f)
      /\ Link(p3, Sp, p3, f) /\ Link(p3, n, q, f)
    BY <1>4 DEF Link, GoodLink, HeaderLink
<1>6. Leads(p, <<c>>, p1, f) /\ Leads(p1, <<Sp, d, Sp>>, p3, f) /\ Leads(p3, <<n>>, q, f)
    BY <1>2, <1>3, <1>5, LeadsOne, LeadsThree
<1>7. <<c>> \in Seq(Char) /\ <<Sp, d, Sp>> \in Seq(Char) /\ <<n>> \in Seq(Char)
    BY <1>3
<1>8. Leads(p, <<c>> \o <<Sp, d, Sp>>, p3, f)
    BY <1>6, <1>7, LeadsJoin
<1>9. <<c>> \o <<Sp, d, Sp>> \in Seq(Char)
    BY <1>7
<1>10. Leads(p, (<<c>> \o <<Sp, d, Sp>>) \o <<n>>, q, f)
    BY <1>6, <1>7, <1>8, <1>9, LeadsJoin
<1>11. Text("header", b) = (<<c>> \o <<Sp, d, Sp>>) \o <<n>>
    BY DEF Text, CatText, NameText, c, d, n
<1>12. (<<c>> \o <<Sp, d, Sp>>) \o <<n>> \in Seq(Char)
    BY <1>7, <1>9
<1> QED BY <1>2, <1>10, <1>11, <1>12

\* The count.
LEMMA CountLeads ==
    ASSUME NEW b \in 1..N, NEW f, NEW p \in Places, p.kind = "name1", p.b = b
    PROVE  /\ Text("iter", b) \in Seq(Char)
           /\ \E q \in Places : /\ Leads(p, Text("iter", b), q, f)
                                /\ q.kind = "digit" /\ q.b = b /\ q.k = Len(CountChars(b))
<1> DEFINE n == Len(CountChars(b))
           at(k) == Pl("digit", b, k)
           tp == [k \in 0..n |-> at(k)]
<1>1. b \in 1..(N + 1) /\ n \in Nat /\ CountChars(b) \in Seq(Char)
    BY HarnessAssumption, CountCharsType
<1>2. \A k \in Nat : at(k) \in Places /\ at(k).kind = "digit" /\ at(k).b = b /\ at(k).k = k
    BY <1>1, PlFacts DEF Kinds
<1> HIDE DEF at
<1>3. tp \in [0..n -> Places] /\ tp[0] = at(0) /\ tp[n] = at(n)
    BY <1>1, <1>2
<1>4. ASSUME NEW i \in 1..n PROVE Link(tp[i - 1], CountChars(b)[i], tp[i], f)
  <2>1. i - 1 \in 0..n /\ i \in 0..n /\ i - 1 \in Nat /\ i \in Nat /\ i - 1 < n /\ (i - 1) + 1 = i
      BY <1>1
  <2>2. tp[i - 1] = at(i - 1) /\ tp[i] = at(i)
      BY <2>1
  <2> HIDE DEF tp
  <2>3. DigitLink(at(i - 1), CountChars(b)[i], at(i))
      BY <1>2, <2>1 DEF DigitLink, Along
  <2> QED BY <2>2, <2>3 DEF Link, GoodLink, CountLink
<1> HIDE DEF tp
<1>5. Leads(at(0), CountChars(b), at(n), f)
    BY <1>3, <1>4 DEF Leads, Prints
<1>6. Leads(p, <<Sp>>, at(0), f)
  <2>1. at(0) \in Places /\ at(0).kind = "digit" /\ at(0).b = b /\ at(0).k = 0
      BY <1>2
  <2>2. Name1Link(p, Sp, at(0))
      BY <2>1 DEF Name1Link, Along
  <2> QED BY <2>1, <2>2, LeadsOne DEF Link, GoodLink, CountLink
<1>7. <<Sp>> \in Seq(Char) /\ Text("iter", b) = <<Sp>> \o CountChars(b)
    BY TextChars, CountSurvives DEF Text
<1>8. Leads(p, <<Sp>> \o CountChars(b), at(n), f)
    BY <1>1, <1>5, <1>6, <1>7, LeadsJoin
<1>9. <<Sp>> \o CountChars(b) \in Seq(Char)
    BY <1>1, <1>7
<1> QED BY <1>1, <1>2, <1>7, <1>8, <1>9

\* The space behind the count.
LEMMA GapLeads ==
    ASSUME NEW b \in 1..N, NEW f, NEW p \in Places, p.kind = "digit", p.b = b,
           p.k = Len(CountChars(b))
    PROVE  \E g \in Places : Link(p, Sp, g, f) /\ g.kind = "gap" /\ g.b = b
<1> DEFINE g == Pl("gap", b, 0)
<1>1. g \in Places /\ g.kind = "gap" /\ g.b = b
  <2>1. b \in 1..(N + 1)
      BY HarnessAssumption
  <2> QED BY <2>1, PlFacts DEF Kinds
<1> HIDE DEF g
<1>2. DigitsEnd(p, Sp, g)
    BY <1>1 DEF DigitsEnd, Along
<1> QED BY <1>1, <1>2 DEF Link, GoodLink, CountLink

\* "{" and "}".
LEMMA ControlOpenLeads ==
    ASSUME NEW b \in HasControl, NEW f, NEW p \in Places, p.kind = "digit", p.b = b,
           p.k = Len(CountChars(b))
    PROVE  /\ Text("control_open", b) \in Seq(Char)
           /\ \E q \in Places : /\ Leads(p, Text("control_open", b), q, f)
                                /\ q.kind = "control" /\ q.b = b
<1>1. b \in 1..N /\ b \in 1..(N + 1)
    BY HarnessAssumption
<1>2. PICK g \in Places : Link(p, Sp, g, f) /\ g.kind = "gap" /\ g.b = b
    BY <1>1, GapLeads
<1> DEFINE q == Pl("control", b, 0)
           c == Ch("{")
<1>3. q \in Places /\ q.kind = "control" /\ q.b = b
    BY <1>1, PlFacts DEF Kinds
<1>4. Sp \in Char /\ c \in Char
    BY TextChars DEF NonWhite
<1>5. ControlOpen(g, c, q)
  <2> HIDE DEF q
  <2> QED BY <1>2, <1>3 DEF ControlOpen, Along
<1>6. Text("control_open", b) = <<Sp, c>>
    BY DEF Text
<1> HIDE DEF q, c
<1>7. Link(g, c, q, f)
    BY <1>5 DEF Link, GoodLink, TimingLink
<1>8. Leads(p, <<Sp, c>>, q, f)
    BY <1>2, <1>3, <1>4, <1>7, LeadsTwo
<1>9. <<Sp, c>> \in Seq(Char)
    BY <1>4
<1> QED BY <1>3, <1>6, <1>8, <1>9

LEMMA ControlCloseLeads ==
    ASSUME NEW b \in HasControl, NEW f, NEW p \in Places, p.kind = "control", p.b = b,
           <<"control", b>> \in f
    PROVE  /\ Text("control_close", b) \in Seq(Char)
           /\ \E q \in Places : /\ Leads(p, Text("control_close", b), q, f)
                                /\ q.kind = "regap" /\ q.b = b
<1>1. b \in 1..N /\ b \in 1..(N + 1)
    BY HarnessAssumption
<1> DEFINE q == Pl("regap", b, 0)
           c == Ch("}")
<1>2. q \in Places /\ q.kind = "regap" /\ q.b = b
    BY <1>1, PlFacts DEF Kinds
<1>3. c \in Char
    BY TextChars DEF NonWhite
<1>4. ControlClose(p, c, q, f)
  <2> HIDE DEF q
  <2> QED BY <1>2 DEF ControlClose, Along
<1>5. Text("control_close", b) = <<c>>
    BY DEF Text
<1> HIDE DEF q, c
<1>6. Leads(p, <<c>>, q, f)
    BY <1>2, <1>4, LeadsOne DEF Link, GoodLink, TimingLink
<1>7. <<c>> \in Seq(Char)
    BY <1>3
<1> QED BY <1>2, <1>5, <1>6, <1>7

\* "[", behind the count or behind a control, and "]".
LEMMA OpenLeads ==
    ASSUME NEW b \in 1..N, NEW f, NEW p \in Places, p.b = b,
           \/ p.kind = "digit" /\ p.k = Len(CountChars(b)) /\ b \notin HasControl
           \/ p.kind = "regap" /\ b \in HasControl
    PROVE  /\ Text("open", b) \in Seq(Char)
           /\ \E q \in Places : Leads(p, Text("open", b), q, f) /\ q.kind = "kernel" /\ q.b = b
<1>1. b \in 1..(N + 1)
    BY HarnessAssumption
<1>2. PICK g \in Places : /\ Link(p, Sp, g, f) /\ g.b = b
                          /\ \/ g.kind = "gap" /\ b \notin HasControl
                             \/ g.kind = "regap" /\ b \in HasControl
  <2>1. CASE p.kind = "digit" /\ p.k = Len(CountChars(b)) /\ b \notin HasControl
      BY <2>1, GapLeads
  <2>2. CASE p.kind = "regap" /\ b \in HasControl
    <3>1. RegapSpace(p, Sp, p)
        BY <2>2 DEF RegapSpace, Along
    <3> QED BY <2>2, <3>1 DEF Link, GoodLink, TimingLink
  <2> QED BY <2>1, <2>2
<1> DEFINE q == Pl("kernel", b, 0)
           c == Ch("[")
<1>3. q \in Places /\ q.kind = "kernel" /\ q.b = b
    BY <1>1, PlFacts DEF Kinds
<1>4. Sp \in Char /\ c \in Char
    BY TextChars DEF NonWhite
<1>5. KernelOpen(g, c, q)
  <2> HIDE DEF q
  <2> QED BY <1>2, <1>3 DEF KernelOpen, Along
<1>6. Text("open", b) = <<Sp, c>>
    BY DEF Text
<1> HIDE DEF q, c
<1>7. Link(g, c, q, f)
    BY <1>5 DEF Link, GoodLink, TimingLink
<1>8. Leads(p, <<Sp, c>>, q, f)
    BY <1>2, <1>3, <1>4, <1>7, LeadsTwo
<1>9. <<Sp, c>> \in Seq(Char)
    BY <1>4
<1> QED BY <1>3, <1>6, <1>8, <1>9

LEMMA CloseLeads ==
    ASSUME NEW b \in 1..N, NEW f, NEW p \in Places, p.kind = "kernel", p.b = b,
           <<"kernel", b>> \in f
    PROVE  /\ Text("close", b) \in Seq(Char)
           /\ \E q \in Places : Leads(p, Text("close", b), q, f) /\ q.kind = "cat" /\ q.b = b + 1
<1>1. b + 1 \in 1..(N + 1)
    BY HarnessAssumption
<1> DEFINE q == Pl("cat", b + 1, 0)
           c == Ch("]")
<1>2. q \in Places /\ q.kind = "cat" /\ q.b = b + 1
    BY <1>1, PlFacts DEF Kinds
<1>3. c \in Char /\ Nl \in Char
    BY TextChars DEF NonWhite
<1>4. KernelClose(p, c, q, f) /\ BlankLink(q, Nl, q)
  <2> HIDE DEF q
  <2> QED BY <1>2 DEF KernelClose, BlankLink, Along
<1>5. Text("close", b) = <<c, Nl>>
    BY DEF Text
<1> HIDE DEF q, c
<1>6. Link(p, c, q, f) /\ Link(q, Nl, q, f)
    BY <1>4 DEF Link, GoodLink, TimingLink, StartLink
<1>7. Leads(p, <<c, Nl>>, q, f)
    BY <1>2, <1>3, <1>6, LeadsTwo
<1>8. <<c, Nl>> \in Seq(Char)
    BY <1>3
<1> QED BY <1>2, <1>5, <1>7, <1>8

\* The END line.
LEMMA EndLeads ==
    ASSUME NEW b, NEW f, NEW p \in Places, p.kind = "cat", p.b = N + 1
    PROVE  /\ Text("end", b) \in Seq(Char)
           /\ \E q \in Places : Leads(p, Text("end", b), q, f) /\ q.kind = "end4"
<1>1. N + 1 \in 1..(N + 1)
    BY HarnessAssumption
<1> DEFINE p1 == Pl("end1", N + 1, 0)
           p2 == Pl("end2", N + 1, 0)
           p3 == Pl("end3", N + 1, 0)
           q == Pl("end4", N + 1, 0)
           c == Ch("letter")
<1>2. /\ p1 \in Places /\ p1.kind = "end1" /\ p1.b = N + 1
      /\ p2 \in Places /\ p2.kind = "end2" /\ p2.b = N + 1
      /\ p3 \in Places /\ p3.kind = "end3" /\ p3.b = N + 1
      /\ q \in Places /\ q.kind = "end4" /\ q.b = N + 1
    BY <1>1, PlFacts DEF Kinds
<1>3. c \in Char /\ Nl \in Char /\ Sp \in Char
    BY TextChars DEF NonWhite
<1>4. EndLink(p, c, p1) /\ End1Link(p1, Sp, p2) /\ End2Link(p2, c, p3) /\ End3Link(p3, Nl, q)
  <2> HIDE DEF p1, p2, p3, q
  <2> QED BY <1>2 DEF EndLink, End1Link, End2Link, End3Link, Along
<1>5. Text("end", b) = <<c, Sp, c, Nl>>
    BY DEF Text, EndText
<1> HIDE DEF p1, p2, p3, q, c
<1>6. Link(p, c, p1, f) /\ Link(p1, Sp, p2, f) /\ Link(p2, c, p3, f) /\ Link(p3, Nl, q, f)
    BY <1>4 DEF Link, GoodLink, LastLink
<1>7. Leads(p, <<c, Sp, c, Nl>>, q, f)
    BY <1>2, <1>3, <1>6, LeadsFour
<1>8. <<c, Sp, c, Nl>> \in Seq(Char)
    BY <1>3
<1> QED BY <1>2, <1>5, <1>7, <1>8

------------------------------------------------------------------------------
(* What is assumed of the texts that the harness does not print itself *)

\* Only the spinner prints while a kernel is timed, nothing prints around it,
\* and the simulator's banner is not the BEGIN line.
QuietTexts ==
    /\ \A t \in NoiseTexts : \A i \in 1..Len(t) : t[i].class \in Skipped
    /\ InitTexts = {}
    /\ \A i \in 1..Len(BootText) : BootText[i].class # "begin"

\* In the message of a fatal error a dash stands inside a word, as it does in
\* "x86-64: abort!" and "unhandled page-fault", the two that have one.
DashesInWords ==
    \A t \in AbortTexts : \A i \in 1..Len(t) :
        t[i].class = "dash" => i > 1 /\ t[i - 1].class \notin White

\* The spinner in a control or a kernel.
LEMMA NoiseLeads ==
    ASSUME QuietTexts, NEW t \in NoiseTexts, NEW f, NEW p \in Places,
           p.kind \in {"control", "kernel"}
    PROVE  t \in Seq(Char) /\ Leads(p, t, p, f)
<1>1. t \in Seq(Char)
    BY TextAssumption
<1>2. ASSUME NEW i \in 1..Len(t) PROVE Link(p, t[i], p, f)
  <2>1. ControlNoise(p, t[i], p) \/ KernelNoise(p, t[i], p)
      BY DEF QuietTexts, ControlNoise, KernelNoise, Along
  <2> QED BY <2>1 DEF Link, GoodLink, TimingLink
<1> QED BY <1>1, <1>2, LeadsAround

\* A fatal error leads away from the grammar.
LEMMA AbortLeads ==
    ASSUME DashesInWords, NEW t \in AbortTexts, NEW f, NEW p \in Places
    PROVE  t \in Seq(Char) /\ \E q \in Places : Leads(p, t, q, f)
<1>1. t \in Seq(Char) /\ Len(t) \in Nat
  <2>1. t \in Seq(Char)
      BY TextAssumption
  <2> QED BY <2>1
<1> DEFINE bad == BadPlace(p)
           badword == [p EXCEPT !.kind = "badword"]
           tp == [i \in 0..Len(t) |->
                     IF i = 0 THEN p ELSE IF t[i].class \in White THEN bad ELSE badword]
<1>2. bad \in Places /\ bad.kind = "bad"
    BY BadPlaceFacts
<1>3. badword \in Places /\ badword.kind = "badword"
    BY DEF Places, Kinds
<1> HIDE DEF bad, badword
<1>4. tp \in [0..Len(t) -> Places] /\ tp[0] = p /\ tp[Len(t)] \in Places
    BY <1>1, <1>2, <1>3
<1>5. ASSUME NEW i \in 1..Len(t) PROVE tp[i] = IF t[i].class \in White THEN bad ELSE badword
  <2>1. i \in 0..Len(t) /\ i # 0
      BY <1>1
  <2> QED BY <2>1
<1> HIDE DEF tp
<1>6. ASSUME NEW i \in 1..Len(t) PROVE Link(tp[i - 1], t[i], tp[i], f)
  <2>1. Faulty
      BY DEF Faulty
  <2>2. tp[i].kind \in {"bad", "badword"} /\ (tp[i].kind = "badword" => t[i].class \notin White)
      BY <1>2, <1>3, <1>5
  <2>3. ASSUME t[i].class = "dash" PROVE tp[i - 1].kind = "badword"
    <3>1. i > 1 /\ t[i - 1].class \notin White
        BY <2>3 DEF DashesInWords
    <3>2. i - 1 \in 1..Len(t)
        BY <1>1, <3>1
    <3> QED BY <1>3, <1>5, <3>1, <3>2
  <2> QED BY <2>1, <2>2, <2>3 DEF Link, BadLink
<1>7. Prints(t, tp, f)
    BY <1>4, <1>6 DEF Prints
<1> QED BY <1>1, <1>4, <1>7 DEF Leads

------------------------------------------------------------------------------
(* The guest goes on *)

Phases == Printing \cup Running

\* The phase that comes next, for a benchmark with a control and for one without.
Following(b) ==
    [p \in Phases |->
        CASE p = "header" -> "init"
          [] p = "init" -> "iter"
          [] p = "iter" -> IF b \in HasControl THEN "control_open" ELSE "open"
          [] p = "control_open" -> "control"
          [] p = "control" -> "control_close"
          [] p = "control_close" -> "open"
          [] p = "open" -> "kernel"
          [] p = "kernel" -> "close"
          [] OTHER -> "cleanup"]

LEMMA TheOnlyOne ==
    ASSUME NEW o, NEW n, DOMAIN o = 1..n, NEW j \in 1..n, NEW p, o[j] = p,
           \A i \in 1..n : o[i] = p => i = j
    PROVE  (CHOOSE i \in DOMAIN o : o[i] = p) = j
<1>1. \E i \in DOMAIN o : o[i] = p
    OBVIOUS
<1> DEFINE h == CHOOSE i \in DOMAIN o : o[i] = p
<1>2. h \in DOMAIN o /\ o[h] = p
    BY <1>1
<1> HIDE DEF h
<1>3. h = j
    BY <1>2
<1> QED BY <1>3 DEF h

\* The elements of a concatenation.
LEMMA JoinElements ==
    ASSUME NEW S, NEW a \in Seq(S), NEW b \in Seq(S)
    PROVE  /\ a \o b \in Seq(S) /\ Len(a \o b) = Len(a) + Len(b)
           /\ \A i \in 1..Len(a) : (a \o b)[i] = a[i]
           /\ \A i \in 1..Len(b) : (a \o b)[Len(a) + i] = b[i]
OBVIOUS

\* The ten steps of a benchmark with a control.
LEMMA LongOrder ==
    ASSUME NEW b \in HasControl, NEW o, o = HarnessExecute(b)
    PROVE  /\ DOMAIN o = 1..10
           /\ o[1] = "header" /\ o[2] = "init" /\ o[3] = "iter"
           /\ o[4] = "control_open" /\ o[5] = "control" /\ o[6] = "control_close"
           /\ o[7] = "open" /\ o[8] = "kernel" /\ o[9] = "close" /\ o[10] = "cleanup"
<1> DEFINE x == <<"header", "init", "iter">>
           y == <<"control_open", "control", "control_close">>
           w == <<"open", "kernel", "close", "cleanup">>
<1>1. o = (x \o y) \o w
    BY DEF HarnessExecute, ControlPhases
<1>2. x \in Seq(Phases) /\ Len(x) = 3 /\ x[1] = "header" /\ x[2] = "init" /\ x[3] = "iter"
    BY DEF Phases, Printing, Running
<1>3. /\ y \in Seq(Phases) /\ Len(y) = 3
      /\ y[1] = "control_open" /\ y[2] = "control" /\ y[3] = "control_close"
    BY DEF Phases, Printing, Running
<1>4. /\ w \in Seq(Phases) /\ Len(w) = 4
      /\ w[1] = "open" /\ w[2] = "kernel" /\ w[3] = "close" /\ w[4] = "cleanup"
    BY DEF Phases, Printing, Running
<1> HIDE DEF x, y, w
<1> DEFINE xy == x \o y
<1>5. /\ xy \in Seq(Phases) /\ Len(xy) = 6
      /\ xy[1] = x[1] /\ xy[2] = x[2] /\ xy[3] = x[3]
      /\ xy[4] = y[1] /\ xy[5] = y[2] /\ xy[6] = y[3]
  <2>1. /\ xy \in Seq(Phases) /\ Len(xy) = 3 + 3
        /\ \A i \in 1..3 : xy[i] = x[i]
        /\ \A i \in 1..3 : xy[3 + i] = y[i]
      BY <1>2, <1>3, JoinElements
  <2> HIDE DEF xy
  <2>2. xy[1] = x[1] /\ xy[2] = x[2] /\ xy[3] = x[3]
      BY <2>1
  <2>3. xy[3 + 1] = y[1] /\ xy[3 + 2] = y[2] /\ xy[3 + 3] = y[3]
      BY <2>1
  <2> QED BY <2>1, <2>2, <2>3
<1>6. o = xy \o w
    BY <1>1
<1> HIDE DEF xy
<1>7. /\ o \in Seq(Phases) /\ Len(o) = 10
      /\ o[1] = xy[1] /\ o[2] = xy[2] /\ o[3] = xy[3]
      /\ o[4] = xy[4] /\ o[5] = xy[5] /\ o[6] = xy[6]
      /\ o[7] = w[1] /\ o[8] = w[2] /\ o[9] = w[3] /\ o[10] = w[4]
  <2>1. /\ o \in Seq(Phases) /\ Len(o) = 6 + 4
        /\ \A i \in 1..6 : o[i] = xy[i]
        /\ \A i \in 1..4 : o[6 + i] = w[i]
    <3>1. xy \in Seq(Phases) /\ w \in Seq(Phases)
        BY <1>4, <1>5
    <3>2. /\ xy \o w \in Seq(Phases) /\ Len(xy \o w) = Len(xy) + Len(w)
          /\ \A i \in 1..Len(xy) : (xy \o w)[i] = xy[i]
          /\ \A i \in 1..Len(w) : (xy \o w)[Len(xy) + i] = w[i]
        BY <3>1, JoinElements
    <3> QED BY <1>4, <1>5, <1>6, <3>2
  <2>2. /\ o[1] = xy[1] /\ o[2] = xy[2] /\ o[3] = xy[3]
        /\ o[4] = xy[4] /\ o[5] = xy[5] /\ o[6] = xy[6]
      BY <2>1
  <2>3. o[6 + 1] = w[1] /\ o[6 + 2] = w[2] /\ o[6 + 3] = w[3] /\ o[6 + 4] = w[4]
      BY <2>1
  <2> QED BY <2>1, <2>2, <2>3
<1>8. DOMAIN o = 1..10
    BY <1>7
<1> QED BY <1>2, <1>3, <1>4, <1>5, <1>7, <1>8

\* The seven of one without.
LEMMA ShortOrder ==
    ASSUME NEW b, b \notin HasControl, NEW o, o = HarnessExecute(b)
    PROVE  /\ DOMAIN o = 1..7
           /\ o[1] = "header" /\ o[2] = "init" /\ o[3] = "iter"
           /\ o[4] = "open" /\ o[5] = "kernel" /\ o[6] = "close" /\ o[7] = "cleanup"
<1> DEFINE x == <<"header", "init", "iter">>
           w == <<"open", "kernel", "close", "cleanup">>
<1>1. o = (x \o <<>>) \o w
    BY DEF HarnessExecute, ControlPhases
<1>2. x \in Seq(Phases) /\ Len(x) = 3 /\ x[1] = "header" /\ x[2] = "init" /\ x[3] = "iter"
    BY DEF Phases, Printing, Running
<1>3. /\ w \in Seq(Phases) /\ Len(w) = 4
      /\ w[1] = "open" /\ w[2] = "kernel" /\ w[3] = "close" /\ w[4] = "cleanup"
    BY DEF Phases, Printing, Running
<1> HIDE DEF x, w
<1>4. o = x \o w
  <2>1. x \o <<>> = x
      BY <1>2
  <2> QED BY <1>1, <2>1
<1>5. /\ o \in Seq(Phases) /\ Len(o) = 7
      /\ o[1] = x[1] /\ o[2] = x[2] /\ o[3] = x[3]
      /\ o[4] = w[1] /\ o[5] = w[2] /\ o[6] = w[3] /\ o[7] = w[4]
  <2>1. /\ o \in Seq(Phases) /\ Len(o) = 3 + 4
        /\ \A i \in 1..3 : o[i] = x[i]
        /\ \A i \in 1..4 : o[3 + i] = w[i]
    <3>1. x \in Seq(Phases) /\ w \in Seq(Phases)
        BY <1>2, <1>3
    <3>2. /\ x \o w \in Seq(Phases) /\ Len(x \o w) = Len(x) + Len(w)
          /\ \A i \in 1..Len(x) : (x \o w)[i] = x[i]
          /\ \A i \in 1..Len(w) : (x \o w)[Len(x) + i] = w[i]
        BY <3>1, JoinElements
    <3> QED BY <1>2, <1>3, <1>4, <3>2
  <2>2. o[1] = x[1] /\ o[2] = x[2] /\ o[3] = x[3]
      BY <2>1
  <2>3. o[3 + 1] = w[1] /\ o[3 + 2] = w[2] /\ o[3 + 3] = w[3] /\ o[3 + 4] = w[4]
      BY <2>1
  <2> QED BY <2>1, <2>2, <2>3
<1>6. DOMAIN o = 1..7
    BY <1>5
<1> QED BY <1>2, <1>3, <1>5, <1>6

\* Advance follows the order, one step at a time.
LEMMA Follows ==
    ASSUME NEW b, NEW p \in Phases \ {"cleanup", "end"},
           p \in {"control_open", "control", "control_close"} => b \in HasControl,
           NEW o, o = HarnessExecute(b)
    PROVE  o[(CHOOSE i \in DOMAIN o : o[i] = p) + 1] = Following(b)[p]
<1> DEFINE h == CHOOSE i \in DOMAIN o : o[i] = p
<1>1. p \in Phases /\ p \in {"header", "init", "iter", "control_open", "control", "control_close",
                             "open", "kernel", "close"}
    BY DEF Phases, Printing, Running
<1>2. CASE b \in HasControl
  <2>1. /\ DOMAIN o = 1..10
        /\ o[1] = "header" /\ o[2] = "init" /\ o[3] = "iter"
        /\ o[4] = "control_open" /\ o[5] = "control" /\ o[6] = "control_close"
        /\ o[7] = "open" /\ o[8] = "kernel" /\ o[9] = "close" /\ o[10] = "cleanup"
      BY <1>2, LongOrder
  <2>2. \A i \in 1..10 : i = 1 \/ i = 2 \/ i = 3 \/ i = 4 \/ i = 5 \/ i = 6 \/ i = 7 \/ i = 8
                            \/ i = 9 \/ i = 10
      OBVIOUS
  <2>3. ASSUME NEW j \in 1..10, o[j] = p PROVE h = j
    <3>1. \A i \in 1..10 : o[i] = p => i = j
        BY <2>1, <2>2, <2>3
    <3> QED BY <2>1, <2>3, <3>1, TheOnlyOne
  <2> HIDE DEF h
  <2>4. h \in 1..9 /\ p = o[h]
      BY <1>1, <2>1, <2>3
  <2>5. \A i \in 1..9 : o[i] = p => o[i + 1] = Following(b)[p]
    <3>1. ASSUME NEW i \in 1..9, o[i] = p PROVE o[i + 1] = Following(b)[p]
        BY <1>1, <1>2, <2>1, <3>1 DEF Following
    <3> QED BY <3>1
  <2>6. o[h + 1] = Following(b)[p]
      BY <2>4, <2>5
  <2> QED BY <2>6 DEF h
<1>3. CASE b \notin HasControl
  <2>1. /\ DOMAIN o = 1..7
        /\ o[1] = "header" /\ o[2] = "init" /\ o[3] = "iter"
        /\ o[4] = "open" /\ o[5] = "kernel" /\ o[6] = "close" /\ o[7] = "cleanup"
      BY <1>3, ShortOrder
  <2>2. \A i \in 1..7 : i = 1 \/ i = 2 \/ i = 3 \/ i = 4 \/ i = 5 \/ i = 6 \/ i = 7
      OBVIOUS
  <2>3. ASSUME NEW j \in 1..7, o[j] = p PROVE h = j
    <3>1. \A i \in 1..7 : o[i] = p => i = j
        BY <2>1, <2>2, <2>3
    <3> QED BY <2>1, <2>3, <3>1, TheOnlyOne
  <2> HIDE DEF h
  <2>4. h \in 1..6 /\ p = o[h]
      BY <1>1, <1>3, <2>1, <2>3
  <2>5. \A i \in 1..6 : o[i] = p => o[i + 1] = Following(b)[p]
    <3>1. ASSUME NEW i \in 1..6, o[i] = p PROVE o[i + 1] = Following(b)[p]
        BY <1>1, <1>3, <2>1, <3>1 DEF Following
    <3> QED BY <3>1
  <2>6. o[h + 1] = Following(b)[p]
      BY <2>4, <2>5
  <2> QED BY <2>6 DEF h
<1> QED BY <1>2, <1>3

\* Where Advance leads.
LEMMA Advances ==
    ASSUME HarnessTypeOK, Advance, phase \in Phases
    PROVE  /\ noise' = NoiseMax
           /\ phase = "end" => phase' = "shutdown" /\ bench' = bench
           /\ phase = "cleanup" =>
                 IF bench < N THEN phase' = "header" /\ bench' = bench + 1
                              ELSE phase' = "end" /\ bench' = bench
           /\ phase \notin {"end", "cleanup"} =>
                 phase' = Following(bench)[phase] /\ bench' = bench
<1>1. ASSUME phase \notin {"end", "cleanup"} PROVE phase' = Following(bench)[phase]
  <2>1. PICK b, p, o : b = bench /\ p = phase /\ o = HarnessExecute(b)
      OBVIOUS
  <2>2. p \in Phases \ {"cleanup", "end"}
      BY <1>1, <2>1
  <2>3. p \in {"control_open", "control", "control_close"} => b \in HasControl
      BY <2>1 DEF HarnessTypeOK
  <2>4. o[(CHOOSE i \in DOMAIN o : o[i] = p) + 1] = Following(b)[p]
      BY <2>1, <2>2, <2>3, Follows
  <2>5. phase' = o[(CHOOSE i \in DOMAIN o : o[i] = p) + 1]
      BY <1>1, <2>1 DEF Advance
  <2> QED BY <2>1, <2>4, <2>5
<1>2. phase # "cleanup" => bench' = bench
    BY DEF Advance
<1>3. phase = "end" => phase' = "shutdown"
    BY DEF Advance
<1>4. phase = "cleanup" =>
         IF bench < N THEN phase' = "header" /\ bench' = bench + 1
                      ELSE phase' = "end" /\ bench' = bench
    BY DEF Advance
<1> QED BY <1>1, <1>2, <1>3, <1>4 DEF Advance

------------------------------------------------------------------------------
(* Types *)

\* Every fprintf of the harness writes characters.
LEMMA TextTypes ==
    ASSUME NEW p \in Printing, NEW b, p # "end" => b \in 1..N,
           p \in {"control_open", "control_close"} => b \in HasControl
    PROVE  Text(p, b) \in Seq(Char)
<1>1. CASE p = "end"
  <2> DEFINE o == Pl("cat", N + 1, 0)
  <2>1. o \in Places /\ o.kind = "cat" /\ o.b = N + 1
    <3>1. N + 1 \in 1..(N + 1)
        BY HarnessAssumption
    <3> QED BY <3>1, PlFacts DEF Kinds
  <2> HIDE DEF o
  <2> QED BY <1>1, <2>1, EndLeads
<1>2. CASE p # "end"
  <2>1. b \in 1..N /\ b \in 1..(N + 1) /\ Len(CountChars(b)) \in Nat
    <3>1. b \in 1..N
        BY <1>2
    <3>2. CountChars(b) \in Seq(Char)
        BY <3>1, CountCharsType
    <3> QED BY <3>1, <3>2, HarnessAssumption
  <2> DEFINE at(kind) == Pl(kind, b, Len(CountChars(b)))
  <2>2. \A kind \in Kinds : /\ at(kind) \in Places /\ at(kind).kind = kind /\ at(kind).b = b
                            /\ at(kind).k = Len(CountChars(b))
      BY <2>1, PlFacts
  <2>3. {"cat", "name1", "digit", "control", "regap", "kernel"} \subseteq Kinds
      BY DEF Kinds
  <2> HIDE DEF at
  <2>4. CASE p = "header"
    <3>1. at("cat") \in Places /\ at("cat").kind = "cat" /\ at("cat").b = b
        BY <2>2, <2>3
    <3> QED BY <2>1, <2>4, <3>1, HeaderLeads
  <2>5. CASE p = "iter"
    <3>1. at("name1") \in Places /\ at("name1").kind = "name1" /\ at("name1").b = b
        BY <2>2, <2>3
    <3> QED BY <2>1, <2>5, <3>1, CountLeads
  <2>6. CASE p = "control_open"
    <3>1. /\ at("digit") \in Places /\ at("digit").kind = "digit" /\ at("digit").b = b
          /\ at("digit").k = Len(CountChars(b))
        BY <2>2, <2>3
    <3> QED BY <2>6, <3>1, ControlOpenLeads
  <2>7. CASE p = "control_close"
    <3>1. at("control") \in Places /\ at("control").kind = "control" /\ at("control").b = b
        BY <2>2, <2>3
    <3>2. <<"control", b>> \in {<<"control", b>>}
        OBVIOUS
    <3> QED BY <2>7, <3>1, <3>2, ControlCloseLeads
  <2>8. CASE p = "open"
    <3>1. /\ at("digit") \in Places /\ at("digit").kind = "digit" /\ at("digit").b = b
          /\ at("digit").k = Len(CountChars(b))
          /\ at("regap") \in Places /\ at("regap").kind = "regap" /\ at("regap").b = b
        BY <2>2, <2>3
    <3>2. CASE b \in HasControl
        BY <2>1, <2>8, <3>1, <3>2, OpenLeads
    <3>3. CASE b \notin HasControl
        BY <2>1, <2>8, <3>1, <3>3, OpenLeads
    <3> QED BY <3>2, <3>3
  <2>9. CASE p = "close"
    <3>1. at("kernel") \in Places /\ at("kernel").kind = "kernel" /\ at("kernel").b = b
        BY <2>2, <2>3
    <3>2. <<"kernel", b>> \in {<<"kernel", b>>}
        OBVIOUS
    <3> QED BY <2>1, <2>9, <3>1, <3>2, CloseLeads
  <2> QED BY <1>2, <2>4, <2>5, <2>6, <2>7, <2>8, <2>9 DEF Printing
<1> QED BY <1>1, <1>2

\* The three sides of the type invariant.
GuestTypeOK ==
    /\ bench \in 0..N
    /\ phase \in Printing \cup Running \cup {"shutdown", "aborted", "exited"}
    /\ noise \in 0..NoiseMax
    /\ finished \subseteq Running \X (0..N)
    /\ phase \notin {"end", "shutdown", "aborted", "exited"} => bench \in 1..N
    /\ phase \in {"control_open", "control", "control_close"} => bench \in HasControl
PipeTypeOK ==
    /\ pipe \in Seq(Char) /\ out \in Seq(Char)
    /\ Len(pipe) <= PipeSize /\ closed \in BOOLEAN
    /\ closed => phase = "exited" /\ out = <<>>
HostTypeOK ==
    /\ hpc \in {"line", "cat", "dash", "name", "iter", "gap", "start", "restart",
                "control", "kernel", "done"}
    /\ \E S : reports \in Seq(S)

LEMMA ThreeSides == HarnessTypeOK <=> GuestTypeOK /\ PipeTypeOK /\ HostTypeOK
BY DEF HarnessTypeOK, GuestTypeOK, PipeTypeOK, HostTypeOK, TypeOK

\* The guest's side when it goes on.
LEMMA AdvanceTypes ==
    ASSUME HarnessTypeOK, Advance, phase \in Phases,
           finished' \subseteq Running \X (0..N)
    PROVE  GuestTypeOK' /\ phase' # "exited"
<1>1. GuestTypeOK
    BY ThreeSides
<1>2. noise' \in 0..NoiseMax
  <2>1. noise' = NoiseMax
      BY DEF Advance
  <2> QED BY <2>1, HarnessAssumption
<1>3. CASE phase = "end"
  <2>1. phase' = "shutdown" /\ bench' = bench
      BY <1>3, Advances
  <2> QED BY <1>1, <1>2, <2>1 DEF GuestTypeOK
<1>4. CASE phase = "cleanup"
  <2>1. bench \in 1..N
      BY <1>1, <1>4 DEF GuestTypeOK
  <2>2. CASE bench < N
    <3>1. phase' = "header" /\ bench' = bench + 1
        BY <1>4, <2>2, Advances
    <3>2. bench + 1 \in 1..N /\ bench + 1 \in 0..N
        BY <2>1, <2>2, HarnessAssumption
    <3> QED BY <1>1, <1>2, <3>1, <3>2 DEF GuestTypeOK, Printing
  <2>3. CASE ~(bench < N)
    <3>1. phase' = "end" /\ bench' = bench
        BY <1>4, <2>3, Advances
    <3> QED BY <1>1, <1>2, <3>1 DEF GuestTypeOK, Printing
  <2> QED BY <2>2, <2>3
<1>5. CASE phase \notin {"end", "cleanup"}
  <2>1. phase' = Following(bench)[phase] /\ bench' = bench
      BY <1>5, Advances
  <2>2. phase \notin {"shutdown", "aborted", "exited"} /\ bench \in 1..N
    <3>1. phase \notin {"shutdown", "aborted", "exited"}
        BY DEF Phases, Printing, Running
    <3> QED BY <1>1, <1>5, <3>1 DEF GuestTypeOK
  <2>3. /\ phase' \in Phases
        /\ phase' \in {"control_open", "control", "control_close"} => bench \in HasControl
    <3>1. phase \in {"control_open", "control", "control_close"} => bench \in HasControl
        BY <1>1 DEF GuestTypeOK
    <3> QED BY <2>1, <3>1 DEF Following, Phases, Printing, Running
  <2>4. phase' # "exited"
      BY <2>3 DEF Phases, Printing, Running
  <2> QED BY <1>1, <1>2, <2>1, <2>2, <2>3, <2>4 DEF GuestTypeOK, Phases
<1> QED BY <1>3, <1>4, <1>5

\* What the guest prints first.
Banner == BootText \o <<Nl, Nl, Begin, Nl>>

LEMMA BannerType == Banner \in Seq(Char)
<1>1. BootText \in Seq(Char)
    BY TextAssumption
<1>2. <<Nl, Nl, Begin, Nl>> \in Seq(Char)
    BY TextChars
<1> QED BY <1>1, <1>2 DEF Banner

LEMMA TypeInit == Init => HarnessTypeOK
<1> SUFFICES ASSUME Init PROVE HarnessTypeOK
    OBVIOUS
<1>1. GuestTypeOK
  <2>1. CASE N > 0
    <3>1. 1 \in 0..N /\ 1 \in 1..N
        BY <2>1, HarnessAssumption
    <3> QED BY <2>1, <3>1, HarnessAssumption DEF Init, GuestTypeOK, Printing
  <2>2. CASE ~(N > 0)
    <3>1. 0 \in 0..N
        BY HarnessAssumption
    <3> QED BY <2>2, <3>1, HarnessAssumption DEF Init, GuestTypeOK, Printing
  <2> QED BY <2>1, <2>2
<1>2. PipeTypeOK
  <2>1. out \in Seq(Char)
      BY BannerType DEF Init, Banner
  <2>2. pipe = <<>> /\ <<>> \in Seq(Char) /\ Len(<<>>) = 0 /\ 0 <= PipeSize
      BY HarnessAssumption DEF Init
  <2> QED BY <2>1, <2>2 DEF Init, PipeTypeOK
<1>3. HostTypeOK
  <2>1. reports \in Seq({})
      BY DEF Init
  <2> QED BY <2>1 DEF Init, HostTypeOK
<1> QED BY <1>1, <1>2, <1>3, ThreeSides

\* The guest leaves the host's side alone.
LEMMA GuestLeavesHost ==
    ASSUME HarnessTypeOK, UNCHANGED host
    PROVE  HostTypeOK'
BY ThreeSides DEF host, HostTypeOK

LEMMA TypeHost ==
    ASSUME HarnessTypeOK, HostNext
    PROVE  HarnessTypeOK'
<1>1. GuestTypeOK /\ PipeTypeOK /\ HostTypeOK
    BY ThreeSides
<1>2. UNCHANGED <<bench, phase, out, noise, finished, closed>>
    BY HostActs DEF guest
<1>3. GuestTypeOK'
    BY <1>1, <1>2 DEF GuestTypeOK
<1>4. PipeTypeOK'
  <2>1. pipe' \in Seq(Char) /\ Len(pipe') <= Len(pipe)
    <3>1. pipe \in Seq(Char)
        BY <1>1 DEF PipeTypeOK
    <3>2. CASE pipe' = pipe
      <4>1. Len(pipe) \in Nat
          BY <3>1
      <4> QED BY <3>1, <3>2, <4>1
    <3>3. CASE pipe # <<>> /\ pipe' = Tail(pipe)
      <4>1. Tail(pipe) \in Seq(Char) /\ Len(Tail(pipe)) = Len(pipe) - 1 /\ Len(pipe) \in Nat
          BY <3>1, <3>3
      <4> QED BY <3>3, <4>1
    <3> QED BY <3>2, <3>3, HostPipe
  <2>2. Len(pipe) <= PipeSize /\ Len(pipe) \in Nat /\ Len(pipe') \in Nat /\ PipeSize \in Nat
    <3>1. Len(pipe) <= PipeSize /\ pipe \in Seq(Char)
        BY <1>1 DEF PipeTypeOK
    <3> QED BY <2>1, <3>1, HarnessAssumption
  <2>3. Len(pipe') <= PipeSize
      BY <2>1, <2>2
  <2> QED BY <1>1, <1>2, <2>1, <2>3 DEF PipeTypeOK
<1>5. HostTypeOK'
  <2>1. hpc' \in {"line", "cat", "dash", "name", "iter", "gap", "start", "restart",
                  "control", "kernel", "done"}
      BY <1>1 DEF HostTypeOK, HostNext, ReadStart, ScanCategory, ScanDash, ScanName,
            ScanIterations, ScanGap, ReadTimingStart, ReadTimingEnd, Scan, ScanFails, Report, host
  <2>2. reports' = reports \/ \E r : reports' = Append(reports, r)
      BY DEF HostNext, ReadStart, ScanCategory, ScanDash, ScanName,
            ScanIterations, ScanGap, ReadTimingStart, ReadTimingEnd, Scan, ScanFails, Report, host
  <2>3. PICK S : reports \in Seq(S)
      BY <1>1 DEF HostTypeOK
  <2>4. \E T : reports' \in Seq(T)
    <3>1. CASE reports' = reports
        BY <2>3, <3>1
    <3>2. CASE \E r : reports' = Append(reports, r)
      <4>1. PICK r : reports' = Append(reports, r)
          BY <3>2
      <4>2. reports' \in Seq(S \cup {r})
          BY <2>3, <4>1, Appended
      <4> QED BY <4>2
    <3> QED BY <2>2, <3>1, <3>2
  <2> QED BY <2>1, <2>4 DEF HostTypeOK
<1>6. HarnessTypeOK' <=> GuestTypeOK' /\ PipeTypeOK' /\ HostTypeOK'
    BY DEF HarnessTypeOK, GuestTypeOK, PipeTypeOK, HostTypeOK, TypeOK
<1> QED BY <1>3, <1>4, <1>5, <1>6

LEMMA TypeGuest ==
    ASSUME HarnessTypeOK, GuestNext \/ SimulatorExit
    PROVE  HarnessTypeOK'
<1>1. GuestTypeOK /\ PipeTypeOK /\ HostTypeOK
    BY ThreeSides
<1>2. HarnessTypeOK' <=> GuestTypeOK' /\ PipeTypeOK' /\ HostTypeOK'
    BY DEF HarnessTypeOK, GuestTypeOK, PipeTypeOK, HostTypeOK, TypeOK
<1>3. UNCHANGED host
    BY DEF GuestNext, SimulatorExit, Fprintf, Return, Noise, Abort, Putch
<1>4. HostTypeOK'
    BY <1>3, GuestLeavesHost
<1>5. CASE Fprintf
  <2>1. phase \in Phases /\ phase \in Printing /\ Advance /\ finished' = finished
        /\ UNCHANGED <<pipe, closed>> /\ out' = Text(phase, bench)
      BY <1>5 DEF Fprintf, Phases
  <2>2. GuestTypeOK' /\ phase' # "exited"
      BY <1>1, <2>1, AdvanceTypes DEF GuestTypeOK
  <2>3. out' \in Seq(Char)
    <3>1. phase # "end" => bench \in 1..N
        BY <1>1, <2>1 DEF GuestTypeOK, Printing
    <3>2. phase \in {"control_open", "control_close"} => bench \in HasControl
        BY <1>1 DEF GuestTypeOK
    <3>3. Text(phase, bench) \in Seq(Char)
        BY <2>1, <3>1, <3>2, TextTypes
    <3> QED BY <2>1, <3>3
  <2>4. ~closed
      BY <1>1, <2>1 DEF PipeTypeOK, Printing
  <2>5. PipeTypeOK'
      BY <1>1, <2>1, <2>3, <2>4 DEF PipeTypeOK
  <2> QED BY <1>2, <1>4, <2>2, <2>5
<1>6. CASE Return
  <2>1. phase \in Phases /\ phase \in Running /\ Advance
        /\ finished' = finished \cup {<<phase, bench>>}
        /\ UNCHANGED <<out, pipe, closed>>
      BY <1>6 DEF Return, Phases
  <2>2. finished' \subseteq Running \X (0..N)
      BY <1>1, <2>1 DEF GuestTypeOK
  <2>3. GuestTypeOK' /\ phase' # "exited"
      BY <2>1, <2>2, AdvanceTypes
  <2>4. ~closed
      BY <1>1, <2>1 DEF PipeTypeOK, Running
  <2>5. PipeTypeOK'
      BY <1>1, <2>1, <2>4 DEF PipeTypeOK
  <2> QED BY <1>2, <1>4, <2>3, <2>5
<1>7. CASE Noise
  <2>1. /\ phase \in Running /\ noise > 0 /\ noise' = noise - 1
        /\ UNCHANGED <<bench, phase, finished, pipe, closed>>
      BY <1>7 DEF Noise
  <2>2. out' \in Seq(Char)
      BY <1>7, TextAssumption DEF Noise
  <2>3. noise' \in 0..NoiseMax
    <3>1. noise \in 0..NoiseMax
        BY <1>1 DEF GuestTypeOK
    <3> QED BY <2>1, <3>1, HarnessAssumption
  <2>4. ~closed
      BY <1>1, <2>1 DEF PipeTypeOK, Running
  <2>5. PipeTypeOK'
      BY <1>1, <2>1, <2>2, <2>4 DEF PipeTypeOK
  <2>6. GuestTypeOK'
      BY <1>1, <2>1, <2>3 DEF GuestTypeOK
  <2> QED BY <1>2, <1>4, <2>5, <2>6
<1>8. CASE Abort
  <2>1. /\ phase \in Running /\ phase' = "aborted"
        /\ UNCHANGED <<bench, noise, finished, pipe, closed>>
      BY <1>8 DEF Abort
  <2>2. out' \in Seq(Char)
      BY <1>8, TextAssumption DEF Abort
  <2>3. ~closed
      BY <1>1, <2>1 DEF PipeTypeOK, Running
  <2>4. PipeTypeOK'
      BY <1>1, <2>1, <2>2, <2>3 DEF PipeTypeOK
  <2>5. GuestTypeOK'
      BY <1>1, <2>1 DEF GuestTypeOK
  <2> QED BY <1>2, <1>4, <2>4, <2>5
<1>9. CASE Putch
  <2>1. /\ out # <<>> /\ ~closed /\ Len(pipe) < PipeSize
        /\ pipe' = Append(pipe, Head(out)) /\ out' = Tail(out)
        /\ UNCHANGED <<bench, phase, noise, finished, closed>>
      BY <1>9 DEF Putch
  <2>2. pipe \in Seq(Char) /\ out \in Seq(Char)
      BY <1>1 DEF PipeTypeOK
  <2>3. Head(out) \in Char /\ Tail(out) \in Seq(Char)
      BY <2>1, <2>2
  <2>4. pipe' \in Seq(Char) /\ Len(pipe') = Len(pipe) + 1 /\ Len(pipe) \in Nat
      BY <2>1, <2>2, <2>3
  <2>5. Len(pipe') <= PipeSize
      BY <2>1, <2>4, HarnessAssumption
  <2>6. PipeTypeOK'
      BY <1>1, <2>1, <2>3, <2>4, <2>5 DEF PipeTypeOK
  <2>7. GuestTypeOK'
      BY <1>1, <2>1 DEF GuestTypeOK
  <2> QED BY <1>2, <1>4, <2>6, <2>7
<1>10. CASE SimulatorExit
  <2>1. /\ closed' = TRUE /\ phase' = "exited" /\ out' = <<>>
        /\ UNCHANGED <<bench, noise, finished, pipe>>
      BY <1>10 DEF SimulatorExit
  <2>2. out' \in Seq(Char)
      BY <2>1
  <2>3. PipeTypeOK'
      BY <1>1, <2>1, <2>2 DEF PipeTypeOK
  <2>4. GuestTypeOK'
      BY <1>1, <2>1 DEF GuestTypeOK
  <2> QED BY <1>2, <1>4, <2>3, <2>4
<1> QED BY <1>5, <1>6, <1>7, <1>8, <1>9, <1>10 DEF GuestNext

LEMMA TypeStutter ==
    ASSUME HarnessTypeOK, UNCHANGED vars
    PROVE  HarnessTypeOK'
BY DEF HarnessTypeOK, TypeOK, vars, guest, host

LEMMA TypeInvariant == Spec => []HarnessTypeOK
<1>1. HarnessTypeOK /\ [Next]_vars => HarnessTypeOK'
  <2>1. HarnessTypeOK /\ HostNext => HarnessTypeOK'
      BY TypeHost
  <2>2. HarnessTypeOK /\ (GuestNext \/ SimulatorExit) => HarnessTypeOK'
      BY TypeGuest
  <2>3. HarnessTypeOK /\ UNCHANGED vars => HarnessTypeOK'
      BY TypeStutter
  <2>4. Spin => UNCHANGED vars
      BY DEF Spin
  <2> QED BY <2>1, <2>2, <2>3, <2>4 DEF Next
<1> QED BY <1>1, TypeInit, PTL DEF Spec

\* The pipe between the simulator and the host never holds more than it has
\* room for, and the two programs are always at a step that they have: bench
\* stays within the .benchmarks section (harness_main), phase within
\* harness_execute and hpc within the host's scanners.  For every text the
\* simulator, the kernels and the fatal errors may print.
THEOREM HarnessTypes == Spec => []TypeOK
<1>1. HarnessTypeOK => TypeOK
    BY DEF HarnessTypeOK
<1> QED BY <1>1, TypeInvariant, PTL

------------------------------------------------------------------------------
(* The guest takes a step *)

LEMMA LastPlace ==
    ASSUME HarnessTypeOK, NEW at, Way(at)
    PROVE  at[Len(Stream) + 1] \in Places
<1>1. PICK s : s = Stream
    OBVIOUS
<1>2. pipe \in Seq(Char) /\ out \in Seq(Char)
    BY DEF HarnessTypeOK
<1>3. s \in Seq(Char)
    BY <1>1, <1>2 DEF Stream
<1>4. at \in [1..(Len(s) + 1) -> Places]
    BY <1>1 DEF Way, Linked
<1>5. Len(s) + 1 \in 1..(Len(s) + 1)
    BY <1>3
<1> QED BY <1>1, <1>4, <1>5

\* The guest prints t, which leads to its new place.
LEMMA LeadsKeepsWay ==
    ASSUME HarnessTypeOK, NEW at, Way(at), out = <<>>, ~closed, NEW t \in Seq(Char), out' = t,
           UNCHANGED <<pipe, closed, host>>, finished \subseteq finished', NEW f, f = finished',
           NEW p, p = at[Len(Stream) + 1], NEW q, Leads(p, t, q, f), GuestAt(q)'
    PROVE  \E al : Way(al)'
<1>1. PICK tp : Prints(t, tp, f) /\ tp[0] = p /\ tp[Len(t)] = q
    BY DEF Leads
<1>2. Prints(t, tp, finished')
    BY <1>1
<1>3. tp[0] = at[Len(Stream) + 1]
    BY <1>1
<1>4. GuestAt(tp[Len(t)])'
    BY <1>1
<1> QED BY <1>2, <1>3, <1>4, PrintKeepsWay

LEMMA FprintfKeepsWay ==
    ASSUME HarnessTypeOK, NEW at, Way(at), Fprintf
    PROVE  \E al : Way(al)'
<1>1. /\ phase \in Printing /\ phase \in Phases /\ out = <<>> /\ out' = Text(phase, bench) /\ Advance
      /\ UNCHANGED <<pipe, closed, host>> /\ finished' = finished /\ finished \subseteq finished'
    BY DEF Fprintf, Phases
<1>2. ~closed
    BY <1>1 DEF HarnessTypeOK, Printing
<1>3. PICK p : p = at[Len(Stream) + 1]
    OBVIOUS
<1>4. p \in Places /\ GuestAt(p)
    BY <1>2, <1>3, LastPlace DEF Way
<1>5. PICK b, f : b = bench /\ f = finished'
    OBVIOUS
<1>6. ASSUME NEW t, t = Text(phase, bench), t \in Seq(Char), NEW q, Leads(p, t, q, f), GuestAt(q)'
      PROVE  \E al : Way(al)'
    BY <1>1, <1>2, <1>3, <1>5, <1>6, LeadsKeepsWay
<1>7. CASE phase = "header"
  <2>1. b \in 1..N /\ p.kind = "cat" /\ p.b = b
      BY <1>4, <1>5, <1>7 DEF GuestAt
  <2>2. PICK t : t = Text("header", b)
      OBVIOUS
  <2>3. t \in Seq(Char)
      BY <1>4, <2>1, <2>2, HeaderLeads
  <2>4. PICK q \in Places : Leads(p, t, q, f) /\ q.kind = "name1" /\ q.b = b
      BY <1>4, <2>1, <2>2, HeaderLeads
  <2>5. phase' = "init" /\ bench' = b
      BY <1>1, <1>5, <1>7, Advances DEF Following, Phases, Printing
  <2>6. GuestAt(q)'
      BY <2>1, <2>4, <2>5 DEF GuestAt
  <2> QED BY <1>5, <1>6, <1>7, <2>2, <2>3, <2>4, <2>6
<1>8. CASE phase = "iter"
  <2>1. b \in 1..N /\ p.kind = "name1" /\ p.b = b
      BY <1>4, <1>5, <1>8 DEF GuestAt
  <2>2. PICK t : t = Text("iter", b)
      OBVIOUS
  <2>3. t \in Seq(Char)
      BY <1>4, <2>1, <2>2, CountLeads
  <2>4. PICK q \in Places : /\ Leads(p, t, q, f) /\ q.kind = "digit" /\ q.b = b
                            /\ q.k = Len(CountChars(b))
      BY <1>4, <2>1, <2>2, CountLeads
  <2>5. phase' = (IF b \in HasControl THEN "control_open" ELSE "open") /\ bench' = b
      BY <1>1, <1>5, <1>8, Advances DEF Following, Phases, Printing
  <2>6. GuestAt(q)'
    <3>1. CASE b \in HasControl
        BY <2>1, <2>4, <2>5, <3>1 DEF GuestAt
    <3>2. CASE b \notin HasControl
        BY <2>1, <2>4, <2>5, <3>2 DEF GuestAt
    <3> QED BY <3>1, <3>2
  <2> QED BY <1>5, <1>6, <1>8, <2>2, <2>3, <2>4, <2>6
<1>9. CASE phase = "control_open"
  <2>1. /\ b \in 1..N /\ b \in HasControl /\ p.kind = "digit" /\ p.b = b
        /\ p.k = Len(CountChars(b))
      BY <1>4, <1>5, <1>9 DEF GuestAt
  <2>2. PICK t : t = Text("control_open", b)
      OBVIOUS
  <2>3. t \in Seq(Char)
      BY <1>4, <2>1, <2>2, ControlOpenLeads
  <2>4. PICK q \in Places : Leads(p, t, q, f) /\ q.kind = "control" /\ q.b = b
      BY <1>4, <2>1, <2>2, ControlOpenLeads
  <2>5. phase' = "control" /\ bench' = b
      BY <1>1, <1>5, <1>9, Advances DEF Following, Phases, Printing
  <2>6. GuestAt(q)'
      BY <2>1, <2>4, <2>5 DEF GuestAt
  <2> QED BY <1>5, <1>6, <1>9, <2>2, <2>3, <2>4, <2>6
<1>10. CASE phase = "control_close"
  <2>1. b \in 1..N /\ b \in HasControl /\ p.kind = "control" /\ p.b = b /\ <<"control", b>> \in f
      BY <1>1, <1>4, <1>5, <1>10 DEF GuestAt
  <2>2. PICK t : t = Text("control_close", b)
      OBVIOUS
  <2>3. t \in Seq(Char)
      BY <1>4, <2>1, <2>2, ControlCloseLeads
  <2>4. PICK q \in Places : Leads(p, t, q, f) /\ q.kind = "regap" /\ q.b = b
      BY <1>4, <2>1, <2>2, ControlCloseLeads
  <2>5. phase' = "open" /\ bench' = b
      BY <1>1, <1>5, <1>10, Advances DEF Following, Phases, Printing
  <2>6. GuestAt(q)'
      BY <2>1, <2>4, <2>5 DEF GuestAt
  <2> QED BY <1>5, <1>6, <1>10, <2>2, <2>3, <2>4, <2>6
<1>11. CASE phase = "open"
  <2>1. /\ b \in 1..N /\ p.b = b
        /\ \/ p.kind = "digit" /\ p.k = Len(CountChars(b)) /\ b \notin HasControl
           \/ p.kind = "regap" /\ b \in HasControl
      BY <1>4, <1>5, <1>11 DEF GuestAt
  <2>2. PICK t : t = Text("open", b)
      OBVIOUS
  <2>3. t \in Seq(Char)
      BY <1>4, <2>1, <2>2, OpenLeads
  <2>4. PICK q \in Places : Leads(p, t, q, f) /\ q.kind = "kernel" /\ q.b = b
      BY <1>4, <2>1, <2>2, OpenLeads
  <2>5. phase' = "kernel" /\ bench' = b
      BY <1>1, <1>5, <1>11, Advances DEF Following, Phases, Printing
  <2>6. GuestAt(q)'
      BY <2>1, <2>4, <2>5 DEF GuestAt
  <2> QED BY <1>5, <1>6, <1>11, <2>2, <2>3, <2>4, <2>6
<1>12. CASE phase = "close"
  <2>1. b \in 1..N /\ p.kind = "kernel" /\ p.b = b /\ <<"kernel", b>> \in f
      BY <1>1, <1>4, <1>5, <1>12 DEF GuestAt
  <2>2. PICK t : t = Text("close", b)
      OBVIOUS
  <2>3. t \in Seq(Char)
      BY <1>4, <2>1, <2>2, CloseLeads
  <2>4. PICK q \in Places : Leads(p, t, q, f) /\ q.kind = "cat" /\ q.b = b + 1
      BY <1>4, <2>1, <2>2, CloseLeads
  <2>5. phase' = "cleanup" /\ bench' = b
      BY <1>1, <1>5, <1>12, Advances DEF Following, Phases, Printing
  <2>6. GuestAt(q)'
      BY <2>1, <2>4, <2>5 DEF GuestAt
  <2> QED BY <1>5, <1>6, <1>12, <2>2, <2>3, <2>4, <2>6
<1>13. CASE phase = "end"
  <2>1. p.kind = "cat" /\ p.b = N + 1
      BY <1>4, <1>13 DEF GuestAt
  <2>2. PICK t : t = Text("end", b)
      OBVIOUS
  <2>3. t \in Seq(Char)
      BY <1>4, <2>1, <2>2, EndLeads
  <2>4. PICK q \in Places : Leads(p, t, q, f) /\ q.kind = "end4"
      BY <1>4, <2>1, <2>2, EndLeads
  <2>5. phase' = "shutdown"
      BY <1>1, <1>13, Advances
  <2>6. GuestAt(q)'
      BY <2>4, <2>5 DEF GuestAt
  <2> QED BY <1>5, <1>6, <1>13, <2>2, <2>3, <2>4, <2>6
<1> QED BY <1>1, <1>7, <1>8, <1>9, <1>10, <1>11, <1>12, <1>13 DEF Printing

\* Nothing is printed: the place stays.
LEMMA LeadsNowhere ==
    ASSUME NEW p \in Places, NEW f
    PROVE  Leads(p, <<>>, p, f)
<1>1. <<>> \in Seq(Char) /\ Len(<<>>) = 0 /\ \A i \in 1..0 : FALSE
    OBVIOUS
<1> QED BY <1>1, LeadsAround

LEMMA ReturnKeepsWay ==
    ASSUME HarnessTypeOK, NEW at, Way(at), Return
    PROVE  \E al : Way(al)'
<1>1. /\ phase \in Running /\ phase \in Phases /\ out = <<>> /\ out' = <<>> /\ Advance
      /\ UNCHANGED <<pipe, closed, host>> /\ finished' = finished \cup {<<phase, bench>>}
      /\ finished \subseteq finished'
    BY DEF Return, Phases
<1>2. ~closed
    BY <1>1 DEF HarnessTypeOK, Running
<1>3. PICK p : p = at[Len(Stream) + 1]
    OBVIOUS
<1>4. p \in Places /\ GuestAt(p)
    BY <1>2, <1>3, LastPlace DEF Way
<1>5. PICK f : f = finished'
    OBVIOUS
<1>6. <<>> \in Seq(Char) /\ Leads(p, <<>>, p, f)
    BY <1>4, LeadsNowhere
<1>7. GuestAt(p)'
  <2>1. CASE phase = "init"
    <3>1. phase' = "iter" /\ bench' = bench
        BY <1>1, <2>1, Advances DEF Following, Phases, Running
    <3> QED BY <1>1, <1>4, <2>1, <3>1 DEF GuestAt
  <2>2. CASE phase = "control"
    <3>1. phase' = "control_close" /\ bench' = bench
        BY <1>1, <2>2, Advances DEF Following, Phases, Running
    <3> QED BY <1>1, <1>4, <2>2, <3>1 DEF GuestAt
  <2>3. CASE phase = "kernel"
    <3>1. phase' = "close" /\ bench' = bench
        BY <1>1, <2>3, Advances DEF Following, Phases, Running
    <3> QED BY <1>1, <1>4, <2>3, <3>1 DEF GuestAt
  <2>4. CASE phase = "cleanup"
    <3>1. bench \in 1..N /\ p.kind = "cat" /\ p.b = bench + 1
        BY <1>4, <2>4 DEF GuestAt
    <3>2. CASE bench < N
      <4>1. phase' = "header" /\ bench' = bench + 1 /\ bench + 1 \in 1..N
          BY <1>1, <2>4, <3>1, <3>2, Advances, HarnessAssumption
      <4> QED BY <3>1, <4>1 DEF GuestAt
    <3>3. CASE ~(bench < N)
      <4>1. phase' = "end" /\ bench = N
          BY <1>1, <2>4, <3>1, <3>3, Advances, HarnessAssumption
      <4> QED BY <3>1, <4>1 DEF GuestAt
    <3> QED BY <3>2, <3>3
  <2> QED BY <1>1, <2>1, <2>2, <2>3, <2>4 DEF Running
<1> QED BY <1>1, <1>2, <1>3, <1>5, <1>6, <1>7, LeadsKeepsWay

\* GuestAt is about these three.
LEMMA GuestUnmoved ==
    ASSUME NEW p, GuestAt(p), UNCHANGED <<bench, phase, finished>>
    PROVE  GuestAt(p)'
BY DEF GuestAt

LEMMA NoiseKeepsWay ==
    ASSUME QuietTexts, HarnessTypeOK, NEW at, Way(at), Noise
    PROVE  \E al : Way(al)'
<1>1. /\ phase \in Running /\ out = <<>>
      /\ UNCHANGED <<bench, phase, finished, pipe, closed, host>> /\ finished \subseteq finished'
    BY DEF Noise
<1>2. ~closed
    BY <1>1 DEF HarnessTypeOK, Running
<1>3. PICK p : p = at[Len(Stream) + 1]
    OBVIOUS
<1>4. p \in Places /\ GuestAt(p)
    BY <1>2, <1>3, LastPlace DEF Way
<1>5. PICK f : f = finished'
    OBVIOUS
<1>6. phase \in {"control", "kernel"} /\ \E t \in NoiseTexts : out' = t
    BY DEF Noise, QuietTexts
<1>7. PICK t \in NoiseTexts : out' = t
    BY <1>6
<1>8. p.kind \in {"control", "kernel"}
    BY <1>4, <1>6 DEF GuestAt
<1>9. t \in Seq(Char) /\ Leads(p, t, p, f)
    BY <1>4, <1>8, NoiseLeads
<1>10. GuestAt(p)'
    BY <1>1, <1>4, GuestUnmoved
<1> QED BY <1>1, <1>2, <1>3, <1>5, <1>7, <1>9, <1>10, LeadsKeepsWay

LEMMA AbortKeepsWay ==
    ASSUME DashesInWords, HarnessTypeOK, NEW at, Way(at), Abort
    PROVE  \E al : Way(al)'
<1>1. /\ phase \in Running /\ out = <<>> /\ phase' = "aborted"
      /\ UNCHANGED <<finished, pipe, closed, host>> /\ finished \subseteq finished'
    BY DEF Abort
<1>2. ~closed
    BY <1>1 DEF HarnessTypeOK, Running
<1>3. PICK p : p = at[Len(Stream) + 1]
    OBVIOUS
<1>4. p \in Places
    BY <1>3, LastPlace
<1>5. PICK f : f = finished'
    OBVIOUS
<1>6. PICK t \in AbortTexts : out' = t
    BY DEF Abort
<1>7. t \in Seq(Char)
    BY <1>4, AbortLeads
<1>8. PICK q \in Places : Leads(p, t, q, f)
    BY <1>4, AbortLeads
<1>9. GuestAt(q)'
    BY <1>1 DEF GuestAt
<1> QED BY <1>1, <1>2, <1>3, <1>5, <1>6, <1>7, <1>8, <1>9, LeadsKeepsWay

\* A character goes from the guest's buffer to the pipe: the stream is the same.
LEMMA StreamMoves ==
    ASSUME NEW a \in Seq(Char), NEW o \in Seq(Char), o # <<>>
    PROVE  Append(a, Head(o)) \o Tail(o) = a \o o
<1> DEFINE u == Append(a, Head(o))
           v == Tail(o)
           l == u \o v
           r == a \o o
<1>1. Head(o) \in Char /\ Head(o) = o[1] /\ Len(o) \in Nat \ {0} /\ Len(a) \in Nat
    OBVIOUS
<1>2. v \in Seq(Char) /\ Len(v) = Len(o) - 1 /\ \A i \in 1..Len(v) : v[i] = o[i + 1]
    OBVIOUS
<1>3. /\ u \in Seq(Char) /\ Len(u) = Len(a) + 1 /\ u[Len(a) + 1] = o[1]
      /\ \A i \in 1..Len(a) : u[i] = a[i]
    BY <1>1
<1> HIDE DEF u, v
<1>4. /\ l \in Seq(Char) /\ Len(l) = Len(u) + Len(v)
      /\ \A i \in 1..Len(u) : l[i] = u[i]
      /\ \A i \in 1..Len(v) : l[Len(u) + i] = v[i]
  <2>1. u \in Seq(Char) /\ v \in Seq(Char)
      BY <1>2, <1>3
  <2> QED BY <2>1, JoinElements
<1>5. /\ r \in Seq(Char) /\ Len(r) = Len(a) + Len(o)
      /\ \A i \in 1..Len(a) : r[i] = a[i]
      /\ \A i \in 1..Len(o) : r[Len(a) + i] = o[i]
    BY JoinElements
<1> HIDE DEF l, r
<1>6. Len(l) = Len(r)
    BY <1>1, <1>2, <1>3, <1>4, <1>5
<1>7. ASSUME NEW i \in 1..Len(l) PROVE l[i] = r[i]
  <2>1. i \in Nat /\ Len(l) = Len(a) + Len(o)
      BY <1>1, <1>5, <1>6
  <2>2. CASE i <= Len(a)
    <3>1. i \in 1..Len(a) /\ i \in 1..Len(u)
        BY <1>1, <1>3, <2>1, <2>2
    <3> QED BY <1>3, <1>4, <1>5, <3>1
  <2>3. CASE i = Len(a) + 1
    <3>1. i \in 1..Len(u) /\ 1 \in 1..Len(o)
        BY <1>1, <1>3, <2>1, <2>3
    <3>2. l[i] = o[1] /\ r[Len(a) + 1] = o[1]
        BY <1>3, <1>4, <1>5, <2>3, <3>1
    <3> QED BY <2>3, <3>2
  <2>4. CASE i > Len(a) + 1
    <3> DEFINE j == i - (Len(a) + 1)
    <3>1. /\ j \in 1..Len(v) /\ i = Len(u) + j /\ j + 1 \in 1..Len(o) /\ i = Len(a) + (j + 1)
        BY <1>1, <1>2, <1>3, <2>1, <2>4
    <3> HIDE DEF j
    <3>2. l[Len(u) + j] = v[j] /\ v[j] = o[j + 1] /\ r[Len(a) + (j + 1)] = o[j + 1]
        BY <1>2, <1>4, <1>5, <3>1
    <3> QED BY <3>1, <3>2
  <2> QED BY <1>1, <2>1, <2>2, <2>3, <2>4
<1>8. l = r
    BY <1>4, <1>5, <1>6, <1>7, SameSeq
<1> QED BY <1>8 DEF l, r, u, v

LEMMA PutchKeepsWay ==
    ASSUME HarnessTypeOK, NEW at, Way(at), Putch
    PROVE  Way(at)'
<1>1. /\ out # <<>> /\ ~closed /\ pipe' = Append(pipe, Head(out)) /\ out' = Tail(out)
      /\ UNCHANGED <<bench, phase, finished, closed, host>> /\ finished \subseteq finished'
    BY DEF Putch
<1>2. pipe \in Seq(Char) /\ out \in Seq(Char)
    BY DEF HarnessTypeOK
<1>3. PICK s : s = Stream
    OBVIOUS
<1>4. Stream' = s
    BY <1>1, <1>2, <1>3, StreamMoves DEF Stream
<1>5. Linked(at, s, finished) /\ HostAt(at[1]) /\ GuestAt(at[Len(s) + 1])
    BY <1>1, <1>3 DEF Way
<1>6. HostAt(at[1])'
    BY <1>1, <1>5, HostStays
<1>7. GuestAt(at[Len(s) + 1])'
    BY <1>1, <1>5, GuestUnmoved
<1> QED BY <1>1, <1>4, <1>5, <1>6, <1>7 DEF Way

\* What the simulator had not put into the pipe is lost: the way ends earlier.
LEMMA ExitKeepsWay ==
    ASSUME HarnessTypeOK, NEW at, Way(at), SimulatorExit
    PROVE  \E al : Way(al)'
<1>1. /\ ~closed /\ closed' = TRUE /\ out' = <<>> /\ pipe' = pipe /\ finished' = finished
      /\ MayDie \/ hpc = "done" \/ (phase = "shutdown" /\ out = <<>>)
      /\ UNCHANGED host /\ hpc' = hpc /\ finished \subseteq finished'
    BY DEF SimulatorExit, host
<1>2. pipe \in Seq(Char) /\ out \in Seq(Char)
    BY DEF HarnessTypeOK
<1>3. PICK s, a, o : s = Stream /\ a = pipe /\ o = out
    OBVIOUS
<1>4. /\ s = a \o o /\ a \in Seq(Char) /\ o \in Seq(Char)
      /\ Linked(at, s, finished) /\ HostAt(at[1]) /\ GuestAt(at[Len(s) + 1])
    BY <1>1, <1>2, <1>3 DEF Way, Stream
<1>5. /\ Len(s) = Len(a) + Len(o) /\ Len(a) \in Nat /\ Len(o) \in Nat
      /\ \A i \in 1..Len(a) : s[i] = a[i]
  <2>1. Len(a \o o) = Len(a) + Len(o) /\ \A i \in 1..Len(a) : (a \o o)[i] = a[i]
      BY <1>4, JoinElements
  <2> QED BY <1>4, <2>1
<1>6. /\ at \in [1..(Len(s) + 1) -> Places]
      /\ \A i \in 1..Len(s) : Link(at[i], s[i], at[i + 1], finished)
    BY <1>4 DEF Linked
<1> DEFINE al == [i \in 1..(Len(a) + 1) |-> at[i]]
<1>7. al \in [1..(Len(a) + 1) -> Places]
  <2>1. \A i \in 1..(Len(a) + 1) : i \in 1..(Len(s) + 1)
      BY <1>5
  <2> QED BY <1>6, <2>1
<1>8. \A i \in 1..Len(a) : Link(al[i], a[i], al[i + 1], finished)
  <2>1. ASSUME NEW i \in 1..Len(a) PROVE Link(al[i], a[i], al[i + 1], finished)
    <3>1. i \in 1..Len(s) /\ i \in 1..(Len(a) + 1) /\ i + 1 \in 1..(Len(a) + 1)
        BY <1>5
    <3>2. al[i] = at[i] /\ al[i + 1] = at[i + 1] /\ a[i] = s[i]
        BY <1>5, <3>1
    <3>3. Link(at[i], s[i], at[i + 1], finished)
        BY <1>6, <3>1
    <3> QED BY <3>2, <3>3
  <2> QED BY <2>1
<1>9. al[1] = at[1] /\ al[Len(a) + 1] = at[Len(a) + 1]
  <2>1. 1 \in 1..(Len(a) + 1) /\ Len(a) + 1 \in 1..(Len(a) + 1)
      BY <1>5
  <2> QED BY <2>1
<1> HIDE DEF al
<1>10. Linked(al, a, finished)
    BY <1>7, <1>8 DEF Linked
<1>11. HostAt(al[1])'
    BY <1>1, <1>4, <1>9, HostStays
<1>12. Stream' = a
  <2>1. a \o <<>> = a
      BY <1>4
  <2> QED BY <1>1, <1>3, <2>1 DEF Stream
<1>13. MayDie \/ hpc' = "done" \/ al[Len(a) + 1].kind = "end4"
  <2>1. CASE phase = "shutdown" /\ out = <<>>
    <3>1. Len(s) = Len(a)
      <4>1. Len(o) = 0
          BY <1>3, <2>1
      <4> QED BY <1>5, <4>1
    <3>2. at[Len(s) + 1].kind = "end4"
        BY <1>4, <2>1 DEF GuestAt
    <3> QED BY <1>9, <3>1, <3>2
  <2> QED BY <1>1, <2>1
<1>14. Way(al)'
    BY <1>1, <1>10, <1>11, <1>12, <1>13 DEF Way
<1> QED BY <1>14

LEMMA StutterKeepsWay ==
    ASSUME NEW at, Way(at), UNCHANGED vars
    PROVE  Way(at)'
<1>1. PICK s : s = Stream
    OBVIOUS
<1>2. /\ UNCHANGED <<bench, phase, finished, closed, host, hpc>> /\ Stream' = s
      /\ finished \subseteq finished'
    BY <1>1 DEF vars, guest, host, Stream
<1>3. HostAt(at[1])'
    BY <1>2, HostStays DEF Way
<1>4. ~closed => GuestAt(at[Len(s) + 1])'
    BY <1>1, <1>2, GuestUnmoved DEF Way
<1> QED BY <1>1, <1>2, <1>3, <1>4 DEF Way

------------------------------------------------------------------------------
(* The first way *)

\* The simulator's banner, then the BEGIN line.
LEMMA BannerLeads ==
    ASSUME QuietTexts, NEW f, NEW p \in Places, p.kind = "boot"
    PROVE  \E q \in Places : Leads(p, Banner, q, f) /\ q.kind = "cat" /\ q.b = p.b
<1> DEFINE p1 == Pl("bol", p.b, 0)
           p2 == Pl("begun", p.b, 0)
           q == Pl("cat", p.b, 0)
<1>1. p.b \in 1..(N + 1)
    BY DEF Places
<1>2. /\ p1 \in Places /\ p1.kind = "bol" /\ p1.b = p.b
      /\ p2 \in Places /\ p2.kind = "begun" /\ p2.b = p.b
      /\ q \in Places /\ q.kind = "cat" /\ q.b = p.b
    BY <1>1, PlFacts DEF Kinds
<1> HIDE DEF p1, p2, q
<1>3. BootText \in Seq(Char)
    BY TextAssumption
<1>4. ASSUME NEW i \in 1..Len(BootText) PROVE Link(p, BootText[i], p, f)
  <2>1. BootLink(p, BootText[i], p)
      BY DEF QuietTexts, BootLink, Along
  <2> QED BY <2>1 DEF Link, GoodLink, StartLink
<1>5. Leads(p, BootText, p, f)
    BY <1>3, <1>4, LeadsAround
<1>6. BootLink(p, Nl, p) /\ BootEnds(p, Nl, p1) /\ BeginLink(p1, Begin, p2) /\ BegunLink(p2, Nl, q)
    BY <1>2, CharFacts DEF BootLink, BootEnds, BeginLink, BegunLink, Along
<1>7. Link(p, Nl, p, f) /\ Link(p, Nl, p1, f) /\ Link(p1, Begin, p2, f) /\ Link(p2, Nl, q, f)
    BY <1>6 DEF Link, GoodLink, StartLink
<1>8. Leads(p, <<Nl, Nl, Begin, Nl>>, q, f)
    BY <1>2, <1>7, TextChars, LeadsFour
<1>9. <<Nl, Nl, Begin, Nl>> \in Seq(Char)
    BY TextChars
<1>10. Leads(p, Banner, q, f)
    BY <1>3, <1>5, <1>8, <1>9, LeadsJoin DEF Banner
<1> QED BY <1>2, <1>10

LEMMA FirstWay ==
    ASSUME QuietTexts, Init
    PROVE  \E at : Way(at)
<1> DEFINE p == Pl("boot", 1, 0)
           at0 == [i \in 1..1 |-> p]
<1>1. p \in Places /\ p.kind = "boot" /\ p.b = 1
  <2>1. 1 \in 1..(N + 1)
      BY HarnessAssumption
  <2> QED BY <2>1, PlFacts DEF Kinds
<1> HIDE DEF p
<1>2. at0 \in [1..1 -> Places] /\ at0[1] = p
    BY <1>1
<1> HIDE DEF at0
<1>3. PICK f : f = finished
    OBVIOUS
<1>4. Linked(at0, <<>>, f)
  <2>1. Len(<<>>) = 0 /\ 0 + 1 = 1 /\ \A i \in 1..0 : FALSE
      OBVIOUS
  <2> QED BY <1>2, <2>1 DEF Linked
<1>5. PICK q \in Places : Leads(p, Banner, q, f) /\ q.kind = "cat" /\ q.b = 1
    BY <1>1, BannerLeads
<1>6. PICK tp : Prints(Banner, tp, f) /\ tp[0] = p /\ tp[Len(Banner)] = q
    BY <1>5 DEF Leads
<1>7. PICK al : /\ Linked(al, <<>> \o Banner, f) /\ al[1] = at0[1]
                /\ al[Len(<<>> \o Banner) + 1] = tp[Len(Banner)]
  <2>1. PICK e : e = <<>>
      OBVIOUS
  <2>2. e \in Seq(Char) /\ Len(e) + 1 = 1
      BY <2>1
  <2>3. tp[0] = at0[Len(e) + 1] /\ Linked(at0, e, f) /\ Prints(Banner, tp, f)
      BY <1>2, <1>4, <1>6, <2>1, <2>2
  <2>4. PICK t : t = Banner
      OBVIOUS
  <2>5. t \in Seq(Char) /\ Prints(t, tp, f) /\ f \subseteq f
      BY <2>3, <2>4, BannerType
  <2>6. \E al : /\ Linked(al, e \o t, f) /\ al[1] = at0[1]
                /\ al[Len(e \o t) + 1] = tp[Len(t)]
      BY <2>2, <2>3, <2>5, Extended
  <2> QED BY <2>1, <2>4, <2>6
<1>8. Stream = <<>> \o Banner
    BY DEF Stream, Init, Banner
<1>9. HostAt(al[1])
  <2>1. al[1] = p /\ p.kind = "boot" /\ p.b - 1 = 0
      BY <1>1, <1>2, <1>7
  <2>2. Len(reports) = 0 /\ \A i \in 1..0 : FALSE
      BY DEF Init
  <2>3. AllGood
      BY <2>2 DEF AllGood
  <2>4. word \in Seq(Char) /\ \A i \in 1..Len(word) : word[i].class # "begin"
      BY DEF Init
  <2> QED BY <2>1, <2>2, <2>3, <2>4 DEF Init, HostAt, GoodAt, AtStart, AtHeader, AtCount, AtTiming, AtEnd
<1>10. GuestAt(al[Len(Stream) + 1])
  <2>1. al[Len(Stream) + 1] = q
      BY <1>6, <1>7, <1>8
  <2>2. CASE N > 0
    <3>1. phase = "header" /\ bench = 1 /\ 1 \in 1..N
        BY <2>2, HarnessAssumption DEF Init
    <3> QED BY <1>5, <2>1, <3>1 DEF GuestAt
  <2>3. CASE ~(N > 0)
    <3>1. phase = "end" /\ N + 1 = 1
        BY <2>3, HarnessAssumption DEF Init
    <3> QED BY <1>5, <2>1, <3>1 DEF GuestAt
  <2> QED BY <2>2, <2>3
<1>11. ~closed
    BY DEF Init
<1>12. Way(al)
    BY <1>3, <1>7, <1>8, <1>9, <1>10, <1>11 DEF Way
<1> QED BY <1>12

------------------------------------------------------------------------------
(* What the host reports *)

\* There is always a way through the grammar from the host to the guest.
LEMMA WayInvariant ==
    ASSUME QuietTexts, DashesInWords
    PROVE  Spec => []HarnessInv
<1>1. Init => HarnessInv
    BY TypeInit, FirstWay DEF HarnessInv
<1>2. HarnessInv /\ [Next]_vars => HarnessInv'
  <2> SUFFICES ASSUME HarnessInv, [Next]_vars PROVE HarnessInv'
      OBVIOUS
  <2>1. HarnessTypeOK
      BY DEF HarnessInv
  <2>2. PICK at : Way(at)
      BY DEF HarnessInv
  <2>3. CASE HostNext
    <3>1. (\E al : Way(al))'
        BY <2>1, <2>2, <2>3, HostKeepsWay
    <3>2. HarnessTypeOK'
        BY <2>1, <2>3, TypeHost
    <3> QED BY <3>1, <3>2 DEF HarnessInv
  <2>4. CASE GuestNext \/ SimulatorExit
    <3>1. (\E al : Way(al))'
        BY <2>1, <2>2, <2>4, FprintfKeepsWay, ReturnKeepsWay, NoiseKeepsWay, AbortKeepsWay,
           PutchKeepsWay, ExitKeepsWay DEF GuestNext
    <3>2. HarnessTypeOK'
        BY <2>1, <2>4, TypeGuest
    <3> QED BY <3>1, <3>2 DEF HarnessInv
  <2>5. CASE UNCHANGED vars
    <3>1. (\E al : Way(al))'
        BY <2>2, <2>5, StutterKeepsWay
    <3>2. HarnessTypeOK'
        BY <2>1, <2>5, TypeStutter
    <3> QED BY <3>1, <3>2 DEF HarnessInv
  <2>6. Spin => UNCHANGED vars
      BY DEF Spin
  <2> QED BY <2>3, <2>4, <2>5, <2>6 DEF Next
<1> QED BY <1>1, <1>2, PTL DEF Spec

\* The host is at a good place, or a fault has put it at a bad one.
LEMMA WayReports ==
    ASSUME HarnessInv
    PROVE  /\ \E S : reports \in Seq(S)
           /\ AllGood \/ (Faulty /\ AllButLastGood)
<1>1. PICK at : Way(at)
    BY DEF HarnessInv
<1>2. HostAt(at[1])
    BY <1>1 DEF Way
<1> QED BY <1>2 DEF HarnessInv, HarnessTypeOK, HostAt, GoodAt, BadAt, Spoilt

\* Every report in order, when nothing stops the guest.
LEMMA ReportsAllGood ==
    ASSUME ~Faulty, HarnessInv
    PROVE  \A b \in DOMAIN reports : Good(b)
<1>1. PICK S : reports \in Seq(S)
    BY WayReports
<1>2. DOMAIN reports = 1..Len(reports)
    BY <1>1
<1> QED BY <1>2, WayReports DEF AllGood

\* The simulator does not die and no kernel aborts.
NoFaults == MayDie = FALSE /\ AbortTexts = {}

\* When kernels print nothing but the spinner and nothing stops the guest, the
\* host (read_benchmark in host/main.c) reports the benchmarks of the guest
\* (harness_main) in link order, each with its category, its name, its own
\* iteration count and both times: for every number of benchmarks, every
\* iteration count, every pipe size and every interleaving.
THEOREM ReportsInOrderHolds ==
    ASSUME QuietTexts, NoFaults
    PROVE  Spec => []ReportsInOrder
<1>1. DashesInWords /\ ~Faulty
    BY DEF NoFaults, DashesInWords, Faulty
<1>2. HarnessInv => ReportsInOrder
    BY <1>1, ReportsAllGood DEF ReportsInOrder, Good
<1> QED BY <1>1, <1>2, WayInvariant, PTL

\* Under the same conditions the host stops a clock (read_timing_end_char)
\* only after the kernel, or the control, that harness_execute runs between the
\* brackets has returned, however far the host reads behind the guest.
THEOREM TimedWhenFinishedHolds ==
    ASSUME QuietTexts, NoFaults
    PROVE  Spec => []TimedWhenFinished
<1>1. DashesInWords /\ ~Faulty
    BY DEF NoFaults, DashesInWords, Faulty
<1>2. HarnessInv => TimedWhenFinished
    BY <1>1, ReportsAllGood DEF TimedWhenFinished, Good
<1> QED BY <1>1, <1>2, WayInvariant, PTL

\* Whenever the simulator dies, and whatever message a fatal error prints into
\* the stream before arch_abort, the host reports at most one line that is not
\* right, the last: for a further one read_benchmark would have to scan the
\* dash of a header, and no message has a dash that stands by itself.
THEOREM OnlyLastSpoiledHolds ==
    ASSUME QuietTexts, DashesInWords
    PROVE  Spec => []OnlyLastSpoiled
<1>1. HarnessInv => OnlyLastSpoiled
  <2> SUFFICES ASSUME HarnessInv PROVE OnlyLastSpoiled
      OBVIOUS
  <2>1. PICK S : reports \in Seq(S)
      BY WayReports
  <2>2. Len(reports) \in Nat
      BY <2>1
  <2>3. \A i \in 1..(Len(reports) - 1) : i \in 1..Len(reports)
      BY <2>2
  <2>4. AllButLastGood
      BY <2>3, WayReports DEF AllGood, AllButLastGood
  <2>5. \A i \in 1..N : i <= N
      BY HarnessAssumption
  <2> QED BY <2>4, <2>5 DEF OnlyLastSpoiled, AllButLastGood, Good
<1> QED BY <1>1, WayInvariant, PTL
=============================================================================
