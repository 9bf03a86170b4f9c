------------------------- MODULE SessionLog_proofs -------------------------
(***************************************************************************)
(* Theorems about SessionLog for every number of handles and transactions, *)
(* when a session is not opened, created or deleted while such a call is   *)
(* under way: the log can always be loaded, its writer knows it, there is  *)
(* one writer, and the file implements DurableLog.                         *)
(*                                                                         *)
(* The inductive invariant LInv says that one handle at most is in use,    *)
(* and none while the file is deleted (Exclusive), that there is a legal   *)
(* file or none (Published), that what a repair has read is what the file  *)
(* still holds (Unchanged), and that transactions that wait are in no log  *)
(* and not in line twice (Waiting).                                        *)
(***************************************************************************)
EXTENDS SessionLog, SequenceTheorems, FiniteSetTheorems, TLAPS

-----------------------------------------------------------------------------
(***************************************************************************)
(* The inductive invariant                                                 *)
(***************************************************************************)
\* From the start of its open to its release or its failure.
InUse(x) == h[x].st \notin {"new", "closed"}

\* One handle at a time, and the registered writer is the one that may commit.
Exclusive ==
    /\ \A x, y \in Handles : InUse(x) /\ InUse(y) => x = y
    /\ writers = Holding
    /\ deleting => \A x \in Handles : ~InUse(x)

\* A file that is there begins with its header and can be loaded; one that is
\* being created is not there.
Published ==
    /\ header \in {"none", "ok"} /\ Loadable(file)
    /\ header = "none" => file = EmptyFile /\ acked = << >>
    /\ \A x \in Handles : h[x].st = "creating" => header = "none"

\* A repair works on the file it has read.
Unchanged ==
    \A x \in Handles : h[x].st = "repairing" =>
        h[x].content = file /\ file.tail # << >> /\ header = "ok"

\* The transactions a load of the file would return.
Entered == Recovered(file)

\* Submitted transactions are numbered in order.  One that is being appended or waits
\* has not entered the log, and none waits twice.
Waiting ==
    /\ \A i \in DOMAIN Entered : Entered[i] <= submitted
    /\ \A x \in Handles :
        /\ h[x].st \notin {"open", "sealed"} => h[x].queue = << >>
        /\ h[x].busy # 0 => ~h[x].faulted
        /\ h[x].busy <= submitted
        /\ \A i \in DOMAIN Entered : Entered[i] # h[x].busy
        /\ \A j \in DOMAIN h[x].queue :
            /\ h[x].queue[j] <= submitted /\ h[x].queue[j] # h[x].busy
            /\ \A i \in DOMAIN Entered : Entered[i] # h[x].queue[j]
            /\ \A k \in DOMAIN h[x].queue : h[x].queue[k] = h[x].queue[j] => k = j

\* The inductive invariant.
LInv ==
    /\ TypeOK /\ Exclusive /\ Published /\ Unchanged /\ WriterKnowsTheLog /\ Waiting

-----------------------------------------------------------------------------
(***************************************************************************)
(* Files                                                                   *)
(***************************************************************************)
\* What a file consists of.
LEMMA FileParts ==
    ASSUME NEW f \in Files
    PROVE  /\ f.lines \in Seq(Line) /\ f.tail \in Seq(Line)
           /\ f = [lines |-> f.lines, tail |-> f.tail]
           /\ f.tail = << >> \/ (f.tail # << >> /\ f.tail[1] \in Line /\ f.tail = <<f.tail[1]>>)
<1>1. f.lines \in Seq(Line) /\ f.tail \in Seq(Line) /\ Len(f.tail) <= 1
      /\ f = [lines |-> f.lines, tail |-> f.tail]
    BY DEF Files, Tails
<1>2. CASE f.tail # << >>
    <2>1. Len(f.tail) = 1
        <3>1. \A q \in Seq(Line) : q # << >> => Len(q) \in Nat \ {0}
            BY EmptySeq
        <3>2. Len(f.tail) \in Nat \ {0}
            BY <1>1, <1>2, <3>1
        <3>3. \A n \in Nat \ {0} : n <= 1 => n = 1
            OBVIOUS
        <3> QED BY <1>1, <3>2, <3>3
    <2>2. f.tail[1] \in Line
        BY <1>1, <2>1, ElementOfSeq
    <2>3. f.tail = <<f.tail[1]>>
        BY <1>1, <2>1, <2>2
    <2> QED BY <1>1, <1>2, <2>2, <2>3
<1> QED BY <1>1, <1>2

\* The lines a reader sees.
LEMMA TextOf ==
    ASSUME NEW f \in Files
    PROVE  /\ f.tail = << >> => Text(f) = f.lines
           /\ f.tail # << >> /\ ~f.tail[1].ok => Text(f) = f.lines
           /\ f.tail # << >> /\ f.tail[1].ok => Text(f) = Append(f.lines, f.tail[1])
<1>1. f.lines \o << >> = f.lines
    BY FileParts, ConcatEmptySeq
<1>2. CASE f.tail # << >> /\ f.tail[1].ok
    <2>1. Append(f.lines, f.tail[1]) = f.lines \o <<f.tail[1]>>
        BY <1>2, FileParts, AppendIsConcat
    <2> QED BY <1>2, <2>1, FileParts DEF Text
<1> QED BY <1>1, <1>2 DEF Text

\* Records and transactions of a text.
LEMMA ParsedOf ==
    ASSUME NEW f \in Files, NEW t \in Seq(Line), Text(f) = t
    PROVE  /\ Parsed(f) = [i \in 1..Len(t) |-> t[i].rec]
           /\ Recovered(f) = [i \in 1..Len(t) |-> t[i].rec.tx]
           /\ Recovered(f) \in Seq(Txs) /\ Len(Recovered(f)) = Len(t)
           /\ Continuous(f) <=> \A i \in 1..Len(t) : t[i].rec.firstSeq = i
<1>1. DOMAIN t = 1..Len(t) /\ Len(t) \in Nat
    BY LenProperties
<1>2. Parsed(f) = [i \in 1..Len(t) |-> t[i].rec]
    BY <1>1 DEF Parsed
<1>3. Recovered(f) = [i \in 1..Len(t) |-> t[i].rec.tx]
    BY <1>2 DEF Recovered
<1>4. \A i \in 1..Len(t) : t[i].rec.tx \in Txs
    <2>1. \A i \in 1..Len(t) : t[i] \in Line
        BY ElementOfSeq
    <2> QED BY <2>1 DEF Line, Records
<1>5. Recovered(f) \in [1..Len(t) -> Txs]
    BY <1>3, <1>4
<1>6. Recovered(f) \in Seq(Txs) /\ Len(Recovered(f)) = Len(t)
    BY <1>1, <1>5
<1>7. Continuous(f) <=> \A i \in 1..Len(t) : t[i].rec.firstSeq = i
    BY <1>2 DEF Continuous
<1> QED BY <1>2, <1>3, <1>6, <1>7

\* A text that grows by a line that continues it grows by its transaction.
LEMMA Grows ==
    ASSUME NEW f \in Files, NEW g \in Files, Loadable(f), NEW r \in Records,
           r.firstSeq = Len(Recovered(f)) + 1, Parses(g), Text(g) = Append(Text(f), Good(r)),
           Text(f) \in Seq(Line)
    PROVE  Loadable(g) /\ Recovered(g) = Append(Recovered(f), r.tx)
<1> DEFINE t == Text(f)
           u == Append(t, Good(r))
<1>1. Good(r) \in Line /\ Good(r).rec = r
    BY DEF Good, Line
<1>2. /\ u \in Seq(Line) /\ Len(u) = Len(t) + 1 /\ Len(t) \in Nat
      /\ \A i \in 1..Len(t) : u[i] = t[i]
      /\ u[Len(t) + 1] = Good(r)
    BY <1>1, AppendProperties, LenProperties
<1>3. /\ Recovered(f) \in Seq(Txs) /\ Len(Recovered(f)) = Len(t)
      /\ Recovered(f) = [i \in 1..Len(t) |-> t[i].rec.tx]
      /\ \A i \in 1..Len(t) : t[i].rec.firstSeq = i
    BY ParsedOf DEF Loadable
<1>4. /\ Recovered(g) = [i \in 1..Len(u) |-> u[i].rec.tx] /\ Recovered(g) \in Seq(Txs)
      /\ Len(Recovered(g)) = Len(u)
      /\ Continuous(g) <=> \A i \in 1..Len(u) : u[i].rec.firstSeq = i
    BY <1>2, ParsedOf
<1>5. \A i \in 1..Len(u) : i \in 1..Len(t) \/ i = Len(t) + 1
    BY <1>2
<1> HIDE DEF u, t
<1>6. Continuous(g)
    BY <1>1, <1>2, <1>3, <1>4, <1>5
<1>7. r.tx \in Txs
    BY DEF Records
<1>8. /\ Append(Recovered(f), r.tx) \in Seq(Txs)
      /\ Len(Append(Recovered(f), r.tx)) = Len(t) + 1
      /\ \A i \in 1..Len(t) : Append(Recovered(f), r.tx)[i] = Recovered(f)[i]
      /\ Append(Recovered(f), r.tx)[Len(t) + 1] = r.tx
    BY <1>3, <1>7, AppendProperties
<1>9. \A i \in 1..Len(u) : Recovered(g)[i] = Append(Recovered(f), r.tx)[i]
    BY <1>1, <1>2, <1>3, <1>4, <1>5, <1>8
<1>10. Recovered(g) = Append(Recovered(f), r.tx)
    BY <1>2, <1>4, <1>8, <1>9, SeqEqual
<1> QED BY <1>6, <1>10 DEF Loadable

\* However much of a continuing record reaches the end of a log that ends with a line,
\* the log can be loaded, and the transaction is in it entirely or not at all.
LEMMA WrittenLegal ==
    ASSUME NEW f \in Files, Loadable(f), f.tail = << >>, NEW r \in Records,
           r.firstSeq = Len(Recovered(f)) + 1, NEW cut \in Cuts
    PROVE  /\ Written(f, r, cut) \in Files /\ Loadable(Written(f, r, cut))
           /\ Recovered(Written(f, r, cut)) \in {Recovered(f), Append(Recovered(f), r.tx)}
           /\ cut = "all" => /\ Written(f, r, cut).tail = << >>
                             /\ Recovered(Written(f, r, cut)) = Append(Recovered(f), r.tx)
<1> DEFINE g == Written(f, r, cut)
<1>1. Good(r) \in Line /\ Good(r).ok /\ Bad(r) \in Line /\ ~Bad(r).ok /\ Joined(f, r) = Good(r)
    BY DEF Good, Bad, Line, Joined
<1>2. f.lines \in Seq(Line) /\ Text(f) = f.lines /\ f = [lines |-> f.lines, tail |-> f.tail]
    BY FileParts, TextOf
<1>3. \A l \in Line : <<l>> \in Seq(Line) /\ Len(<<l>>) = 1 /\ <<l>> # << >> /\ <<l>>[1] = l
    OBVIOUS
<1>4. CASE cut = "nothing"
    BY <1>4 DEF Written
<1>5. CASE cut = "torn"
    <2>1. g = [lines |-> f.lines, tail |-> <<Bad(r)>>]
        BY <1>2, <1>5 DEF Written
    <2>2. g \in Files /\ g.lines = f.lines /\ g.tail = <<Bad(r)>>
        BY <1>1, <1>2, <1>3, <2>1 DEF Files, Tails
    <2>3. Text(g) = f.lines
        BY <1>1, <1>3, <2>2, TextOf
    <2>4. Recovered(g) = Recovered(f) /\ Continuous(g) /\ Parses(g)
        BY <1>2, <2>2, <2>3 DEF Recovered, Continuous, Parsed, Parses, Loadable
    <2> QED BY <1>5, <2>2, <2>4 DEF Loadable
<1>6. CASE cut = "no_lf"
    <2>1. g = [lines |-> f.lines, tail |-> <<Good(r)>>]
        BY <1>1, <1>2, <1>6 DEF Written
    <2>2. g \in Files /\ g.lines = f.lines /\ g.tail = <<Good(r)>>
        BY <1>1, <1>2, <1>3, <2>1 DEF Files, Tails
    <2>3. Text(g) = Append(f.lines, Good(r))
        BY <1>1, <1>3, <2>2, TextOf
    <2>4. Parses(g)
        BY <2>2 DEF Parses, Loadable
    <2>5. Loadable(g) /\ Recovered(g) = Append(Recovered(f), r.tx)
        BY <1>2, <2>2, <2>3, <2>4, Grows
    <2> QED BY <1>6, <2>2, <2>5
<1>7. CASE cut = "all"
    <2>1. g = [lines |-> Append(f.lines, Good(r)), tail |-> << >>]
        BY <1>1, <1>7 DEF Written
    <2>2. /\ Append(f.lines, Good(r)) \in Seq(Line)
          /\ Len(Append(f.lines, Good(r))) = Len(f.lines) + 1
          /\ \A i \in 1..Len(f.lines) : Append(f.lines, Good(r))[i] = f.lines[i]
          /\ Append(f.lines, Good(r))[Len(f.lines) + 1] = Good(r)
        BY <1>1, <1>2, AppendProperties
    <2>3. g \in Files /\ g.lines = Append(f.lines, Good(r)) /\ g.tail = << >>
        BY <2>1, <2>2 DEF Files, Tails
    <2>4. Text(g) = Append(f.lines, Good(r))
        BY <2>3, TextOf
    <2>5. Parses(g)
        <3>1. DOMAIN f.lines = 1..Len(f.lines) /\ Len(f.lines) \in Nat
              /\ DOMAIN g.lines = 1..(Len(f.lines) + 1)
            BY <1>2, <2>2, <2>3, LenProperties
        <3>2. \A i \in 1..(Len(f.lines) + 1) : i \in 1..Len(f.lines) \/ i = Len(f.lines) + 1
            BY <3>1
        <3> QED BY <1>1, <2>2, <2>3, <3>1, <3>2 DEF Parses, Loadable
    <2>6. Loadable(g) /\ Recovered(g) = Append(Recovered(f), r.tx)
        BY <1>2, <2>3, <2>4, <2>5, Grows
    <2> QED BY <1>7, <2>3, <2>6
<1> QED BY <1>4, <1>5, <1>6, <1>7 DEF Cuts

\* A repair ends the log with a line and changes nothing a load sees.
LEMMA RepairedLegal ==
    ASSUME NEW f \in Files, Loadable(f), f.tail # << >>
    PROVE  /\ Repaired(f, f) \in Files /\ Loadable(Repaired(f, f)) /\ Repaired(f, f).tail = << >>
           /\ Recovered(Repaired(f, f)) = Recovered(f)
<1> DEFINE g == Repaired(f, f)
           l == f.tail[1]
<1>1. f.lines \in Seq(Line) /\ f.tail = <<l>> /\ l \in Line
    BY FileParts
<1>2. \A s \in Seq(Line) : [lines |-> s, tail |-> << >>] \in Files
    BY DEF Files, Tails
<1>3. CASE l.ok
    <2>1. f.lines \o f.tail = Append(f.lines, l)
        BY <1>1, AppendIsConcat
    <2>2. /\ Append(f.lines, l) \in Seq(Line) /\ Len(Append(f.lines, l)) = Len(f.lines) + 1
          /\ \A i \in 1..Len(f.lines) : Append(f.lines, l)[i] = f.lines[i]
          /\ Append(f.lines, l)[Len(f.lines) + 1] = l
        BY <1>1, AppendProperties
    <2>3. g \in Files /\ g.lines = Append(f.lines, l) /\ g.tail = << >>
        BY <1>2, <1>3, <2>1, <2>2 DEF Repaired
    <2>4. Text(g) = Append(f.lines, l) /\ Text(f) = Append(f.lines, l)
        BY <1>3, <2>3, TextOf
    <2>5. Recovered(g) = Recovered(f) /\ Continuous(g)
        BY <2>4 DEF Recovered, Continuous, Parsed, Loadable
    <2>6. Parses(g)
        <3>1. DOMAIN f.lines = 1..Len(f.lines) /\ Len(f.lines) \in Nat
              /\ DOMAIN g.lines = 1..(Len(f.lines) + 1)
            BY <1>1, <2>2, <2>3, LenProperties
        <3>2. \A i \in 1..(Len(f.lines) + 1) : i \in 1..Len(f.lines) \/ i = Len(f.lines) + 1
            BY <3>1
        <3> QED BY <1>3, <2>2, <2>3, <3>1, <3>2 DEF Parses, Loadable
    <2> QED BY <2>3, <2>5, <2>6 DEF Loadable
<1>4. CASE ~l.ok
    <2>1. g \in Files /\ g.lines = f.lines /\ g.tail = << >>
        BY <1>1, <1>2, <1>4 DEF Repaired
    <2>2. Text(g) = f.lines /\ Text(f) = f.lines
        BY <1>4, <2>1, TextOf
    <2>3. Recovered(g) = Recovered(f) /\ Continuous(g) /\ Parses(g)
        BY <2>1, <2>2 DEF Recovered, Continuous, Parsed, Parses, Loadable
    <2> QED BY <2>1, <2>3 DEF Loadable
<1> QED BY <1>3, <1>4

-----------------------------------------------------------------------------
(***************************************************************************)
(* The steps                                                               *)
(***************************************************************************)
\* What a load of the file would return is a log of transactions.
LogType ==
    file \in Files =>
        /\ Entered \in Seq(Txs) /\ DOMAIN Entered = 1..Len(Entered) /\ Len(Entered) \in Nat
        /\ \A i \in DOMAIN Entered : Entered[i] \in Nat /\ Entered[i] # 0

\* What the log holds are transactions.
LEMMA EnteredIsALog == LogType
<1> SUFFICES ASSUME file \in Files
             PROVE  /\ Entered \in Seq(Txs) /\ DOMAIN Entered = 1..Len(Entered)
                    /\ Len(Entered) \in Nat
                    /\ \A i \in DOMAIN Entered : Entered[i] \in Nat /\ Entered[i] # 0
    BY DEF LogType
<1>1. Text(file) \in Seq(Line)
    <2>1. file.tail # << >> => Append(file.lines, file.tail[1]) \in Seq(Line)
        BY FileParts, AppendProperties
    <2> QED BY <2>1, FileParts, TextOf
<1>2. Entered \in Seq(Txs)
    BY <1>1, ParsedOf DEF Entered
<1>3. DOMAIN Entered = 1..Len(Entered) /\ Len(Entered) \in Nat
    BY <1>2, LenProperties
<1>4. \A i \in 1..Len(Entered) : Entered[i] \in Txs
    BY <1>2, ElementOfSeq
<1> QED BY <1>2, <1>3, <1>4 DEF Txs

\* The same of the next state.
LEMMA EnteredNext == LogType'
BY EnteredIsALog, PTL

\* A handle whose place in its life changes, and nothing else.
LEMMA MovesOnly ==
    ASSUME TypeOK, NEW x \in Handles, NEW st \in Stages, h' = [h EXCEPT ![x].st = st]
    PROVE  /\ h' \in [Handles -> HandleState] /\ h'[x].st = st
           /\ h'[x].faulted = h[x].faulted /\ h'[x].content = h[x].content
           /\ h'[x].state = h[x].state /\ h'[x].queue = h[x].queue /\ h'[x].busy = h[x].busy
           /\ \A y \in Handles : y # x => h'[y] = h[y]
BY DEF TypeOK, HandleState

\* A handle that begins to open or to create is alone.
LEMMA OpenStep ==
    ASSUME LInv, ~OverlappingCalls, NEW x \in Handles, Open(x) \/ Create(x)
    PROVE  LInv'
<1>1. PICK st \in {"loading", "creating"} :
        /\ h[x].st = "new" /\ writers = {} /\ ~deleting /\ \A y \in Handles : ~Opening(y)
        /\ h' = [h EXCEPT ![x].st = st] \/ h' = [h EXCEPT ![x].st = st, ![x].creates = TRUE]
        /\ st = "creating" => header = "none"
        /\ UNCHANGED <<repoVars, submitted, acked>>
    BY DEF Open, Create, Claimable, Permitted
<1>2. /\ h' \in [Handles -> HandleState] /\ h'[x].st = st
      /\ h'[x].queue = h[x].queue /\ h'[x].busy = h[x].busy /\ h'[x].faulted = h[x].faulted
      /\ \A y \in Handles : y # x => h'[y] = h[y]
    <2>1. h \in [Handles -> HandleState] /\ st \in Stages
        BY <1>1 DEF LInv, TypeOK, Stages
    <2>2. CASE h' = [h EXCEPT ![x].st = st]
        BY <2>1, <2>2 DEF HandleState
    <2>3. CASE h' = [h EXCEPT ![x].st = st, ![x].creates = TRUE]
        <3>1. /\ h'[x] = [h[x] EXCEPT !.st = st, !.creates = TRUE]
              /\ \A y \in Handles : y # x => h'[y] = h[y]
            BY <2>1, <2>3
        <3>2. h[x] \in HandleState
            BY <2>1
        <3>3. [h[x] EXCEPT !.st = st, !.creates = TRUE] \in HandleState
            BY <2>1, <3>2 DEF HandleState
        <3>4. DOMAIN h' = Handles /\ h' = [y \in Handles |-> h'[y]]
            BY <2>1, <2>3
        <3>5. \A y \in Handles : h'[y] \in HandleState
            BY <2>1, <3>1, <3>3
        <3>6. h' \in [Handles -> HandleState]
            BY <3>4, <3>5
        <3> QED BY <3>1, <3>2, <3>6 DEF HandleState
    <2> QED BY <1>1, <2>2, <2>3
<1>3. \A y \in Handles : ~InUse(y)
    BY <1>1 DEF LInv, Exclusive, Holding, InUse, Opening, TypeOK, HandleState, Stages
<1>4. TypeOK'
    BY <1>1, <1>2, <1>3 DEF LInv, TypeOK, repoVars, InUse
<1>5. Exclusive'
    BY <1>1, <1>2, <1>3 DEF LInv, Exclusive, Holding, InUse, repoVars
<1>6. Published' /\ Unchanged' /\ WriterKnowsTheLog'
    BY <1>1, <1>2, <1>3
       DEF LInv, Published, Unchanged, WriterKnowsTheLog, Holding, repoVars, InUse
<1>7. Waiting'
    BY <1>1, <1>2 DEF LInv, Waiting, Entered, repoVars
<1> QED BY <1>4, <1>5, <1>6, <1>7 DEF LInv

\* A log of one record is legal.
LEMMA ForkedLog ==
    ASSUME NEW tx \in Txs
    PROVE  LET f == [lines |-> <<Good(Record(1, tx))>>, tail |-> << >>]
           IN  f \in Files /\ Loadable(f) /\ Recovered(f) = <<tx>>
<1> DEFINE f == [lines |-> <<Good(Record(1, tx))>>, tail |-> << >>]
           l == Good(Record(1, tx))
<1>1. l \in Line /\ l.ok /\ l.rec.firstSeq = 1 /\ l.rec.tx = tx
    BY DEF Good, Line, Record, Records
<1>2. \A k \in Line : <<k>> \in Seq(Line) /\ Len(<<k>>) = 1 /\ <<k>>[1] = k /\ DOMAIN <<k>> = {1}
    OBVIOUS
<1>3. << >> \in Seq(Line) /\ Len(<< >>) = 0
    OBVIOUS
<1>4. f \in Files /\ f.lines = <<l>> /\ f.tail = << >>
    BY <1>1, <1>2, <1>3 DEF Files, Tails
<1> HIDE DEF f, l
<1>5. Text(f) = <<l>> /\ Parses(f)
    BY <1>1, <1>2, <1>4, TextOf DEF Parses
<1>6. 1..1 = {1}
    OBVIOUS
<1>7. Recovered(f) = [i \in {1} |-> <<l>>[i].rec.tx] /\ Continuous(f)
    <2>1. /\ <<l>> \in Seq(Line) /\ 1..Len(<<l>>) = {1} /\ <<l>>[1] = l /\ l.rec.firstSeq = 1
          /\ Text(f) = <<l>> /\ f \in Files
        BY <1>1, <1>2, <1>4, <1>5, <1>6
    <2>2. /\ Recovered(f) = [i \in 1..Len(<<l>>) |-> <<l>>[i].rec.tx]
          /\ Continuous(f) <=> \A i \in 1..Len(<<l>>) : <<l>>[i].rec.firstSeq = i
        BY <2>1, ParsedOf
    <2>3. \A i \in {1} : <<l>>[i].rec.firstSeq = i
        BY <2>1
    <2> QED BY <2>1, <2>2, <2>3
<1>8. <<tx>> = [i \in {1} |-> tx]
    BY <1>6
<1>9. Recovered(f) = <<tx>>
    BY <1>1, <1>2, <1>7, <1>8
<1> QED BY <1>4, <1>5, <1>7, <1>9 DEF f, l, Loadable

\* So is an empty one.
LEMMA EmptyLog == EmptyFile \in Files /\ Loadable(EmptyFile) /\ Recovered(EmptyFile) = << >>
<1>1. << >> \in Seq(Line) /\ Len(<< >>) = 0 /\ DOMAIN << >> = {}
    OBVIOUS
<1>2. EmptyFile \in Files /\ EmptyFile.tail = << >> /\ EmptyFile.lines = << >>
    BY <1>1 DEF EmptyFile, Files, Tails
<1>3. Text(EmptyFile) = << >> /\ Parses(EmptyFile)
    BY <1>1, <1>2, TextOf DEF Parses
<1>4. Recovered(EmptyFile) = << >> /\ Continuous(EmptyFile)
    BY <1>1, <1>3 DEF Recovered, Parsed, Continuous
<1> QED BY <1>2, <1>3, <1>4 DEF Loadable

\* A file that is published or removed while nobody waits to append to it.
LEMMA ReplacedWaiting ==
    ASSUME LInv, h' \in [Handles -> HandleState], submitted' \in Nat,
           \A y \in Handles : h'[y].busy = 0 /\ h'[y].queue = << >>,
           \A i \in DOMAIN Entered' : Entered'[i] <= submitted' /\ Entered'[i] # 0
    PROVE  Waiting'
<1>1. DOMAIN << >> = {} /\ 0 <= submitted'
    OBVIOUS
<1> QED BY <1>1 DEF Waiting

\* Handles that are not in use have nothing under way.
LEMMA IdleHandles ==
    ASSUME LInv, NEW y \in Handles, h[y].st \notin {"open", "sealed"}
    PROVE  h[y].busy = 0 /\ h[y].queue = << >>
BY DEF LInv, TypeOK, Waiting

\* The file of a new session is complete when it appears.
LEMMA PublishStep ==
    ASSUME LInv, NEW x \in Handles, Publish(x)
    PROVE  LInv'
<1>1. /\ h[x].st = "creating" /\ UNCHANGED <<writers, deleting, acked>>
      /\ \A y \in Handles : y # x => ~InUse(y)
      /\ writers = {} /\ header = "none" /\ file = EmptyFile /\ ~deleting
    BY DEF Publish, LInv, Exclusive, Published, InUse, Holding
<1>2. PICK st \in {"loading", "closed"} : h' = [h EXCEPT ![x].st = st]
      /\ (header' = "none" => st = "closed")
    BY <1>1 DEF Publish, Claimable
<1>3. /\ h' \in [Handles -> HandleState] /\ h'[x].st = st
      /\ h'[x].queue = h[x].queue /\ h'[x].busy = h[x].busy /\ h'[x].faulted = h[x].faulted
      /\ \A y \in Handles : y # x => h'[y] = h[y]
    BY <1>2, MovesOnly DEF LInv, Stages
<1>4. submitted \in 0..MaxTx /\ MaxTx \in Nat
    BY LogAssumption DEF LInv, TypeOK
<1>5. /\ submitted' \in 0..MaxTx /\ header' \in {"none", "ok"}
      /\ header' = "none" => file' = EmptyFile
      /\ \/ file' = EmptyFile
         \/ /\ submitted' \in Txs
            /\ file' = [lines |-> <<Good(Record(1, submitted'))>>, tail |-> << >>]
    BY <1>1, <1>4 DEF Publish, Txs
<1>6. file' \in Files /\ Loadable(file') /\ Entered' \in {<< >>, <<submitted'>>}
      /\ (Entered' # << >> => submitted' \in Txs)
    BY <1>5, ForkedLog, EmptyLog DEF Entered
<1>7. TypeOK'
    BY <1>1, <1>3, <1>5, <1>6 DEF LInv, TypeOK, InUse
<1>8. Exclusive'
    BY <1>1, <1>3 DEF LInv, Exclusive, Holding, InUse
<1>9. Published' /\ Unchanged' /\ WriterKnowsTheLog'
    BY <1>1, <1>3, <1>5, <1>6
       DEF LInv, Published, Unchanged, WriterKnowsTheLog, Holding, InUse
<1>10. Waiting'
    <2>1. \A y \in Handles : h'[y].busy = 0 /\ h'[y].queue = << >>
        BY <1>1, <1>3, IdleHandles DEF InUse
    <2>2. \A i \in DOMAIN Entered' : Entered'[i] <= submitted' /\ Entered'[i] # 0
        <3>1. submitted' \in Nat /\ (Entered' # << >> => submitted' # 0)
            BY <1>4, <1>5, <1>6 DEF Txs
        <3>2. DOMAIN << >> = {} /\ DOMAIN <<submitted'>> = {1} /\ <<submitted'>>[1] = submitted'
            OBVIOUS
        <3> QED BY <1>6, <3>1, <3>2
    <2>3. submitted' \in Nat
        BY <1>4, <1>5
    <2> QED BY <1>3, <2>1, <2>2, <2>3, ReplacedWaiting
<1> QED BY <1>7, <1>8, <1>9, <1>10 DEF LInv

\* A delete begins while nobody has the session, and nobody takes it meanwhile.
LEMMA DeleteStep ==
    ASSUME LInv, ~OverlappingCalls, Delete \/ DeleteEnds
    PROVE  LInv'
<1>1. \A y \in Handles : ~InUse(y) /\ h'[y] = h[y] /\ h[y].busy = 0 /\ h[y].queue = << >>
    <2>1. UNCHANGED h
        BY DEF Delete, DeleteEnds
    <2>2. CASE Delete
        BY <2>1, <2>2, IdleHandles
           DEF Delete, Deletable, Permitted, Opening, LInv, Exclusive, Holding, InUse, TypeOK,
               HandleState, Stages
    <2>3. CASE DeleteEnds
        BY <2>1, <2>3, IdleHandles DEF DeleteEnds, LInv, Exclusive, InUse
    <2> QED BY <2>2, <2>3
<1>2. UNCHANGED <<writers, h, submitted>> /\ deleting' \in BOOLEAN
    BY DEF Delete, DeleteEnds
<1>3. \/ UNCHANGED <<file, header, acked>>
      \/ file' = EmptyFile /\ header' = "none" /\ acked' = << >>
    BY DEF Delete, DeleteEnds
<1>4. TypeOK'
    <2>1. << >> \in Seq(Txs)
        OBVIOUS
    <2> QED BY <1>2, <1>3, <2>1, EmptyLog DEF LInv, TypeOK
<1>5. Exclusive'
    BY <1>1, <1>2 DEF LInv, Exclusive, Holding, InUse
<1>6. Published' /\ Unchanged' /\ WriterKnowsTheLog'
    BY <1>1, <1>2, <1>3, EmptyLog
       DEF LInv, Published, Unchanged, WriterKnowsTheLog, Holding, InUse
<1>7. Waiting'
    <2>1. \A i \in DOMAIN Entered' : Entered'[i] <= submitted' /\ Entered'[i] # 0
        <3>1. CASE UNCHANGED file
            <4>1. Entered' = Entered /\ submitted' = submitted
                BY <1>2, <3>1 DEF Entered
            <4>2. \A i \in DOMAIN Entered : Entered[i] # 0 /\ Entered[i] <= submitted
                BY EnteredIsALog DEF LogType, LInv, TypeOK, Waiting
            <4> QED BY <4>1, <4>2
        <3>2. CASE file' = EmptyFile
            <4>1. Entered' = << >> /\ DOMAIN << >> = {}
                BY <3>2, EmptyLog DEF Entered
            <4> QED BY <4>1
        <3> QED BY <1>3, <3>1, <3>2
    <2>2. h' \in [Handles -> HandleState] /\ submitted' \in Nat
        BY <1>2 DEF LInv, TypeOK
    <2> QED BY <1>1, <2>1, <2>2, ReplacedWaiting
<1> QED BY <1>4, <1>5, <1>6, <1>7 DEF LInv

\* A handle that opens on a log that ends with a line knows the log and holds the session.
LEMMA RegisteredStep ==
    ASSUME LInv, NEW x \in Handles, h[x].st \in {"loading", "repairing"},
           UNCHANGED <<deleting, submitted, acked>>, header' = "ok",
           NEW content \in Files, Registered(x, content), Recovered(content) = Entered,
           file' \in Files, Loadable(file'), file'.tail = << >>, Recovered(file') = Entered
    PROVE  LInv'
<1>1. /\ h' \in [Handles -> HandleState] /\ h'[x].st = "open" /\ h'[x].state = Entered
      /\ h'[x].queue = h[x].queue /\ h'[x].busy = h[x].busy /\ h'[x].faulted = h[x].faulted
      /\ \A y \in Handles : y # x => h'[y] = h[y]
      /\ writers' = {x}
    BY EnteredIsALog DEF LogType, Registered, LInv, TypeOK, HandleState, Stages
<1>2. \A y \in Handles : y # x => ~InUse(y)
    BY DEF LInv, Exclusive, InUse
<1>3. Entered' = Entered
    BY DEF Entered
<1>4. TypeOK'
    BY <1>1 DEF LInv, TypeOK
<1>5. Exclusive'
    BY <1>1, <1>2 DEF LInv, Exclusive, Holding, InUse
<1>6. Published' /\ Unchanged' /\ WriterKnowsTheLog'
    BY <1>1, <1>2, <1>3 DEF Published, Unchanged, WriterKnowsTheLog, Holding, InUse, Entered
<1>7. Waiting'
    BY <1>1, <1>3 DEF LInv, Waiting
<1> QED BY <1>4, <1>5, <1>6, <1>7 DEF LInv

\* A handle that fails to open is gone.
LEMMA RefusedStep ==
    ASSUME LInv, NEW x \in Handles, h[x].st \in {"loading", "repairing"}, Refused(x),
           UNCHANGED <<file, header, deleting, submitted, acked>>
    PROVE  LInv'
<1>1. /\ h' \in [Handles -> HandleState] /\ h'[x].st = "closed"
      /\ h'[x].queue = h[x].queue /\ h'[x].busy = h[x].busy /\ h'[x].faulted = h[x].faulted
      /\ \A y \in Handles : y # x => h'[y] = h[y]
      /\ writers' = writers
    BY MovesOnly DEF Refused, LInv, Stages
<1>2. TypeOK'
    BY <1>1 DEF LInv, TypeOK
<1>3. Exclusive'
    BY <1>1 DEF LInv, Exclusive, Holding, InUse
<1>4. Published' /\ Unchanged' /\ WriterKnowsTheLog'
    BY <1>1 DEF LInv, Published, Unchanged, WriterKnowsTheLog, Holding
<1>5. Waiting'
    BY <1>1 DEF LInv, Waiting, Entered
<1> QED BY <1>2, <1>3, <1>4, <1>5 DEF LInv

\* A handle that reads the file holds the session, or has a tail to repair.
LEMMA LoadStep ==
    ASSUME LInv, NEW x \in Handles, Load(x)
    PROVE  LInv'
<1>1. /\ h[x].st = "loading" /\ UNCHANGED <<file, header, deleting, submitted, acked>>
      /\ file \in Files /\ Loadable(file)
    BY DEF Load, LInv, TypeOK, Published
<1>2. CASE header = "ok" /\ file.tail = << >> /\ Registered(x, file)
    BY <1>1, <1>2, RegisteredStep DEF Entered
<1>3. CASE /\ header = "ok" /\ file.tail # << >>
           /\ h' = [h EXCEPT ![x].st = "repairing", ![x].content = file]
           /\ UNCHANGED writers
    <2>1. /\ h' \in [Handles -> HandleState] /\ h'[x].st = "repairing" /\ h'[x].content = file
          /\ h'[x].queue = h[x].queue /\ h'[x].busy = h[x].busy /\ h'[x].faulted = h[x].faulted
          /\ \A y \in Handles : y # x => h'[y] = h[y]
        BY <1>1, <1>3 DEF LInv, TypeOK, HandleState, Stages
    <2>2. TypeOK'
        BY <1>1, <1>3, <2>1 DEF LInv, TypeOK
    <2>3. Exclusive'
        BY <1>1, <1>3, <2>1 DEF LInv, Exclusive, Holding, InUse
    <2>4. Published' /\ Unchanged' /\ WriterKnowsTheLog'
        BY <1>1, <1>3, <2>1 DEF LInv, Published, Unchanged, WriterKnowsTheLog, Holding
    <2>5. Waiting'
        BY <1>1, <2>1 DEF LInv, Waiting, Entered
    <2> QED BY <2>2, <2>3, <2>4, <2>5 DEF LInv
<1>4. CASE Refused(x)
    BY <1>1, <1>4, RefusedStep
<1> QED BY <1>1, <1>2, <1>3, <1>4 DEF Load, Readable

\* The file that is repaired is the one that was read.
LEMMA RepairStep ==
    ASSUME LInv, NEW x \in Handles, Repair(x)
    PROVE  LInv'
<1>1. h[x].st = "repairing" /\ h[x].content = file /\ file.tail # << >> /\ file \in Files
      /\ Loadable(file) /\ header = "ok" /\ UNCHANGED <<deleting, submitted, acked>>
    BY DEF Repair, LInv, Unchanged, TypeOK, Published
<1>2. CASE file' = Repaired(file, file) /\ header' = "ok" /\ Registered(x, file)
    <2>1. file' \in Files /\ Loadable(file') /\ file'.tail = << >> /\ Recovered(file') = Entered
        BY <1>1, <1>2, RepairedLegal DEF Entered
    <2> QED BY <1>1, <1>2, <2>1, RegisteredStep DEF Entered
<1>3. CASE Refused(x) /\ UNCHANGED <<file, header>>
    BY <1>1, <1>3, RefusedStep
<1> QED BY <1>1, <1>2, <1>3 DEF Repair, Touched

\* A new transaction is behind all others.
LEMMA CommitStep ==
    ASSUME LInv, NEW x \in Handles, Commit(x)
    PROVE  LInv'
<1> DEFINE q == h[x].queue
           n == submitted + 1
<1>1. /\ h[x].st = "open" /\ submitted < MaxTx /\ submitted' = n
      /\ submitted \in Nat /\ MaxTx \in Nat
      /\ h' = [h EXCEPT ![x].queue = Append(q, n)]
      /\ UNCHANGED <<file, header, writers, deleting, acked>>
      /\ q \in Seq(Txs) /\ n \in Txs /\ n \in 0..MaxTx
    BY LogAssumption DEF Commit, LInv, TypeOK, HandleState, Txs, repoVars
<1>2. /\ Append(q, n) \in Seq(Txs) /\ Len(Append(q, n)) = Len(q) + 1
      /\ \A i \in 1..Len(q) : Append(q, n)[i] = q[i]
      /\ Append(q, n)[Len(q) + 1] = n
      /\ DOMAIN q = 1..Len(q) /\ DOMAIN Append(q, n) = 1..(Len(q) + 1) /\ Len(q) \in Nat
    BY <1>1, AppendProperties, LenProperties
<1>3. /\ h' \in [Handles -> HandleState] /\ h'[x].st = "open" /\ h'[x].queue = Append(q, n)
      /\ h'[x].busy = h[x].busy /\ h'[x].faulted = h[x].faulted /\ h'[x].state = h[x].state
      /\ \A y \in Handles : y # x => h'[y] = h[y]
    BY <1>1, <1>2 DEF LInv, TypeOK, HandleState
<1>4. TypeOK'
    BY <1>1, <1>3 DEF LInv, TypeOK
<1>5. Exclusive'
    BY <1>1, <1>3 DEF LInv, Exclusive, Holding, InUse
<1>6. Published' /\ Unchanged' /\ WriterKnowsTheLog'
    BY <1>1, <1>3 DEF LInv, Published, Unchanged, WriterKnowsTheLog, Holding
<1>7. Waiting'
    <2>1. Entered' = Entered /\ \A i \in DOMAIN Entered : Entered[i] \in Nat
        BY <1>1, EnteredIsALog DEF LogType, Entered, LInv, TypeOK
    <2>2. \A y \in Handles : h[y].busy \in Nat /\ \A j \in DOMAIN h[y].queue : h[y].queue[j] \in Nat
        <3>1. \A y \in Handles : h[y].busy \in 0..MaxTx /\ h[y].queue \in Seq(1..MaxTx)
            BY DEF LInv, TypeOK, HandleState, Txs
        <3>2. \A y \in Handles : DOMAIN h[y].queue = 1..Len(h[y].queue)
            BY <3>1, LenProperties
        <3> QED BY <1>1, <3>1, <3>2, ElementOfSeq
    <2>3. ASSUME NEW y \in Handles, y # x
          PROVE  /\ h[y].busy <= n
                 /\ \A j \in DOMAIN h[y].queue : h[y].queue[j] <= n
        BY <1>1, <2>2 DEF LInv, Waiting
    <2>4. ASSUME NEW j \in DOMAIN Append(q, n)
          PROVE  (j \in DOMAIN q /\ Append(q, n)[j] = q[j] /\ q[j] <= submitted)
                 \/ (j = Len(q) + 1 /\ Append(q, n)[j] = n)
        BY <1>2, <2>4 DEF LInv, Waiting
    <2>5. /\ h[x].busy <= submitted
          /\ \A i \in DOMAIN Entered : Entered[i] <= submitted
        BY DEF LInv, Waiting
    <2>6. \A j \in DOMAIN Append(q, n) :
            /\ Append(q, n)[j] <= n /\ Append(q, n)[j] # h[x].busy
            /\ \A i \in DOMAIN Entered : Entered[i] # Append(q, n)[j]
            /\ \A k \in DOMAIN Append(q, n) : Append(q, n)[k] = Append(q, n)[j] => k = j
        BY <1>1, <2>1, <2>2, <2>4, <2>5 DEF LInv, Waiting
    <2>7. \A i \in DOMAIN Entered : Entered[i] <= n
        BY <1>1, <2>1, <2>5
    <2>8. h[x].busy <= n
        BY <1>1, <2>2, <2>5
    <2> HIDE DEF q, n
    <2> QED BY <1>1, <1>3, <2>1, <2>3, <2>6, <2>7, <2>8 DEF LInv, Waiting
<1> QED BY <1>4, <1>5, <1>6, <1>7 DEF LInv

\* The handle that is served takes its oldest transaction, or rejects it.
LEMMA BeginStep ==
    ASSUME LInv, NEW x \in Handles, Begin(x)
    PROVE  LInv'
<1> DEFINE q == h[x].queue
           b == IF Usable(x) THEN Head(q) ELSE 0
<1>1. /\ h[x].st \in {"open", "sealed"} /\ h[x].busy = 0 /\ q # << >> /\ q \in Seq(Txs)
      /\ h' = [h EXCEPT ![x].queue = Tail(q), ![x].busy = b]
      /\ UNCHANGED <<file, header, writers, deleting, submitted, acked>>
    BY DEF Begin, LInv, TypeOK, HandleState, repoVars
<1>2. /\ Head(q) \in Txs /\ Head(q) = q[1] /\ Tail(q) \in Seq(Txs) /\ Len(Tail(q)) = Len(q) - 1
      /\ \A i \in 1..Len(Tail(q)) : Tail(q)[i] = q[i + 1]
      /\ DOMAIN q = 1..Len(q) /\ Len(q) \in Nat /\ DOMAIN Tail(q) = 1..(Len(q) - 1)
    BY <1>1, HeadTailProperties, LenProperties
<1>3. 1 \in DOMAIN q /\ \A j \in DOMAIN Tail(q) : j + 1 \in DOMAIN q /\ j \in Nat /\ j + 1 # 1
    <2>1. Len(q) # 0
        BY <1>1, <1>2, EmptySeq
    <2> QED BY <1>2, <2>1
<1>4. b \in 0..MaxTx /\ b \in {0, q[1]} /\ (b # 0 => ~h[x].faulted)
    BY <1>2, LogAssumption DEF Txs, Usable
<1> HIDE DEF b
<1>5. /\ h' \in [Handles -> HandleState] /\ h'[x].st = h[x].st /\ h'[x].queue = Tail(q)
      /\ h'[x].busy = b /\ h'[x].faulted = h[x].faulted /\ h'[x].state = h[x].state
      /\ \A y \in Handles : y # x => h'[y] = h[y]
    <2>1. h \in [Handles -> HandleState] /\ h[x] \in HandleState
        BY DEF LInv, TypeOK
    <2>2. /\ h'[x] = [h[x] EXCEPT !.queue = Tail(q), !.busy = b]
          /\ \A y \in Handles : y # x => h'[y] = h[y]
        BY <1>1, <2>1
    <2>3. [h[x] EXCEPT !.queue = Tail(q), !.busy = b] \in HandleState
        BY <1>2, <1>4, <2>1 DEF HandleState
    <2>4. h' = [y \in Handles |-> h'[y]]
        BY <1>1, <2>1
    <2>5. \A y \in Handles : h'[y] \in HandleState
        BY <2>1, <2>2, <2>3
    <2>6. h' \in [Handles -> HandleState]
        BY <2>4, <2>5
    <2> QED BY <2>1, <2>2, <2>6 DEF HandleState
<1>6. TypeOK'
    BY <1>1, <1>5 DEF LInv, TypeOK
<1>7. Exclusive'
    BY <1>1, <1>5 DEF LInv, Exclusive, Holding, InUse
<1>8. Published' /\ Unchanged' /\ WriterKnowsTheLog'
    BY <1>1, <1>5 DEF LInv, Published, Unchanged, WriterKnowsTheLog, Holding
<1>9. Waiting'
    <2>1. Entered' = Entered /\ \A i \in DOMAIN Entered : Entered[i] # 0
        BY <1>1, EnteredIsALog DEF LogType, Entered, LInv, TypeOK
    <2>2. submitted \in Nat /\ \A i \in DOMAIN Entered : Entered[i] # b
        BY <1>3, <1>4, <2>1 DEF LInv, Waiting, TypeOK
    <2>3. \A j \in DOMAIN q : q[j] # 0
        <3>1. \A j \in 1..Len(q) : q[j] \in Txs
            BY <1>1, ElementOfSeq
        <3> QED BY <1>2, <3>1 DEF Txs
    <2>4. b <= submitted
        BY <1>3, <1>4, <2>2 DEF LInv, Waiting
    <2>5. ASSUME NEW j \in DOMAIN Tail(q)
          PROVE  /\ Tail(q)[j] <= submitted /\ Tail(q)[j] # b
                 /\ \A i \in DOMAIN Entered : Entered[i] # Tail(q)[j]
                 /\ \A k \in DOMAIN Tail(q) : Tail(q)[k] = Tail(q)[j] => k = j
        <3>1. /\ j + 1 \in DOMAIN q /\ Tail(q)[j] = q[j + 1] /\ j + 1 # 1
              /\ \A k \in DOMAIN Tail(q) : k + 1 \in DOMAIN q /\ Tail(q)[k] = q[k + 1]
            BY <1>2, <1>3
        <3>2. q[j + 1] # q[1] /\ q[j + 1] # 0
            BY <1>3, <2>3, <3>1 DEF LInv, Waiting
        <3>3. \A k \in DOMAIN Tail(q) : q[k + 1] = q[j + 1] => k + 1 = j + 1
            BY <3>1 DEF LInv, Waiting
        <3>4. \A k \in DOMAIN Tail(q) : k + 1 = j + 1 => k = j
            BY <1>3
        <3> QED BY <1>4, <3>1, <3>2, <3>3, <3>4 DEF LInv, Waiting
    <2> HIDE DEF q
    <2> QED BY <1>1, <1>4, <1>5, <2>1, <2>2, <2>4, <2>5 DEF LInv, Waiting
<1> QED BY <1>6, <1>7, <1>8, <1>9 DEF LInv

\* The only handle in use is the one with an append under way.
LEMMA BusyHandle ==
    ASSUME LInv, NEW x \in Handles, h[x].busy # 0
    PROVE  /\ x \in Holding /\ ~h[x].faulted /\ h[x].state = Entered /\ file.tail = << >>
           /\ header = "ok"
           /\ h[x].busy \in Txs /\ NextRecord(x) \in Records
           /\ NextRecord(x).tx = h[x].busy /\ NextRecord(x).firstSeq = Len(Entered) + 1
           /\ \A y \in Handles : y # x => ~InUse(y) /\ h[y].busy = 0 /\ h[y].queue = << >>
<1>1. x \in Holding /\ ~h[x].faulted /\ h[x].st \in {"open", "sealed"}
    BY DEF LInv, TypeOK, Waiting, Holding
<1>2. h[x].state = Entered /\ file.tail = << >> /\ header = "ok"
    BY <1>1 DEF LInv, WriterKnowsTheLog, Entered
<1>3. h[x].busy \in Txs /\ Len(Entered) \in Nat
    BY LogAssumption, EnteredIsALog DEF LogType, LInv, TypeOK, HandleState, Txs
<1>4. \A y \in Handles : y # x => ~InUse(y)
    BY <1>1 DEF LInv, Exclusive, InUse
<1>5. \A y \in Handles : ~InUse(y) => h[y].busy = 0 /\ h[y].queue = << >>
    BY DEF LInv, TypeOK, Waiting, InUse
<1> QED BY <1>1, <1>2, <1>3, <1>4, <1>5 DEF NextRecord, Record, Records

\* However much of its record reaches the file, the log gains its transaction or nothing.
LEMMA AppendedLog ==
    ASSUME LInv, NEW x \in Handles, h[x].busy # 0, NEW cut \in Cuts,
           file' = Written(file, NextRecord(x), cut)
    PROVE  /\ file' \in Files /\ Loadable(file')
           /\ Entered' \in {Entered, Append(Entered, h[x].busy)}
           /\ cut = "all" => file'.tail = << >> /\ Entered' = Append(Entered, h[x].busy)
           /\ \A i \in DOMAIN Entered' :
                Entered'[i] = h[x].busy \/ \E j \in DOMAIN Entered : Entered'[i] = Entered[j]
<1> DEFINE b == h[x].busy
<1>1. /\ file' \in Files /\ Loadable(file') /\ Entered' \in {Entered, Append(Entered, b)}
      /\ cut = "all" => file'.tail = << >> /\ Entered' = Append(Entered, b)
    BY BusyHandle, WrittenLegal DEF LInv, TypeOK, Published, Entered
<1>2. /\ Len(Append(Entered, b)) = Len(Entered) + 1
      /\ \A i \in 1..Len(Entered) : Append(Entered, b)[i] = Entered[i]
      /\ Append(Entered, b)[Len(Entered) + 1] = b
      /\ DOMAIN Append(Entered, b) = 1..(Len(Entered) + 1)
      /\ DOMAIN Entered = 1..Len(Entered) /\ Len(Entered) \in Nat
    BY BusyHandle, EnteredIsALog, AppendProperties, LenProperties DEF LogType, LInv, TypeOK
<1>3. \A i \in DOMAIN Append(Entered, b) :
        Append(Entered, b)[i] = b \/ \E j \in DOMAIN Entered : Append(Entered, b)[i] = Entered[j]
    BY <1>2
<1> QED BY <1>1, <1>3

\* What waits is still in no log.
LEMMA AppendedWaiting ==
    ASSUME LInv, NEW x \in Handles, h[x].busy # 0, h' \in [Handles -> HandleState],
           file' \in Files, UNCHANGED submitted,
           \A i \in DOMAIN Entered' :
                Entered'[i] = h[x].busy \/ \E j \in DOMAIN Entered : Entered'[i] = Entered[j],
           \A y \in Handles : h'[y].busy = 0 /\ h'[y].queue \in {h[y].queue, << >>},
           \A y \in Handles : h'[y].st \notin {"open", "sealed"} => h'[y].queue = << >>
    PROVE  Waiting'
<1>1. \A i \in DOMAIN Entered' : Entered'[i] <= submitted
    BY DEF LInv, Waiting
<1>2. \A i \in DOMAIN Entered' : Entered'[i] # 0
    BY EnteredNext DEF LogType
<1>3. submitted \in Nat /\ DOMAIN << >> = {}
    BY DEF LInv, TypeOK
<1>4. ASSUME NEW y \in Handles, NEW j \in DOMAIN h'[y].queue
      PROVE  /\ y = x /\ h'[y].queue = h[x].queue /\ h[x].queue[j] # h[x].busy
             /\ \A i \in DOMAIN Entered' : Entered'[i] # h[x].queue[j]
    <2>1. h'[y].queue = h[y].queue /\ h[y].queue # << >>
        BY <1>3, <1>4
    <2>2. y = x
        BY <2>1, BusyHandle
    <2>3. j \in DOMAIN h[x].queue
        BY <1>4, <2>1, <2>2
    <2> QED BY <2>1, <2>2, <2>3 DEF LInv, Waiting
<1>5. \A j \in DOMAIN h[x].queue : h[x].queue[j] \in Nat /\ h[x].queue[j] # 0
    <2>1. h[x].queue \in Seq(Txs)
        BY DEF LInv, TypeOK, HandleState
    <2>2. \A j \in 1..Len(h[x].queue) : h[x].queue[j] \in Txs
        BY <2>1, ElementOfSeq
    <2> QED BY <2>1, <2>2, LenProperties DEF Txs
<1> QED BY <1>1, <1>2, <1>3, <1>4, <1>5 DEF LInv, Waiting

\* An append that succeeds, or fails.
LEMMA AppendStep ==
    ASSUME LInv, NEW x \in Handles, AppendOk(x) \/ AppendFails(x)
    PROVE  LInv'
<1> DEFINE b == h[x].busy
<1>1. PICK cut \in Cuts :
        /\ b # 0 /\ file' = Written(file, NextRecord(x), cut) /\ header' \in {header, Touched}
        /\ UNCHANGED <<writers, deleting, submitted>>
        /\ \/ /\ cut = "all" /\ acked' = Append(acked, b)
              /\ h' = [h EXCEPT ![x].state = Append(@, b), ![x].busy = 0]
           \/ h' = [h EXCEPT ![x].faulted = TRUE, ![x].busy = 0] /\ UNCHANGED acked
    BY DEF AppendOk, AppendFails, Reached, Cuts
<1>2. /\ x \in Holding /\ ~h[x].faulted /\ h[x].state = Entered /\ b \in Txs
      /\ header = "ok" /\ header' = "ok"
      /\ \A y \in Handles : y # x => ~InUse(y) /\ h[y].busy = 0 /\ h[y].queue = << >>
    BY <1>1, BusyHandle DEF Touched
<1>3. /\ file' \in Files /\ Loadable(file')
      /\ cut = "all" => file'.tail = << >> /\ Entered' = Append(Entered, b)
      /\ \A i \in DOMAIN Entered' :
            Entered'[i] = b \/ \E j \in DOMAIN Entered : Entered'[i] = Entered[j]
    BY <1>1, AppendedLog
<1>4. Append(Entered, b) \in Seq(Txs) /\ acked \in Seq(Txs) /\ Append(acked, b) \in Seq(Txs)
    BY <1>2, EnteredIsALog, AppendProperties DEF LogType, LInv, TypeOK
<1>5. /\ h' \in [Handles -> HandleState] /\ h'[x].st = h[x].st /\ h'[x].queue = h[x].queue
      /\ h'[x].busy = 0
      /\ \A y \in Handles : y # x => h'[y] = h[y]
      /\ ~h'[x].faulted => cut = "all" /\ h'[x].state = Append(Entered, b)
    BY <1>1, <1>2, <1>4, LogAssumption DEF LInv, TypeOK, HandleState
<1>6. TypeOK'
    BY <1>1, <1>2, <1>3, <1>4, <1>5 DEF LInv, TypeOK
<1>7. Exclusive'
    BY <1>1, <1>5 DEF LInv, Exclusive, Holding, InUse
<1>8. Unchanged'
    BY <1>2, <1>5 DEF Unchanged, Holding, InUse
<1>9. WriterKnowsTheLog'
    BY <1>2, <1>3, <1>5 DEF WriterKnowsTheLog, Holding, InUse, Entered
<1>10. Waiting'
    <2>1. \A y \in Handles : h'[y].busy = 0 /\ h'[y].queue \in {h[y].queue, << >>}
        BY <1>2, <1>5
    <2>2. \A y \in Handles : h'[y].st \notin {"open", "sealed"} => h'[y].queue = << >>
        BY <1>2, <1>5 DEF Holding
    <2> QED BY <1>1, <1>3, <1>5, <2>1, <2>2, AppendedWaiting
<1>11. Published'
    BY <1>2, <1>3, <1>5 DEF LInv, Published, Holding, InUse
<1> QED BY <1>6, <1>7, <1>8, <1>9, <1>10, <1>11 DEF LInv

\* A handle that is closing, and one that gives the session back.
LEMMA CloseSteps ==
    ASSUME LInv, NEW x \in Handles, Close(x) \/ Release(x)
    PROVE  LInv'
<1>1. PICK st \in {"sealed", "closed"} :
        /\ h[x].st \in {"open", "sealed"} /\ h' = [h EXCEPT ![x].st = st]
        /\ UNCHANGED <<file, header, deleting, submitted, acked>>
        /\ \/ st = "sealed" /\ UNCHANGED writers
           \/ st = "closed" /\ h[x].queue = << >> /\ h[x].busy = 0 /\ writers' = writers \ {x}
    BY DEF Close, Release, Releasable, repoVars
<1>2. /\ h' \in [Handles -> HandleState] /\ h'[x].st = st
      /\ h'[x].queue = h[x].queue /\ h'[x].busy = h[x].busy /\ h'[x].faulted = h[x].faulted
      /\ h'[x].state = h[x].state
      /\ \A y \in Handles : y # x => h'[y] = h[y]
    BY <1>1, MovesOnly DEF LInv, Stages
<1>3. TypeOK'
    BY <1>1, <1>2 DEF LInv, TypeOK
<1>4. Exclusive'
    BY <1>1, <1>2 DEF LInv, Exclusive, Holding, InUse
<1>5. Published' /\ Unchanged' /\ WriterKnowsTheLog'
    BY <1>1, <1>2 DEF LInv, Published, Unchanged, WriterKnowsTheLog, Holding
<1>6. Waiting'
    BY <1>1, <1>2 DEF LInv, Waiting, Entered
<1> QED BY <1>3, <1>4, <1>5, <1>6 DEF LInv

\* A lost process leaves the log, or the log and the transaction it was appending.
LEMMA CrashStep ==
    ASSUME LInv, Crash
    PROVE  LInv'
<1>1. /\ writers' = {} /\ deleting' = FALSE /\ UNCHANGED <<submitted, acked>>
      /\ h' = [x \in Handles |-> IF h[x].st = "new" THEN h[x]
                 ELSE [h[x] EXCEPT !.st = "closed", !.queue = << >>, !.busy = 0]]
    BY DEF Crash
<1>2. /\ h' \in [Handles -> HandleState]
      /\ \A x \in Handles : h'[x].st \in {"new", "closed"} /\ h'[x].busy = 0 /\ h'[x].queue = << >>
    <2>1. << >> \in Seq(Txs) /\ 0 \in 0..MaxTx
        BY LogAssumption
    <2>2. ASSUME NEW x \in Handles
          PROVE  h'[x] \in HandleState /\ h'[x].st \in {"new", "closed"} /\ h'[x].busy = 0
                 /\ h'[x].queue = << >>
        <3>1. h[x] \in HandleState /\ (h[x].st = "new" => h[x].busy = 0 /\ h[x].queue = << >>)
            BY DEF LInv, TypeOK, Waiting
        <3>2. h'[x] = IF h[x].st = "new" THEN h[x]
                      ELSE [h[x] EXCEPT !.st = "closed", !.queue = << >>, !.busy = 0]
            BY <1>1
        <3> QED BY <2>1, <3>1, <3>2 DEF HandleState, Stages
    <2> QED BY <1>1, <2>2
<1>3. Exclusive' /\ Unchanged' /\ WriterKnowsTheLog' /\ deleting' \in BOOLEAN
    BY <1>1, <1>2 DEF Exclusive, Unchanged, WriterKnowsTheLog, Holding, InUse
<1>4. CASE UNCHANGED <<file, header>>
    <2>1. TypeOK' /\ Published'
        BY <1>1, <1>2, <1>3, <1>4 DEF LInv, TypeOK, Published
    <2>2. Waiting'
        <3>1. Entered' = Entered /\ submitted \in Nat /\ \A i \in DOMAIN Entered : Entered[i] # 0
            BY <1>4, EnteredIsALog DEF LogType, Entered, LInv, TypeOK
        <3>2. DOMAIN << >> = {}
            OBVIOUS
        <3>3. submitted' = submitted /\ \A i \in DOMAIN Entered' : Entered'[i] <= submitted'
            BY <1>1, <3>1 DEF LInv, Waiting
        <3>4. \A y \in Handles : h'[y].busy = 0 /\ DOMAIN h'[y].queue = {}
            BY <1>2, <3>2
        <3>5. \A y \in Handles : h'[y].busy <= submitted'
            BY <3>1, <3>3, <3>4
        <3> QED BY <1>2, <3>1, <3>3, <3>4, <3>5 DEF Waiting
    <2> QED BY <1>3, <2>1, <2>2 DEF LInv
<1>5. ASSUME NEW x \in Handles, NEW cut \in Cuts, h[x].busy # 0, Reached(x, cut)
      PROVE  LInv'
    <2>0. file' = Written(file, NextRecord(x), cut) /\ header = "ok" /\ header' = "ok"
        BY <1>5, BusyHandle DEF Reached, Touched
    <2>1. /\ file' \in Files /\ Loadable(file')
          /\ \A i \in DOMAIN Entered' :
                Entered'[i] = h[x].busy \/ \E j \in DOMAIN Entered : Entered'[i] = Entered[j]
        BY <1>5, <2>0, AppendedLog
    <2>2. TypeOK' /\ Published'
        BY <1>1, <1>2, <1>3, <2>0, <2>1 DEF LInv, TypeOK, Published
    <2>3. Waiting'
        BY <1>1, <1>2, <1>5, <2>1, AppendedWaiting
    <2> QED BY <1>3, <2>2, <2>3 DEF LInv
<1> QED BY <1>4, <1>5 DEF Crash

-----------------------------------------------------------------------------
(***************************************************************************)
(* The theorems                                                            *)
(***************************************************************************)
\* An empty file and unused handles.
LEMMA Initial == Init => LInv
<1> SUFFICES ASSUME Init PROVE LInv
    OBVIOUS
<1>1. << >> \in Seq(Txs) /\ DOMAIN << >> = {}
    OBVIOUS
<1>2. file = EmptyFile /\ file \in Files /\ Loadable(file) /\ Entered = << >>
    BY EmptyLog DEF Init, Entered
<1>3. /\ h \in [Handles -> HandleState]
      /\ \A x \in Handles : h[x].st = "new" /\ h[x].busy = 0 /\ h[x].queue = << >>
    <2>1. NewHandle \in HandleState /\ NewHandle.st = "new" /\ NewHandle.busy = 0
          /\ NewHandle.queue = << >>
        BY <1>1, EmptyLog, LogAssumption DEF NewHandle, HandleState, Stages
    <2> QED BY <2>1 DEF Init
<1>4. TypeOK
    <2>1. /\ header \in {"none", "ok", "missing"} /\ writers \subseteq Handles
          /\ deleting \in BOOLEAN /\ submitted = 0 /\ acked \in Seq(Txs)
        BY <1>1 DEF Init
    <2>2. 0 \in 0..MaxTx
        BY LogAssumption
    <2> QED BY <1>2, <1>3, <2>1, <2>2 DEF TypeOK
<1>5. Exclusive /\ Published /\ Unchanged /\ WriterKnowsTheLog
    BY <1>2, <1>3 DEF Init, Exclusive, Published, Unchanged, WriterKnowsTheLog, Holding, InUse
<1>6. Waiting
    BY <1>1, <1>2, <1>3 DEF Init, Waiting
<1> QED BY <1>4, <1>5, <1>6 DEF LInv

\* The invariant is inductive as long as calls do not overlap.
THEOREM LogInductive == ASSUME ~OverlappingCalls PROVE LInv /\ [Next]_vars => LInv'
<1> SUFFICES ASSUME LInv, [Next]_vars PROVE LInv'
    OBVIOUS
<1>1. CASE UNCHANGED vars
    <2>1. Entered' = Entered
        BY <1>1 DEF vars, repoVars, Entered
    <2> QED BY <1>1, <2>1 DEF vars, repoVars, LInv, TypeOK, Exclusive, Published, Unchanged,
            WriterKnowsTheLog, Waiting, Holding, InUse
<1>2. ASSUME NEW x \in Handles,
             Open(x) \/ Create(x) \/ Commit(x) \/ Close(x) \/ HandleStep(x)
      PROVE  LInv'
    BY <1>2, OpenStep, CommitStep, CloseSteps, PublishStep, LoadStep, RepairStep, BeginStep,
       AppendStep DEF HandleStep
<1> QED BY <1>1, <1>2, CrashStep, DeleteStep DEF Next

\* It holds in every reachable state.
THEOREM LogInvariance == ASSUME ~OverlappingCalls PROVE Spec => []LInv
BY Initial, LogInductive, PTL DEF Spec

\* File, handles and history have the shape the storage gives them.
THEOREM LogTypes == ASSUME ~OverlappingCalls PROVE Spec => []TypeOK
<1>1. LInv => TypeOK
    BY DEF LInv
<1> QED BY <1>1, LogInvariance, PTL

\* SessionIsLoadable: no crash, failed append or repair leaves a file that the next open
\* would reject.
THEOREM AlwaysLoadable == ASSUME ~OverlappingCalls PROVE Spec => []SessionIsLoadable
<1>1. LInv => SessionIsLoadable
    BY DEF LInv, Published, SessionIsLoadable, Readable
<1> QED BY <1>1, LogInvariance, PTL

\* WriterKnowsTheLog: a handle that has not faulted has the file's own log in memory.
THEOREM WritersAreCurrent == ASSUME ~OverlappingCalls PROVE Spec => []WriterKnowsTheLog
<1>1. LInv => WriterKnowsTheLog
    BY DEF LInv
<1> QED BY <1>1, LogInvariance, PTL

\* OneWriter: a session is never held by two handles.
THEOREM OneHolds == ASSUME ~OverlappingCalls PROVE Spec => []OneWriter
<1>1. LInv => OneWriter
    <2> SUFFICES ASSUME LInv PROVE Cardinality(Holding) <= 1
        BY DEF OneWriter
    <2>1. CASE Holding = {}
        BY <2>1, FS_EmptySet
    <2>2. ASSUME NEW x \in Holding PROVE Cardinality(Holding) <= 1
        <3>1. Holding = {x}
            BY DEF LInv, Exclusive, Holding, InUse
        <3>2. Cardinality({x}) = 1
            BY FS_Singleton
        <3> QED BY <3>1, <3>2
    <2> QED BY <2>1, <2>2
<1> QED BY <1>1, LogInvariance, PTL

\* The session as DurableLog sees it: the mapping of Durable, by name.
Exists == header # "none"
Held   == Holding # {}
Log    == IF Readable THEN Recovered(file) ELSE << >>
seen   == <<Exists, Held, Log, acked>>

\* The log of a session that is not there is empty.
LEMMA LogIsEntered == LInv => Log = Entered
BY EmptyLog DEF LInv, Published, Log, Entered, Readable

\* The same of the next state.
LEMMA LogIsEnteredNext == LInv' => (Log = Entered)'
BY LogIsEntered, PTL

\* An append under way ends, with the process or without it.
LEMMA EnterMapped ==
    ASSUME LInv, LInv', NEW x \in Handles, NEW cut \in Cuts, h[x].busy # 0,
           file' = Written(file, NextRecord(x), cut), header' \in {header, Touched},
           acked' \in {acked, Append(acked, h[x].busy)}, cut # "all" => UNCHANGED acked
    PROVE  Held => Durable!DNext \/ UNCHANGED seen
<1> SUFFICES ASSUME Held PROVE Durable!DNext \/ UNCHANGED seen
    OBVIOUS
<1>1. /\ Entered' \in {Entered, Append(Entered, h[x].busy)}
      /\ cut = "all" => Entered' = Append(Entered, h[x].busy)
    BY AppendedLog
<1>2. /\ h[x].busy \in Txs /\ header = "ok" /\ header' = "ok"
      /\ \A n \in DOMAIN Entered : Entered[n] # h[x].busy
    BY BusyHandle DEF LInv, Waiting, Touched
<1>3. Log = Entered /\ Log' = Entered' /\ Exists /\ Exists' /\ Held' \in BOOLEAN
    BY <1>2, LogIsEntered, LogIsEnteredNext DEF Exists, Held
<1>4. CASE Entered' = Append(Entered, h[x].busy)
    <2>1. Durable!Enter(h[x].busy)
        BY <1>2, <1>3, <1>4 DEF Durable!Enter, Exists, Held, Log
    <2> QED BY <1>2, <2>1 DEF Durable!DNext
<1>5. CASE Entered' = Entered /\ UNCHANGED acked
    <2>1. CASE Held'
        BY <1>3, <1>5, <2>1 DEF seen, Held
    <2>2. CASE ~Held'
        BY <1>3, <1>5, <2>2 DEF Durable!DNext, Durable!Give, Exists, Held, Log
    <2> QED BY <2>1, <2>2
<1> QED BY <1>1, <1>4, <1>5

\* A step that leaves the log alone may take the session or give it back.
LEMMA HoldMapped ==
    ASSUME LInv, LInv', UNCHANGED <<Exists, Entered, acked>>
    PROVE  Durable!DNext \/ UNCHANGED seen
<1>1. Log' = Log
    BY LogIsEntered, LogIsEnteredNext
<1>2. CASE Held' /\ ~Held
    <2>1. Exists
        BY <1>2 DEF LInv, WriterKnowsTheLog, Held, Exists
    <2> QED BY <1>1, <1>2, <2>1 DEF Durable!DNext, Durable!Take, Exists, Held, Log
<1>3. CASE Held /\ ~Held'
    BY <1>1, <1>3 DEF Durable!DNext, Durable!Give, Exists, Held, Log
<1>4. CASE Held' = Held
    BY <1>1, <1>4 DEF seen
<1> QED BY <1>2, <1>3, <1>4 DEF Held

\* Every step of the repository, its handles and the process is a step of DurableLog.
LEMMA LogMoves ==
    ASSUME LInv, LInv', Next, ~OverlappingCalls
    PROVE  Durable!DNext \/ UNCHANGED seen
<1>1. ASSUME NEW x \in Handles, Repair(x) PROVE UNCHANGED <<Exists, Entered, acked>>
    <2>1. /\ h[x].content = file /\ file.tail # << >> /\ file \in Files /\ Loadable(file)
          /\ header = "ok"
        BY <1>1 DEF Repair, LInv, Unchanged, TypeOK, Published
    <2>2. header' = "ok" /\ Recovered(file') = Recovered(file) /\ acked' = acked
        BY <1>1, <2>1, RepairedLegal DEF Repair, Touched
    <2> QED BY <2>1, <2>2 DEF Entered, Exists
<1>2. ASSUME NEW x \in Handles,
             \/ Open(x) \/ Create(x) \/ Commit(x) \/ Close(x) \/ Load(x) \/ Begin(x) \/ Release(x)
             \/ Delete
      PROVE  UNCHANGED <<Exists, Entered, acked>>
    BY <1>2 DEF Open, Create, Commit, Close, Load, Begin, Release, Delete, Entered, Exists,
                repoVars
<1>3. ASSUME NEW x \in Handles, AppendOk(x) \/ AppendFails(x)
      PROVE  Durable!DNext \/ UNCHANGED seen
    <2>1. PICK cut \in Cuts :
            /\ h[x].busy # 0 /\ file' = Written(file, NextRecord(x), cut)
            /\ header' \in {header, Touched} /\ acked' \in {acked, Append(acked, h[x].busy)}
            /\ cut # "all" => UNCHANGED acked
        BY <1>3 DEF AppendOk, AppendFails, Reached, Cuts
    <2>2. Held
        BY <2>1, BusyHandle DEF Held
    <2> QED BY <2>1, <2>2, EnterMapped
<1>4. CASE Crash
    <2>1. CASE UNCHANGED <<file, header>>
        BY <1>4, <2>1, HoldMapped DEF Crash, Entered, Exists
    <2>2. ASSUME NEW x \in Handles, NEW cut \in Cuts, h[x].busy # 0, Reached(x, cut)
          PROVE  Durable!DNext \/ UNCHANGED seen
        <3>1. acked' = acked /\ header' \in {header, Touched}
              /\ file' = Written(file, NextRecord(x), cut)
            BY <1>4, <2>2 DEF Crash, Reached
        <3>2. Held
            BY <2>2, BusyHandle DEF Held
        <3> QED BY <2>2, <3>1, <3>2, EnterMapped
    <2> QED BY <1>4, <2>1, <2>2 DEF Crash
<1>5. ASSUME NEW x \in Handles, Publish(x)
      PROVE  Durable!DNext \/ UNCHANGED seen
    <2>1. /\ h[x].st = "creating" /\ header = "none" /\ file = EmptyFile /\ acked' = acked
          /\ \A y \in Handles : y # x => ~InUse(y)
        BY <1>5 DEF Publish, LInv, Exclusive, Published, InUse
    <2>2. ~Held /\ ~Exists /\ Log = << >>
        BY <2>1, LogIsEntered, EmptyLog DEF Held, Holding, InUse, Exists, Entered
    <2>3. \A y \in Handles : h'[y].st \notin {"open", "sealed"}
        <3>1. ASSUME NEW y \in Handles, y # x PROVE h'[y].st = h[y].st
            BY <1>5, <3>1 DEF Publish, LInv, TypeOK
        <3>2. h'[x].st \in {"loading", "closed"}
            BY <1>5 DEF Publish, LInv, TypeOK, HandleState
        <3> QED BY <2>1, <3>1, <3>2 DEF InUse
    <2>4. ~Held'
        BY <2>3 DEF Held, Holding
    <2>5. CASE header' = "ok"
        <3>1. Exists' /\ Log' \in {<< >>} \cup {<<tx>> : tx \in Txs}
            <4>1. CASE file' = EmptyFile
                BY <2>5, <4>1, LogIsEnteredNext, EmptyLog DEF Exists, Entered
            <4>2. CASE submitted' \in Txs
                        /\ file' = [lines |-> <<Good(Record(1, submitted'))>>, tail |-> << >>]
                BY <2>5, <4>2, LogIsEnteredNext, ForkedLog DEF Exists, Entered
            <4>3. submitted < MaxTx /\ submitted' = submitted + 1 => submitted' \in Txs
                BY LogAssumption DEF LInv, TypeOK, Txs
            <4> QED BY <1>5, <2>1, <2>5, <4>1, <4>2, <4>3 DEF Publish
        <3> QED BY <2>1, <2>2, <2>4, <3>1
            DEF Durable!DNext, Durable!Publish, Exists, Held, Log
    <2>6. CASE UNCHANGED <<file, header>>
        BY <2>1, <2>6, HoldMapped DEF Entered, Exists
    <2> QED BY <1>5, <2>1, <2>5, <2>6 DEF Publish
<1>6. CASE DeleteEnds
    <2>1. ~Held /\ ~Held'
        BY <1>6 DEF DeleteEnds, LInv, Exclusive, InUse, Held, Holding
    <2>2. CASE UNCHANGED <<file, header, acked>>
        BY <2>2, HoldMapped DEF Entered, Exists
    <2>3. CASE file' = EmptyFile /\ header' = "none" /\ acked' = << >>
        <3>1. ~Exists' /\ Log' = << >>
            BY <2>3, LogIsEnteredNext, EmptyLog DEF Exists, Entered
        <3>2. CASE Exists
            BY <2>1, <2>3, <3>1, <3>2 DEF Durable!DNext, Durable!Remove, Exists, Held, Log
        <3>3. CASE ~Exists
            <4>1. Log = << >> /\ acked = << >>
                BY <3>3, LogIsEntered, EmptyLog DEF LInv, Published, Exists, Entered
            <4> QED BY <2>1, <2>3, <3>1, <3>3, <4>1 DEF seen, Held, Exists
        <3> QED BY <3>2, <3>3
    <2> QED BY <1>6, <2>2, <2>3 DEF DeleteEnds
<1>7. CASE Delete
    BY <1>7, HoldMapped DEF Delete, Entered, Exists
<1> QED BY <1>1, <1>2, <1>3, <1>4, <1>5, <1>6, <1>7, HoldMapped DEF Next, HandleStep

\* ImplementsDurableLog: an acknowledged transaction is in the log and stays there in
\* order, any other is in it entirely or not at all, through every torn line and repair;
\* a session appears complete, has one writer and is deleted while it has none.
THEOREM LogIsDurable == ASSUME ~OverlappingCalls PROVE Spec => ImplementsDurableLog
<1>1. Init => Durable!DInit
    <2> SUFFICES ASSUME Init PROVE Durable!DInit
        OBVIOUS
    <2>1. Log = << >>
        BY Initial, LogIsEntered, EmptyLog DEF Init, Entered
    <2>2. Holding = {} /\ acked = << >>
        BY DEF Init, Holding, NewHandle
    <2> QED BY <2>1, <2>2 DEF Durable!DInit, Log
<1>2. LInv /\ LInv' /\ [Next]_vars => [Durable!DNext]_(Durable!dvars)
    <2> SUFFICES ASSUME LInv, LInv', [Next]_vars PROVE Durable!DNext \/ UNCHANGED Durable!dvars
        OBVIOUS
    <2>1. CASE UNCHANGED vars
        BY <2>1 DEF vars, repoVars, Durable!dvars, Holding, Readable, Loadable, Parses, Continuous,
                    Parsed, Text, Recovered
    <2>2. UNCHANGED seen => UNCHANGED Durable!dvars
        BY DEF seen, Exists, Held, Log, Durable!dvars
    <2> QED BY <2>1, <2>2, LogMoves
<1> QED BY <1>1, <1>2, LogInductive, LogInvariance, PTL
    DEF Spec, ImplementsDurableLog, Durable!DSpec

=============================================================================
