----------------------- MODULE AdaptiveJournal_proofs -----------------------
(***************************************************************************)
(* Theorems about AdaptiveJournal for every set of events and every number *)
(* of appends and losses: an event of the continuation journal is recorded *)
(* once, sequence numbers increase along the file, and a closed journal is *)
(* silent.  Lines that do not parse may lie anywhere in these files, since *)
(* a journal appends behind a torn tail, so each fact is about the lines   *)
(* that do parse.                                                          *)
(***************************************************************************)
EXTENDS AdaptiveJournal, SequenceTheorems, TLAPS

-----------------------------------------------------------------------------
(***************************************************************************)
(* The inductive invariant                                                 *)
(***************************************************************************)
\* No two legible lines have one key.
KeyOnce(s) ==
    \A i, j \in 1..Len(s) : s[i].ok /\ s[j].ok /\ s[i].rec.key = s[j].rec.key => i = j

\* Numbers of legible lines increase.
Rising(s) ==
    \A i, j \in 1..Len(s) : s[i].ok /\ s[j].ok /\ i < j => s[i].rec.seq < s[j].rec.seq

\* Numbers of legible lines lie below n.
Below(s, n) == \A i \in 1..Len(s) : s[i].ok => s[i].rec.seq < n

\* m is the highest number of s, or 0 when it has none.
IsTop(m, s) ==
    /\ m \in Nat /\ (m = 0 \/ \E i \in 1..Len(s) : s[i].rec.seq = m)
    /\ \A i \in 1..Len(s) : s[i].rec.seq <= m

\* The manifest's counter is ahead of what the file records, and a highest number
\* exists: a failed append counts, and a lost tail may take the highest one away.
JInv ==
    /\ TypeOK
    /\ kind = "continuation" => KeyOnce(Text(file))
    /\ kind \in Numbered => Rising(Text(file))
    /\ nextSeq # 0 => Below(Text(file), nextSeq)
    /\ \E m \in Nat : IsTop(m, file.lines)

-----------------------------------------------------------------------------
(***************************************************************************)
(* Files                                                                   *)
(***************************************************************************)
\* What a file consists of.
LEMMA FileParts ==
    ASSUME NEW f \in Files
    PROVE  /\ f.lines \in Seq(Line) /\ f.tail \in Seq(Line)
           /\ f = [lines |-> f.lines, tail |-> f.tail]
           /\ f.tail = << >> \/ (f.tail # << >> /\ f.tail[1] \in Line /\ f.tail = <<f.tail[1]>>)
<1>1. f.lines \in Seq(Line) /\ f.tail \in Seq(Line) /\ Len(f.tail) <= 1
      /\ f = [lines |-> f.lines, tail |-> f.tail]
    BY DEF Files, Tails
<1>2. CASE f.tail # << >>
    <2>1. Len(f.tail) \in Nat \ {0}
        BY <1>1, <1>2, EmptySeq
    <2>2. Len(f.tail) = 1
        <3>1. \A n \in Nat \ {0} : n <= 1 => n = 1
            OBVIOUS
        <3> QED BY <1>1, <2>1, <3>1
    <2>3. f.tail[1] \in Line
        BY <1>1, <2>2, ElementOfSeq
    <2>4. f.tail = <<f.tail[1]>>
        BY <1>1, <2>2, <2>3
    <2> QED BY <1>1, <1>2, <2>3, <2>4
<1> QED BY <1>1, <1>2

\* A reader sees the lines, and behind them a last line that parses.
LEMMA TextOf ==
    ASSUME NEW f \in Files
    PROVE  /\ Text(f) \in Seq(Line)
           /\ f.tail = << >> => Text(f) = f.lines
           /\ f.tail # << >> /\ ~f.tail[1].ok => Text(f) = f.lines
           /\ f.tail # << >> /\ f.tail[1].ok => Text(f) = Append(f.lines, f.tail[1])
<1>1. f.lines \o << >> = f.lines
    BY FileParts, ConcatEmptySeq
<1>2. CASE f.tail # << >> /\ f.tail[1].ok
    <2>1. Append(f.lines, f.tail[1]) = f.lines \o <<f.tail[1]>>
        BY <1>2, FileParts, AppendIsConcat
    <2>2. Append(f.lines, f.tail[1]) \in Seq(Line)
        BY <1>2, FileParts, AppendProperties
    <2> QED BY <1>2, <2>1, <2>2, FileParts DEF Text
<1> QED BY <1>1, <1>2, FileParts DEF Text

\* A line at the end of a text.
LEMMA Longer ==
    ASSUME NEW s \in Seq(Line), NEW l \in Line
    PROVE  /\ Append(s, l) \in Seq(Line) /\ Len(s) \in Nat /\ Len(Append(s, l)) = Len(s) + 1
           /\ \A i \in 1..Len(s) : Append(s, l)[i] = s[i]
           /\ Append(s, l)[Len(s) + 1] = l
           /\ \A i \in 1..Len(Append(s, l)) : i \in 1..Len(s) \/ i = Len(s) + 1
BY AppendProperties, LenProperties

\* What holds of a text holds of the text without its last line.
LEMMA Shorter ==
    ASSUME NEW s \in Seq(Line), NEW l \in Line, NEW n \in Nat
    PROVE  /\ KeyOnce(Append(s, l)) => KeyOnce(s)
           /\ Rising(Append(s, l)) => Rising(s)
           /\ Below(Append(s, l), n) => Below(s, n)
<1> DEFINE u == Append(s, l)
<1>1. Len(s) \in Nat /\ Len(u) = Len(s) + 1 /\ \A i \in 1..Len(s) : i \in 1..Len(u) /\ u[i] = s[i]
    BY Longer
<1> HIDE DEF u
<1> QED BY <1>1 DEF KeyOnce, Rising, Below, u

\* A line that does not parse changes none of it.
LEMMA Illegible ==
    ASSUME NEW s \in Seq(Line), NEW l \in Line, ~l.ok, NEW n \in Nat
    PROVE  /\ KeyOnce(s) => KeyOnce(Append(s, l))
           /\ Rising(s) => Rising(Append(s, l))
           /\ Below(s, n) => Below(Append(s, l), n)
<1> DEFINE u == Append(s, l)
<1>1. \A i \in 1..Len(u) : u[i].ok => i \in 1..Len(s) /\ u[i] = s[i]
    BY Longer
<1> HIDE DEF u
<1> QED BY <1>1 DEF KeyOnce, Rising, Below, u

\* A legible line keeps keys apart if its key is new, and numbers rising if its number
\* lies above the ones recorded.
LEMMA Legibly ==
    ASSUME NEW s \in Seq(Line), NEW l \in Line
    PROVE  /\ KeyOnce(s) /\ (\A i \in 1..Len(s) : s[i].rec.key # l.rec.key)
                => KeyOnce(Append(s, l))
           /\ Rising(s) /\ Below(s, l.rec.seq)
                => Rising(Append(s, l)) /\ Below(Append(s, l), l.rec.seq + 1)
<1> DEFINE u == Append(s, l)
<1>1. /\ Len(s) \in Nat /\ Len(u) = Len(s) + 1 /\ \A i \in 1..Len(s) : u[i] = s[i]
      /\ u[Len(s) + 1] = l
      /\ \A i \in 1..Len(u) : i \in 1..Len(s) \/ i = Len(s) + 1
    BY Longer
<1>2. l.rec.seq \in Nat /\ \A i \in 1..Len(s) : s[i].rec.seq \in Nat
    <2>1. \A i \in 1..Len(s) : s[i] \in Line
        BY ElementOfSeq
    <2> QED BY <2>1 DEF Line, Records
<1> HIDE DEF u
<1>3. KeyOnce(s) /\ (\A i \in 1..Len(s) : s[i].rec.key # l.rec.key) => KeyOnce(u)
    BY <1>1 DEF KeyOnce
<1>4. ASSUME Rising(s), Below(s, l.rec.seq) PROVE Rising(u) /\ Below(u, l.rec.seq + 1)
    <2>1. Rising(u)
        BY <1>1, <1>4 DEF Rising, Below
    <2>2. Below(u, l.rec.seq + 1)
        BY <1>1, <1>2, <1>4 DEF Below
    <2> QED BY <2>1, <2>2
<1> QED BY <1>3, <1>4 DEF u

\* A text has a highest number if it has one without its last line.
LEMMA TopGrows ==
    ASSUME NEW s \in Seq(Line), NEW l \in Line, NEW m \in Nat, IsTop(m, s)
    PROVE  \E k \in Nat : IsTop(k, Append(s, l))
<1> DEFINE u == Append(s, l)
           q == l.rec.seq
<1>1. /\ Len(s) \in Nat /\ Len(u) = Len(s) + 1 /\ \A i \in 1..Len(s) : u[i] = s[i]
      /\ u[Len(s) + 1] = l
      /\ \A i \in 1..Len(u) : i \in 1..Len(s) \/ i = Len(s) + 1
    BY Longer
<1>2. q \in Nat /\ \A i \in 1..Len(s) : s[i].rec.seq \in Nat
    <2>1. \A i \in 1..Len(s) : s[i] \in Line
        BY ElementOfSeq
    <2> QED BY <2>1 DEF Line, Records
<1> HIDE DEF u
<1>3. CASE m >= q
    <2>1. m = 0 \/ \E i \in 1..Len(u) : u[i].rec.seq = m
        BY <1>1 DEF IsTop
    <2>2. \A i \in 1..Len(u) : u[i].rec.seq <= m
        BY <1>1, <1>3 DEF IsTop
    <2> QED BY <2>1, <2>2 DEF IsTop, u
<1>4. CASE m < q
    <2>1. \E i \in 1..Len(u) : u[i].rec.seq = q
        BY <1>1
    <2>2. \A i \in 1..Len(s) : s[i].rec.seq <= q
        BY <1>2, <1>4 DEF IsTop
    <2>3. u[Len(s) + 1].rec.seq <= q
        BY <1>1, <1>2
    <2>4. \A i \in 1..Len(u) : u[i].rec.seq <= q
        BY <1>1, <2>2, <2>3
    <2> QED BY <1>2, <2>1, <2>4 DEF IsTop, u
<1> QED BY <1>2, <1>3, <1>4

\* However much of a line reaches the file, a reader finds what was there, or that
\* without an unterminated last line, and behind it a legible line only if the file
\* ended with one.
LEMMA WrittenText ==
    ASSUME NEW f \in Files, NEW r \in Records, NEW cut \in Cuts, NEW g, g = Written(f, r, cut)
    PROVE  /\ g \in Files
           /\ \/ g.lines = f.lines /\ Text(g) \in {Text(f), f.lines}
              \/ /\ f.tail = << >> /\ Text(g) = Append(f.lines, Good(r))
                 /\ g.lines \in {f.lines, Text(g)}
              \/ Text(g) = Append(f.lines, Bad(r)) /\ g.lines = Text(g)
<1>1. Good(r) \in Line /\ Good(r).ok /\ Bad(r) \in Line /\ ~Bad(r).ok
    BY DEF Good, Bad, Line
<1>2. f.lines \in Seq(Line) /\ f = [lines |-> f.lines, tail |-> f.tail]
    BY FileParts
<1>3. \A l \in Line : <<l>> \in Seq(Line) /\ Len(<<l>>) = 1 /\ <<l>> # << >> /\ <<l>>[1] = l
    OBVIOUS
<1>4. ASSUME NEW s \in Seq(Line), NEW l \in Line, g = [lines |-> s, tail |-> <<l>>]
      PROVE  /\ g \in Files /\ g.lines = s /\ g.tail = <<l>>
             /\ Text(g) = IF l.ok THEN Append(s, l) ELSE s
    <2>1. g \in Files /\ g.lines = s /\ g.tail = <<l>>
        BY <1>3, <1>4 DEF Files, Tails
    <2> QED BY <1>3, <2>1, TextOf
<1>5. ASSUME NEW s \in Seq(Line), g = [lines |-> s, tail |-> << >>]
      PROVE  g \in Files /\ g.lines = s /\ Text(g) = s
    <2>1. g \in Files /\ g.lines = s /\ g.tail = << >>
        BY <1>5, EmptySeq DEF Files, Tails
    <2> QED BY <2>1, TextOf
<1>6. CASE cut = "nothing"
    BY <1>6 DEF Written
<1>7. CASE cut = "torn"
    <2>1. g = [lines |-> f.lines, tail |-> <<Bad(r)>>]
        BY <1>2, <1>7 DEF Written
    <2> QED BY <1>1, <1>2, <1>4, <2>1
<1>8. CASE cut = "no_lf"
    <2>1. g = [lines |-> f.lines, tail |-> <<Joined(f, r)>>]
        BY <1>2, <1>8 DEF Written
    <2> QED BY <1>1, <1>2, <1>4, <2>1 DEF Joined
<1>9. CASE cut = "all"
    <2>1. g = [lines |-> Append(f.lines, Joined(f, r)), tail |-> << >>]
        BY <1>9 DEF Written
    <2>2. Append(f.lines, Joined(f, r)) \in Seq(Line)
        BY <1>1, <1>2, AppendProperties DEF Joined
    <2> QED BY <1>5, <2>1, <2>2 DEF Joined
<1> QED BY <1>6, <1>7, <1>8, <1>9 DEF Cuts
-----------------------------------------------------------------------------
(***************************************************************************)
(* Numbers and keys                                                        *)
(***************************************************************************)
\* What is recorded are the records of the text.
LEMMA RecordedAre ==
    ASSUME file \in Files
    PROVE  /\ DOMAIN Text(file) = 1..Len(Text(file)) /\ Len(Text(file)) \in Nat
           /\ \A i \in 1..Len(Text(file)) : Text(file)[i] \in Line
           /\ \A i \in 1..Len(Text(file)) : Parsed(file)[i] = Text(file)[i].rec
           /\ Recorded = {Text(file)[i].rec : i \in 1..Len(Text(file))}
<1>1. Text(file) \in Seq(Line)
    BY TextOf
<1>2. DOMAIN Text(file) = 1..Len(Text(file)) /\ Len(Text(file)) \in Nat
    BY <1>1, LenProperties
<1>3. \A i \in 1..Len(Text(file)) : Text(file)[i] \in Line
    BY <1>1, ElementOfSeq
<1> QED BY <1>2, <1>3 DEF Recorded, Parsed

\* MaxSeq is the highest number of the file.
LEMMA Highest ==
    ASSUME file \in Files, NEW m \in Nat, IsTop(m, file.lines)
    PROVE  /\ MaxSeq \in Nat
           /\ \A i \in 1..Len(Text(file)) : Text(file)[i].rec.seq <= MaxSeq
<1> DEFINE S == {0} \cup {r.seq : r \in Recorded}
<1>1. PICK k \in Nat : IsTop(k, Text(file))
    <2>1. CASE Text(file) = file.lines
        BY <2>1
    <2>2. CASE Text(file) = Append(file.lines, file.tail[1]) /\ file.tail # << >>
        BY <2>2, TopGrows, FileParts
    <2> QED BY <2>1, <2>2, TextOf
<1>2. S \subseteq Nat /\ \A i \in 1..Len(Text(file)) : Text(file)[i].rec.seq \in S
    BY RecordedAre DEF Line, Records
<1>3. k \in S /\ \A n \in S : k >= n
    <2>1. k \in S
        BY <1>1, RecordedAre DEF IsTop
    <2>2. \A n \in S : n = 0 \/ \E i \in 1..Len(Text(file)) : n = Text(file)[i].rec.seq
        BY RecordedAre
    <2>3. \A n \in S : k >= n
        BY <1>1, <1>2, <2>2 DEF IsTop
    <2> QED BY <2>1, <2>3
<1>4. MaxSeq \in S /\ \A n \in S : MaxSeq >= n
    BY <1>3 DEF MaxSeq, Max
<1> HIDE DEF S
<1> QED BY <1>2, <1>4

\* The number the next record gets lies above every number recorded.
LEMMA NumberIsNew ==
    ASSUME JInv
    PROVE  /\ NextNumber \in Nat
           /\ kind \in Numbered => NextNumber # 0 /\ Below(Text(file), NextNumber)
<1>1. PICK m \in Nat : IsTop(m, file.lines)
    BY DEF JInv
<1>2. file \in Files /\ nextSeq \in Nat /\ (nextSeq # 0 => Below(Text(file), nextSeq))
    BY DEF JInv, TypeOK
<1>3. MaxSeq \in Nat /\ \A i \in 1..Len(Text(file)) : Text(file)[i].rec.seq <= MaxSeq
    BY <1>1, <1>2, Highest
<1>4. \A i \in 1..Len(Text(file)) : Text(file)[i].rec.seq \in Nat
    BY <1>2, RecordedAre DEF Line, Records
<1>5. Below(Text(file), MaxSeq + 1)
    BY <1>3, <1>4 DEF Below
<1> QED BY <1>2, <1>3, <1>5 DEF NextNumber

-----------------------------------------------------------------------------
(***************************************************************************)
(* The steps                                                               *)
(***************************************************************************)
\* What an append leaves in the file, however much of it is written.
LEMMA Appended ==
    ASSUME JInv, Serving("append"), Writable(Head(calls)), NEW cut \in Cuts,
           file' = Written(file, ToWrite(Head(calls)), cut), UNCHANGED kind
    PROVE  /\ file' \in Files /\ NextNumber \in Nat
           /\ kind = "continuation" => KeyOnce(Text(file'))
           /\ kind \in Numbered => Rising(Text(file')) /\ Below(Text(file'), NextNumber + 1)
           /\ \E m \in Nat : IsTop(m, file'.lines)
<1> DEFINE c == Head(calls)
           r == ToWrite(c)
           s == file.lines
           n == NextNumber
<1>1. /\ file \in Files /\ calls \in Seq(Calls) /\ calls # << >> /\ c.op = "append"
      /\ ~Skipped /\ (Reads => Parses(file)) /\ (kind = "continuation" => SameKey(c) = {})
    BY DEF JInv, TypeOK, Serving, Writable
<1>2. n \in Nat /\ (kind \in Numbered => Below(Text(file), n))
    BY <1>1, NumberIsNew
<1>3. r \in Records /\ r.key = c.key /\ r.seq = n
    <2>1. c \in [op : {"append"}, key : Keys, body : Bodies]
        BY <1>1, HeadTailProperties DEF Calls
    <2> QED BY <1>2, <2>1 DEF ToWrite, Records
<1>4. /\ Good(r) \in Line /\ Good(r).ok /\ Good(r).rec = r
      /\ Bad(r) \in Line /\ ~Bad(r).ok /\ Bad(r).rec = r
    BY <1>3 DEF Good, Bad, Line
<1>5. /\ file' \in Files
      /\ \/ file'.lines = s /\ Text(file') \in {Text(file), s}
         \/ /\ file.tail = << >> /\ Text(file') = Append(s, Good(r))
            /\ file'.lines \in {s, Text(file')}
         \/ Text(file') = Append(s, Bad(r)) /\ file'.lines = Text(file')
    BY <1>1, <1>3, WrittenText
<1>6. s \in Seq(Line) /\ Text(file) \in Seq(Line)
    BY <1>1, FileParts, TextOf
<1>7. /\ kind = "continuation" => KeyOnce(Text(file)) /\ KeyOnce(s)
      /\ kind \in Numbered => /\ Rising(Text(file)) /\ Rising(s)
                              /\ Below(Text(file), n) /\ Below(s, n)
    <2>1. CASE Text(file) = s
        BY <1>2, <2>1 DEF JInv
    <2>2. CASE Text(file) = Append(s, file.tail[1]) /\ file.tail # << >>
        BY <1>1, <1>2, <1>6, <2>2, Shorter, FileParts DEF JInv
    <2> QED BY <1>1, <2>1, <2>2, TextOf
<1>8. \A t \in Seq(Line) : Below(t, n) => Below(t, n + 1)
    <2>1. \A l \in Line : l.rec.seq \in Nat
        BY DEF Line, Records
    <2>2. \A t \in Seq(Line) : \A i \in 1..Len(t) : t[i] \in Line
        BY ElementOfSeq
    <2> QED BY <1>2, <2>1, <2>2 DEF Below
<1>9. kind = "continuation" /\ file.tail = << >> => \A i \in 1..Len(s) : s[i].rec.key # r.key
    <2>1. file.tail = << >> => Text(file) = s
        BY <1>1, TextOf
    <2>2. kind = "continuation" => \A i \in 1..Len(Text(file)) : Text(file)[i].rec.key # c.key
        BY <1>1, RecordedAre DEF SameKey
    <2> QED BY <1>3, <2>1, <2>2
<1>10. \E m \in Nat : IsTop(m, file'.lines)
    <2>1. PICK m \in Nat : IsTop(m, s)
        BY DEF JInv
    <2>2. /\ \E k \in Nat : IsTop(k, Append(s, Good(r)))
          /\ \E k \in Nat : IsTop(k, Append(s, Bad(r)))
        BY <1>4, <1>6, <2>1, TopGrows
    <2> HIDE DEF r, s
    <2> QED BY <1>5, <2>1, <2>2
<1>11. CASE file'.lines = s /\ Text(file') \in {Text(file), s}
    BY <1>2, <1>5, <1>6, <1>7, <1>8, <1>10, <1>11
<1>12. CASE file.tail = << >> /\ Text(file') = Append(s, Good(r))
    <2>1. kind = "continuation" => KeyOnce(Append(s, Good(r)))
        BY <1>4, <1>6, <1>7, <1>9, <1>12, Legibly
    <2>2. kind \in Numbered => Rising(Append(s, Good(r))) /\ Below(Append(s, Good(r)), n + 1)
        BY <1>3, <1>4, <1>6, <1>7, Legibly
    <2> QED BY <1>2, <1>5, <1>10, <1>12, <2>1, <2>2
<1>13. CASE Text(file') = Append(s, Bad(r))
    <2>1. kind = "continuation" => KeyOnce(Append(s, Bad(r)))
        BY <1>2, <1>4, <1>6, <1>7, Illegible
    <2>2. kind \in Numbered => Rising(Append(s, Bad(r))) /\ Below(Append(s, Bad(r)), n)
        BY <1>2, <1>4, <1>6, <1>7, Illegible
    <2>3. Append(s, Bad(r)) \in Seq(Line)
        BY <1>4, <1>6, AppendProperties
    <2> QED BY <1>2, <1>5, <1>8, <1>10, <1>13, <2>1, <2>2, <2>3
<1> QED BY <1>5, <1>11, <1>12, <1>13

\* The queue of calls gives up its first.
LEMMA ServedQueue ==
    ASSUME JInv, calls # << >>, Served
    PROVE  calls' \in Seq(Calls)
BY HeadTailProperties DEF JInv, TypeOK, Served

\* A call is queued, and the file and the counter are left alone.
LEMMA CallStep ==
    ASSUME JInv, (\E key \in Keys, body \in Bodies : CallAppend(key, body)) \/ CallClose
    PROVE  JInv'
<1>1. calls \in Seq(Calls) /\ [op |-> "close"] \in Calls
      /\ \A key \in Keys, body \in Bodies : [op |-> "append", key |-> key, body |-> body] \in Calls
    BY DEF JInv, TypeOK, Calls
<1>2. /\ UNCHANGED <<kind, file, closed, nextSeq, losses>>
      /\ \E c \in Calls : calls' = Append(calls, c)
    BY <1>1 DEF CallAppend, CallClose
<1>3. calls' \in Seq(Calls)
    BY <1>1, <1>2, AppendProperties
<1>4. issued' \in 0..MaxCalls
    <2>1. issued \in 0..MaxCalls /\ MaxCalls \in Nat
        BY JournalAssumption DEF JInv, TypeOK
    <2>2. issued' = issued \/ (issued < MaxCalls /\ issued' = issued + 1)
        BY DEF CallAppend, CallClose
    <2> QED BY <2>1, <2>2
<1> QED BY <1>2, <1>3, <1>4 DEF JInv, TypeOK

\* A call is answered without a write, or closes the journal, or it is opened again.
LEMMA AnswerStep ==
    ASSUME JInv, ServeClose \/ Answer \/ Reopen
    PROVE  JInv'
<1>1. calls' \in Seq(Calls) /\ UNCHANGED <<kind, file, issued, losses>>
      /\ closed' \in BOOLEAN /\ nextSeq' \in {nextSeq, 0}
    BY ServedQueue DEF ServeClose, Answer, Reopen, Serving, JInv, TypeOK
<1> QED BY <1>1 DEF JInv, TypeOK

\* A call writes, in full or not.
LEMMA WriteStep ==
    ASSUME JInv, Write \/ WriteFails
    PROVE  JInv'
<1>1. PICK cut \in Cuts : file' = Written(file, ToWrite(Head(calls)), cut)
    BY DEF Write, WriteFails, Cuts
<1>2. /\ Serving("append") /\ Served /\ Writable(Head(calls)) /\ Counted
      /\ UNCHANGED <<kind, closed, issued>> /\ losses' \in 0..MaxLosses
    BY JournalAssumption DEF Write, WriteFails, JInv, TypeOK
<1>3. /\ file' \in Files /\ NextNumber \in Nat
      /\ kind = "continuation" => KeyOnce(Text(file'))
      /\ kind \in Numbered => Rising(Text(file')) /\ Below(Text(file'), NextNumber + 1)
      /\ \E m \in Nat : IsTop(m, file'.lines)
    BY <1>1, <1>2, Appended
<1>4. calls' \in Seq(Calls)
    BY <1>2, ServedQueue DEF Serving
<1>5. nextSeq' = IF kind = "manifest" THEN NextNumber + 1 ELSE nextSeq
    BY <1>2 DEF Counted
<1>6. TypeOK'
    BY <1>2, <1>3, <1>4, <1>5 DEF JInv, TypeOK
<1>7. nextSeq' # 0 => Below(Text(file'), nextSeq')
    BY <1>3, <1>5 DEF Numbered, JInv, TypeOK
<1> QED BY <1>2, <1>3, <1>6, <1>7 DEF JInv

\* A lost process leaves the file, or the file and some of the line being written.
LEMMA CrashStep ==
    ASSUME JInv, Crash
    PROVE  JInv'
<1>1. /\ calls' = << >> /\ closed' = FALSE /\ nextSeq' = 0 /\ UNCHANGED <<kind, issued>>
      /\ losses' \in 0..MaxLosses /\ << >> \in Seq(Calls)
    BY EmptySeq, JournalAssumption DEF Crash, JInv, TypeOK
<1>2. CASE UNCHANGED file
    BY <1>1, <1>2 DEF JInv, TypeOK
<1>3. ASSUME NEW cut \in Cuts, Serving("append"), Writable(Head(calls)),
             file' = Written(file, ToWrite(Head(calls)), cut)
      PROVE  JInv'
    <2>1. /\ file' \in Files
          /\ kind = "continuation" => KeyOnce(Text(file'))
          /\ kind \in Numbered => Rising(Text(file'))
          /\ \E m \in Nat : IsTop(m, file'.lines)
        BY <1>1, <1>3, Appended
    <2> QED BY <1>1, <2>1 DEF JInv, TypeOK
<1> QED BY <1>2, <1>3 DEF Crash

\* The journals begin empty.
LEMMA Initial == Init => JInv
<1> SUFFICES ASSUME Init PROVE JInv
    OBVIOUS
<1>1. file \in Files /\ file.lines = << >> /\ file.tail = << >> /\ << >> \in Seq(Calls)
    BY EmptySeq DEF Init, EmptyFile, Files, Tails
<1>2. Text(file) = << >> /\ Len(<< >>) = 0
    BY <1>1, TextOf
<1>3. IsTop(0, file.lines)
    BY <1>1, <1>2 DEF IsTop
<1>4. KeyOnce(Text(file)) /\ Rising(Text(file))
    BY <1>2 DEF KeyOnce, Rising
<1>5. TypeOK
    <2>1. 0 \in 0..MaxCalls /\ 0 \in 0..MaxLosses /\ 0 \in Nat
        BY JournalAssumption
    <2> QED BY <1>1, <2>1 DEF Init, TypeOK
<1> QED BY <1>3, <1>4, <1>5 DEF Init, JInv

-----------------------------------------------------------------------------
(***************************************************************************)
(* Theorems                                                                *)
(***************************************************************************)
\* The invariant holds through every order of appends, closes, losses and reopenings.
THEOREM JournalInvariance == Spec => []JInv
<1>1. JInv /\ [Next]_vars => JInv'
    <2> SUFFICES ASSUME JInv, [Next]_vars PROVE JInv'
        OBVIOUS
    <2>1. CASE UNCHANGED vars
        BY <2>1 DEF vars, JInv, TypeOK
    <2> QED BY <2>1, CallStep, AnswerStep, WriteStep, CrashStep DEF Next
<1> QED BY <1>1, Initial, PTL DEF Spec

\* File, queue and counter have the shape the four stores give them.
THEOREM JournalTypes == Spec => []TypeOK
<1>1. JInv => TypeOK
    BY DEF JInv
<1> QED BY <1>1, JournalInvariance, PTL

\* KeysAreUnique: the continuation journal records an event once, however often an
\* append that failed or whose process was lost is made again.
THEOREM EventsAreRecordedOnce == Spec => []KeysAreUnique
<1>1. JInv => KeysAreUnique
    BY RecordedAre DEF JInv, TypeOK, KeysAreUnique, Legible, KeyOnce
<1> QED BY <1>1, JournalInvariance, PTL

\* SequenceNumbersIncrease: the latest record of a promotion journal or a manifest is
\* the one with the highest number.
THEOREM NumbersIncrease == Spec => []SequenceNumbersIncrease
<1>1. JInv => SequenceNumbersIncrease
    BY RecordedAre DEF JInv, TypeOK, SequenceNumbersIncrease, Legible, Rising
<1> QED BY <1>1, JournalInvariance, PTL

\* ClosedJournalIsSilent: an append that close overtook writes nothing.
THEOREM ClosedIsSilent == Spec => ClosedJournalIsSilent
<1>1. [Next]_vars => [closed /\ kind \in {"task", "continuation"} => file' = file]_vars
    BY DEF Next, CallAppend, CallClose, ServeClose, Answer, Write, WriteFails, Crash, Reopen,
           Writable, Skipped
<1> QED BY <1>1, PTL DEF Spec, ClosedJournalIsSilent

=============================================================================
