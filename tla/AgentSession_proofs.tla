------------------------ MODULE AgentSession_proofs ------------------------
(***************************************************************************)
(* Theorems about AgentSession, the session of the application around an   *)
(* in-process agent, for any number of inputs, answers, tool calls,        *)
(* retries, compactions, aborts and restarts, proved by TLAPS.             *)
(***************************************************************************)
EXTENDS AgentSession, SequenceTheorems, WellFoundedInduction, TLAPS

-----------------------------------------------------------------------------
(***************************************************************************)
(* Induction, maxima and selected subsequences                             *)
(***************************************************************************)
Below == {ss \in Nat \X Nat : ss[1] < ss[2]}

LEMMA BelowIsWellFounded == IsWellFoundedOn(Below, Nat)
BY NatLessThanWellFounded DEF OpToRel, Below

\* A set of numbers that is not empty has a least element.
LEMMA LeastElement ==
    ASSUME NEW T \in SUBSET Nat, T # {}
    PROVE  \E x \in T : \A y \in T : x <= y
<1>1. \E x \in T : \A y \in T : ~ (<<y, x>> \in Below)
    BY ONLY BelowIsWellFounded, WFMin, T \in SUBSET Nat, T # {}
<1>2. PICK x \in T : \A y \in T : ~ (<<y, x>> \in Below)
    BY <1>1
<1>3. \A y \in T : ~ (y < x)
    BY <1>2 DEF Below
<1> QED BY <1>3

\* Induction, stated of a set, so that it can be cited.
LEMMA SetInduction ==
    ASSUME NEW S \in SUBSET Nat, 0 \in S, \A n \in S : n + 1 \in S
    PROVE  S = Nat
<1> SUFFICES ASSUME Nat \ S # {} PROVE FALSE
    OBVIOUS
<1>1. PICK x \in Nat \ S : \A y \in Nat \ S : x <= y
    BY LeastElement
<1>2. x - 1 \in Nat /\ ~(x <= x - 1) /\ x - 1 + 1 = x
    BY <1>1
<1>3. x - 1 \in S
    BY <1>1, <1>2
<1> QED BY <1>1, <1>2, <1>3

\* So has a set of numbers up to n a greatest one.
LEMMA GreatestElement ==
    ASSUME NEW n \in Nat, NEW D \in SUBSET (1..n), D # {}
    PROVE  \E k \in D : \A o \in D : o <= k
<1> DEFINE T == {j \in 0..n : n - j \in D}
<1>1. PICK k \in D : TRUE
    OBVIOUS
<1>2. \A o \in D : n - o \in 0..n /\ n - (n - o) = o
    OBVIOUS
<1>3. \A o \in D : n - o \in T
    BY <1>2
<1>4. T \in SUBSET Nat
    OBVIOUS
<1>5. T # {}
    BY <1>1, <1>3
<1>6. PICK x \in T : \A y \in T : x <= y
    <2> HIDE DEF T
    <2> QED BY <1>4, <1>5, LeastElement
<1>7. \A o \in D : x <= n - o
    BY <1>3, <1>6
<1>8. \A o \in D : o <= n - x
    BY <1>6, <1>7
<1> QED BY <1>6, <1>8

\* f gives what s has at the indexes in kept, of its first k elements, for k up to n.
Selection(f, s, kept, n) ==
    f = [k \in 0..n |-> IF k = 0 THEN <<>>
                        ELSE IF k \in kept THEN Append(f[k - 1], s[k]) ELSE f[k - 1]]

LEMMA SelectionValues ==
    ASSUME NEW f, NEW s, NEW kept, NEW n \in Nat, Selection(f, s, kept, n)
    PROVE  /\ f = [k \in 0..n |-> f[k]]
           /\ f[0] = <<>>
           /\ \A k \in 1..n : f[k] = IF k \in kept THEN Append(f[k - 1], s[k]) ELSE f[k - 1]
<1> DEFINE body(k) == IF k = 0 THEN <<>>
                      ELSE IF k \in kept THEN Append(f[k - 1], s[k]) ELSE f[k - 1]
<1>1. f = [k \in 0..n |-> body(k)]
    BY DEF Selection
<1>2. body(0) = <<>> /\ 0 \in 0..n
    OBVIOUS
<1>3. \A k \in 1..n : k \in 0..n /\
          body(k) = IF k \in kept THEN Append(f[k - 1], s[k]) ELSE f[k - 1]
    OBVIOUS
<1> HIDE DEF body
<1>4. \A k \in 0..n : f[k] = body(k)
    BY <1>1
<1> QED BY <1>1, <1>2, <1>3, <1>4

LEMMA SelectionOfValues ==
    ASSUME NEW f, NEW s, NEW kept, NEW n \in Nat,
           f = [k \in 0..n |-> f[k]], f[0] = <<>>,
           \A k \in 1..n : f[k] = IF k \in kept THEN Append(f[k - 1], s[k]) ELSE f[k - 1]
    PROVE  Selection(f, s, kept, n)
<1> DEFINE body(k) == IF k = 0 THEN <<>>
                      ELSE IF k \in kept THEN Append(f[k - 1], s[k]) ELSE f[k - 1]
<1>1. \A k \in 0..n : f[k] = body(k)
    <2>1. \A k \in 0..n : k # 0 => k \in 1..n
        OBVIOUS
    <2> QED BY <2>1
<1>2. f = [k \in 0..n |-> body(k)]
    <2> HIDE DEF body
    <2> QED BY <1>1
<1> QED BY <1>2 DEF Selection

\* There is a selection for every sequence and every set of indexes.
LEMMA SelectionExists ==
    ASSUME NEW s, NEW kept, NEW n \in Nat
    PROVE  \E f : Selection(f, s, kept, n)
<1> DEFINE G == {m \in Nat : \E f : Selection(f, s, kept, m)}
<1>1. 0 \in G
    <2> DEFINE f0 == [k \in 0..0 |-> <<>>]
    <2>1. f0 = [k \in 0..0 |-> f0[k]] /\ f0[0] = <<>>
        OBVIOUS
    <2>2. \A k \in 1..0 : FALSE
        OBVIOUS
    <2> HIDE DEF f0
    <2>3. Selection(f0, s, kept, 0)
        BY <2>1, <2>2, SelectionOfValues
    <2> QED BY <2>3
<1>2. ASSUME NEW m \in G PROVE m + 1 \in G
    <2>1. m \in Nat /\ m + 1 \in Nat
        BY <1>2
    <2>2. PICK f : Selection(f, s, kept, m)
        BY <1>2
    <2>3. /\ f[0] = <<>>
          /\ \A k \in 1..m : f[k] = IF k \in kept THEN Append(f[k - 1], s[k]) ELSE f[k - 1]
        BY <2>1, <2>2, SelectionValues
    <2> DEFINE top == IF m + 1 \in kept THEN Append(f[m], s[m + 1]) ELSE f[m]
    <2> DEFINE g == [k \in 0..(m + 1) |-> IF k = m + 1 THEN top ELSE f[k]]
    <2>4. g = [k \in 0..(m + 1) |-> g[k]] /\ g[m + 1] = top
        BY <2>1
    <2>5. \A k \in 0..m : g[k] = f[k]
        BY <2>1
    <2>6. \A k \in 1..(m + 1) : k - 1 \in 0..m /\ (k = m + 1 \/ k \in 1..m)
        BY <2>1
    <2>7. 0 \in 0..m /\ m + 1 - 1 = m /\ \A k \in 1..m : k \in 0..m
        BY <2>1
    <2> HIDE DEF g
    <2>8. \A k \in 1..(m + 1) : g[k] = IF k \in kept THEN Append(g[k - 1], s[k]) ELSE g[k - 1]
        <3>1. ASSUME NEW k \in 1..(m + 1), k = m + 1
              PROVE  g[k] = IF k \in kept THEN Append(g[k - 1], s[k]) ELSE g[k - 1]
            <4>1. m \in 0..m /\ k - 1 = m
                BY <2>1, <3>1
            <4> QED BY <3>1, <4>1, <2>4, <2>5
        <3>2. ASSUME NEW k \in 1..m
              PROVE  g[k] = IF k \in kept THEN Append(g[k - 1], s[k]) ELSE g[k - 1]
            <4>1. k \in 0..m /\ k - 1 \in 0..m
                BY <2>1
            <4> QED BY <4>1, <2>3, <2>5
        <3> QED BY <2>6, <3>1, <3>2
    <2>9. Selection(g, s, kept, m + 1)
        BY <2>1, <2>3, <2>4, <2>5, <2>7, <2>8, SelectionOfValues
    <2> QED BY <2>1, <2>9
<1>3. G = Nat
    <2>1. G \in SUBSET Nat
        OBVIOUS
    <2> HIDE DEF G
    <2> QED BY <1>1, <1>2, <2>1, SetInduction
<1> QED BY <1>3

\* What is selected of a sequence stays when the sequence grows.
LEMMA SelectionGrows ==
    ASSUME NEW s, NEW t, NEW K, NEW L, NEW n \in Nat, NEW f, NEW g,
           Selection(f, s, K, n), Selection(g, t, L, n + 1),
           \A k \in 1..n : t[k] = s[k] /\ (k \in K <=> k \in L)
    PROVE  g[n + 1] = IF n + 1 \in L THEN Append(f[n], t[n + 1]) ELSE f[n]
<1>1. /\ f[0] = <<>>
      /\ \A k \in 1..n : f[k] = IF k \in K THEN Append(f[k - 1], s[k]) ELSE f[k - 1]
    BY SelectionValues
<1>2. /\ g[0] = <<>>
      /\ \A k \in 1..(n + 1) : g[k] = IF k \in L THEN Append(g[k - 1], t[k]) ELSE g[k - 1]
    BY SelectionValues, n + 1 \in Nat
<1> DEFINE G == {m \in Nat : m <= n => g[m] = f[m]}
<1>3. 0 \in G
    BY <1>1, <1>2
<1>4. ASSUME NEW m \in G PROVE m + 1 \in G
    <2>1. m \in Nat /\ m + 1 - 1 = m /\ m + 1 \in Nat
        BY <1>4
    <2>2. CASE m + 1 <= n
        <3>1. m + 1 \in 1..n /\ m + 1 \in 1..(n + 1) /\ m <= n
            BY <2>1, <2>2
        <3>2. g[m] = f[m]
            BY <3>1, <1>4
        <3>3. g[m + 1] = f[m + 1]
            BY <3>1, <3>2, <2>1, <1>1, <1>2
        <3> QED BY <2>1, <3>3
    <2>3. CASE ~(m + 1 <= n)
        BY <2>1, <2>3
    <2> QED BY <2>2, <2>3
<1>5. G = Nat
    <2>1. G \in SUBSET Nat
        OBVIOUS
    <2> HIDE DEF G
    <2> QED BY <1>3, <1>4, <2>1, SetInduction
<1>6. g[n] = f[n]
    <2>1. n \in G /\ n <= n
        BY <1>5
    <2> QED BY <2>1
<1>7. n + 1 \in 1..(n + 1) /\ n + 1 - 1 = n
    OBVIOUS
<1> QED BY <1>2, <1>6, <1>7

\* Indexes that the two selections in use keep.
KeptLasting(s) == {j \in 1..Len(s) : ~Failed(s[j])}
KeptSaid(s) == {j \in 1..Len(s) : s[j].role # "summary"}

\* What the recursive function of Only computes is a selection.
LEMMA LastingSelects ==
    ASSUME NEW s \in Seq(Messages)
    PROVE  \E f : Lasting(s) = f[Len(s)] /\ Selection(f, s, KeptLasting(s), Len(s))
<1> DEFINE body(f, k) == IF k = 0 THEN <<>>
                         ELSE IF ~Failed(s[k]) THEN Append(f[k - 1], s[k]) ELSE f[k - 1]
<1> DEFINE g == CHOOSE f : f = [k \in 0..Len(s) |-> body(f, k)]
<1>1. Lasting(s) = g[Len(s)]
    BY DEF Lasting, Only
<1>2. Len(s) \in Nat
    OBVIOUS
<1>3. ASSUME NEW f
      PROVE  Selection(f, s, KeptLasting(s), Len(s)) <=> f = [k \in 0..Len(s) |-> body(f, k)]
    <2> DEFINE selected(k) == IF k = 0 THEN <<>>
                              ELSE IF k \in KeptLasting(s) THEN Append(f[k - 1], s[k]) ELSE f[k - 1]
    <2>1. \A k \in 0..Len(s) : selected(k) = body(f, k)
        BY <1>2 DEF KeptLasting
    <2>2. Selection(f, s, KeptLasting(s), Len(s)) <=> f = [k \in 0..Len(s) |-> selected(k)]
        BY DEF Selection
    <2> HIDE DEF selected, body
    <2> QED BY <2>1, <2>2
<1>4. PICK f : Selection(f, s, KeptLasting(s), Len(s))
    BY <1>2, SelectionExists
<1>5. f = [k \in 0..Len(s) |-> body(f, k)]
    BY <1>3, <1>4
<1> HIDE DEF body
<1>6. g = [k \in 0..Len(s) |-> body(g, k)]
    BY <1>5
<1> HIDE DEF g
<1> QED BY <1>1, <1>3, <1>6

\* A message that is appended is kept unless it is an answer that failed.
LEMMA LastingAppend ==
    ASSUME NEW s \in Seq(Messages), NEW m \in Messages
    PROVE  Lasting(Append(s, m)) = IF Failed(m) THEN Lasting(s) ELSE Append(Lasting(s), m)
<1> DEFINE t == Append(s, m)
<1>1. /\ t \in Seq(Messages) /\ Len(t) = Len(s) + 1 /\ t[Len(s) + 1] = m
      /\ \A k \in 1..Len(s) : t[k] = s[k]
    OBVIOUS
<1>2. Len(s) \in Nat
    OBVIOUS
<1> HIDE DEF t
<1>3. PICK f : Lasting(s) = f[Len(s)] /\ Selection(f, s, KeptLasting(s), Len(s))
    BY LastingSelects
<1>4. PICK g : Lasting(t) = g[Len(t)] /\ Selection(g, t, KeptLasting(t), Len(t))
    BY <1>1, LastingSelects
<1>5. \A k \in 1..Len(s) : k \in KeptLasting(s) <=> k \in KeptLasting(t)
    BY <1>1, <1>2 DEF KeptLasting
<1>6. Len(s) + 1 \in KeptLasting(t) <=> ~Failed(m)
    BY <1>1, <1>2 DEF KeptLasting
<1>7. g[Len(s) + 1] = IF Len(s) + 1 \in KeptLasting(t)
                      THEN Append(f[Len(s)], t[Len(s) + 1]) ELSE f[Len(s)]
    BY <1>1, <1>2, <1>3, <1>4, <1>5, SelectionGrows
<1> QED BY <1>1, <1>3, <1>4, <1>6, <1>7 DEF t

\* The same of what a session holds besides its summaries.
LEMMA SaidSelects ==
    ASSUME NEW s \in Seq(Messages)
    PROVE  \E f : /\ Said(s) = f[Len(s)]
                  /\ Selection(f, [k \in 1..Len(s) |-> Plain(s[k])], KeptSaid(s), Len(s))
<1> DEFINE p == [k \in 1..Len(s) |-> Plain(s[k])]
<1> DEFINE body(f, k) == IF k = 0 THEN <<>>
                         ELSE IF p[k].role # "summary" THEN Append(f[k - 1], p[k]) ELSE f[k - 1]
<1> DEFINE g == CHOOSE f : f = [k \in 0..Len(s) |-> body(f, k)]
<1>2. Len(s) \in Nat /\ DOMAIN s = 1..Len(s)
    OBVIOUS
<1>7. Len(p) = Len(s)
    BY <1>2
<1>1. Said(s) = g[Len(s)]
    BY <1>2, <1>7 DEF Said, Only
<1>8. \A k \in 1..Len(s) : p[k].role = s[k].role
    BY <1>2 DEF Plain
<1> HIDE DEF p
<1>3. ASSUME NEW f
      PROVE  Selection(f, p, KeptSaid(s), Len(s)) <=> f = [k \in 0..Len(s) |-> body(f, k)]
    <2> DEFINE selected(k) == IF k = 0 THEN <<>>
                              ELSE IF k \in KeptSaid(s) THEN Append(f[k - 1], p[k]) ELSE f[k - 1]
    <2>1. \A k \in 0..Len(s) : selected(k) = body(f, k)
        BY <1>2, <1>8 DEF KeptSaid
    <2>2. Selection(f, p, KeptSaid(s), Len(s)) <=> f = [k \in 0..Len(s) |-> selected(k)]
        BY DEF Selection
    <2> HIDE DEF selected, body
    <2> QED BY <2>1, <2>2
<1>4. PICK f : Selection(f, p, KeptSaid(s), Len(s))
    BY <1>2, SelectionExists
<1>5. f = [k \in 0..Len(s) |-> body(f, k)]
    BY <1>3, <1>4
<1> HIDE DEF body
<1>6. g = [k \in 0..Len(s) |-> body(g, k)]
    BY <1>5
<1> HIDE DEF g
<1> QED BY <1>1, <1>3, <1>6 DEF p

LEMMA SaidAppend ==
    ASSUME NEW s \in Seq(Messages), NEW m \in Messages
    PROVE  Said(Append(s, m)) = IF m.role = "summary" THEN Said(s) ELSE Append(Said(s), Plain(m))
<1> DEFINE t == Append(s, m)
<1> DEFINE p == [k \in 1..Len(s) |-> Plain(s[k])]
<1> DEFINE q == [k \in 1..Len(t) |-> Plain(t[k])]
<1>1. /\ t \in Seq(Messages) /\ Len(t) = Len(s) + 1 /\ t[Len(s) + 1] = m
      /\ \A k \in 1..Len(s) : t[k] = s[k]
    OBVIOUS
<1>2. Len(s) \in Nat
    OBVIOUS
<1> HIDE DEF t
<1>3. PICK f : Said(s) = f[Len(s)] /\ Selection(f, p, KeptSaid(s), Len(s))
    BY SaidSelects
<1>4. PICK g : Said(t) = g[Len(t)] /\ Selection(g, q, KeptSaid(t), Len(t))
    BY <1>1, SaidSelects
<1>5. \A k \in 1..Len(s) : q[k] = p[k] /\ (k \in KeptSaid(s) <=> k \in KeptSaid(t))
    BY <1>1, <1>2 DEF KeptSaid
<1>6. (Len(s) + 1 \in KeptSaid(t) <=> m.role # "summary") /\ q[Len(s) + 1] = Plain(m)
    BY <1>1, <1>2 DEF KeptSaid
<1> HIDE DEF p, q
<1>7. g[Len(s) + 1] = IF Len(s) + 1 \in KeptSaid(t)
                      THEN Append(f[Len(s)], q[Len(s) + 1]) ELSE f[Len(s)]
    BY <1>1, <1>2, <1>3, <1>4, <1>5, SelectionGrows
<1> QED BY <1>1, <1>3, <1>4, <1>6, <1>7 DEF t

-----------------------------------------------------------------------------
(***************************************************************************)
(* Types                                                                   *)
(***************************************************************************)
UserMessages == [role : {"user"}, n : Nat, kind : Kinds, time : {0}]
Spoken == {m \in Messages : m.role \in {"user", "assistant", "toolResult"}}

Runs == [at : Places, context : Seq(Messages), rest : Seq(UserMessages), more : BOOLEAN,
         skip : BOOLEAN, aborted : BOOLEAN, mode : {"parallel", "sequential", "none"},
         calls : Nat, prepared : Seq(Outcomes \cup {"ready"}), given : Nat]

AgentTyped ==
    /\ messages \in Seq(Messages)
    /\ steering \in Seq(UserMessages) /\ followUp \in Seq(UserMessages)
    /\ run \in Runs /\ spent \in [batches : Nat, failures : Nat] /\ clock \in Nat
    /\ run.rest # <<>> <=> run.at \in {"prompts", "inject"}

\* A summary stands behind the first entry that it keeps.
CutsInside(s) == \A k \in Compactions(s) : s[k].n \in 1..(k - 1)

Jobs == [after : {"none", "idle", "launch", "decide"}, retry : BOOLEAN, cut : Nat]

SessionTyped ==
    /\ entries \in Seq(Messages) /\ CutsInside(entries)
    /\ mirror \in [steer : Seq(Messages), followUp : Seq(Messages)]
    /\ next \in Messages
    /\ at \in {"preflight", "launch"} \/ (at = "compacting" /\ job.after = "launch")
          => next \in UserMessages
    /\ last \in Messages /\ attempt \in 0..MaxRetries
    /\ pending \in Nat /\ job \in Jobs
    /\ at = "compacting" => job.after # "none" /\ job.cut \in 1..Len(entries)
    /\ active \in BOOLEAN /\ recovered \in BOOLEAN /\ quiet \in BOOLEAN
    /\ stranded \in BOOLEAN /\ at \in Points
    /\ used \in [inputs : 0..MaxInputs, breaks : Nat]

\* Where the run, the session and its prompts are fit together.
Paced ==
    /\ (~Running => run = NoRun) /\ (Running <=> at = "running")
    /\ pending > 0 => active
    /\ active <=> at \notin {"idle", "preflight", "launch"}
                  /\ (at = "compacting" => job.after = "decide")

Typed == AgentTyped /\ SessionTyped /\ Paced

LEMMA Naturals ==
    /\ MaxBatches \in Nat /\ MaxFailures \in Nat /\ MaxCalls \in Nat /\ MaxInputs \in Nat
    /\ MaxRetries \in Nat /\ MaxBreaks \in Nat /\ MaxCompactions \in Nat /\ MaxKept \in Nat
    /\ Modes \subseteq {"parallel", "sequential"}
BY AgentAssumption, SessionAssumption

LEMMA MessageTypes ==
    /\ None \in Messages /\ Shell \in Messages
    /\ \A i \in Nat, kind \in Kinds : User(i, kind) \in UserMessages
    /\ UserMessages \subseteq Spoken /\ Spoken \subseteq Messages
    /\ \A c \in Nat : Result(c) \in Spoken
    /\ clock \in Nat =>
         /\ \A stop \in Stops, calls \in Nat : Answer(stop, calls) \in Spoken
         /\ \A cut \in Nat : Summary(cut) \in Messages
BY DEF UserMessages, Spoken, None, Shell, User, Result, Answer, Summary, Message,
       Messages, Kinds, Stops, Failures

LEMMA UserTypes ==
    ASSUME NEW q \in Seq(UserMessages)
    PROVE  /\ q \in Seq(Messages) /\ \A k \in 1..Len(q) : q[k] \in UserMessages
           /\ q # <<>> => Head(q) \in UserMessages /\ Head(q) \in Spoken /\ Head(q) \in Messages
<1>1. UserMessages \subseteq Messages /\ UserMessages \subseteq Spoken
    BY MessageTypes
<1>2. \A k \in 1..Len(q) : q[k] \in UserMessages
    OBVIOUS
<1>3. q \in Seq(Messages)
    BY <1>1, SeqMonotonic
<1>4. q # <<>> => Head(q) \in UserMessages
    OBVIOUS
<1> QED BY <1>1, <1>2, <1>3, <1>4

LEMMA LastType ==
    ASSUME NEW S, NEW s \in Seq(S), s # <<>>
    PROVE  /\ Last(s) \in S /\ Last(s) = s[Len(s)] /\ Len(s) \in Nat \ {0}
           /\ Head(s) \in S /\ Head(s) = s[1]
           /\ Tail(s) \in Seq(S) /\ Len(Tail(s)) = Len(s) - 1
           /\ Tail(s) = <<>> <=> Len(s) = 1
<1>1. Len(s) \in Nat \ {0} /\ Last(s) = s[Len(s)] /\ s[Len(s)] \in S
    BY DEF Last
<1>2. Head(s) \in S /\ Head(s) = s[1]
    OBVIOUS
<1>3. Tail(s) \in Seq(S) /\ Len(Tail(s)) = Len(s) - 1
    OBVIOUS
<1>4. Tail(s) = <<>> <=> Len(Tail(s)) = 0
    BY <1>3, EmptySeq
<1> QED BY <1>1, <1>2, <1>3, <1>4

LEMMA QueueTypes ==
    ASSUME NEW S, NEW q \in Seq(S), NEW mode
    PROVE  /\ Taken(q, mode) \in Seq(S) /\ Left(q, mode) \in Seq(S)
           /\ Taken(q, mode) \o Left(q, mode) = q
           /\ Taken(q, mode) = <<>> <=> q = <<>>
<1>1. CASE mode = "all" \/ q = <<>>
    BY <1>1 DEF Taken, Left
<1>2. CASE ~(mode = "all" \/ q = <<>>)
    <2>1. /\ Head(q) \in S /\ Tail(q) \in Seq(S) /\ <<Head(q)>> \in Seq(S)
          /\ <<Head(q)>> \o Tail(q) = q /\ <<Head(q)>> # <<>>
        BY <1>2
    <2> QED BY <1>2, <2>1 DEF Taken, Left
<1> QED BY <1>1, <1>2

LEMMA DropType ==
    ASSUME NEW s \in Seq(Messages)
    PROVE  DropAnswer(s) \in Seq(Messages)
BY DEF DropAnswer, EndsWithAnswer

LEMMA LatestIs ==
    ASSUME NEW s \in Seq(Messages), Compactions(s) # {}
    PROVE  Latest(s) \in Compactions(s) /\ \A o \in Compactions(s) : o <= Latest(s)
<1>1. Len(s) \in Nat /\ Compactions(s) \in SUBSET (1..Len(s))
    BY DEF Compactions
<1>2. \E k \in Compactions(s) : \A o \in Compactions(s) : o <= k
    BY <1>1, GreatestElement
<1> QED BY <1>2 DEF Latest

LEMMA RebuiltType ==
    ASSUME NEW s \in Seq(Messages), CutsInside(s)
    PROVE  Rebuilt(s) \in Seq(Messages)
<1>1. CASE Compactions(s) = {}
    BY <1>1 DEF Rebuilt
<1>2. CASE Compactions(s) # {}
    <2> DEFINE k == Latest(s)
    <2>1. k \in 1..Len(s) /\ s[k].n \in 1..(k - 1) /\ Len(s) \in Nat
        BY <1>2, LatestIs DEF CutsInside, Compactions
    <2> HIDE DEF k
    <2>2. s[k] \in Messages /\ <<s[k]>> \in Seq(Messages)
        BY <2>1
    <2>3. SubSeq(s, s[k].n, k - 1) \in Seq(Messages)
        BY <2>1, SubSeqProperties
    <2>4. SubSeq(s, k + 1, Len(s)) \in Seq(Messages)
        BY <2>1, SubSeqProperties
    <2>5. <<s[k]>> \o SubSeq(s, s[k].n, k - 1) \o SubSeq(s, k + 1, Len(s)) \in Seq(Messages)
        BY <2>2, <2>3, <2>4, ConcatProperties
    <2> QED BY <1>2, <2>5 DEF Rebuilt, k
<1> QED BY <1>1, <1>2

-----------------------------------------------------------------------------
(***************************************************************************)
(* Types of the agent                                                      *)
(***************************************************************************)
\* The parts of a run, each of its type.
LEMMA RunParts ==
    ASSUME run \in Runs
    PROVE  /\ run.at \in Places /\ run.context \in Seq(Messages) /\ run.rest \in Seq(UserMessages)
           /\ run.more \in BOOLEAN /\ run.skip \in BOOLEAN /\ run.aborted \in BOOLEAN
           /\ run.mode \in {"parallel", "sequential", "none"} /\ run.calls \in Nat
           /\ run.prepared \in Seq(Outcomes \cup {"ready"}) /\ run.given \in Nat
BY DEF Runs

LEMMA NoRunType == NoRun \in Runs /\ NoRun.rest = <<>> /\ NoRun.at = "idle"
BY DEF NoRun, Runs, Places

LEMMA StartedType ==
    ASSUME AgentTyped, NEW prompts \in Seq(UserMessages), NEW skip \in BOOLEAN
    PROVE  /\ Started(prompts, skip) \in Runs
           /\ Started(prompts, skip).rest # <<>>
              <=> Started(prompts, skip).at \in {"prompts", "inject"}
<1>1. /\ messages \o prompts \in Seq(Messages) /\ <<>> \in Seq(Outcomes \cup {"ready"})
      /\ prompts # <<>> \/ prompts = <<>>
    BY UserTypes, ConcatProperties DEF AgentTyped
<1>2. NoRun \in Runs
    BY NoRunType
<1>3. Started(prompts, skip) \in Runs
    BY <1>1, <1>2 DEF Started, Runs, Places
<1>4. /\ Started(prompts, skip).rest = prompts
      /\ Started(prompts, skip).at = IF prompts = <<>> THEN "steer" ELSE "prompts"
    BY <1>2 DEF Started, Runs
<1> QED BY <1>1, <1>3, <1>4

LEMMA StartPromptType ==
    ASSUME AgentTyped, next \in UserMessages, StartPrompt(<<next>>)
    PROVE  AgentTyped'
<1>1. <<next>> \in Seq(UserMessages)
    OBVIOUS
<1> QED BY <1>1, StartedType DEF StartPrompt, AgentTyped, queues

LEMMA ContinueType ==
    ASSUME AgentTyped, Continue
    PROVE  AgentTyped'
<1>1. <<>> \in Seq(UserMessages)
    OBVIOUS
<1>2. \A q \in Seq(UserMessages), mode \in QueueModes :
          Taken(q, mode) \in Seq(UserMessages) /\ Left(q, mode) \in Seq(UserMessages)
    BY QueueTypes
<1>3. SteeringMode \in QueueModes /\ FollowUpMode \in QueueModes
    BY AgentAssumption
<1> QED BY <1>1, <1>2, <1>3, StartedType DEF Continue, AgentTyped, queues

LEMMA EndRunType ==
    ASSUME AgentTyped, EndRun
    PROVE  AgentTyped'
BY NoRunType DEF EndRun, AgentTyped, queues

LEMMA DeliverPromptType ==
    ASSUME AgentTyped, DeliverPrompt
    PROVE  /\ AgentTyped' /\ messages' = Append(messages, Head(run.rest)) /\ run.rest # <<>>
           /\ Head(run.rest) \in UserMessages /\ Head(run.rest) \in Spoken
<1>1. run.rest \in Seq(UserMessages) /\ run.rest # <<>> /\ messages \in Seq(Messages)
    BY RunParts DEF AgentTyped, DeliverPrompt, At
<1>5. Head(run.rest) \in UserMessages /\ Head(run.rest) \in Spoken /\ Head(run.rest) \in Messages
    BY <1>1, UserTypes
<1>2. Append(messages, Head(run.rest)) \in Seq(Messages)
    BY <1>1, <1>5
<1>3. run' \in Runs
    BY <1>1, LastType, RunParts DEF DeliverPrompt, AgentTyped, Runs, Places
<1>4. run'.rest # <<>> <=> run'.at \in {"prompts", "inject"}
    BY <1>1, LastType, RunParts DEF DeliverPrompt, AgentTyped, Runs, Places, At
<1> QED BY <1>1, <1>2, <1>3, <1>4, <1>5 DEF DeliverPrompt, AgentTyped, queues

LEMMA PollSteeringType ==
    ASSUME AgentTyped, PollSteering
    PROVE  AgentTyped'
<1> DEFINE taken == IF run.skip THEN <<>> ELSE Taken(steering, SteeringMode)
<1>1. taken \in Seq(UserMessages) /\ steering' \in Seq(UserMessages)
    BY QueueTypes, RunParts DEF AgentTyped, PollSteering
<1>2. /\ taken # <<>> => run'.at = "inject"
      /\ taken = <<>> => run'.at \in {"request", "refused", "followUp"}
    BY RunParts DEF PollSteering, Asking, AgentTyped, Runs
<1>3. run'.rest = taken
    BY RunParts DEF PollSteering, AgentTyped, Runs
<1>4. run' \in Runs
    BY <1>1, <1>2, RunParts DEF PollSteering, AgentTyped, Runs, Places
<1> HIDE DEF taken
<1> QED BY <1>1, <1>2, <1>3, <1>4 DEF PollSteering, AgentTyped, queues

LEMMA PollFollowUpType ==
    ASSUME AgentTyped, PollFollowUp
    PROVE  AgentTyped'
<1> DEFINE taken == Taken(followUp, FollowUpMode)
<1>1. /\ taken \in Seq(UserMessages) /\ followUp' \in Seq(UserMessages)
      /\ taken = <<>> <=> followUp = <<>>
    BY QueueTypes DEF AgentTyped, PollFollowUp
<1>2. /\ run'.rest = taken /\ run'.at = IF followUp = <<>> THEN "end" ELSE "inject"
    BY RunParts DEF PollFollowUp, AgentTyped, Runs
<1>3. run' \in Runs
    BY <1>1, RunParts DEF PollFollowUp, AgentTyped, Runs, Places
<1> HIDE DEF taken
<1> QED BY <1>1, <1>2, <1>3 DEF PollFollowUp, AgentTyped, queues

LEMMA InjectType ==
    ASSUME AgentTyped, Inject
    PROVE  /\ AgentTyped' /\ messages' = Append(messages, Head(run.rest)) /\ run.rest # <<>>
           /\ Head(run.rest) \in UserMessages /\ Head(run.rest) \in Spoken
<1>1. run.rest \in Seq(UserMessages) /\ run.rest # <<>> /\ messages \in Seq(Messages)
    BY RunParts DEF AgentTyped, Inject, At
<1>5. Head(run.rest) \in UserMessages /\ Head(run.rest) \in Spoken /\ Head(run.rest) \in Messages
    BY <1>1, UserTypes
<1>2. /\ Append(messages, Head(run.rest)) \in Seq(Messages)
      /\ Append(run.context, Head(run.rest)) \in Seq(Messages)
    BY <1>1, <1>5, RunParts DEF AgentTyped
<1>3. run' \in Runs
    BY <1>1, <1>2, LastType, RunParts DEF Inject, AgentTyped, Runs, Places, Asking
<1>4. run'.rest # <<>> <=> run'.at \in {"prompts", "inject"}
    BY <1>1, LastType, RunParts DEF Inject, AgentTyped, Runs, Places, At, Asking
<1> QED BY <1>1, <1>2, <1>3, <1>4, <1>5 DEF Inject, AgentTyped, queues

LEMMA AfterPlace ==
    ASSUME NEW stop \in Stops, NEW calls \in Nat
    PROVE  After(stop, calls) \in {"closing", "steer", "results", "prepare"}
BY DEF After

LEMMA RespondType ==
    ASSUME AgentTyped, NEW stop \in Stops, NEW calls \in 0..MaxCalls, Respond(stop, calls)
    PROVE  /\ AgentTyped' /\ messages' = Append(messages, Answer(stop, calls))
           /\ Answer(stop, calls) \in Messages /\ Answer(stop, calls) \in Spoken
<1>1. /\ calls \in Nat /\ Answer(stop, calls) \in Messages
      /\ Answer(stop, calls) \in Spoken
    BY MessageTypes, Naturals DEF AgentTyped
<1>2. After(stop, calls) \in {"closing", "steer", "results", "prepare"}
    BY <1>1, AfterPlace
<1>3. [c \in 1..calls |-> "answered"] \in Seq(Outcomes \cup {"ready"})
    BY <1>1, IsASeq DEF Outcomes
<1>4. Append(run.context, Answer(stop, calls)) \in Seq(Messages)
    BY <1>1, RunParts DEF AgentTyped
<1>5. PICK mode \in IF calls > 0 THEN Modes ELSE {"none"} :
          run' = [run EXCEPT !.context = Append(@, Answer(stop, calls)),
                             !.at = After(stop, calls), !.more = FALSE, !.mode = mode,
                             !.calls = calls,
                             !.prepared = IF After(stop, calls) = "results"
                                          THEN [c \in 1..calls |-> "answered"] ELSE <<>>]
    BY DEF Respond
<1>6. mode \in {"parallel", "sequential", "none"}
    BY Naturals
<1>9. (IF After(stop, calls) = "results" THEN [c \in 1..calls |-> "answered"] ELSE <<>>)
          \in Seq(Outcomes \cup {"ready"})
    BY <1>3
<1>7. run' \in Runs
    <2> DEFINE prep == IF After(stop, calls) = "results"
                       THEN [c \in 1..calls |-> "answered"] ELSE <<>>
    <2> DEFINE context == Append(run.context, Answer(stop, calls))
    <2>1. prep \in Seq(Outcomes \cup {"ready"}) /\ context \in Seq(Messages)
        BY <1>4, <1>9
    <2>2. run' = [run EXCEPT !.context = context, !.at = After(stop, calls), !.more = FALSE,
                             !.mode = mode, !.calls = calls, !.prepared = prep]
        BY <1>5
    <2> HIDE DEF prep, context
    <2> QED BY <1>1, <1>2, <1>6, <2>1, <2>2 DEF AgentTyped, Runs, Places
<1>8. run'.rest = <<>> /\ run'.at \notin {"prompts", "inject"}
    BY <1>2, <1>5, RunParts DEF AgentTyped, Runs, Respond, Answers, At
<1> QED BY <1>1, <1>7, <1>8 DEF Respond, AgentTyped, queues

LEMMA PrepareCallType ==
    ASSUME AgentTyped, PrepareCall
    PROVE  AgentTyped'
<1>1. PICK outcome \in Prepared :
          run' = [run EXCEPT !.prepared = Append(@, outcome),
                             !.at = IF Parallel THEN "check" ELSE "results"]
    BY DEF PrepareCall
<1>2. Append(run.prepared, outcome) \in Seq(Outcomes \cup {"ready"})
    BY RunParts DEF AgentTyped, Prepared, Outcomes
<1> QED BY <1>1, <1>2, RunParts DEF PrepareCall, AgentTyped, queues, Runs, Places, At

LEMMA ResultsType ==
    ASSUME NEW n \in Nat
    PROVE  [c \in 1..n |-> Result(c)] \in Seq(Messages)
BY MessageTypes, IsASeq

LEMMA TurnedType ==
    ASSUME NEW r \in Runs, r.rest = <<>>
    PROVE  Turned(r) \in Runs /\ Turned(r).rest = <<>> /\ Turned(r).at = "steer"
<1>4. r.context \in Seq(Messages) /\ r.given \in Nat
    BY DEF Runs
<1>5. [c \in 1..r.given |-> Result(c)] \in Seq(Messages)
    BY <1>4, ResultsType
<1>1. r.context \o [c \in 1..r.given |-> Result(c)] \in Seq(Messages)
    BY <1>4, <1>5, ConcatProperties
<1>2. <<>> \in Seq(Outcomes \cup {"ready"})
    OBVIOUS
<1>3. (\E c \in 1..r.given : r.prepared[c] # "terminates") \in BOOLEAN
    OBVIOUS
<1> QED BY <1>1, <1>2, <1>3 DEF Turned, Runs, Places

LEMMA CheckSignalType ==
    ASSUME AgentTyped, CheckSignal
    PROVE  AgentTyped'
<1>1. run.rest = <<>> /\ run \in Runs
    BY DEF AgentTyped, CheckSignal, At
<1>2. run' \in {[run EXCEPT !.at = "prepare"], [run EXCEPT !.at = "results"], Turned(run)}
    BY DEF CheckSignal
<1>3. run' \in Runs /\ run'.rest = <<>> /\ run'.at \notin {"prompts", "inject"}
    BY <1>1, <1>2, TurnedType DEF Runs, Places
<1> QED BY <1>3 DEF CheckSignal, AgentTyped, queues

LEMMA FinishCallType ==
    ASSUME AgentTyped, NEW c, FinishCall(c)
    PROVE  AgentTyped'
<1>1. PICK outcome \in Outcomes : run' = [run EXCEPT !.prepared[c] = outcome]
    BY DEF FinishCall
<1>3. run.prepared \in Seq(Outcomes \cup {"ready"}) /\ c \in 1..Len(run.prepared)
    <2>1. run.prepared \in Seq(Outcomes \cup {"ready"})
        BY RunParts DEF AgentTyped
    <2>2. c \in DOMAIN run.prepared
        BY DEF FinishCall
    <2> QED BY <2>1, <2>2
<1>2. [run.prepared EXCEPT ![c] = outcome] \in Seq(Outcomes \cup {"ready"})
    BY <1>3, ExceptSeq
<1> QED BY <1>1, <1>2, RunParts DEF FinishCall, AgentTyped, queues, Runs, Places, At

LEMMA GiveResultType ==
    ASSUME AgentTyped, GiveResult
    PROVE  /\ AgentTyped' /\ messages' = Append(messages, Result(run.given + 1))
           /\ Result(run.given + 1) \in Messages /\ Result(run.given + 1) \in Spoken
<1> DEFINE r == [run EXCEPT !.given = @ + 1]
<1>6. run \in Runs /\ run.at = "results" /\ (run.rest # <<>> <=> run.at \in {"prompts", "inject"})
    BY DEF AgentTyped, GiveResult, At
<1>7. run.given \in Nat
    BY <1>6, RunParts
<1>1. run.rest = <<>> /\ run \in Runs /\ run.given + 1 \in Nat
    BY <1>6, <1>7
<1>2. r \in Runs /\ r.rest = <<>> /\ r.at = "results"
    BY <1>1 DEF GiveResult, Runs, At
<1>3. run' \in {r, Turned(r), [r EXCEPT !.at = "check"]}
    BY DEF GiveResult
<1>4. run' \in Runs /\ run'.rest = <<>> /\ run'.at \notin {"prompts", "inject"}
    <2> HIDE DEF r
    <2> QED BY <1>2, <1>3, TurnedType DEF Runs, Places
<1>5. Result(run.given + 1) \in Messages /\ Result(run.given + 1) \in Spoken
    BY <1>1, MessageTypes
<1> QED BY <1>4, <1>5 DEF GiveResult, AgentTyped, queues

LEMMA CloseRunType ==
    ASSUME AgentTyped, CloseRun
    PROVE  AgentTyped'
<1>1. run \in Runs /\ run.at = "closing" /\ run.rest = <<>>
    BY DEF AgentTyped, CloseRun, At
<1>2. run' \in Runs /\ run'.rest = <<>> /\ run'.at = "end"
    BY <1>1 DEF CloseRun, Runs, Places
<1> QED BY <1>2 DEF CloseRun, AgentTyped, queues

LEMMA AgentStepType ==
    ASSUME AgentTyped, AgentStep
    PROVE  /\ AgentTyped'
           /\ messages' = messages \/ \E m \in Spoken : messages' = Append(messages, m)
<1>1. CASE DeliverPrompt
    BY <1>1, DeliverPromptType
<1>2. CASE PollSteering
    BY <1>2, PollSteeringType DEF PollSteering
<1>3. CASE PollFollowUp
    BY <1>3, PollFollowUpType DEF PollFollowUp
<1>4. CASE Inject
    BY <1>4, InjectType
<1>5. CASE \E stop \in Stops, calls \in 0..MaxCalls : Respond(stop, calls)
    BY <1>5, RespondType
<1>6. CASE PrepareCall
    BY <1>6, PrepareCallType DEF PrepareCall
<1>7. CASE CheckSignal
    BY <1>7, CheckSignalType DEF CheckSignal
<1>8. CASE GiveResult
    BY <1>8, GiveResultType
<1>9. CASE \E c \in 1..MaxCalls : FinishCall(c)
    BY <1>9, FinishCallType DEF FinishCall
<1>10. CASE CloseRun
    BY <1>10, CloseRunType DEF CloseRun
<1> QED BY <1>1, <1>2, <1>3, <1>4, <1>5, <1>6, <1>7, <1>8, <1>9, <1>10 DEF AgentStep

-----------------------------------------------------------------------------
(***************************************************************************)
(* Types of the session                                                    *)
(***************************************************************************)
\* Entries that are appended leave the cuts where they are.
LEMMA CutsAppend ==
    ASSUME NEW s \in Seq(Messages), CutsInside(s), NEW m \in Messages,
           m.role = "summary" => m.n \in 1..Len(s)
    PROVE  Append(s, m) \in Seq(Messages) /\ CutsInside(Append(s, m))
<1>1. /\ Append(s, m) \in Seq(Messages) /\ Len(s) \in Nat /\ Len(Append(s, m)) = Len(s) + 1
      /\ Append(s, m)[Len(s) + 1] = m /\ \A k \in 1..Len(s) : Append(s, m)[k] = s[k]
    OBVIOUS
<1>2. ASSUME NEW k \in Compactions(Append(s, m))
      PROVE  Append(s, m)[k].n \in 1..(k - 1)
    <2>1. k \in 1..(Len(s) + 1)
        BY <1>1 DEF Compactions
    <2>2. CASE k = Len(s) + 1
        BY <1>1, <2>2 DEF Compactions
    <2>3. CASE k \in 1..Len(s)
        BY <1>1, <2>3 DEF Compactions, CutsInside
    <2> QED BY <2>1, <2>2, <2>3, <1>1
<1> QED BY <1>1, <1>2 DEF CutsInside

\* What shell commands leave: a number of equal entries.
Shells(n) == [k \in 1..n |-> Shell]

LEMMA ShellsGrow ==
    ASSUME NEW n \in Nat
    PROVE  /\ Shells(n) \in Seq(Messages) /\ Len(Shells(n)) = n
           /\ Shells(0) = <<>> /\ Shells(n + 1) = Append(Shells(n), Shell)
<1>1. Shell \in Messages
    BY MessageTypes
<1>2. \A j \in Nat : Shells(j) \in Seq(Messages) /\ Len(Shells(j)) = j
    BY <1>1, IsASeq DEF Shells
<1>3. Shells(0) = <<>>
    BY <1>2, EmptySeq
<1>4. \A j \in Nat : \A k \in 1..j : Shells(j)[k] = Shell
    BY DEF Shells
<1>5. /\ Append(Shells(n), Shell) \in Seq(Messages) /\ Len(Append(Shells(n), Shell)) = n + 1
      /\ \A k \in 1..(n + 1) : Append(Shells(n), Shell)[k] = Shell
    BY <1>1, <1>2, <1>4
<1>6. Shells(n + 1) = Append(Shells(n), Shell)
    BY <1>2, <1>4, <1>5, SeqEqual
<1> QED BY <1>2, <1>3, <1>6

LEMMA ConcatAppend ==
    ASSUME NEW s \in Seq(Messages), NEW t \in Seq(Messages), NEW m \in Messages
    PROVE  s \o Append(t, m) = Append(s \o t, m)
OBVIOUS

LEMMA ShellsBehind ==
    ASSUME NEW s \in Seq(Messages), NEW j \in Nat
    PROVE  /\ s \o Shells(0) = s /\ s \o Shells(j) \in Seq(Messages)
           /\ s \o Shells(j + 1) = Append(s \o Shells(j), Shell)
<1>1. Shells(0) = <<>> /\ Shells(j) \in Seq(Messages) /\ Shells(j + 1) = Append(Shells(j), Shell)
    BY ShellsGrow
<1>2. s \o <<>> = s
    BY ConcatEmptySeq
<1>3. s \o Append(Shells(j), Shell) = Append(s \o Shells(j), Shell)
    BY <1>1, ConcatAppend, MessageTypes
<1>4. s \o Shells(j) \in Seq(Messages)
    BY <1>1, ConcatProperties
<1> QED BY <1>1, <1>2, <1>3, <1>4

LEMMA CutsShells ==
    ASSUME NEW s \in Seq(Messages), CutsInside(s), NEW n \in Nat
    PROVE  s \o Shells(n) \in Seq(Messages) /\ CutsInside(s \o Shells(n))
<1> DEFINE G == {j \in Nat : s \o Shells(j) \in Seq(Messages) /\ CutsInside(s \o Shells(j))}
<1>1. 0 \in G
    BY ShellsBehind
<1>2. ASSUME NEW j \in G PROVE j + 1 \in G
    <2>1. /\ j \in Nat /\ j + 1 \in Nat /\ s \o Shells(j) \in Seq(Messages)
          /\ CutsInside(s \o Shells(j))
        BY <1>2
    <2>2. s \o Shells(j + 1) = Append(s \o Shells(j), Shell)
        BY <2>1, ShellsBehind
    <2>3. Shell.role # "summary" /\ Shell \in Messages
        BY MessageTypes DEF Shell, Message
    <2> QED BY <2>1, <2>2, <2>3, CutsAppend
<1>3. G = Nat
    <2>1. G \in SUBSET Nat
        OBVIOUS
    <2> HIDE DEF G
    <2> QED BY <1>1, <1>2, <2>1, SetInduction
<1> QED BY <1>3

\* The first occurrence goes, if there is one.
LEMMA RemoveFirstIs ==
    ASSUME NEW s \in Seq(Messages), NEW m
    PROVE  /\ m \notin ToSet(s) => RemoveFirst(s, m) = s
           /\ m \in ToSet(s) => \E i \in 1..Len(s) :
                /\ s[i] = m /\ \A j \in 1..(i - 1) : s[j] # m
                /\ RemoveFirst(s, m) = SubSeq(s, 1, i - 1) \o SubSeq(s, i + 1, Len(s))
           /\ RemoveFirst(s, m) \in Seq(Messages)
<1> DEFINE I == {i \in 1..Len(s) : s[i] = m}
<1>1. Len(s) \in Nat /\ DOMAIN s = 1..Len(s)
    OBVIOUS
<1>2. m \in ToSet(s) <=> \E i \in 1..Len(s) : s[i] = m
    BY <1>1 DEF ToSet
<1>3. m \notin ToSet(s) => RemoveFirst(s, m) = s
    BY <1>2 DEF RemoveFirst
<1>4. ASSUME m \in ToSet(s)
      PROVE  \E i \in 1..Len(s) :
                /\ s[i] = m /\ \A j \in 1..(i - 1) : s[j] # m
                /\ RemoveFirst(s, m) = SubSeq(s, 1, i - 1) \o SubSeq(s, i + 1, Len(s))
    <2>1. I \in SUBSET Nat /\ I # {} /\ \E i \in 1..Len(s) : s[i] = m
        BY <1>2, <1>4
    <2>2. \E x \in I : \A y \in I : x <= y
        BY <2>1, LeastElement
    <2>3. Min(I) \in I /\ \A y \in I : Min(I) <= y
        BY <2>2 DEF Min
    <2>4. SelectInSeq(s, LAMBDA v : v = m) = Min(I)
        BY <2>1 DEF SelectInSeq
    <2>5. RemoveFirst(s, m) = RemoveAt(s, Min(I))
        BY <2>1, <2>4 DEF RemoveFirst
    <2>6. Min(I) \in 1..Len(s) /\ s[Min(I)] = m
        BY <2>3
    <2>7. \A j \in 1..(Min(I) - 1) : j \in 1..Len(s) /\ ~(Min(I) <= j)
        BY <2>6, <1>1
    <2>8. \A j \in 1..(Min(I) - 1) : s[j] # m
        BY <2>3, <2>7
    <2> QED BY <2>5, <2>6, <2>8 DEF RemoveAt
<1>5. ASSUME NEW i \in 1..Len(s)
      PROVE  SubSeq(s, 1, i - 1) \o SubSeq(s, i + 1, Len(s)) \in Seq(Messages)
    <2>1. SubSeq(s, 1, i - 1) \in Seq(Messages) /\ SubSeq(s, i + 1, Len(s)) \in Seq(Messages)
        BY <1>1, SubSeqProperties
    <2> QED BY <2>1, ConcatProperties
<1>6. RemoveFirst(s, m) \in Seq(Messages)
    BY <1>3, <1>4, <1>5
<1> QED BY <1>3, <1>4, <1>6

LEMMA ShownType ==
    ASSUME mirror \in [steer : Seq(Messages), followUp : Seq(Messages)], NEW m
    PROVE  Shown(m) \in [steer : Seq(Messages), followUp : Seq(Messages)]
<1>1. mirror.steer \in Seq(Messages) /\ mirror.followUp \in Seq(Messages)
    OBVIOUS
<1>2. /\ RemoveFirst(mirror.steer, m) \in Seq(Messages)
      /\ RemoveFirst(mirror.followUp, m) \in Seq(Messages)
    BY <1>1, RemoveFirstIs
<1> QED BY <1>1, <1>2 DEF Shown

LEMMA AfterRetryType ==
    ASSUME attempt \in 0..MaxRetries
    PROVE  AfterRetry \in 0..MaxRetries
BY Naturals DEF AfterRetry

LEMMA CutsType ==
    ASSUME NEW s \in Seq(Messages), CutsInside(s), NEW cut \in Cuts(s)
    PROVE  cut \in 2..Len(s)
<1> DEFINE start == IF Compactions(s) = {} THEN 1 ELSE s[Latest(s)].n
<1>1. Len(s) \in Nat /\ cut \in (start + 1)..Len(s)
    BY DEF Cuts
<1>2. start \in Nat /\ start >= 1
    <2>1. CASE Compactions(s) = {}
        BY <2>1
    <2>2. CASE Compactions(s) # {}
        <3>1. Latest(s) \in 1..Len(s) /\ s[Latest(s)].n \in 1..(Latest(s) - 1)
            BY <2>2, LatestIs DEF CutsInside, Compactions
        <3> QED BY <3>1, <2>2
    <2> QED BY <2>1, <2>2
<1> HIDE DEF start
<1> QED BY <1>1, <1>2

LEMMA CompactingType ==
    ASSUME Typed, NEW retry \in BOOLEAN, Compacting(retry)
    PROVE  /\ job' \in Jobs /\ job'.after = Onward /\ Onward \in {"launch", "decide"}
           /\ job'.cut \in 1..Len(entries) /\ job'.retry = retry /\ at' = "compacting"
<1>1. PICK cut \in Cuts(entries) : job' = [after |-> Onward, retry |-> retry, cut |-> cut]
    BY DEF Compacting
<1>2. cut \in 2..Len(entries) /\ Len(entries) \in Nat
    BY CutsType DEF Typed, SessionTyped
<1>3. Onward \in {"launch", "decide"}
    BY DEF Onward
<1> QED BY <1>1, <1>2, <1>3 DEF Compacting, Jobs

\* A run that takes a step goes on.
LEMMA StaysRunning ==
    ASSUME AgentTyped, AgentStep
    PROVE  run.at # "idle" /\ run'.at # "idle"
<1>0. run \in Runs
    BY DEF AgentTyped
<1>1. CASE DeliverPrompt
    BY <1>0, <1>1 DEF DeliverPrompt, Runs, At
<1>2. CASE PollSteering
    BY <1>0, <1>2 DEF PollSteering, Runs, At, Asking
<1>3. CASE PollFollowUp
    BY <1>0, <1>3 DEF PollFollowUp, Runs, At
<1>4. CASE Inject
    BY <1>0, <1>4 DEF Inject, Runs, At, Asking
<1>5. CASE \E stop \in Stops, calls \in 0..MaxCalls : Respond(stop, calls)
    <2>1. PICK stop \in Stops, calls \in 0..MaxCalls : Respond(stop, calls)
        BY <1>5
    <2>2. After(stop, calls) # "idle"
        BY AfterPlace, Naturals
    <2>3. run.at # "idle"
        BY <2>1 DEF Respond, Answers, At
    <2>4. run'.at = After(stop, calls)
        BY <1>0, <2>1 DEF Respond, Runs
    <2> QED BY <2>2, <2>3, <2>4
<1>6. CASE PrepareCall
    BY <1>0, <1>6 DEF PrepareCall, Runs, At
<1>7. CASE CheckSignal
    BY <1>0, <1>7 DEF CheckSignal, Runs, At, Turned
<1>8. CASE GiveResult
    BY <1>0, <1>8 DEF GiveResult, Runs, At, Turned
<1>9. CASE \E c \in 1..MaxCalls : FinishCall(c)
    BY <1>0, <1>9 DEF FinishCall, Runs, At
<1>10. CASE CloseRun
    BY <1>0, <1>10 DEF CloseRun, Runs, At
<1> QED BY <1>1, <1>2, <1>3, <1>4, <1>5, <1>6, <1>7, <1>8, <1>9, <1>10 DEF AgentStep

LEMMA RunStepTyped == ASSUME Typed, RunStep PROVE Typed'
<1>1. AgentTyped' /\ (messages' = messages \/ \E m \in Spoken : messages' = Append(messages, m))
    BY AgentStepType DEF RunStep, Typed
<1>2. SessionTyped'
    <2>1. CASE messages' = messages
        BY <2>1 DEF Typed, SessionTyped, RunStep, Listen, Quiet, CutsInside
    <2>2. CASE messages' # messages
        <3>1. PICK m \in Spoken : messages' = Append(messages, m)
            BY <1>1, <2>2
        <3>2. Last(messages') = m /\ m \in Messages /\ m.role # "summary"
            BY <3>1 DEF Last, Typed, AgentTyped, Spoken
        <3>3. Heard(m)
            BY <2>2, <3>2 DEF RunStep, Listen
        <3>4. entries' \in Seq(Messages) /\ CutsInside(entries') /\ Len(entries) \in Nat
              /\ Len(entries') = Len(entries) + 1
            BY <3>2, <3>3, CutsAppend DEF Heard, Persisted, Typed, SessionTyped
        <3>5. mirror' \in [steer : Seq(Messages), followUp : Seq(Messages)]
            BY <3>3, ShownType DEF Heard, Typed, SessionTyped
        <3>6. last' \in Messages /\ recovered' \in BOOLEAN /\ attempt' \in 0..MaxRetries
            BY <3>2, <3>3, Naturals DEF Heard, Typed, SessionTyped
        <3> QED BY <3>4, <3>5, <3>6 DEF RunStep, Quiet, Typed, SessionTyped
    <2> QED BY <2>1, <2>2
<1>3. Paced'
    <2>1. run'.at # "idle" /\ run.at # "idle"
        BY StaysRunning DEF RunStep, Typed
    <2> QED BY <2>1 DEF RunStep, Typed, Paced, Running, At
<1> QED BY <1>1, <1>2, <1>3 DEF Typed

LEMMA RunEndsTyped == ASSUME Typed, RunEnds PROVE Typed'
<1>1. AgentTyped'
    BY EndRunType DEF RunEnds, Typed
<1>2. SessionTyped'
    BY DEF RunEnds, Typed, SessionTyped, CutsInside, Points
<1>3. Paced'
    BY DEF RunEnds, EndRun, Typed, Paced, Running, At, NoRun
<1> QED BY <1>1, <1>2, <1>3 DEF Typed

LEMMA PromptsTyped ==
    ASSUME Typed, (\E kind \in {"steer", "followUp"} : Queue(kind)) \/ Prompt \/ ClearQueue
    PROVE  Typed'
<1>1. CASE \E kind \in {"steer", "followUp"} : Queue(kind)
    <2>1. PICK kind \in {"steer", "followUp"} : Queue(kind)
        BY <1>1
    <2> DEFINE m == User(used.inputs + 1, kind)
    <2>0. used.inputs \in 0..MaxInputs /\ used.inputs < MaxInputs
        BY <2>1 DEF Queue, Typed, SessionTyped
    <2>2. used.inputs \in Nat /\ used.inputs + 1 \in 0..MaxInputs
        BY <2>0, Naturals
    <2>3. m \in UserMessages /\ m \in Messages
        BY <2>2, MessageTypes DEF Kinds
    <2> HIDE DEF m
    <2>4. Enqueue(m) /\ mirror' = [mirror EXCEPT ![kind] = Append(@, m)]
        BY <2>1 DEF Queue, m
    <2>5. steering' \in Seq(UserMessages) /\ followUp' \in Seq(UserMessages)
        BY <2>3, <2>4 DEF Enqueue, Typed, AgentTyped
    <2>6. AgentTyped'
        BY <2>1, <2>5 DEF Queue, Typed, AgentTyped
    <2>7. mirror' \in [steer : Seq(Messages), followUp : Seq(Messages)]
        <3>1. mirror.steer \in Seq(Messages) /\ mirror.followUp \in Seq(Messages)
              /\ mirror \in [steer : Seq(Messages), followUp : Seq(Messages)]
            BY DEF Typed, SessionTyped
        <3>2. /\ Append(mirror.steer, m) \in Seq(Messages)
              /\ Append(mirror.followUp, m) \in Seq(Messages)
            BY <2>3, <3>1
        <3>3. CASE kind = "steer"
            BY <2>4, <3>1, <3>2, <3>3
        <3>4. CASE kind = "followUp"
            BY <2>4, <3>1, <3>2, <3>4
        <3> QED BY <3>3, <3>4
    <2>8. used' \in [inputs : 0..MaxInputs, breaks : Nat]
        BY <2>1, <2>2 DEF Queue, Typed, SessionTyped
    <2>9. SessionTyped'
        BY <2>1, <2>7, <2>8 DEF Queue, Typed, SessionTyped, CutsInside
    <2> QED BY <2>1, <2>6, <2>9 DEF Queue, Typed, Paced, Running, At
<1>2. CASE Prompt
    <2>0. used.inputs \in 0..MaxInputs /\ used.inputs < MaxInputs
        BY <1>2 DEF Prompt, Typed, SessionTyped
    <2>2. used.inputs \in Nat /\ used.inputs + 1 \in 0..MaxInputs
        BY <2>0, Naturals
    <2>3. next' \in UserMessages /\ next' \in Messages
        BY <1>2, <2>2, MessageTypes DEF Prompt, Kinds
    <2>4. AgentTyped'
        BY <1>2 DEF Prompt, Typed, AgentTyped, agent, queues
    <2>5. used' \in [inputs : 0..MaxInputs, breaks : Nat]
        BY <1>2, <2>2 DEF Prompt, Typed, SessionTyped
    <2>6. SessionTyped'
        BY <1>2, <2>3, <2>5 DEF Prompt, Typed, SessionTyped, CutsInside, Points
    <2> QED BY <1>2, <2>4, <2>6 DEF Prompt, Typed, Paced, Running, At, agent, queues
<1>3. CASE ClearQueue
    <2>1. <<>> \in Seq(UserMessages) /\ <<>> \in Seq(Messages)
        OBVIOUS
    <2>2. used' \in [inputs : 0..MaxInputs, breaks : Nat]
        BY <1>3 DEF ClearQueue, Typed, SessionTyped
    <2>3. AgentTyped'
        BY <1>3, <2>1 DEF ClearQueue, Typed, AgentTyped
    <2>4. SessionTyped'
        BY <1>3, <2>1, <2>2 DEF ClearQueue, Typed, SessionTyped, CutsInside
    <2> QED BY <1>3, <2>3, <2>4 DEF ClearQueue, Typed, Paced, Running, At
<1> QED BY <1>1, <1>2, <1>3

LEMMA RecordShellTyped == ASSUME Typed, RecordShell PROVE Typed'
<1>1. Shell \in Messages /\ Shell.role # "summary"
    BY MessageTypes DEF Shell, Message
<1>2. used' \in [inputs : 0..MaxInputs, breaks : Nat]
    BY DEF RecordShell, Typed, SessionTyped
<1>0. messages \in Seq(Messages) /\ entries \in Seq(Messages) /\ CutsInside(entries)
      /\ Len(entries) \in Nat
    BY DEF Typed, AgentTyped, SessionTyped
<1>3. messages' \in Seq(Messages)
    <2>1. Append(messages, Shell) \in Seq(Messages)
        BY <1>0, <1>1
    <2> QED BY <1>0, <2>1 DEF RecordShell
<1>4. AgentTyped'
    BY <1>3 DEF RecordShell, Typed, AgentTyped, queues
<1>5. /\ entries' \in Seq(Messages) /\ CutsInside(entries') /\ Len(entries) \in Nat
      /\ Len(entries') = Len(entries) \/ Len(entries') = Len(entries) + 1
    <2>1. /\ Append(entries, Shell) \in Seq(Messages) /\ CutsInside(Append(entries, Shell))
          /\ Len(Append(entries, Shell)) = Len(entries) + 1
        BY <1>0, <1>1, CutsAppend
    <2> QED BY <1>0, <2>1 DEF RecordShell
<1>6. pending' \in Nat
    BY DEF RecordShell, Typed, SessionTyped
<1>7. SessionTyped'
    BY <1>2, <1>5, <1>6 DEF RecordShell, Typed, SessionTyped
<1>8. pending' > 0 => active
    BY DEF RecordShell, Deferred, Typed, Paced
<1> QED BY <1>4, <1>7, <1>8 DEF RecordShell, Typed, Paced, Running, At

LEMMA AfterRunTyped ==
    ASSUME Typed, PrepareRetry \/ Recover \/ CompactThreshold
    PROVE  Typed'
<1>1. messages' \in Seq(Messages)
    BY DropType DEF PrepareRetry, Recover, CompactThreshold, Typed, AgentTyped, agent
<1>2. AgentTyped'
    BY <1>1 DEF PrepareRetry, Recover, CompactThreshold, Typed, AgentTyped, agent, queues
<1>3. attempt' \in 0..MaxRetries
    <2>1. attempt \in 0..MaxRetries
        BY DEF Typed, SessionTyped
    <2>2. CASE PrepareRetry
        BY <2>1, <2>2, Naturals DEF PrepareRetry
    <2>3. CASE Recover
        BY <2>1, <2>3, AfterRetryType DEF Recover
    <2>4. CASE CompactThreshold
        BY <2>1, <2>4, AfterRetryType DEF CompactThreshold
    <2> QED BY <2>2, <2>3, <2>4
<1>4. CASE PrepareRetry
    <2>1. SessionTyped'
        BY <1>3, <1>4 DEF PrepareRetry, Typed, SessionTyped, CutsInside, Points
    <2> QED BY <1>2, <1>4, <2>1 DEF PrepareRetry, Typed, Paced, Running, At
<1>5. CASE Recover \/ CompactThreshold
    <2>1. CASE \E retry \in BOOLEAN : Compacting(retry)
        <3>1. /\ job' \in Jobs /\ job'.after = Onward /\ Onward \in {"launch", "decide"}
              /\ job'.cut \in 1..Len(entries) /\ at' = "compacting"
            BY <2>1, CompactingType
        <3>3. at \in {"preflight", "post", "cancelled"} /\ (Onward = "decide" <=> at # "preflight")
            BY <1>5 DEF Recover, Recoverable, CompactThreshold, Checked, Onward
        <3>6. Onward = "launch" => next \in UserMessages
            BY <3>3 DEF Typed, SessionTyped
        <3>2. SessionTyped'
            BY <1>3, <1>5, <3>1, <3>6
               DEF Recover, CompactThreshold, Typed, SessionTyped, CutsInside, Points
        <3>4. /\ run' = run /\ active' = active /\ pending' = pending
            BY <1>5 DEF Recover, CompactThreshold, agent
        <3>5. Paced'
            BY <3>1, <3>3, <3>4 DEF Typed, Paced, Running, At
        <3> QED BY <1>2, <3>2, <3>5 DEF Typed
    <2>2. CASE Recover /\ at' = Onward /\ UNCHANGED job
        <3>1. at \in {"preflight", "post", "cancelled"} /\ (Onward = "decide" <=> at # "preflight")
              /\ Onward \in {"launch", "decide"} /\ (Onward = "launch" <=> at = "preflight")
            BY <2>2 DEF Recover, Recoverable, Checked, Onward
        <3>2. SessionTyped'
            BY <1>3, <2>2, <3>1 DEF Recover, Typed, SessionTyped, CutsInside, Points
        <3> QED BY <1>2, <2>2, <3>1, <3>2 DEF Recover, Typed, Paced, Running, At
    <2> QED BY <1>5, <2>1, <2>2 DEF Recover, CompactThreshold
<1> QED BY <1>4, <1>5

LEMMA LaunchTyped == ASSUME Typed, Launch PROVE Typed'
<1>1. next \in UserMessages
    BY DEF Launch, Typed, SessionTyped
<1>2. AgentTyped'
    BY <1>1, StartPromptType DEF Launch, Typed
<1>3. SessionTyped'
    BY MessageTypes DEF Launch, Typed, SessionTyped, CutsInside, Points
<1>4. run'.at = "prompts"
    BY NoRunType DEF Launch, StartPrompt, Started, Runs
<1> QED BY <1>2, <1>3, <1>4 DEF Launch, Typed, Paced, Running, At

LEMMA CompactionTyped ==
    ASSUME Typed, CompactManually \/ CompactionFails
    PROVE  Typed'
<1>1. CASE CompactManually
    <2>1. AgentTyped'
        BY <1>1 DEF CompactManually, Typed, AgentTyped, agent, queues
    <2>2. PICK cut \in Cuts(entries) : job' = [after |-> "idle", retry |-> FALSE, cut |-> cut]
        BY <1>1 DEF CompactManually
    <2>3. cut \in 2..Len(entries) /\ Len(entries) \in Nat
        BY CutsType DEF Typed, SessionTyped
    <2>4. job' \in Jobs /\ job'.after = "idle" /\ job'.cut \in 1..Len(entries)
        BY <2>2, <2>3 DEF Jobs
    <2>5. SessionTyped'
        BY <1>1, <2>4 DEF CompactManually, Typed, SessionTyped, CutsInside, Points
    <2> QED BY <1>1, <2>1, <2>4, <2>5
            DEF CompactManually, Typed, Paced, Running, At, agent
<1>2. CASE CompactionFails
    <2>1. AgentTyped'
        BY <1>2 DEF CompactionFails, Typed, AgentTyped, agent, queues
    <2>2. NoJob \in Jobs /\ job.after \in {"idle", "launch", "decide"}
        BY <1>2 DEF CompactionFails, Typed, SessionTyped, Jobs, NoJob
    <2>3. SessionTyped'
        BY <1>2, <2>2 DEF CompactionFails, Typed, SessionTyped, CutsInside, Points
    <2> QED BY <1>2, <2>1, <2>2, <2>3
            DEF CompactionFails, Typed, Paced, Running, At, agent
<1> QED BY <1>1, <1>2

LEMMA RestoredType ==
    ASSUME NEW s \in Seq(Messages), CutsInside(s), NEW retry
    PROVE  Restored(s, retry) \in Seq(Messages)
BY RebuiltType, DropType DEF Restored

LEMMA CompactionDoneTyped == ASSUME Typed, CompactionDone PROVE Typed'
<1>0. /\ entries \in Seq(Messages) /\ CutsInside(entries) /\ job \in Jobs
      /\ job.cut \in 1..Len(entries) /\ Len(entries) \in Nat /\ clock \in Nat
      /\ job.after \in {"idle", "launch", "decide"} /\ job.cut \in Nat
    BY DEF CompactionDone, Typed, SessionTyped, AgentTyped, Jobs
<1>1. Summary(job.cut) \in Messages /\ Summary(job.cut).n = job.cut
    BY <1>0, MessageTypes DEF Summary, Message
<1>2. entries' = Append(entries, Summary(job.cut))
    BY DEF CompactionDone
<1>3. entries' \in Seq(Messages) /\ CutsInside(entries')
    BY <1>0, <1>1, <1>2, CutsAppend
<1>4. messages' \in Seq(Messages)
    BY <1>3, RestoredType DEF CompactionDone
<1>5. AgentTyped'
    BY <1>0, <1>4 DEF CompactionDone, Typed, AgentTyped, queues
<1>6. NoJob \in Jobs
    BY DEF Jobs, NoJob
<1>7. at' \in {"idle", "launch", "decide", "continue"} /\ (at' = "continue" => job.after = "decide")
      /\ (at' # "continue" => at' = job.after)
    BY <1>0 DEF CompactionDone
<1>8. SessionTyped'
    BY <1>0, <1>3, <1>6, <1>7 DEF CompactionDone, Typed, SessionTyped, Points
<1>9. at = "compacting" /\ run' = run /\ active' = active /\ pending' = pending
    BY DEF CompactionDone
<1>10. Paced'
    BY <1>7, <1>9, <1>0 DEF Typed, Paced, Running, At
<1> QED BY <1>5, <1>8, <1>10 DEF Typed

LEMMA ContinueStarts ==
    ASSUME AgentTyped, Continue
    PROVE  run'.at \in {"steer", "prompts"} /\ messages' = messages
<1> SUFFICES ASSUME NEW prompts, NEW skip
             PROVE  Started(prompts, skip).at \in {"steer", "prompts"}
    BY DEF Continue
<1> QED BY NoRunType DEF Started, Runs

LEMMA ResumeTyped == ASSUME Typed, Resume PROVE Typed'
<1>1. AgentTyped'
    BY ContinueType DEF Resume, Typed
<1>2. attempt' \in 0..MaxRetries
    BY AfterRetryType DEF Resume, Typed, SessionTyped
<1>3. SessionTyped'
    BY <1>2, MessageTypes DEF Resume, Typed, SessionTyped, CutsInside, Points
<1>4. run'.at # "idle" /\ at # "compacting" /\ at \notin {"idle", "preflight", "launch"}
    BY ContinueStarts DEF Resume, Due, Over, Typed
<1> QED BY <1>1, <1>3, <1>4 DEF Resume, Typed, Paced, Running, At

LEMMA SettleTyped == ASSUME Typed, Settle PROVE Typed'
<1>0. /\ entries \in Seq(Messages) /\ CutsInside(entries) /\ messages \in Seq(Messages)
      /\ pending \in Nat /\ attempt \in 0..MaxRetries /\ stranded \in BOOLEAN
    BY DEF Typed, AgentTyped, SessionTyped
<1>1. messages' = messages \o Shells(pending) /\ entries' = entries \o Shells(pending)
    BY DEF Settle, Shells
<1>2. messages' \in Seq(Messages)
    BY <1>0, <1>1, ShellsGrow, ConcatProperties
<1>3. entries' \in Seq(Messages) /\ CutsInside(entries')
    BY <1>0, <1>1, CutsShells
<1>4. AgentTyped'
    BY <1>2 DEF Settle, Typed, AgentTyped, queues
<1>5. attempt' \in 0..MaxRetries
    BY <1>0, AfterRetryType DEF Settle
<1>6. SessionTyped'
    <2>1. stranded' \in BOOLEAN
        BY <1>0 DEF Settle
    <2> QED BY <1>3, <1>5, <2>1, MessageTypes DEF Settle, Typed, SessionTyped, Points
<1>7. ~Running /\ at # "running"
    BY DEF Settle, Throws, Due, Over, Typed, Paced
<1> QED BY <1>4, <1>6, <1>7 DEF Settle, Typed, Paced, Running, At

LEMMA AbortTyped == ASSUME Typed, Abort PROVE Typed'
<1>1. /\ run' = [run EXCEPT !.aborted = Running] /\ run \in Runs /\ messages' = messages
      /\ steering' = steering /\ followUp' = followUp /\ spent' = spent /\ clock' = clock
    BY DEF Abort, AbortRun, Typed, AgentTyped, queues
<1>2. run' \in Runs /\ run'.rest = run.rest /\ run'.at = run.at
    BY <1>1 DEF Runs, Running
<1>3. AgentTyped'
    BY <1>1, <1>2 DEF Typed, AgentTyped
<1>4. attempt' \in 0..MaxRetries /\ at' \in Points
    BY Naturals DEF Abort, Typed, SessionTyped, Points
<1>5. used' \in [inputs : 0..MaxInputs, breaks : Nat]
    <2>1. used \in [inputs : 0..MaxInputs, breaks : Nat]
        BY DEF Typed, SessionTyped
    <2>2. used' = [used EXCEPT !.breaks = @ + 1]
        BY DEF Abort
    <2> QED BY <2>1, <2>2
<1>6. quiet' \in BOOLEAN
    BY DEF Abort, Typed, SessionTyped
<1>7. SessionTyped'
    BY <1>4, <1>5, <1>6 DEF Abort, Typed, SessionTyped, CutsInside
<1>8. ~Running => run' = NoRun
    <2> SUFFICES ASSUME ~Running PROVE run' = NoRun
        OBVIOUS
    <2>1. run = NoRun
        BY DEF Typed, Paced
    <2> QED BY <1>1, <2>1 DEF NoRun, Running, At
<1>9. Paced'
    BY <1>2, <1>8 DEF Abort, Typed, Paced, Running, At
<1> QED BY <1>3, <1>7, <1>9 DEF Typed

LEMMA RestartTyped == ASSUME Typed, Restart PROVE Typed'
<1>0. entries \in Seq(Messages) /\ CutsInside(entries) /\ <<>> \in Seq(Messages)
      /\ CutsInside(<<>>) /\ <<>> \in Seq(UserMessages)
    BY DEF Typed, SessionTyped, CutsInside, Compactions
<1>1. Kept \in Seq(Messages) /\ CutsInside(Kept)
    BY <1>0 DEF Kept
<1>2. messages' \in Seq(Messages)
    BY <1>1, RebuiltType DEF Restart
<1>3. AgentTyped'
    BY <1>0, <1>2, NoRunType DEF Restart, Typed, AgentTyped
<1>4. NoJob \in Jobs /\ None \in Messages /\ 0 \in 0..MaxRetries
    BY MessageTypes, Naturals DEF NoJob, Jobs
<1>5. used' \in [inputs : 0..MaxInputs, breaks : Nat]
    <2>1. used \in [inputs : 0..MaxInputs, breaks : Nat]
        BY DEF Typed, SessionTyped
    <2>2. used' = [used EXCEPT !.breaks = @ + 1]
        BY DEF Restart
    <2> QED BY <2>1, <2>2
<1>6. SessionTyped'
    BY <1>0, <1>1, <1>4, <1>5 DEF Restart, Typed, SessionTyped, Points
<1> QED BY <1>3, <1>6, NoRunType DEF Restart, Typed, Paced, Running, At

LEMMA NextTyped == ASSUME Typed, [Next]_vars PROVE Typed'
<1>1. CASE RunStep
    BY <1>1, RunStepTyped
<1>2. CASE RunEnds
    BY <1>2, RunEndsTyped
<1>3. CASE Launch
    BY <1>3, LaunchTyped
<1>4. CASE PrepareRetry \/ Recover \/ CompactThreshold
    BY <1>4, AfterRunTyped
<1>5. CASE CompactionDone
    BY <1>5, CompactionDoneTyped
<1>6. CASE CompactManually \/ CompactionFails
    BY <1>6, CompactionTyped
<1>7. CASE Resume
    BY <1>7, ResumeTyped
<1>8. CASE Settle
    BY <1>8, SettleTyped
<1>9. CASE (\E kind \in {"steer", "followUp"} : Queue(kind)) \/ Prompt \/ ClearQueue
    BY <1>9, PromptsTyped
<1>10. CASE RecordShell
    BY <1>10, RecordShellTyped
<1>11. CASE Abort
    BY <1>11, AbortTyped
<1>12. CASE Restart
    BY <1>12, RestartTyped
<1>13. CASE UNCHANGED vars
    BY <1>13 DEF vars, session, agent, queues, Typed, AgentTyped, SessionTyped, Paced,
                 CutsInside, Running, At
<1> QED BY <1>1, <1>2, <1>3, <1>4, <1>5, <1>6, <1>7, <1>8, <1>9, <1>10, <1>11, <1>12, <1>13
        DEF Next, SessionStep, ClientStep

LEMMA InitTyped == Init => Typed
<1> SUFFICES ASSUME Init PROVE Typed
    OBVIOUS
<1>1. <<>> \in Seq(Messages) /\ <<>> \in Seq(UserMessages) /\ CutsInside(<<>>)
    BY DEF CutsInside, Compactions
<1>2. NoJob \in Jobs /\ None \in Messages /\ 0 \in 0..MaxRetries
    BY MessageTypes, Naturals DEF NoJob, Jobs
<1>3. AgentTyped
    BY <1>1, NoRunType DEF Init, AgentInit, AgentTyped
<1>4. Unused \in [inputs : 0..MaxInputs, breaks : Nat]
    BY Naturals DEF Unused
<1>5. SessionTyped
    BY <1>1, <1>2, <1>4 DEF Init, SessionTyped, Points
<1> QED BY <1>3, <1>5, NoRunType DEF Init, AgentInit, Typed, Paced, Running, At

\* The types are an invariant, whatever the bounds are.
THEOREM SpecTyped == Spec => []Typed
BY InitTyped, NextTyped, PTL DEF Spec

\* isStreaming covers a run and everything that follows it, and without a run nothing of
\* the last one is left, for any number of inputs, retries, compactions and breaks.
THEOREM SessionTypes == Spec => []TypeOK
<1>1. Typed => TypeOK
    <2> SUFFICES ASSUME Typed PROVE TypeOK
        OBVIOUS
    <2>1. steering \in Seq(Messages) /\ followUp \in Seq(Messages) /\ run.at \in Places
        BY UserTypes, RunParts DEF Typed, AgentTyped
    <2> QED BY <2>1 DEF Typed, AgentTyped, SessionTyped, Paced, TypeOK
<1> QED BY <1>1, SpecTyped, PTL

-----------------------------------------------------------------------------
(***************************************************************************)
(* The context of a run                                                    *)
(***************************************************************************)
\* The results of a batch, as they reach the transcript.
Results(n) == [c \in 1..n |-> Result(c)]

\* What a run has of the transcript at each of its points: its prompts before they are
\* emitted, all of it between turns, and all but the results of a batch within one.
Held ==
    /\ run.at = "prompts" => run.context = messages \o run.rest
    /\ run.at \in {"steer", "followUp", "inject", "request", "refused", "closing", "end"}
          => run.context = messages /\ run.given = 0
    /\ run.at = "prompts" => run.given = 0
    /\ run.at \in {"prepare", "check", "results"} => messages = run.context \o Results(run.given)

LEMMA ResultsGrow ==
    ASSUME NEW n \in Nat
    PROVE  /\ Results(n) \in Seq(Messages) /\ Len(Results(n)) = n
           /\ Results(0) = <<>> /\ Results(n + 1) = Append(Results(n), Result(n + 1))
<1>1. \A j \in Nat : Result(j) \in Messages
    BY MessageTypes
<1>2. \A j \in Nat : Results(j) \in Seq(Messages) /\ Len(Results(j)) = j
    BY <1>1, IsASeq DEF Results
<1>3. Results(0) = <<>>
    BY <1>2, EmptySeq
<1>4. \A j \in Nat : \A k \in 1..j : Results(j)[k] = Result(k)
    BY DEF Results
<1> DEFINE t == Append(Results(n), Result(n + 1))
<1>5. /\ t \in Seq(Messages) /\ Len(t) = n + 1 /\ t[n + 1] = Result(n + 1)
      /\ \A k \in 1..n : t[k] = Results(n)[k]
    BY <1>1, <1>2
<1> HIDE DEF t
<1>6. \A k \in 1..(n + 1) : k \in 1..n \/ k = n + 1
    OBVIOUS
<1>7. \A k \in 1..(n + 1) : t[k] = Results(n + 1)[k]
    BY <1>4, <1>5, <1>6, n + 1 \in Nat
<1>8. Results(n + 1) = t
    BY <1>2, <1>5, <1>7, SeqEqual
<1> QED BY <1>2, <1>3, <1>8 DEF t

LEMMA TurnedHeld ==
    ASSUME NEW r \in Runs
    PROVE  /\ Turned(r).at = "steer" /\ Turned(r).given = 0 /\ Turned(r).rest = r.rest
           /\ Turned(r).context = r.context \o Results(r.given)
BY DEF Turned, Runs, Results

LEMMA HeldInit == run = NoRun => Held
BY NoRunType DEF Held

LEMMA HeadMoves ==
    ASSUME NEW s \in Seq(Messages), NEW t \in Seq(Messages), t # <<>>
    PROVE  s \o t = Append(s, Head(t)) \o Tail(t)
<1>1. /\ Head(t) = t[1] /\ Head(t) \in Messages /\ Tail(t) \in Seq(Messages)
      /\ Len(Tail(t)) = Len(t) - 1 /\ Len(t) \in Nat \ {0} /\ Len(s) \in Nat
    BY LastType
<1>2. \A k \in 1..(Len(t) - 1) : Tail(t)[k] = t[k + 1]
    OBVIOUS
<1> DEFINE a == Append(s, Head(t))
<1>3. a \in Seq(Messages) /\ Len(a) = Len(s) + 1 /\ a[Len(s) + 1] = t[1]
      /\ \A k \in 1..Len(s) : a[k] = s[k]
    BY <1>1
<1> HIDE DEF a
<1>7. a \o Tail(t) \in Seq(Messages) /\ Len(a \o Tail(t)) = Len(a) + Len(Tail(t))
    BY <1>1, <1>3, ConcatProperties
<1>8. s \o t \in Seq(Messages) /\ Len(s \o t) = Len(s) + Len(t)
    BY ConcatProperties
<1>4. /\ a \o Tail(t) \in Seq(Messages) /\ Len(a \o Tail(t)) = Len(s) + Len(t)
      /\ s \o t \in Seq(Messages) /\ Len(s \o t) = Len(s) + Len(t)
    BY <1>1, <1>3, <1>7, <1>8
<1>5. ASSUME NEW k \in 1..(Len(s) + Len(t)) PROVE (a \o Tail(t))[k] = (s \o t)[k]
    <2>1. CASE k <= Len(s)
        BY <1>1, <1>3, <2>1, ConcatProperties
    <2>2. CASE k = Len(s) + 1
        BY <1>1, <1>3, <2>2, ConcatProperties
    <2>3. CASE k > Len(s) + 1
        <3>1. (a \o Tail(t))[k] = Tail(t)[k - (Len(s) + 1)]
            BY <1>1, <1>3, <2>3, ConcatProperties
        <3>2. k - (Len(s) + 1) \in 1..(Len(t) - 1) /\ k - (Len(s) + 1) + 1 = k - Len(s)
            BY <1>1, <2>3
        <3>3. (s \o t)[k] = t[k - Len(s)]
            BY <1>1, <2>3, ConcatProperties
        <3> QED BY <1>2, <3>1, <3>2, <3>3
    <2>4. k \in Nat /\ (k <= Len(s) \/ k = Len(s) + 1 \/ k > Len(s) + 1)
        BY <1>1
    <2> QED BY <2>1, <2>2, <2>3, <2>4
<1>6. a \o Tail(t) = s \o t
    BY <1>4, <1>5, SeqEqual
<1> QED BY <1>6 DEF a

LEMMA DeliverPromptHeld == ASSUME AgentTyped, Held, DeliverPrompt PROVE Held'
<1>0. run \in Runs /\ run.rest \in Seq(UserMessages) /\ messages \in Seq(Messages)
    BY RunParts DEF AgentTyped
<1>1. run.rest # <<>> /\ run.at = "prompts" /\ Head(run.rest) \in Messages
    BY UserTypes, DeliverPromptType, MessageTypes DEF DeliverPrompt, At
<1>2. Tail(run.rest) = <<>> <=> Len(run.rest) = 1
    BY <1>0, <1>1, LastType
<1>3. messages \o run.rest = Append(messages, Head(run.rest)) \o Tail(run.rest)
    BY <1>0, <1>1, UserTypes, HeadMoves
<1>4. Append(messages, Head(run.rest)) \o <<>> = Append(messages, Head(run.rest))
    BY <1>0, <1>1, ConcatEmptySeq
<1>5. /\ run'.context = run.context /\ run'.rest = Tail(run.rest) /\ run'.given = run.given
      /\ run'.at = IF Len(run.rest) = 1 THEN "steer" ELSE "prompts"
      /\ messages' = Append(messages, Head(run.rest))
    BY <1>0, <1>1 DEF DeliverPrompt, Runs
<1> QED BY <1>1, <1>2, <1>3, <1>4, <1>5 DEF Held

LEMMA PollHeld == ASSUME AgentTyped, Held, PollSteering \/ PollFollowUp PROVE Held'
<1>0. run \in Runs
    BY DEF AgentTyped
<1>1. /\ run'.context = run.context /\ run'.given = run.given /\ messages' = messages
      /\ run'.at \in {"inject", "request", "refused", "followUp", "end"}
      /\ run.at \in {"steer", "followUp"}
    <2>1. CASE PollSteering
        BY <1>0, <2>1 DEF PollSteering, Runs, At, Asking
    <2>2. CASE PollFollowUp
        BY <1>0, <2>2 DEF PollFollowUp, Runs, At
    <2> QED BY <2>1, <2>2
<1> QED BY <1>1 DEF Held

LEMMA InjectHeld == ASSUME AgentTyped, Held, Inject PROVE Held'
<1>0. run \in Runs
    BY DEF AgentTyped
<1>1. /\ run'.context = Append(run.context, Head(run.rest)) /\ run'.given = run.given
      /\ messages' = Append(messages, Head(run.rest)) /\ run.at = "inject"
      /\ run'.at \in {"inject", "request", "refused"}
    BY <1>0 DEF Inject, Runs, At, Asking
<1> QED BY <1>1 DEF Held

LEMMA RespondHeld ==
    ASSUME AgentTyped, Held, NEW stop \in Stops, NEW calls \in 0..MaxCalls, Respond(stop, calls)
    PROVE  Held'
<1>0. run \in Runs /\ calls \in Nat
    BY Naturals DEF AgentTyped
<1>1. /\ run'.context = Append(run.context, Answer(stop, calls)) /\ run'.given = run.given
      /\ messages' = Append(messages, Answer(stop, calls)) /\ run.at \in {"request", "refused"}
      /\ run'.at = After(stop, calls)
    BY <1>0 DEF Respond, Runs, At, Answers
<1>2. run'.at \in {"closing", "steer", "results", "prepare"}
    BY <1>0, <1>1, AfterPlace
<1>3. messages' = run'.context /\ run'.given = 0
    BY <1>1 DEF Held
<1>4. messages' \in Seq(Messages)
    BY RespondType DEF AgentTyped
<1>5. Results(0) = <<>> /\ messages' \o <<>> = messages'
    BY <1>4, ResultsGrow, ConcatEmptySeq
<1> QED BY <1>2, <1>3, <1>5 DEF Held

LEMMA BatchHeld ==
    ASSUME AgentTyped, Held,
           PrepareCall \/ CheckSignal \/ \E c \in 1..MaxCalls : FinishCall(c)
    PROVE  Held'
<1>0. run \in Runs
    BY DEF AgentTyped
<1>1. CASE PrepareCall
    <2>1. /\ run'.context = run.context /\ run'.given = run.given /\ messages' = messages
          /\ run'.at \in {"check", "results"} /\ run.at = "prepare"
        BY <1>0, <1>1 DEF PrepareCall, Runs, At
    <2> QED BY <2>1 DEF Held
<1>2. CASE CheckSignal
    <2>1. /\ messages' = messages /\ run.at = "check"
          /\ run' \in {[run EXCEPT !.at = "prepare"], [run EXCEPT !.at = "results"], Turned(run)}
        BY <1>2 DEF CheckSignal, At
    <2>2. CASE run' = Turned(run)
        BY <1>0, <2>1, <2>2, TurnedHeld DEF Held
    <2>3. CASE run' # Turned(run)
        <3>1. /\ run'.context = run.context /\ run'.given = run.given
              /\ run'.at \in {"prepare", "results"}
            BY <1>0, <2>1, <2>3 DEF Runs
        <3> QED BY <2>1, <3>1 DEF Held
    <2> QED BY <2>2, <2>3
<1>3. CASE \E c \in 1..MaxCalls : FinishCall(c)
    <2>1. /\ run'.context = run.context /\ run'.given = run.given /\ messages' = messages
          /\ run'.at = "results" /\ run.at = "results"
        BY <1>0, <1>3 DEF FinishCall, Runs, At
    <2> QED BY <2>1 DEF Held
<1> QED BY <1>1, <1>2, <1>3

LEMMA GiveResultHeld == ASSUME AgentTyped, Held, GiveResult PROVE Held'
<1> DEFINE r == [run EXCEPT !.given = @ + 1]
<1>0. run \in Runs /\ run.given \in Nat /\ run.context \in Seq(Messages) /\ run.at = "results"
    BY RunParts DEF AgentTyped, GiveResult, At
<1>1. r \in Runs /\ r.at = "results" /\ r.context = run.context /\ r.given = run.given + 1
    BY <1>0 DEF Runs
<1>2. messages' = run.context \o Results(run.given + 1)
    <2>1. messages' = Append(run.context \o Results(run.given), Result(run.given + 1))
        BY <1>0 DEF GiveResult, Held
    <2>2. /\ Results(run.given) \in Seq(Messages)
          /\ Results(run.given + 1) = Append(Results(run.given), Result(run.given + 1))
        BY <1>0, ResultsGrow
    <2>3. Result(run.given + 1) \in Messages
        BY GiveResultType
    <2> QED BY <1>0, <2>1, <2>2, <2>3, ConcatAppend
<1>3. run' \in {r, Turned(r), [r EXCEPT !.at = "check"]}
    BY DEF GiveResult
<1> HIDE DEF r
<1>4. CASE run' = Turned(r)
    BY <1>1, <1>2, <1>4, TurnedHeld DEF Held
<1>5. CASE run' # Turned(r)
    <2>1. /\ run'.context = run.context /\ run'.given = run.given + 1
          /\ run'.at \in {"check", "results"}
        BY <1>1, <1>3, <1>5 DEF Runs
    <2> QED BY <1>2, <2>1 DEF Held
<1> QED BY <1>4, <1>5

LEMMA CloseRunHeld == ASSUME AgentTyped, Held, CloseRun PROVE Held'
<1>1. /\ run.at = "closing" /\ run'.at = "end" /\ messages' = messages
      /\ run'.context = run.context /\ run'.given = run.given
    BY DEF CloseRun, At, AgentTyped, Runs
<1> QED BY <1>1 DEF Held

LEMMA AgentStepHeld == ASSUME AgentTyped, Held, AgentStep PROVE Held'
BY DeliverPromptHeld, PollHeld, InjectHeld, RespondHeld, BatchHeld, GiveResultHeld,
   CloseRunHeld DEF AgentStep

LEMMA StartedHeld ==
    ASSUME messages \in Seq(Messages), NEW prompts \in Seq(UserMessages), NEW skip,
           run' = Started(prompts, skip), messages' = messages
    PROVE  Held'
<1>1. /\ run'.context = messages \o prompts /\ run'.rest = prompts /\ run'.given = 0
      /\ run'.at = IF prompts = <<>> THEN "steer" ELSE "prompts"
    BY NoRunType DEF Started, NoRun
<1>2. messages \o <<>> = messages
    BY ConcatEmptySeq
<1> QED BY <1>1, <1>2 DEF Held

LEMMA ContinueHeld == ASSUME AgentTyped, Continue PROVE Held'
<1>1. <<>> \in Seq(UserMessages)
    OBVIOUS
<1>2. \A q \in Seq(UserMessages), mode \in QueueModes : Taken(q, mode) \in Seq(UserMessages)
    BY QueueTypes
<1>3. SteeringMode \in QueueModes /\ FollowUpMode \in QueueModes
    BY AgentAssumption
<1> QED BY <1>1, <1>2, <1>3, StartedHeld DEF Continue, AgentTyped

\* Between the steps of a run the transcript is the agent's alone.
LEMMA NextHeld == ASSUME Typed, Held, [Next]_vars PROVE Held'
<1>1. CASE RunStep
    BY <1>1, AgentStepHeld DEF RunStep, Typed
<1>2. CASE Launch
    <2>1. <<next>> \in Seq(UserMessages) /\ messages \in Seq(Messages)
        BY <1>2 DEF Launch, Typed, SessionTyped, AgentTyped
    <2> QED BY <1>2, <2>1, StartedHeld DEF Launch, StartPrompt
<1>3. CASE Resume
    BY <1>3, ContinueHeld DEF Resume, Typed
<1>4. CASE RunEnds \/ Restart
    BY <1>4, NoRunType DEF RunEnds, EndRun, Restart, Held
<1>5. CASE RunEnds \/ Restart \/ (at # "running" /\ run' = run)
    <2>1. at # "running" => run = NoRun
        BY DEF Typed, Paced
    <2> QED BY <1>4, <1>5, <2>1, NoRunType DEF Held
<1>6. CASE PrepareRetry \/ Recover \/ CompactThreshold \/ CompactionDone \/ CompactionFails
           \/ CompactManually \/ Prompt
    <2>1. at # "running" /\ run' = run
        BY <1>6 DEF PrepareRetry, Recover, CompactThreshold, CompactionDone, CompactionFails,
                    CompactManually, Prompt, Recoverable, Checked, agent
    <2> QED BY <2>1, <1>5
<1>7. CASE Settle
    <2>1. at # "running" /\ run' = run
        BY <1>7 DEF Settle, Throws, Due, Over, Typed, Paced
    <2> QED BY <2>1, <1>5
<1>8. CASE (\E kind \in {"steer", "followUp"} : Queue(kind)) \/ ClearQueue \/ UNCHANGED vars
    BY <1>8 DEF Queue, ClearQueue, Held, vars, agent
<1>9. CASE RecordShell
    <2>1. run' = run /\ (at = "running" => messages' = messages)
        BY <1>9 DEF RecordShell, Deferred, Typed, Paced
    <2> QED BY <2>1, <1>5 DEF Held
<1>10. CASE Abort
    <2>1. /\ run'.at = run.at /\ run'.context = run.context /\ run'.rest = run.rest
          /\ run'.given = run.given /\ messages' = messages
        BY <1>10 DEF Abort, AbortRun, Typed, AgentTyped, Runs
    <2> QED BY <2>1 DEF Held
<1> QED BY <1>1, <1>2, <1>3, <1>4, <1>6, <1>7, <1>8, <1>9, <1>10
        DEF Next, SessionStep, ClientStep

LEMMA SpecHeld == Spec => []Held
<1>1. Init => Held
    BY HeldInit DEF Init, AgentInit
<1>2. Typed /\ Held /\ [Next]_vars => Held'
    BY NextHeld
<1> QED BY <1>1, <1>2, SpecTyped, PTL DEF Spec

\* Whatever was injected, aborted, compacted or run in the shell in between, the copy of
\* a run and the transcript of the agent agree whenever the provider is asked.
THEOREM RequestsCarryTheTranscript == Spec => []ContextIsTranscript
<1>1. Held => ContextIsTranscript
    BY DEF Held, ContextIsTranscript, At
<1> QED BY <1>1, SpecHeld, PTL

-----------------------------------------------------------------------------
(***************************************************************************)
(* The end of a sequence, and what is rebuilt of it                        *)
(***************************************************************************)
LEMMA SplitLast ==
    ASSUME NEW S, NEW s \in Seq(S), s # <<>>
    PROVE  /\ Front(s) \in Seq(S) /\ Len(Front(s)) = Len(s) - 1 /\ Last(s) \in S
           /\ s = Append(Front(s), Last(s)) /\ \A k \in 1..(Len(s) - 1) : Front(s)[k] = s[k]
<1>1. Len(s) \in Nat \ {0} /\ Last(s) = s[Len(s)] /\ Last(s) \in S
    BY LastType, SMTT(20)
<1>2. /\ Front(s) \in Seq(S) /\ Len(Front(s)) = Len(s) - 1
      /\ \A k \in 1..(Len(s) - 1) : Front(s)[k] = s[k]
    <2>1. 1 \in Int /\ Len(s) - 1 \in Int /\ \A k \in 1..(Len(s) - 1) : s[k] \in S
        BY <1>1
    <2>2. /\ Front(s) \in Seq(S)
          /\ Len(Front(s)) = IF 1 <= Len(s) - 1 THEN Len(s) - 1 - 1 + 1 ELSE 0
          /\ \A k \in 1..(Len(s) - 1 - 1 + 1) : Front(s)[k] = s[1 + k - 1]
        BY <2>1, SubSeqProperties DEF Front
    <2>3. Len(s) - 1 - 1 + 1 = Len(s) - 1 /\ \A k \in 1..(Len(s) - 1) : 1 + k - 1 = k
        BY <1>1
    <2>5. \A n \in Nat \ {0} : (IF 1 <= n - 1 THEN n - 1 - 1 + 1 ELSE 0) = n - 1
        OBVIOUS
    <2>4. (IF 1 <= Len(s) - 1 THEN Len(s) - 1 - 1 + 1 ELSE 0) = Len(s) - 1
        BY <1>1, <2>5
    <2> QED BY <2>2, <2>3, <2>4
<1> DEFINE t == Append(Front(s), Last(s))
<1>3. /\ t \in Seq(S) /\ Len(t) = Len(s) /\ t[Len(s)] = s[Len(s)]
      /\ \A k \in 1..(Len(s) - 1) : t[k] = s[k]
    BY <1>1, <1>2
<1> HIDE DEF t
<1>4. \A k \in 1..Len(s) : t[k] = s[k]
    <2>1. \A k \in 1..Len(s) : k = Len(s) \/ k \in 1..(Len(s) - 1)
        BY <1>1
    <2> QED BY <1>3, <2>1
<1>5. t = s
    BY <1>3, <1>4, SeqEqual
<1> QED BY <1>1, <1>2, <1>5 DEF t

LEMMA EndsAppend ==
    ASSUME NEW s \in Seq(Messages), NEW m \in Messages
    PROVE  /\ Append(s, m) \in Seq(Messages) /\ Append(s, m) # <<>> /\ Last(Append(s, m)) = m
           /\ Len(Append(s, m)) = Len(s) + 1 /\ Len(s) \in Nat
           /\ \A k \in 1..Len(s) : Append(s, m)[k] = s[k]
           /\ EndsWithAnswer(Append(s, m)) <=> IsAnswer(m)
           /\ Front(Append(s, m)) = s
           /\ DropAnswer(Append(s, m)) = IF IsAnswer(m) THEN s ELSE Append(s, m)
<1> DEFINE t == Append(s, m)
<1>1. /\ t \in Seq(Messages) /\ Len(t) = Len(s) + 1 /\ t[Len(s) + 1] = m /\ Len(s) \in Nat
      /\ \A k \in 1..Len(s) : t[k] = s[k]
    OBVIOUS
<1>2. t # <<>> /\ Len(t) - 1 = Len(s)
    BY <1>1
<1> HIDE DEF t
<1>3. Last(t) = m
    BY <1>1, <1>2, LastType
<1>4. EndsWithAnswer(t) <=> IsAnswer(m)
    BY <1>2, <1>3 DEF EndsWithAnswer
<1>5. Front(t) = s
    <2>1. /\ Front(t) \in Seq(Messages) /\ Len(Front(t)) = Len(s)
          /\ \A k \in 1..Len(s) : Front(t)[k] = s[k]
        BY <1>1, <1>2, SplitLast
    <2> QED BY <2>1, SeqEqual
<1>6. DropAnswer(t) = IF IsAnswer(m) THEN s ELSE t
    BY <1>4, <1>5 DEF DropAnswer, Front
<1> QED BY <1>1, <1>2, <1>3, <1>4, <1>5, <1>6 DEF t

\* An answer that failed leaves nothing behind when it is dropped.
LEMMA LastingDrop ==
    ASSUME NEW s \in Seq(Messages), EndsWithAnswer(s) => Failed(Last(s))
    PROVE  Lasting(DropAnswer(s)) = Lasting(s)
<1>1. CASE ~EndsWithAnswer(s)
    BY <1>1 DEF DropAnswer
<1>2. CASE EndsWithAnswer(s)
    <2>1. s # <<>> /\ Failed(Last(s))
        BY <1>2 DEF EndsWithAnswer
    <2>2. Front(s) \in Seq(Messages) /\ Last(s) \in Messages /\ s = Append(Front(s), Last(s))
        BY <2>1, SplitLast
    <2>3. Lasting(s) = Lasting(Front(s))
        BY <2>1, <2>2, LastingAppend
    <2> QED BY <1>2, <2>3 DEF DropAnswer, Front
<1> QED BY <1>1, <1>2

LEMMA LastingType == ASSUME NEW s \in Seq(Messages) PROVE Lasting(s) \in Seq(Messages)
<1>1. PICK f : Lasting(s) = f[Len(s)] /\ Selection(f, s, KeptLasting(s), Len(s))
    BY LastingSelects
<1>2. Len(s) \in Nat /\ \A k \in 1..Len(s) : s[k] \in Messages
    OBVIOUS
<1>3. /\ f[0] = <<>>
      /\ \A k \in 1..Len(s) :
            f[k] = IF k \in KeptLasting(s) THEN Append(f[k - 1], s[k]) ELSE f[k - 1]
    BY <1>1, <1>2, SelectionValues
<1> DEFINE G == {m \in Nat : m <= Len(s) => f[m] \in Seq(Messages)}
<1>4. 0 \in G
    <2>1. <<>> \in Seq(Messages)
        OBVIOUS
    <2> QED BY <1>3, <2>1
<1>5. ASSUME NEW m \in G PROVE m + 1 \in G
    <2> SUFFICES ASSUME m + 1 <= Len(s) PROVE f[m + 1] \in Seq(Messages)
        BY <1>5
    <2>1. m \in Nat /\ m + 1 \in 1..Len(s) /\ m + 1 - 1 = m /\ f[m] \in Seq(Messages)
        BY <1>2, <1>5
    <2> HIDE DEF G
    <2>2. \A k \in 1..Len(s) : f[k] = Append(f[k - 1], s[k]) \/ f[k] = f[k - 1]
        BY <1>3
    <2>3. f[m + 1] = Append(f[m], s[m + 1]) \/ f[m + 1] = f[m]
        BY <2>1, <2>2
    <2>4. s[m + 1] \in Messages
        BY <1>2, <2>1
    <2>5. Append(f[m], s[m + 1]) \in Seq(Messages)
        BY <2>1, <2>4
    <2> QED BY <2>1, <2>3, <2>5
<1>6. G = Nat
    <2>1. G \in SUBSET Nat
        OBVIOUS
    <2> HIDE DEF G
    <2> QED BY <1>4, <1>5, <2>1, SetInduction
<1>7. Len(s) \in G
    BY <1>2, <1>6
<1> QED BY <1>1, <1>2, <1>7

\* What lasts of a sequence ends as the sequence does, unless that ends with a failure.
LEMMA LastingEnds ==
    ASSUME NEW s \in Seq(Messages), s # <<>>, ~Failed(Last(s))
    PROVE  Lasting(s) # <<>> /\ Last(Lasting(s)) = Last(s)
<1>1. Front(s) \in Seq(Messages) /\ Last(s) \in Messages /\ s = Append(Front(s), Last(s))
    BY SplitLast
<1>2. Lasting(s) = Append(Lasting(Front(s)), Last(s)) /\ Lasting(Front(s)) \in Seq(Messages)
    BY <1>1, LastingAppend, LastingType
<1> QED BY <1>1, <1>2, EndsAppend

LEMMA SubSeqAppend ==
    ASSUME NEW s \in Seq(Messages), NEW m \in Messages, NEW a \in 1..(Len(s) + 1)
    PROVE  /\ SubSeq(Append(s, m), a, Len(s) + 1) = Append(SubSeq(s, a, Len(s)), m)
           /\ \A b \in 0..Len(s) : SubSeq(Append(s, m), a, b) = SubSeq(s, a, b)
<1> DEFINE t == Append(s, m)
<1>1. /\ t \in Seq(Messages) /\ Len(t) = Len(s) + 1 /\ t[Len(s) + 1] = m /\ Len(s) \in Nat
      /\ \A k \in 1..Len(s) : t[k] = s[k]
    OBVIOUS
<1> HIDE DEF t
<1>2. ASSUME NEW b \in 0..Len(s)
      PROVE  /\ SubSeq(t, a, b) = SubSeq(s, a, b) /\ SubSeq(s, a, b) \in Seq(Messages)
             /\ Len(SubSeq(s, a, b)) = IF a <= b THEN b - a + 1 ELSE 0
             /\ \A k \in 1..(b - a + 1) : SubSeq(s, a, b)[k] = s[a + k - 1]
    <2>1. /\ SubSeq(s, a, b) \in Seq(Messages)
          /\ Len(SubSeq(s, a, b)) = (IF a <= b THEN b - a + 1 ELSE 0)
          /\ \A k \in 1..(b - a + 1) : SubSeq(s, a, b)[k] = s[a + k - 1]
        BY <1>1, SubSeqProperties
    <2>2. /\ SubSeq(t, a, b) \in Seq(Messages)
          /\ Len(SubSeq(t, a, b)) = (IF a <= b THEN b - a + 1 ELSE 0)
          /\ \A k \in 1..(b - a + 1) : SubSeq(t, a, b)[k] = t[a + k - 1]
        BY <1>1, SubSeqProperties
    <2>3. \A k \in 1..(b - a + 1) : a + k - 1 \in 1..Len(s)
        BY <1>1
    <2>4. \A k \in 1..Len(SubSeq(s, a, b)) : SubSeq(s, a, b)[k] = SubSeq(t, a, b)[k]
        BY <1>1, <2>1, <2>2, <2>3
    <2> QED BY <2>1, <2>2, <2>4, SeqEqual
<1>3. SubSeq(t, a, Len(s) + 1) = Append(SubSeq(s, a, Len(s)), m)
    <2> DEFINE u == SubSeq(t, a, Len(s) + 1)
    <2> DEFINE v == SubSeq(s, a, Len(s))
    <2>1. /\ u \in Seq(Messages) /\ Len(u) = Len(s) + 1 - a + 1
          /\ \A k \in 1..(Len(s) + 1 - a + 1) : u[k] = t[a + k - 1]
        BY <1>1, SubSeqProperties
    <2>2. /\ v \in Seq(Messages) /\ Len(v) = Len(s) - a + 1
          /\ \A k \in 1..(Len(s) - a + 1) : v[k] = s[a + k - 1]
        BY <1>1, <1>2
    <2> HIDE DEF u, v
    <2>6. a \in Nat /\ a >= 1 /\ Len(s) - a + 1 \in Nat /\ Len(u) = Len(v) + 1
        BY <1>1, <2>1, <2>2
    <2>3. /\ Append(v, m) \in Seq(Messages) /\ Len(Append(v, m)) = Len(u)
          /\ \A k \in 1..Len(v) : Append(v, m)[k] = v[k]
          /\ Append(v, m)[Len(v) + 1] = m
        <3>1. v \in Seq(Messages)
            BY <2>2
        <3>2. /\ Append(v, m) \in Seq(Messages) /\ Len(Append(v, m)) = Len(v) + 1
              /\ \A k \in 1..Len(v) : Append(v, m)[k] = v[k]
              /\ Append(v, m)[Len(v) + 1] = m
            BY <3>1, AppendProperties
        <3> QED BY <2>6, <3>2
    <2>4. ASSUME NEW k \in 1..Len(u) PROVE u[k] = Append(v, m)[k]
        <3>1. CASE k = Len(v) + 1
            BY <1>1, <2>1, <2>2, <2>3, <2>6, <3>1
        <3>2. CASE k # Len(v) + 1
            <4>1. k \in 1..(Len(s) - a + 1) /\ a + k - 1 \in 1..Len(s)
                <5>1. /\ Len(s) \in Nat /\ Len(v) = Len(s) - a + 1 /\ Len(u) = Len(v) + 1
                      /\ k \in 1..Len(u) /\ k # Len(v) + 1 /\ a \in 1..(Len(s) + 1)
                    BY <1>1, <2>2, <2>6, <3>2
                <5> QED BY ONLY <5>1
            <4> QED BY <1>1, <2>1, <2>2, <2>3, <2>6, <4>1
        <3> QED BY <3>1, <3>2
    <2>5. u = Append(v, m)
        BY <2>1, <2>3, <2>4, SeqEqual
    <2> QED BY <2>5 DEF u, v
<1> QED BY <1>2, <1>3 DEF t

\* An entry that is no summary is rebuilt behind the rest.
LEMMA RebuiltAppend ==
    ASSUME NEW s \in Seq(Messages), CutsInside(s), NEW m \in Messages, m.role # "summary"
    PROVE  /\ Rebuilt(Append(s, m)) = Append(Rebuilt(s), m)
           /\ Compactions(Append(s, m)) = Compactions(s)
<1> DEFINE t == Append(s, m)
<1>1. /\ t \in Seq(Messages) /\ Len(t) = Len(s) + 1 /\ t[Len(s) + 1] = m /\ Len(s) \in Nat
      /\ \A k \in 1..Len(s) : t[k] = s[k]
    OBVIOUS
<1> HIDE DEF t
<1>2. Compactions(t) = Compactions(s)
    <2>1. DOMAIN t = 1..(Len(s) + 1) /\ DOMAIN s = 1..Len(s)
        BY <1>1
    <2>2. \A k \in 1..(Len(s) + 1) : k \in 1..Len(s) \/ k = Len(s) + 1
        BY <1>1
    <2>3. \A k \in 1..Len(s) : k \in 1..(Len(s) + 1)
        BY <1>1
    <2> QED BY <1>1, <2>1, <2>2, <2>3 DEF Compactions
<1>3. CASE Compactions(s) = {}
    BY <1>2, <1>3 DEF Rebuilt, t
<1>4. CASE Compactions(s) # {}
    <2> DEFINE k == Latest(s)
    <2>1. k \in 1..Len(s) /\ s[k].n \in 1..(k - 1)
        BY <1>4, LatestIs DEF CutsInside, Compactions
    <2>2. Latest(t) = k
        BY <1>2 DEF Latest
    <2> HIDE DEF k
    <2>3. /\ Rebuilt(s) = <<s[k]>> \o SubSeq(s, s[k].n, k - 1) \o SubSeq(s, k + 1, Len(s))
          /\ Rebuilt(t) = <<t[k]>> \o SubSeq(t, t[k].n, k - 1) \o SubSeq(t, k + 1, Len(t))
        BY <1>2, <1>4, <2>2 DEF Rebuilt, k
    <2>4. t[k] = s[k] /\ s[k] \in Messages
        BY <1>1, <2>1
    <2>5. s[k].n \in 1..(Len(s) + 1) /\ k + 1 \in 1..(Len(s) + 1) /\ k - 1 \in 0..Len(s)
        BY <1>1, <2>1
    <2>6. SubSeq(t, s[k].n, k - 1) = SubSeq(s, s[k].n, k - 1)
        BY <2>5, SubSeqAppend DEF t
    <2>7. SubSeq(t, k + 1, Len(t)) = Append(SubSeq(s, k + 1, Len(s)), m)
        BY <1>1, <2>5, SubSeqAppend DEF t
    <2> DEFINE a == <<s[k]>> \o SubSeq(s, s[k].n, k - 1)
    <2> DEFINE b == SubSeq(s, k + 1, Len(s))
    <2>8. a \in Seq(Messages) /\ b \in Seq(Messages)
        <3>1. SubSeq(s, s[k].n, k - 1) \in Seq(Messages) /\ b \in Seq(Messages)
            BY <1>1, <2>1, SubSeqProperties
        <3>2. <<s[k]>> \in Seq(Messages)
            BY <2>4
        <3> QED BY <3>1, <3>2, ConcatProperties
    <2>9. Rebuilt(s) = a \o b /\ Rebuilt(t) = a \o Append(b, m)
        BY <2>3, <2>4, <2>6, <2>7
    <2> HIDE DEF a, b
    <2> QED BY <1>2, <2>8, <2>9, ConcatAppend DEF t
<1> QED BY <1>3, <1>4

LEMMA CutsFront ==
    ASSUME NEW s \in Seq(Messages), CutsInside(s), s # <<>>
    PROVE  CutsInside(Front(s))
<1>1. /\ Front(s) \in Seq(Messages) /\ Len(Front(s)) = Len(s) - 1 /\ Len(s) \in Nat
      /\ \A k \in 1..(Len(s) - 1) : Front(s)[k] = s[k]
    BY SplitLast
<1>2. \A k \in DOMAIN Front(s) : k \in 1..(Len(s) - 1) /\ k \in DOMAIN s
    BY <1>1
<1>3. \A k \in Compactions(Front(s)) : k \in Compactions(s) /\ Front(s)[k] = s[k]
    BY <1>1, <1>2 DEF Compactions
<1> QED BY <1>3 DEF CutsInside

LEMMA RebuiltEnds ==
    ASSUME NEW s \in Seq(Messages), CutsInside(s), s # <<>>, Last(s).role # "summary"
    PROVE  Rebuilt(s) # <<>> /\ Last(Rebuilt(s)) = Last(s)
<1>1. Front(s) \in Seq(Messages) /\ Last(s) \in Messages /\ s = Append(Front(s), Last(s))
    BY SplitLast
<1>2. CutsInside(Front(s)) /\ Rebuilt(Front(s)) \in Seq(Messages)
    BY <1>1, CutsFront, RebuiltType
<1>3. Rebuilt(s) = Append(Rebuilt(Front(s)), Last(s))
    BY <1>1, <1>2, RebuiltAppend
<1> QED BY <1>1, <1>2, <1>3, EndsAppend

\* Behind a new summary stands what it keeps.
LEMMA RebuiltSummary ==
    ASSUME NEW s \in Seq(Messages), CutsInside(s), NEW m \in Messages, m.role = "summary",
           m.n \in 1..Len(s)
    PROVE  /\ Rebuilt(Append(s, m)) = <<m>> \o SubSeq(s, m.n, Len(s))
           /\ SubSeq(s, m.n, Len(s)) \in Seq(Messages)
           /\ Len(SubSeq(s, m.n, Len(s))) = Len(s) - m.n + 1
           /\ \A k \in 1..(Len(s) - m.n + 1) : SubSeq(s, m.n, Len(s))[k] = s[m.n + k - 1]
<1> DEFINE t == Append(s, m)
<1>1. /\ t \in Seq(Messages) /\ Len(t) = Len(s) + 1 /\ t[Len(s) + 1] = m /\ Len(s) \in Nat
      /\ DOMAIN t = 1..(Len(s) + 1)
    OBVIOUS
<1>2. Len(s) \in 0..Len(s) /\ m.n \in 1..(Len(s) + 1) /\ m.n \in Nat
    BY <1>1
<1>3. SubSeq(t, m.n, Len(s)) = SubSeq(s, m.n, Len(s))
    BY <1>2, SubSeqAppend
<1> HIDE DEF t
<1>4. Len(s) + 1 \in Compactions(t) /\ Compactions(t) \subseteq 1..(Len(s) + 1)
    BY <1>1 DEF Compactions
<1>5. Latest(t) = Len(s) + 1
    <2>1. Latest(t) \in Compactions(t) /\ \A o \in Compactions(t) : o <= Latest(t)
        BY <1>1, <1>4, LatestIs
    <2> QED BY <1>1, <1>4, <2>1
<1>6. Rebuilt(t) = <<m>> \o SubSeq(t, m.n, Len(s)) \o SubSeq(t, Len(s) + 2, Len(s) + 1)
    <2> DEFINE k == Latest(t)
    <2>1. Compactions(t) # {}
        BY <1>4
    <2>2. Rebuilt(t) = <<t[k]>> \o SubSeq(t, t[k].n, k - 1) \o SubSeq(t, k + 1, Len(t))
        BY <2>1 DEF Rebuilt
    <2>3. k - 1 = Len(s) /\ k + 1 = Len(s) + 2 /\ t[k] = m /\ Len(t) = Len(s) + 1
        BY <1>1, <1>5
    <2> HIDE DEF k
    <2> QED BY <2>2, <2>3
<1>7. SubSeq(t, Len(s) + 2, Len(s) + 1) = <<>>
    <2>1. /\ SubSeq(t, Len(s) + 2, Len(s) + 1) \in Seq(Messages)
          /\ Len(SubSeq(t, Len(s) + 2, Len(s) + 1)) = 0
        BY <1>1, SubSeqProperties
    <2> QED BY <2>1, EmptySeq
<1>8. /\ SubSeq(s, m.n, Len(s)) \in Seq(Messages)
      /\ Len(SubSeq(s, m.n, Len(s))) = Len(s) - m.n + 1
      /\ \A k \in 1..(Len(s) - m.n + 1) : SubSeq(s, m.n, Len(s))[k] = s[m.n + k - 1]
    BY <1>1, <1>2, SubSeqProperties
<1>9. <<m>> \o SubSeq(s, m.n, Len(s)) \in Seq(Messages)
    BY <1>8, ConcatProperties
<1>10. (<<m>> \o SubSeq(s, m.n, Len(s))) \o <<>> = <<m>> \o SubSeq(s, m.n, Len(s))
    BY <1>9, ConcatEmptySeq
<1> QED BY <1>1, <1>3, <1>6, <1>7, <1>8, <1>10 DEF t

-----------------------------------------------------------------------------
(***************************************************************************)
(* Batches of tool calls                                                   *)
(***************************************************************************)
\* A batch prepares and answers no more calls than the answer has, a call is prepared
\* before it is answered, and only a run that has just begun still owes a request.
Batch ==
    /\ run.at = "prepare" => Len(run.prepared) < run.calls
    /\ run.at \in {"check", "results"} => Len(run.prepared) <= run.calls
    /\ run.at = "results" => run.given < Len(run.prepared)
    /\ run.at = "check" => run.prepared # <<>>
    /\ run.at \in {"prepare", "check"} => run.given = IF Parallel THEN 0 ELSE Len(run.prepared)
    /\ run.at \in {"prepare", "check", "results"} => run.calls \in 1..MaxCalls
    /\ run.at = "prompts" => run.more
    /\ run.at = "followUp" => ~run.more

LEMMA StartedBatch ==
    ASSUME NEW prompts \in Seq(UserMessages), NEW skip, run' = Started(prompts, skip)
    PROVE  /\ Batch' /\ run'.more = TRUE /\ run'.rest = prompts /\ run'.skip = skip
           /\ run'.at = (IF prompts = <<>> THEN "steer" ELSE "prompts") /\ run'.aborted = FALSE
<1>1. /\ run'.more = TRUE /\ run'.rest = prompts /\ run'.skip = skip /\ run'.aborted = FALSE
      /\ run'.at = IF prompts = <<>> THEN "steer" ELSE "prompts"
    BY NoRunType DEF Started, NoRun
<1> QED BY <1>1 DEF Batch

\* A continuation starts with the prompts it takes from a queue, or without any where
\* the transcript does not end with an answer.
LEMMA ContinueIs ==
    ASSUME AgentTyped, Continue
    PROVE  /\ messages # <<>> /\ messages' = messages /\ spent' = spent /\ clock' = clock
           /\ Batch' /\ run'.more = TRUE /\ run'.aborted = FALSE
           /\ \/ /\ run'.at = "steer" /\ ~EndsWithAnswer(messages) /\ run'.skip = FALSE
                 /\ run'.rest = <<>> /\ steering' = steering /\ followUp' = followUp
              \/ /\ run'.at = "prompts" /\ EndsWithAnswer(messages) /\ steering # <<>>
                 /\ run'.rest = Taken(steering, SteeringMode)
                 /\ steering' = Left(steering, SteeringMode) /\ followUp' = followUp
              \/ /\ run'.at = "prompts" /\ EndsWithAnswer(messages) /\ followUp # <<>>
                 /\ run'.rest = Taken(followUp, FollowUpMode)
                 /\ followUp' = Left(followUp, FollowUpMode) /\ steering' = steering
<1>0. /\ messages # <<>> /\ messages' = messages /\ spent' = spent /\ clock' = clock
      /\ EndsWithAnswer(messages) => HasQueued
      /\ steering \in Seq(UserMessages) /\ followUp \in Seq(UserMessages)
      /\ <<>> \in Seq(UserMessages)
    BY DEF Continue, CanContinue, AgentTyped
<1>1. \A q \in Seq(UserMessages), mode \in QueueModes :
          /\ Taken(q, mode) \in Seq(UserMessages)
          /\ Taken(q, mode) = <<>> <=> q = <<>>
    BY QueueTypes
<1>2. SteeringMode \in QueueModes /\ FollowUpMode \in QueueModes
    BY AgentAssumption
<1>3. CASE ~EndsWithAnswer(messages) /\ run' = Started(<<>>, FALSE) /\ UNCHANGED queues
    BY <1>0, <1>3, StartedBatch DEF queues
<1>4. CASE /\ EndsWithAnswer(messages) /\ steering # <<>>
           /\ run' = Started(Taken(steering, SteeringMode), TRUE)
           /\ steering' = Left(steering, SteeringMode)
           /\ UNCHANGED followUp
    BY <1>0, <1>1, <1>2, <1>4, StartedBatch
<1>5. CASE /\ EndsWithAnswer(messages) /\ steering = <<>>
           /\ run' = Started(Taken(followUp, FollowUpMode), FALSE)
           /\ followUp' = Left(followUp, FollowUpMode)
           /\ UNCHANGED steering
    <2>1. followUp # <<>>
        BY <1>0, <1>5 DEF HasQueued
    <2> QED BY <1>0, <1>1, <1>2, <1>5, <2>1, StartedBatch
<1> QED BY <1>3, <1>4, <1>5 DEF Continue

LEMMA AgentStepBatch == ASSUME AgentTyped, Held, Batch, AgentStep PROVE Batch'
<1>0. /\ run \in Runs /\ run.prepared \in Seq(Outcomes \cup {"ready"}) /\ run.given \in Nat
      /\ run.calls \in Nat /\ Len(run.prepared) \in Nat
    BY RunParts DEF AgentTyped
<1>1. CASE DeliverPrompt
    <2>1. run'.at \in {"prompts", "steer"} /\ run'.more = run.more /\ run.at = "prompts"
        BY <1>0, <1>1 DEF DeliverPrompt, Runs, At
    <2> QED BY <2>1 DEF Batch
<1>2. CASE PollSteering
    <2>1. /\ run'.at \in {"inject", "request", "refused", "followUp"} /\ run'.more = run.more
          /\ run'.at = "followUp" => ~run.more
        BY <1>0, <1>2 DEF PollSteering, Runs, Asking
    <2> QED BY <2>1 DEF Batch
<1>3. CASE PollFollowUp
    <2>1. run'.at \in {"inject", "end"}
        BY <1>0, <1>3 DEF PollFollowUp, Runs
    <2> QED BY <2>1 DEF Batch
<1>4. CASE Inject
    <2>1. run'.at \in {"inject", "request", "refused"}
        BY <1>0, <1>4 DEF Inject, Runs, At, Asking
    <2> QED BY <2>1 DEF Batch
<1>5. CASE \E stop \in Stops, calls \in 0..MaxCalls : Respond(stop, calls)
    <2>1. PICK stop \in Stops, calls \in 0..MaxCalls : Respond(stop, calls)
        BY <1>5
    <2>2. calls \in Nat /\ run.at \in {"request", "refused"}
        BY <2>1, Naturals DEF Respond, Answers, At
    <2>3. /\ After(stop, calls) \in {"closing", "steer", "results", "prepare"}
          /\ After(stop, calls) \in {"results", "prepare"} => calls \in 1..MaxCalls
        BY <2>2, Naturals DEF After
    <2>4. PICK mode \in IF calls > 0 THEN Modes ELSE {"none"} :
              run' = [run EXCEPT !.context = Append(@, Answer(stop, calls)),
                                 !.at = After(stop, calls), !.more = FALSE, !.mode = mode,
                                 !.calls = calls,
                                 !.prepared = IF After(stop, calls) = "results"
                                              THEN [c \in 1..calls |-> "answered"] ELSE <<>>]
        BY <2>1 DEF Respond
    <2>5. /\ run'.at = After(stop, calls) /\ run'.calls = calls /\ run'.mode = mode
          /\ run'.prepared = (IF After(stop, calls) = "results"
                              THEN [c \in 1..calls |-> "answered"] ELSE <<>>)
          /\ run'.given = run.given
        BY <1>0, <2>4 DEF Runs
    <2>6. Len([c \in 1..calls |-> "answered"]) = calls /\ Len(<<>>) = 0
        BY <2>2
    <2>7. run.given = 0
        BY <2>2 DEF Held
    <2>8. CASE run'.at = "results"
        BY <2>2, <2>3, <2>5, <2>6, <2>7, <2>8 DEF Batch
    <2>9. CASE run'.at = "prepare"
        BY <2>2, <2>3, <2>5, <2>6, <2>7, <2>9 DEF Batch, Parallel
    <2>10. CASE run'.at \in {"closing", "steer"}
        BY <2>10 DEF Batch
    <2> QED BY <2>3, <2>5, <2>8, <2>9, <2>10
<1>6. CASE PrepareCall
    <2>1. PICK outcome \in Prepared :
              run' = [run EXCEPT !.prepared = Append(@, outcome),
                                 !.at = IF Parallel THEN "check" ELSE "results"]
        BY <1>6 DEF PrepareCall
    <2>2. /\ run'.at = (IF Parallel THEN "check" ELSE "results")
          /\ run'.prepared = Append(run.prepared, outcome) /\ run'.given = run.given
          /\ run'.calls = run.calls /\ run'.mode = run.mode /\ run.at = "prepare"
        BY <1>0, <1>6, <2>1 DEF Runs, PrepareCall, At
    <2>3. /\ Append(run.prepared, outcome) # <<>>
          /\ Len(Append(run.prepared, outcome)) = Len(run.prepared) + 1
        BY <1>0
    <2> QED BY <1>0, <2>2, <2>3 DEF Batch, Parallel
<1>7. CASE CheckSignal
    <2>1. /\ run.at = "check"
          /\ \/ run' = [run EXCEPT !.at = "prepare"] /\ Len(run.prepared) # run.calls
             \/ run' = [run EXCEPT !.at = "results"] /\ Parallel
             \/ run' = Turned(run)
        BY <1>7 DEF CheckSignal, At
    <2>2. CASE run' = [run EXCEPT !.at = "prepare"] /\ Len(run.prepared) # run.calls
        <3>1. /\ run'.at = "prepare" /\ run'.prepared = run.prepared /\ run'.given = run.given
              /\ run'.calls = run.calls /\ run'.mode = run.mode
            BY <1>0, <2>2 DEF Runs
        <3> QED BY <1>0, <2>1, <2>2, <3>1 DEF Batch, Parallel
    <2>3. CASE run' = [run EXCEPT !.at = "results"] /\ Parallel
        <3>1. /\ run'.at = "results" /\ run'.prepared = run.prepared /\ run'.given = run.given
              /\ run'.calls = run.calls /\ run'.mode = run.mode
            BY <1>0, <2>3 DEF Runs
        <3>2. Len(run.prepared) # 0
            BY <1>0, <2>1, EmptySeq DEF Batch
        <3> QED BY <1>0, <2>1, <2>3, <3>1, <3>2 DEF Batch, Parallel
    <2>4. CASE run' = Turned(run)
        BY <1>0, <2>4, TurnedHeld DEF Batch
    <2> QED BY <2>1, <2>2, <2>3, <2>4
<1>8. CASE GiveResult
    <2> DEFINE r == [run EXCEPT !.given = @ + 1]
    <2>6. run.at = "results" /\ run.given + 1 \in Nat
        BY <1>0, <1>8 DEF GiveResult, At
    <2>7. r \in Runs
        BY <1>0, <2>6 DEF Runs
    <2>1. /\ r \in Runs /\ r.at = "results" /\ r.given = run.given + 1
          /\ r.prepared = run.prepared /\ r.calls = run.calls /\ r.mode = run.mode
        BY <1>0, <2>6, <2>7 DEF Runs
    <2>2. /\ run.at = "results"
          /\ \/ run' = r /\ r.given < Len(run.prepared)
             \/ run' = Turned(r)
             \/ /\ run' = [r EXCEPT !.at = "check"] /\ ~(r.given < Len(run.prepared))
                /\ ~(r.given = Len(run.prepared) /\ Parallel)
        BY <1>8 DEF GiveResult, At
    <2> HIDE DEF r
    <2>3. CASE run' = r /\ r.given < Len(run.prepared)
        BY <1>0, <2>1, <2>2, <2>3 DEF Batch, Parallel
    <2>4. CASE run' = Turned(r)
        BY <2>1, <2>4, TurnedHeld DEF Batch
    <2>5. CASE /\ run' = [r EXCEPT !.at = "check"] /\ ~(r.given < Len(run.prepared))
               /\ ~(r.given = Len(run.prepared) /\ Parallel)
        <3>1. /\ run'.at = "check" /\ run'.prepared = run.prepared
              /\ run'.given = run.given + 1 /\ run'.calls = run.calls /\ run'.mode = run.mode
            BY <2>1, <2>5 DEF Runs
        <3>2. run.given < Len(run.prepared) /\ run.prepared # <<>>
            BY <1>0, <2>2 DEF Batch
        <3>3. run.given + 1 = Len(run.prepared) /\ ~Parallel
            BY <1>0, <2>1, <2>5, <3>2
        <3> QED BY <1>0, <2>2, <3>1, <3>2, <3>3 DEF Batch, Parallel
    <2> QED BY <2>2, <2>3, <2>4, <2>5
<1>9. CASE \E c \in 1..MaxCalls : FinishCall(c)
    <2>1. PICK c \in 1..MaxCalls : FinishCall(c)
        BY <1>9
    <2>2. PICK outcome \in Outcomes : run' = [run EXCEPT !.prepared[c] = outcome]
        BY <2>1 DEF FinishCall
    <2>3. /\ run'.at = run.at /\ run'.prepared = [run.prepared EXCEPT ![c] = outcome]
          /\ run'.given = run.given /\ run'.calls = run.calls /\ run'.mode = run.mode
          /\ run.at = "results" /\ c \in 1..Len(run.prepared)
        BY <1>0, <2>1, <2>2 DEF Runs, FinishCall, At
    <2>4. Len([run.prepared EXCEPT ![c] = outcome]) = Len(run.prepared)
        BY <1>0, <2>3
    <2> QED BY <1>0, <2>3, <2>4 DEF Batch, Parallel
<1>10. CASE CloseRun
    <2>1. run'.at = "end"
        BY <1>0, <1>10 DEF CloseRun, Runs
    <2> QED BY <2>1 DEF Batch
<1> QED BY <1>1, <1>2, <1>3, <1>4, <1>5, <1>6, <1>7, <1>8, <1>9, <1>10 DEF AgentStep

\* What a step that is none of the agent's does to a run.
LEMMA RunElsewhere ==
    ASSUME Typed, [Next]_vars, ~RunStep, ~Launch, ~Resume
    PROVE  \/ run' = NoRun
           \/ run' = run
           \/ Abort /\ run' = [run EXCEPT !.aborted = Running]
<1>1. CASE RunEnds \/ Restart
    BY <1>1 DEF RunEnds, EndRun, Restart
<1>2. CASE Abort
    BY <1>2 DEF Abort, AbortRun
<1>3. CASE PrepareRetry \/ Recover \/ CompactThreshold \/ CompactionDone \/ CompactionFails
           \/ CompactManually \/ Prompt \/ Settle \/ ClearQueue \/ RecordShell
           \/ (\E kind \in {"steer", "followUp"} : Queue(kind)) \/ UNCHANGED vars
    BY <1>3 DEF PrepareRetry, Recover, CompactThreshold, CompactionDone, CompactionFails,
                CompactManually, Prompt, Settle, ClearQueue, RecordShell, Queue, vars, agent
<1> QED BY <1>1, <1>2, <1>3 DEF Next, SessionStep, ClientStep

LEMMA NextBatch == ASSUME Typed, Held, Batch, [Next]_vars PROVE Batch'
<1>1. CASE RunStep
    BY <1>1, AgentStepBatch DEF RunStep, Typed
<1>2. CASE Launch
    <2>1. <<next>> \in Seq(UserMessages)
        BY <1>2 DEF Launch, Typed, SessionTyped
    <2> QED BY <1>2, <2>1, StartedBatch DEF Launch, StartPrompt
<1>3. CASE Resume
    BY <1>3, ContinueIs DEF Resume, Typed
<1>4. CASE run' = NoRun
    BY <1>4, NoRunType DEF Batch
<1>5. CASE run' = run
    BY <1>5 DEF Batch, Parallel
<1>6. CASE run' = [run EXCEPT !.aborted = Running]
    <2>1. /\ run'.at = run.at /\ run'.prepared = run.prepared /\ run'.given = run.given
          /\ run'.calls = run.calls /\ run'.mode = run.mode /\ run'.more = run.more
        BY <1>6 DEF Typed, AgentTyped, Runs
    <2> QED BY <2>1 DEF Batch, Parallel
<1> QED BY <1>1, <1>2, <1>3, <1>4, <1>5, <1>6, RunElsewhere

LEMMA SpecBatch == Spec => []Batch
<1>1. Init => Batch
    BY NoRunType DEF Init, AgentInit, Batch
<1>2. Typed /\ Held /\ Batch /\ [Next]_vars => Batch'
    BY NextBatch
<1> QED BY <1>1, <1>2, SpecTyped, SpecHeld, PTL DEF Spec

-----------------------------------------------------------------------------
(***************************************************************************)
(* The answer that is judged, and what may be asked                        *)
(***************************************************************************)
\* There is something to answer.
Askable(s) == s # <<>> /\ ~EndsWithAnswer(s)

\* Two failed answers follow each other.
Adjacent(s) == \E k \in 2..Len(s) : Failed(s[k - 1]) /\ Failed(s[k])

\* It ends with an answer that failed, and an answer before that failed as well.
FailedBehind(s) ==
    /\ s # <<>> /\ Failed(Last(s))
    /\ EndsWithAnswer(Front(s)) => Failed(Last(Front(s)))

\* The answer that the session remembers is one of the run, a failure ends the run, and
\* the calls of an answer that was cut off are answered without being executed.
Judgement ==
    /\ last = None \/ IsAnswer(last)
    /\ ~active => last = None
    /\ at \in {"backoff", "cancelled"} => last.kind = "error"
    /\ Running /\ last.kind \in Failures => run.at \in {"closing", "end"}
    /\ Running /\ last.kind \in Incomplete =>
          /\ run.at # "prepare"
          /\ run.at \in {"check", "results"} =>
                /\ Len(run.prepared) = run.calls
                /\ \A c \in 1..Len(run.prepared) : run.prepared[c] = "answered"

\* The run ends, or will without another answer.
Ending ==
    \/ run.at \in {"closing", "end"} \/ at = "post"
    \/ run.at \in {"steer", "followUp"} /\ ~run.more

\* Requests have something to answer; the failure that a run ends with is the last of
\* the transcript and of the session; and where the transcript ends with an answer the
\* session does, or with a summary.
Asked ==
    /\ run.at = "steer" /\ run.more => Askable(messages)
    /\ run.at \in {"request", "refused"} => Askable(messages)
    /\ active /\ run.at # "prompts" => messages # <<>>
    /\ at = "backoff" => Askable(messages)
    /\ at = "compacting" => entries # <<>> /\ Last(entries).role # "summary"
    /\ at = "compacting" /\ job.retry /\ job.after = "decide" => FailedBehind(entries)
    /\ at = "continue" /\ EndsWithAnswer(messages) => Adjacent(entries)
    /\ stranded => Adjacent(entries)
    /\ last.kind \in Incomplete /\ Ending =>
          /\ EndsWithAnswer(messages) /\ Last(messages) = last
          /\ Askable(DropAnswer(messages)) /\ FailedBehind(entries)
    /\ EndsWithAnswer(messages) =>
          EndsWithAnswer(entries) \/ (entries # <<>> /\ Last(entries).role = "summary")

Sound == Judgement /\ Asked /\ SessionHoldsTheTranscript

LEMMA AdjacentAppend ==
    ASSUME NEW s \in Seq(Messages), NEW m \in Messages, Adjacent(s)
    PROVE  Adjacent(Append(s, m))
<1>1. PICK k \in 2..Len(s) : Failed(s[k - 1]) /\ Failed(s[k])
    BY DEF Adjacent
<1>2. /\ Len(Append(s, m)) = Len(s) + 1 /\ Len(s) \in Nat
      /\ \A j \in 1..Len(s) : Append(s, m)[j] = s[j]
    BY EndsAppend
<1>3. k \in 2..(Len(s) + 1) /\ k \in 1..Len(s) /\ k - 1 \in 1..Len(s)
    BY <1>1, <1>2
<1> QED BY <1>1, <1>2, <1>3 DEF Adjacent

\* A message that enters transcript and session leaves them as they were to each other.
LEMMA BothAppend ==
    ASSUME NEW s \in Seq(Messages), NEW e \in Seq(Messages), CutsInside(e),
           NEW m \in Messages, m.role # "summary", Lasting(s) = Lasting(Rebuilt(e))
    PROVE  Lasting(Append(s, m)) = Lasting(Rebuilt(Append(e, m)))
<1>1. Rebuilt(Append(e, m)) = Append(Rebuilt(e), m) /\ Rebuilt(e) \in Seq(Messages)
    BY RebuiltAppend, RebuiltType
<1> QED BY <1>1, LastingAppend

\* A request that follows an answer in the session follows one that failed.
LEMMA AnswerFailed ==
    ASSUME NEW s \in Seq(Messages), NEW e \in Seq(Messages), CutsInside(e),
           Lasting(s) = Lasting(Rebuilt(e)), Askable(s), EndsWithAnswer(e)
    PROVE  Failed(Last(e))
<1> SUFFICES ASSUME ~Failed(Last(e)) PROVE FALSE
    OBVIOUS
<1>1. e # <<>> /\ IsAnswer(Last(e)) /\ Last(e).role # "summary"
    BY DEF EndsWithAnswer, IsAnswer
<1>2. Rebuilt(e) # <<>> /\ Last(Rebuilt(e)) = Last(e) /\ Rebuilt(e) \in Seq(Messages)
    BY <1>1, RebuiltEnds, RebuiltType
<1>3. Last(Lasting(Rebuilt(e))) = Last(e)
    BY <1>2, LastingEnds
<1>4. s # <<>> /\ ~IsAnswer(Last(s)) /\ ~Failed(Last(s))
    BY DEF Askable, EndsWithAnswer, Failed
<1>5. Last(Lasting(s)) = Last(s)
    BY <1>4, LastingEnds
<1> QED BY <1>1, <1>3, <1>4, <1>5

LEMMA FailedAppend ==
    ASSUME NEW e \in Seq(Messages), NEW m \in Messages, Failed(m),
           EndsWithAnswer(e) => Failed(Last(e))
    PROVE  FailedBehind(Append(e, m))
BY EndsAppend DEF FailedBehind

\* What a step of a run adds to the transcript it adds to the session.
LEMMA RunStepAdds ==
    ASSUME Typed, RunStep
    PROVE  /\ active = TRUE /\ active' = TRUE /\ at = "running" /\ at' = "running"
           /\ job' = job /\ stranded' = stranded /\ Running
           /\ \/ messages' = messages /\ entries' = entries /\ last' = last
              \/ \E m \in Spoken :
                    /\ messages' = Append(messages, m) /\ entries' = Append(entries, m)
                    /\ last' = IF IsAnswer(m) THEN m ELSE last
<1>1. messages' = messages \/ \E m \in Spoken : messages' = Append(messages, m)
    BY AgentStepType DEF RunStep, Typed
<1>2. CASE messages' = messages
    BY <1>2 DEF RunStep, Listen, Typed, Paced, SessionTyped
<1>3. CASE messages' # messages
    <2>1. PICK m \in Spoken : messages' = Append(messages, m)
        BY <1>1, <1>3
    <2>2. messages \in Seq(Messages) /\ m \in Messages
        BY MessageTypes DEF Typed, AgentTyped
    <2>3. Last(messages') = m
        BY <2>1, <2>2, EndsAppend
    <2>4. entries' = Append(entries, m) /\ last' = IF IsAnswer(m) THEN m ELSE last
        BY <1>3, <2>3 DEF RunStep, Listen, Heard, Persisted
    <2> QED BY <2>1, <2>4 DEF RunStep, Typed, Paced, SessionTyped
<1> QED BY <1>2, <1>3

LEMMA RunStepHolds == ASSUME Typed, Sound, RunStep PROVE SessionHoldsTheTranscript'
<1>0. /\ messages \in Seq(Messages) /\ entries \in Seq(Messages) /\ CutsInside(entries)
      /\ \A m \in Spoken : m \in Messages /\ m.role # "summary"
    BY MessageTypes DEF Typed, AgentTyped, SessionTyped, Spoken
<1>1. CASE messages' = messages /\ entries' = entries
    BY <1>1 DEF Sound, SessionHoldsTheTranscript
<1>2. CASE \E m \in Spoken : messages' = Append(messages, m) /\ entries' = Append(entries, m)
    BY <1>0, <1>2, BothAppend DEF Sound, SessionHoldsTheTranscript
<1> QED BY <1>1, <1>2, RunStepAdds

\* A step that adds no answer to the transcript: it leads to the next one, if there is
\* something to answer.
LEMMA QuietStepSound ==
    ASSUME Typed, Sound, RunStep, last' = last,
           \/ messages' = messages
           \/ \E m \in Spoken : ~IsAnswer(m) /\ messages' = Append(messages, m),
           run'.at # "prompts" => messages' # <<>>,
           run'.at \in {"steer"} /\ run'.more => Askable(messages'),
           run'.at \in {"request", "refused"} => Askable(messages'),
           last.kind \in Failures => run'.at \in {"closing", "end"},
           last.kind \in Incomplete => run'.at # "prepare",
           last.kind \in Incomplete /\ run'.at \in {"check", "results"} =>
                /\ Len(run'.prepared) = run'.calls
                /\ \A c \in 1..Len(run'.prepared) : run'.prepared[c] = "answered",
           last.kind \in Incomplete /\ Ending' => Ending /\ messages' = messages
    PROVE  Judgement' /\ Asked'
<1>0. /\ messages \in Seq(Messages) /\ entries \in Seq(Messages)
      /\ \A m \in Spoken : m \in Messages
    BY MessageTypes DEF Typed, AgentTyped, SessionTyped
<1>1. /\ active = TRUE /\ active' = TRUE /\ at = "running" /\ at' = "running"
      /\ job' = job /\ stranded' = stranded /\ Running
    BY RunStepAdds
<1>2. Judgement'
    BY <1>1 DEF Sound, Judgement
<1>3. CASE messages' = messages
    <2>1. entries' = entries
        <3>1. \A m \in Spoken : Append(messages, m) # messages
            BY <1>0
        <3> QED BY <1>3, <3>1, RunStepAdds
    <2> QED BY <1>1, <1>2, <1>3, <2>1 DEF Sound, Asked
<1>4. CASE messages' # messages
    <2>1. PICK m \in Spoken : ~IsAnswer(m) /\ messages' = Append(messages, m)
        BY <1>4
    <2>2. EndsWithAnswer(messages') = FALSE
        BY <1>0, <2>1, EndsAppend
    <2>3. stranded' => Adjacent(entries')
        <3>1. \E o \in Spoken : entries' = Append(entries, o)
            BY <1>4, RunStepAdds
        <3> QED BY <1>0, <1>1, <3>1, AdjacentAppend DEF Sound, Asked
    <2> QED BY <1>1, <1>2, <1>4, <2>2, <2>3 DEF Asked
<1> QED BY <1>3, <1>4

LEMMA InputStepSound ==
    ASSUME Typed, Held, Batch, Sound, RunStep, DeliverPrompt \/ Inject
    PROVE  Judgement' /\ Asked'
<1>0. run \in Runs /\ messages \in Seq(Messages)
    BY DEF Typed, AgentTyped
<1>1. PICK m \in Spoken : messages' = Append(messages, m) /\ m.role = "user"
    BY DeliverPromptType, InjectType, MessageTypes DEF Typed, UserMessages
<1>2. m \in Messages /\ ~IsAnswer(m)
    BY <1>1, MessageTypes DEF IsAnswer
<1>3. last' = last
    <2>1. messages' # messages /\ Last(messages') = m
        BY <1>0, <1>1, <1>2, EndsAppend
    <2> QED BY <1>2, <2>1 DEF RunStep, Listen, Heard
<1>4. messages' # <<>> /\ Askable(messages')
    BY <1>0, <1>1, <1>2, EndsAppend DEF Askable
<1>5. /\ run.at \in {"prompts", "inject"} /\ run'.more = run.more
      /\ run'.at \in {"prompts", "inject", "steer", "request", "refused"}
      /\ run'.at = "steer" => run.at = "prompts"
    <2>1. CASE DeliverPrompt
        BY <1>0, <2>1 DEF DeliverPrompt, Runs, At
    <2>2. CASE Inject
        BY <1>0, <2>2 DEF Inject, Runs, At, Asking
    <2> QED BY <2>1, <2>2
<1>6. run'.at = "steer" => run'.more
    BY <1>5 DEF Batch
<1>7. last.kind \notin Failures
    BY <1>5 DEF Sound, Judgement, Running, At
<1>8. ~Ending'
    BY <1>5, <1>6 DEF Ending, RunStep
<1> QED BY <1>1, <1>2, <1>3, <1>4, <1>5, <1>7, <1>8, QuietStepSound

LEMMA PollStepSound ==
    ASSUME Typed, Held, Batch, Sound, RunStep, PollSteering \/ PollFollowUp
    PROVE  Judgement' /\ Asked'
<1>0. run \in Runs
    BY DEF Typed, AgentTyped
<1>1. messages' = messages /\ last' = last /\ at' = "running" /\ active
    BY RunStepAdds DEF PollSteering, PollFollowUp, RunStep, Listen
<1>2. /\ run.at \in {"steer", "followUp"} /\ run'.more = run.more
      /\ run'.at \in {"inject", "request", "refused", "followUp", "end"}
      /\ run'.at \in {"request", "refused"} => run.at = "steer" /\ run.more
      /\ run'.at \in {"followUp", "end"} => ~run.more
    <2>1. CASE PollSteering
        BY <1>0, <2>1 DEF PollSteering, Runs, At, Asking
    <2>2. CASE PollFollowUp
        BY <1>0, <2>2 DEF PollFollowUp, Runs, At, Batch
    <2> QED BY <2>1, <2>2
<1>3. last.kind \notin Failures
    BY <1>2 DEF Sound, Judgement, Running, At
<1>4. messages # <<>> /\ (run.at = "steer" /\ run.more => Askable(messages))
    BY <1>1, <1>2 DEF Sound, Asked
<1>5. Ending' => Ending
    BY <1>1, <1>2 DEF Ending
<1> QED BY <1>1, <1>2, <1>3, <1>4, <1>5, QuietStepSound

LEMMA RespondSound ==
    ASSUME Typed, Held, Batch, Sound, RunStep,
           NEW stop \in Stops, NEW calls \in 0..MaxCalls, Respond(stop, calls)
    PROVE  Judgement' /\ Asked'
<1>0. /\ run \in Runs /\ messages \in Seq(Messages) /\ entries \in Seq(Messages)
      /\ CutsInside(entries) /\ calls \in Nat
    BY Naturals DEF Typed, AgentTyped, SessionTyped
<1> DEFINE m == Answer(stop, calls)
<1>1. messages' = Append(messages, m) /\ m \in Messages
    BY RespondType DEF Typed
<1>2. IsAnswer(m) /\ m.kind = stop
    BY DEF Answer, Message, IsAnswer
<1> HIDE DEF m
<1>3. /\ entries' = Append(entries, m) /\ last' = m /\ at' = "running" /\ active' = TRUE
      /\ stranded' = stranded /\ Running'
    <2>1. messages' # messages /\ Last(messages') = m
        BY <1>0, <1>1, EndsAppend
    <2>2. Heard(m)
        BY <2>1 DEF RunStep, Listen
    <2>3. Running'
        BY StaysRunning DEF RunStep, Typed, Running, At
    <2> QED BY <1>2, <2>2, <2>3, RunStepAdds DEF Heard, Persisted
<1>4. /\ run'.at = After(stop, calls) /\ run'.more = FALSE /\ run'.calls = calls
      /\ run'.prepared = (IF After(stop, calls) = "results"
                          THEN [c \in 1..calls |-> "answered"] ELSE <<>>)
    BY <1>0 DEF Respond, Runs
<1>5. /\ After(stop, calls) \in {"closing", "steer", "results", "prepare"}
      /\ stop \in Failures => After(stop, calls) = "closing"
      /\ stop = "length" => After(stop, calls) \in {"steer", "results"}
    BY <1>0 DEF After, Failures
<1>6. Askable(messages)
    BY DEF Respond, Answers, At, Sound, Asked
<1>7. Judgement'
    <2>1. run'.at = "results" => /\ Len(run'.prepared) = run'.calls
                                 /\ \A c \in 1..Len(run'.prepared) : run'.prepared[c] = "answered"
        <3>1. /\ Len([c \in 1..calls |-> "answered"]) = calls
              /\ \A c \in 1..calls : [k \in 1..calls |-> "answered"][c] = "answered"
            BY <1>0
        <3> QED BY <1>4, <3>1
    <2>2. m.kind \in Incomplete => stop \in Failures \/ stop = "length"
        BY <1>2 DEF Incomplete
    <2> QED BY <1>2, <1>3, <1>4, <1>5, <2>1, <2>2 DEF Judgement, Running, At
<1>8. /\ EndsWithAnswer(messages') /\ Last(messages') = m /\ DropAnswer(messages') = messages
      /\ messages' # <<>> /\ EndsWithAnswer(entries')
    BY <1>0, <1>1, <1>2, <1>3, EndsAppend
<1>9. m.kind \in Incomplete => FailedBehind(entries')
    <2>1. EndsWithAnswer(entries) => Failed(Last(entries))
        BY <1>0, <1>6, AnswerFailed DEF Sound, SessionHoldsTheTranscript
    <2> QED BY <1>0, <1>1, <1>2, <1>3, <2>1, FailedAppend DEF Failed
<1>10. stranded' => Adjacent(entries')
    BY <1>0, <1>1, <1>3, AdjacentAppend DEF Sound, Asked
<1> QED BY <1>3, <1>4, <1>5, <1>6, <1>7, <1>8, <1>9, <1>10 DEF Asked

\* Behind results there is something to answer.
LEMMA ResultsAskable ==
    ASSUME NEW s \in Seq(Messages), NEW n \in Nat, n > 0
    PROVE  Askable(s \o Results(n))
<1>1. n - 1 \in Nat /\ n - 1 + 1 = n
    OBVIOUS
<1>2. Results(n) = Append(Results(n - 1), Result(n)) /\ Results(n - 1) \in Seq(Messages)
    BY <1>1, ResultsGrow
<1>3. Result(n) \in Messages /\ ~IsAnswer(Result(n))
    BY MessageTypes DEF Result, Message, IsAnswer
<1>4. s \o Results(n) = Append(s \o Results(n - 1), Result(n))
    BY <1>2, <1>3, ConcatAppend
<1>5. s \o Results(n - 1) \in Seq(Messages)
    BY <1>2, ConcatProperties
<1> QED BY <1>3, <1>4, <1>5, EndsAppend DEF Askable

LEMMA BatchStepSound ==
    ASSUME Typed, Held, Batch, Sound, RunStep,
           PrepareCall \/ CheckSignal \/ \E c \in 1..MaxCalls : FinishCall(c)
    PROVE  Judgement' /\ Asked'
<1>0. /\ run \in Runs /\ run.prepared \in Seq(Outcomes \cup {"ready"}) /\ run.given \in Nat
      /\ run.context \in Seq(Messages) /\ Len(run.prepared) \in Nat
    BY RunParts DEF Typed, AgentTyped
<1>1. /\ messages' = messages /\ last' = last /\ at' = "running" /\ active
      /\ run.at \in {"prepare", "check", "results"}
    BY RunStepAdds DEF PrepareCall, CheckSignal, FinishCall, RunStep, Listen, At
<1>2. messages # <<>> /\ last.kind \notin Failures
    BY <1>1 DEF Sound, Judgement, Asked, Running, At
<1>3. last.kind \in Incomplete =>
          /\ run.at # "prepare" /\ Len(run.prepared) = run.calls
          /\ \A c \in 1..Len(run.prepared) : run.prepared[c] = "answered"
    BY <1>1 DEF Sound, Judgement, Running, At
<1>4. CASE PrepareCall
    <2>1. run.at = "prepare" /\ run'.at \in {"check", "results"}
        BY <1>0, <1>4 DEF PrepareCall, Runs, At
    <2>2. ~Ending'
        BY <1>1, <2>1 DEF Ending
    <2> QED BY <1>1, <1>2, <1>3, <2>1, <2>2, QuietStepSound
<1>5. CASE CheckSignal
    <2>1. /\ run.at = "check"
          /\ \/ run' = [run EXCEPT !.at = "prepare"] /\ Len(run.prepared) # run.calls
             \/ run' = [run EXCEPT !.at = "results"]
             \/ run' = Turned(run) /\ ~Parallel
        BY <1>5 DEF CheckSignal, At
    <2>2. CASE run' = [run EXCEPT !.at = "prepare"] /\ Len(run.prepared) # run.calls
        <3>1. run'.at = "prepare" /\ last.kind \notin Incomplete
            BY <1>0, <1>3, <2>2 DEF Runs
        <3> QED BY <1>1, <1>2, <3>1, QuietStepSound
    <2>3. CASE run' = [run EXCEPT !.at = "results"]
        <3>1. run'.at = "results" /\ run'.prepared = run.prepared /\ run'.calls = run.calls
            BY <1>0, <2>3 DEF Runs
        <3>2. ~Ending'
            BY <1>1, <3>1 DEF Ending
        <3> QED BY <1>1, <1>2, <1>3, <3>1, <3>2, QuietStepSound
    <2>4. CASE run' = Turned(run) /\ ~Parallel
        <3>1. /\ run'.at = "steer"
              /\ run'.more = (\E c \in 1..run.given : run.prepared[c] # "terminates")
            BY <1>0, <2>4 DEF Turned, Runs
        <3>2. run.given = Len(run.prepared) /\ run.given > 0
            <4>1. run.prepared # <<>> /\ run.given = Len(run.prepared)
                BY <2>1, <2>4 DEF Batch
            <4> QED BY <1>0, <4>1, EmptySeq
        <3>3. Askable(messages)
            <4>1. messages = run.context \o Results(run.given)
                BY <2>1 DEF Held
            <4> QED BY <1>0, <3>2, <4>1, ResultsAskable
        <3>4. last.kind \in Incomplete => run'.more
            <4>1. 1 \in 1..run.given /\ 1 \in 1..Len(run.prepared)
                BY <1>0, <3>2
            <4> QED BY <1>3, <3>1, <4>1
        <3>5. last.kind \in Incomplete => ~Ending'
            BY <1>1, <3>1, <3>4 DEF Ending
        <3> QED BY <1>1, <1>2, <3>1, <3>3, <3>5, QuietStepSound
    <2> QED BY <2>1, <2>2, <2>3, <2>4
<1>6. CASE \E c \in 1..MaxCalls : FinishCall(c)
    <2>1. PICK c \in 1..MaxCalls : FinishCall(c)
        BY <1>6
    <2>2. run'.at = "results" /\ run.prepared[c] = "ready" /\ c \in 1..Len(run.prepared)
        BY <1>0, <2>1 DEF FinishCall, Runs, At
    <2>3. last.kind \notin Incomplete
        BY <1>3, <2>2
    <2> QED BY <1>1, <1>2, <2>2, <2>3, QuietStepSound
<1> QED BY <1>4, <1>5, <1>6

LEMMA GiveResultSound ==
    ASSUME Typed, Held, Batch, Sound, RunStep, GiveResult
    PROVE  Judgement' /\ Asked'
<1> DEFINE r == [run EXCEPT !.given = @ + 1]
<1>12. /\ run \in Runs /\ run.prepared \in Seq(Outcomes \cup {"ready"}) /\ run.given \in Nat
       /\ run.at = "results" /\ messages \in Seq(Messages)
    BY RunParts DEF Typed, AgentTyped, GiveResult, At
<1>0. /\ run \in Runs /\ run.prepared \in Seq(Outcomes \cup {"ready"}) /\ run.given \in Nat
      /\ run.at = "results" /\ run.given + 1 \in Nat /\ Len(run.prepared) \in Nat
      /\ messages \in Seq(Messages)
    BY <1>12
<1> DEFINE m == Result(run.given + 1)
<1>1. messages' = Append(messages, m) /\ m \in Messages /\ m \in Spoken
    BY GiveResultType DEF Typed
<1>2. ~IsAnswer(m)
    BY DEF Result, Message, IsAnswer
<1> HIDE DEF m
<1>3. last' = last /\ at' = "running" /\ active
    <2>1. messages' # messages /\ Last(messages') = m
        BY <1>0, <1>1, EndsAppend
    <2> QED BY <1>2, <2>1, RunStepAdds DEF RunStep, Listen, Heard
<1>4. messages' # <<>> /\ Askable(messages')
    BY <1>0, <1>1, <1>2, EndsAppend DEF Askable
<1>5. last.kind \notin Failures
    BY <1>0 DEF Sound, Judgement, Running, At
<1>6. last.kind \in Incomplete =>
          /\ Len(run.prepared) = run.calls
          /\ \A c \in 1..Len(run.prepared) : run.prepared[c] = "answered"
    BY <1>0 DEF Sound, Judgement, Running, At
<1>7. r \in Runs
    BY <1>0 DEF Runs
<1>8. /\ r.at = "results" /\ r.given = run.given + 1 /\ r.prepared = run.prepared
      /\ r.calls = run.calls
    BY <1>0 DEF Runs
<1>9. \/ run' = r
      \/ run' = Turned(r) /\ r.given = Len(run.prepared)
      \/ run' = [r EXCEPT !.at = "check"]
    BY DEF GiveResult
<1> HIDE DEF r
<1>10. CASE run' = r \/ run' = [r EXCEPT !.at = "check"]
    <2>1. /\ run'.at \in {"check", "results"} /\ run'.prepared = run.prepared
          /\ run'.calls = run.calls
        BY <1>7, <1>8, <1>10 DEF Runs
    <2>2. ~Ending'
        BY <1>3, <2>1 DEF Ending
    <2> QED BY <1>1, <1>2, <1>3, <1>4, <1>5, <1>6, <2>1, <2>2, QuietStepSound
<1>11. CASE run' = Turned(r) /\ r.given = Len(run.prepared)
    <2>1. run'.at = "steer" /\ run'.more = (\E c \in 1..r.given : r.prepared[c] # "terminates")
        BY <1>7, <1>11 DEF Turned, Runs
    <2>2. 1 \in 1..r.given /\ 1 \in 1..Len(run.prepared)
        BY <1>0, <1>8, <1>11
    <2>3. last.kind \in Incomplete => run'.more
        BY <1>6, <1>8, <2>1, <2>2
    <2>4. last.kind \in Incomplete => ~Ending'
        BY <1>3, <2>1, <2>3 DEF Ending
    <2> QED BY <1>1, <1>2, <1>3, <1>4, <1>5, <2>1, <2>4, QuietStepSound
<1> QED BY <1>9, <1>10, <1>11

LEMMA CloseRunSound ==
    ASSUME Typed, Held, Batch, Sound, RunStep, CloseRun
    PROVE  Judgement' /\ Asked'
<1>1. messages' = messages /\ last' = last /\ run.at = "closing" /\ run'.at = "end"
    BY DEF CloseRun, RunStep, Listen, At, Typed, AgentTyped, Runs
<1>2. Ending /\ Ending' /\ messages # <<>>
    BY <1>1, RunStepAdds DEF Ending, Sound, Asked
<1> QED BY <1>1, <1>2, QuietStepSound

LEMMA RunStepSound == ASSUME Typed, Held, Batch, Sound, RunStep PROVE Sound'
<1>1. SessionHoldsTheTranscript'
    BY RunStepHolds
<1>2. Judgement' /\ Asked'
    BY InputStepSound, PollStepSound, RespondSound, BatchStepSound, GiveResultSound,
       CloseRunSound DEF RunStep, AgentStep
<1> QED BY <1>1, <1>2 DEF Sound

LEMMA RunEndsSound == ASSUME Typed, Sound, RunEnds PROVE Sound'
<1>1. /\ run.at = "end" /\ at = "running" /\ at' = "post" /\ active = TRUE /\ active' = TRUE
      /\ run'.at = "idle" /\ messages' = messages /\ entries' = entries /\ last' = last
      /\ stranded' = stranded
    BY NoRunType DEF RunEnds, EndRun, At, Typed, Paced, SessionTyped
<1>2. Ending /\ messages # <<>>
    BY <1>1 DEF Ending, Sound, Asked
<1>3. Judgement'
    BY <1>1 DEF Sound, Judgement, Running, At
<1>4. Asked'
    BY <1>1, <1>2 DEF Sound, Asked, Ending
<1> QED BY <1>1, <1>3, <1>4 DEF Sound, SessionHoldsTheTranscript

LEMMA LaunchSound == ASSUME Typed, Sound, Launch PROVE Sound'
<1>1. /\ messages' = messages /\ entries' = entries /\ last' = last /\ stranded' = stranded
      /\ at' = "running" /\ at \in {"launch", "preflight"} /\ run'.at = "prompts"
    BY NoRunType DEF Launch, StartPrompt, Started, NoRun
<1>2. last = None
    BY <1>1 DEF Sound, Judgement, Typed, Paced
<1>3. last.kind \notin Incomplete
    BY <1>2 DEF None, Message, Incomplete, Failures
<1>4. Judgement'
    BY <1>1, <1>2, <1>3 DEF Judgement, Incomplete
<1>5. Asked'
    BY <1>1, <1>3 DEF Sound, Asked
<1> QED BY <1>1, <1>4, <1>5 DEF Sound, SessionHoldsTheTranscript

\* A failure that ended a run is dropped, and what is left has something to answer.
LEMMA FailureDropped ==
    ASSUME Typed, Sound, at = "post", last.kind \in Incomplete
    PROVE  /\ Askable(DropAnswer(messages)) /\ ~EndsWithAnswer(DropAnswer(messages))
           /\ Lasting(DropAnswer(messages)) = Lasting(messages)
           /\ FailedBehind(entries) /\ messages \in Seq(Messages)
           /\ entries # <<>> /\ Last(entries).role # "summary"
<1>1. /\ EndsWithAnswer(messages) /\ Last(messages) = last /\ messages \in Seq(Messages)
      /\ Askable(DropAnswer(messages)) /\ FailedBehind(entries)
    BY DEF Sound, Asked, Ending, Typed, AgentTyped
<1>2. Failed(Last(messages))
    BY <1>1 DEF Failed, EndsWithAnswer
<1>3. Last(entries).role # "summary" /\ entries # <<>>
    BY <1>1 DEF FailedBehind, Failed, IsAnswer
<1> QED BY <1>1, <1>2, <1>3, LastingDrop DEF Askable

LEMMA PrepareRetrySound == ASSUME Typed, Sound, PrepareRetry PROVE Sound'
<1>1. /\ messages' = DropAnswer(messages) /\ entries' = entries /\ last' = last
      /\ stranded' = stranded /\ run' = run /\ active' = active
      /\ at = "post" /\ at' = "backoff" /\ last.kind = "error"
    BY DEF PrepareRetry
<1>2. last.kind \in Incomplete
    BY <1>1 DEF Incomplete, Failures
<1>3. /\ Askable(messages') /\ ~EndsWithAnswer(messages') /\ messages' # <<>>
      /\ Lasting(messages') = Lasting(messages)
    BY <1>1, <1>2, FailureDropped DEF Askable
<1>4. run = NoRun /\ ~Running
    BY <1>1 DEF Typed, Paced
<1>5. run'.at = "idle" /\ ~Ending'
    BY <1>1, <1>4, NoRunType DEF Ending
<1>6. Judgement'
    BY <1>1, <1>4 DEF Sound, Judgement, Running, At
<1>7. Asked'
    BY <1>1, <1>3, <1>5 DEF Sound, Asked
<1> QED BY <1>1, <1>3, <1>6, <1>7 DEF Sound, SessionHoldsTheTranscript

\* Before a prompt the answer that is judged is the last of the transcript, where that
\* ends with one.
LEMMA JudgedIsLast ==
    ASSUME messages \in Seq(Messages), at = "preflight", EndsWithAnswer(messages)
    PROVE  Judged = Last(messages)
<1> DEFINE answers == {k \in DOMAIN messages : IsAnswer(messages[k])}
<1>1. /\ messages # <<>> /\ Len(messages) \in Nat \ {0} /\ Last(messages) = messages[Len(messages)]
      /\ DOMAIN messages = 1..Len(messages)
    BY LastType DEF EndsWithAnswer
<1>2. Len(messages) \in answers
    BY <1>1 DEF EndsWithAnswer
<1>3. \A k \in answers : k \in Nat /\ k <= Len(messages)
    BY <1>1
<1>4. Judged = messages[CHOOSE k \in answers : \A o \in answers : o <= k]
    BY <1>2 DEF Judged
<1>5. (CHOOSE k \in answers : \A o \in answers : o <= k) = Len(messages)
    <2> DEFINE g == CHOOSE k \in answers : \A o \in answers : o <= k
    <2> HIDE DEF answers
    <2>1. g \in answers /\ \A o \in answers : o <= g
        BY <1>2, <1>3
    <2> HIDE DEF g
    <2>2. g \in Nat /\ g <= Len(messages) /\ Len(messages) <= g
        <3>1. g \in Nat /\ g <= Len(messages)
            BY <1>3, <2>1, Zenon
        <3>2. Len(messages) <= g
            BY <1>2, <2>1, Zenon
        <3> QED BY <3>1, <3>2
    <2>3. g = Len(messages)
        <3>1. \A i \in Nat, j \in Nat : i <= j /\ j <= i => i = j
            OBVIOUS
        <3> QED BY <1>1, <2>2, <3>1
    <2> QED BY <2>3 DEF g
<1> QED BY <1>1, <1>4, <1>5

LEMMA RecoverSound == ASSUME Typed, Sound, Recover PROVE Sound'
<1>1. /\ messages' = DropAnswer(messages) /\ entries' = entries /\ last' = last
      /\ stranded' = stranded /\ run' = run /\ active' = active
      /\ at \in {"post", "cancelled", "preflight"} /\ IsAnswer(Judged)
      /\ Judged.kind \in Incomplete /\ Judged.kind # "error"
    BY DEF Recover, Recoverable, Checked
<1>2. run = NoRun /\ ~Running /\ run'.at = "idle" /\ messages \in Seq(Messages)
    BY <1>1, NoRunType DEF Typed, Paced, AgentTyped
<1>3. at # "cancelled"
    BY <1>1 DEF Judged, Sound, Judgement
<1>4. \/ /\ at' = "compacting" /\ job'.retry = TRUE /\ job'.after = Onward
         /\ entries # <<>> /\ Last(entries).role # "summary"
      \/ at' = Onward
    <2>1. CASE Compacting(TRUE)
        BY <2>1 DEF Compacting, Cuts
    <2> QED BY <2>1 DEF Recover
<1>5. Judgement'
    <2>1. at' \notin {"backoff", "cancelled"}
        BY <1>4 DEF Onward
    <2> QED BY <1>1, <1>2, <2>1 DEF Sound, Judgement, Running, At
<1>6. CASE at = "post"
    <2>1. last.kind \in Incomplete
        BY <1>1, <1>6 DEF Judged
    <2>2. /\ Askable(messages') /\ ~EndsWithAnswer(messages') /\ messages' # <<>>
          /\ Lasting(messages') = Lasting(messages) /\ FailedBehind(entries)
        BY <1>1, <1>6, <2>1, FailureDropped DEF Askable
    <2>3. at' \in {"compacting", "decide"} /\ ~Ending'
        BY <1>2, <1>4, <1>6 DEF Onward, Ending
    <2>4. CASE at' = "compacting"
        <3>1. entries # <<>> /\ Last(entries).role # "summary"
            BY <1>4, <1>6, <2>4 DEF Onward
        <3>2. Asked'
            BY <1>1, <1>2, <2>2, <2>3, <2>4, <3>1 DEF Sound, Asked
        <3> QED BY <1>1, <1>5, <2>2, <3>2 DEF Sound, SessionHoldsTheTranscript
    <2>5. CASE at' = "decide"
        <3>1. Asked'
            BY <1>1, <1>2, <2>2, <2>3, <2>5 DEF Sound, Asked
        <3> QED BY <1>1, <1>5, <2>2, <3>1 DEF Sound, SessionHoldsTheTranscript
    <2> QED BY <2>3, <2>4, <2>5
<1>7. CASE at = "preflight"
    <2>1. EndsWithAnswer(messages) => Failed(Last(messages))
        BY <1>1, <1>2, <1>7, JudgedIsLast DEF Failed
    <2>2. Lasting(messages') = Lasting(messages)
        BY <1>1, <1>2, <2>1, LastingDrop
    <2>3. ~active /\ ~active'
        BY <1>1, <1>7 DEF Typed, Paced
    <2>4. /\ at' \in {"launch", "compacting"} /\ ~Ending'
          /\ at' = "compacting" => /\ job'.after = "launch"
                                   /\ entries # <<>> /\ Last(entries).role # "summary"
        BY <1>2, <1>4, <1>7 DEF Onward, Ending
    <2>5. EndsWithAnswer(messages') => EndsWithAnswer(messages)
        BY <1>1 DEF DropAnswer
    <2>6. stranded' => Adjacent(entries')
        BY <1>1 DEF Sound, Asked
    <2>7. EndsWithAnswer(messages') =>
              EndsWithAnswer(entries') \/ (entries' # <<>> /\ Last(entries').role = "summary")
        BY <1>1, <2>5 DEF Sound, Asked
    <2>8. Asked'
        BY <1>1, <1>2, <2>3, <2>4, <2>6, <2>7 DEF Asked
    <2> QED BY <1>1, <1>5, <2>2, <2>8 DEF Sound, SessionHoldsTheTranscript
<1> QED BY <1>1, <1>3, <1>6, <1>7

LEMMA CompactSound ==
    ASSUME Typed, Sound, CompactThreshold \/ CompactManually
    PROVE  Sound'
<1>1. /\ messages' = messages /\ entries' = entries /\ last' = last
      /\ stranded' = stranded /\ run' = run /\ active' = active
      /\ at \in {"idle", "post", "cancelled", "preflight"} /\ at' = "compacting"
      /\ job'.retry = FALSE
    BY DEF CompactThreshold, CompactManually, Compacting, Checked, agent
<1>2. run = NoRun /\ ~Running /\ run'.at = "idle"
    BY <1>1, NoRunType DEF Typed, Paced, AgentTyped
<1>3. entries # <<>> /\ Last(entries).role # "summary"
    BY DEF CompactThreshold, CompactManually, Compacting, Cuts
<1>4. Judgement'
    BY <1>1, <1>2 DEF Sound, Judgement, Running, At
<1>5. ~Ending'
    BY <1>1, <1>2 DEF Ending
<1>6. Asked'
    BY <1>1, <1>2, <1>3, <1>5 DEF Sound, Asked
<1> QED BY <1>1, <1>4, <1>6 DEF Sound, SessionHoldsTheTranscript

LEMMA CompactionFailsSound == ASSUME Typed, Sound, CompactionFails PROVE Sound'
<1>1. /\ messages' = messages /\ entries' = entries /\ last' = last
      /\ stranded' = stranded /\ run' = run /\ active' = active
      /\ at = "compacting" /\ at' \in {"idle", "launch", "decide"}
    BY DEF CompactionFails, agent, Typed, SessionTyped, Jobs
<1>2. run = NoRun /\ ~Running /\ run'.at = "idle"
    BY <1>1, NoRunType DEF Typed, Paced, AgentTyped
<1>4. Judgement'
    BY <1>1, <1>2 DEF Sound, Judgement, Running, At
<1>5. ~Ending'
    BY <1>1, <1>2 DEF Ending
<1>6. Asked'
    BY <1>1, <1>2, <1>5 DEF Sound, Asked
<1> QED BY <1>1, <1>4, <1>6 DEF Sound, SessionHoldsTheTranscript

\* What a compaction restores: a summary and at least the last entry, or all but the
\* last where that failed; it ends with an answer only behind another failure.
LEMMA RestoredIs ==
    ASSUME NEW s \in Seq(Messages), CutsInside(s), NEW m \in Messages, m.role = "summary",
           m.n \in 1..Len(s), Last(s).role # "summary", NEW retry \in BOOLEAN
    PROVE  /\ Restored(Append(s, m), retry) # <<>>
           /\ Restored(Append(s, m), retry) \in Seq(Messages)
           /\ Lasting(Restored(Append(s, m), retry)) = Lasting(Rebuilt(Append(s, m)))
           /\ retry /\ FailedBehind(s) /\ EndsWithAnswer(Restored(Append(s, m), retry))
                => Adjacent(s)
           /\ ~retry /\ EndsWithAnswer(s) => EndsWithAnswer(Restored(Append(s, m), retry))
<1> DEFINE K == SubSeq(s, m.n, Len(s))
<1> DEFINE R == Rebuilt(Append(s, m))
<1>1. /\ R = <<m>> \o K /\ K \in Seq(Messages) /\ Len(K) = Len(s) - m.n + 1
      /\ \A k \in 1..(Len(s) - m.n + 1) : K[k] = s[m.n + k - 1]
    BY RebuiltSummary
<1>2. Len(s) \in Nat /\ s # <<>> /\ m.n \in Nat /\ Len(K) >= 1 /\ Len(K) \in Nat
    BY <1>1
<1>11. m.n >= 1 /\ m.n <= Len(s) /\ Len(K) = Len(s) - m.n + 1
    BY <1>1
<1> HIDE DEF K, R
<1>3. /\ R \in Seq(Messages) /\ Len(R) = Len(K) + 1 /\ R # <<>> /\ R[1] = m
      /\ \A k \in 2..(Len(K) + 1) : R[k] = K[k - 1]
    BY <1>1, <1>2, ConcatProperties
<1>4. Last(R) = Last(s)
    <2>1. Last(R) = R[Len(R)] /\ Last(s) = s[Len(s)]
        BY <1>2, <1>3, LastType
    <2>2. Len(K) + 1 \in 2..(Len(K) + 1) /\ Len(K) \in 1..(Len(s) - m.n + 1)
          /\ Len(K) + 1 - 1 = Len(K) /\ m.n + Len(K) - 1 = Len(s)
        <3>1. \A i \in Nat, j \in Nat, k \in Nat : 1 <= i /\ i <= j /\ k = j - i + 1 =>
                  k + 1 \in 2..(k + 1) /\ k \in 1..(j - i + 1) /\ k + 1 - 1 = k /\ i + k - 1 = j
            OBVIOUS
        <3> QED BY <1>2, <1>11, <3>1
    <2>3. R[Len(R)] = K[Len(K)]
        <3>1. R[Len(K) + 1] = K[Len(K) + 1 - 1]
            BY <1>3, <2>2
        <3> QED BY <1>3, <2>2, <3>1
    <2>4. K[Len(K)] = s[Len(s)]
        <3>1. K[Len(K)] = s[m.n + Len(K) - 1]
            BY <1>1, <2>2
        <3> QED BY <2>2, <3>1
    <2> QED BY <2>1, <2>3, <2>4
<1>5. Restored(Append(s, m), retry) = IF retry /\ Last(R).kind \in Incomplete
                                      THEN DropAnswer(R) ELSE R
    BY <1>3 DEF Restored, R
<1>6. EndsWithAnswer(R) => DropAnswer(R) = Front(R) /\ Len(Front(R)) = Len(K)
                           /\ \A k \in 1..Len(K) : Front(R)[k] = R[k]
    BY <1>2, <1>3, SplitLast DEF DropAnswer, Front
<1>7. DropAnswer(R) # <<>> /\ DropAnswer(R) \in Seq(Messages)
    <2>1. CASE EndsWithAnswer(R)
        <3>1. Front(R) \in Seq(Messages) /\ Len(Front(R)) # 0
            BY <1>2, <1>3, <1>6, <2>1, SplitLast
        <3> QED BY <1>6, <2>1, <3>1
    <2> QED BY <1>3, <2>1 DEF DropAnswer
<1>8. retry /\ Last(R).kind \in Incomplete => Lasting(DropAnswer(R)) = Lasting(R)
    BY <1>3, LastingDrop DEF Failed, EndsWithAnswer
<1>9. ASSUME retry, FailedBehind(s), EndsWithAnswer(Restored(Append(s, m), retry))
      PROVE  Adjacent(s)
    <2>1. EndsWithAnswer(R) /\ Last(R).kind \in Incomplete /\ Failed(Last(s))
        BY <1>3, <1>4, <1>9 DEF FailedBehind, Failed, EndsWithAnswer
    <2>2. Restored(Append(s, m), retry) = Front(R)
        BY <1>5, <1>6, <1>9, <2>1
    <2>3. /\ Front(R) # <<>> /\ Front(R) \in Seq(Messages) /\ IsAnswer(Last(Front(R)))
        BY <1>7, <1>6, <1>9, <2>1, <2>2 DEF EndsWithAnswer
    <2>4. Last(Front(R)) = R[Len(K)]
        <3>1. Len(Front(R)) = Len(K) /\ Last(Front(R)) = Front(R)[Len(K)] /\ Len(K) \in 1..Len(K)
            BY <1>2, <1>6, <2>1, <2>3, LastType
        <3> QED BY <1>6, <2>1, <3>1
    <2>5. Len(K) >= 2
        <3>1. Len(K) # 1
            BY <1>3, <2>3, <2>4 DEF IsAnswer
        <3>2. \A k \in Nat : k >= 1 /\ k # 1 => k >= 2
            OBVIOUS
        <3> QED BY <1>2, <3>1, <3>2
    <2>6. R[Len(K)] = s[Len(s) - 1] /\ Len(s) \in 2..Len(s) /\ Len(s) - 1 \in 1..Len(s)
        <3>1. /\ Len(K) \in 2..(Len(K) + 1) /\ Len(K) - 1 \in 1..(Len(s) - m.n + 1)
              /\ m.n + (Len(K) - 1) - 1 = Len(s) - 1 /\ Len(s) >= 2
            <4>1. \A i \in Nat, j \in Nat, k \in Nat : 1 <= i /\ i <= j /\ k = j - i + 1 =>
                      (k >= 2 => /\ k \in 2..(k + 1) /\ k - 1 \in 1..(j - i + 1)
                                 /\ i + (k - 1) - 1 = j - 1 /\ j >= 2)
                OBVIOUS
            <4> QED BY <1>2, <1>11, <2>5, <4>1
        <3>2. R[Len(K)] = K[Len(K) - 1]
            BY <1>3, <3>1
        <3>3. K[Len(K) - 1] = s[m.n + (Len(K) - 1) - 1]
            BY <1>1, <3>1
        <3>4. s[m.n + (Len(K) - 1) - 1] = s[Len(s) - 1]
            BY <3>1
        <3> QED BY <1>2, <3>1, <3>2, <3>3, <3>4
    <2>7. EndsWithAnswer(Front(s)) /\ Last(Front(s)) = s[Len(s) - 1]
        <3>1. /\ Front(s) \in Seq(Messages) /\ Len(Front(s)) = Len(s) - 1
              /\ \A k \in 1..(Len(s) - 1) : Front(s)[k] = s[k]
            BY <1>2, SplitLast
        <3>2. Len(s) - 1 \in 1..(Len(s) - 1) /\ Len(s) - 1 \in Nat \ {0}
            <4>1. \A j \in Nat : j \in 2..j => j - 1 \in 1..(j - 1) /\ j - 1 \in Nat \ {0}
                OBVIOUS
            <4> QED BY <1>2, <2>6, <4>1
        <3>3. Front(s) # <<>>
            BY <3>1, <3>2
        <3>4. Last(Front(s)) = Front(s)[Len(s) - 1]
            BY <3>1, <3>3, LastType
        <3> QED BY <2>3, <2>4, <2>6, <3>1, <3>2, <3>3, <3>4 DEF EndsWithAnswer
    <2>8. Failed(s[Len(s) - 1]) /\ Failed(s[Len(s)])
        <3>1. Last(s) = s[Len(s)]
            BY <1>2, LastType
        <3> QED BY <1>9, <2>1, <2>7, <3>1 DEF FailedBehind
    <2> QED BY <2>6, <2>8 DEF Adjacent
<1>10. Lasting(Restored(Append(s, m), retry)) = Lasting(R)
    BY <1>5, <1>8
<1>12. ~retry /\ EndsWithAnswer(s) => EndsWithAnswer(Restored(Append(s, m), retry))
    BY <1>3, <1>4, <1>5 DEF EndsWithAnswer
<1> QED BY <1>3, <1>5, <1>7, <1>9, <1>10, <1>12 DEF R

LEMMA CompactionDoneSound == ASSUME Typed, Sound, CompactionDone PROVE Sound'
<1>0. /\ entries \in Seq(Messages) /\ CutsInside(entries) /\ job \in Jobs
      /\ job.cut \in 1..Len(entries) /\ Len(entries) \in Nat /\ clock \in Nat
      /\ job.after \in {"idle", "launch", "decide"} /\ job.cut \in Nat /\ job.retry \in BOOLEAN
    BY DEF CompactionDone, Typed, SessionTyped, AgentTyped, Jobs
<1> DEFINE m == Summary(job.cut)
<1>1. m \in Messages /\ m.n = job.cut /\ m.role = "summary"
    BY <1>0, MessageTypes DEF Summary, Message
<1> HIDE DEF m
<1>2. /\ entries' = Append(entries, m) /\ messages' = Restored(Append(entries, m), job.retry)
      /\ last' = last /\ stranded' = stranded /\ run' = run /\ active' = active
      /\ at = "compacting"
      /\ at' = IF job.retry /\ job.after = "decide" THEN "continue" ELSE job.after
    BY DEF CompactionDone, m
<1>3. Last(entries).role # "summary"
    BY <1>2 DEF Sound, Asked
<1>4. /\ messages' # <<>> /\ Lasting(messages') = Lasting(Rebuilt(entries'))
      /\ job.retry /\ FailedBehind(entries) /\ EndsWithAnswer(messages') => Adjacent(entries)
    BY <1>0, <1>1, <1>2, <1>3, RestoredIs
<1>5. run = NoRun /\ ~Running /\ run'.at = "idle"
    BY <1>2, NoRunType DEF Typed, Paced, AgentTyped
<1>6. at' \in {"idle", "launch", "decide", "continue"}
    BY <1>0, <1>2
<1>7. Judgement'
    BY <1>2, <1>5, <1>6 DEF Sound, Judgement, Running, At
<1>8. ~Ending'
    BY <1>5, <1>6 DEF Ending
<1>9. entries' # <<>> /\ Last(entries').role = "summary"
    BY <1>0, <1>1, <1>2, EndsAppend
<1>10. Adjacent(entries) => Adjacent(entries')
    BY <1>0, <1>1, <1>2, AdjacentAppend
<1>11. at' = "continue" /\ EndsWithAnswer(messages') => Adjacent(entries')
    <2>1. at' = "continue" => job.retry /\ job.after = "decide"
        BY <1>0, <1>2
    <2> QED BY <1>2, <1>4, <1>10, <2>1 DEF Sound, Asked
<1>12. Asked'
    BY <1>2, <1>4, <1>5, <1>6, <1>8, <1>9, <1>10, <1>11 DEF Sound, Asked
<1> QED BY <1>4, <1>7, <1>12 DEF Sound, SessionHoldsTheTranscript

LEMMA ResumeSound == ASSUME Typed, Sound, Resume PROVE Sound'
<1>1. /\ messages # <<>> /\ messages' = messages /\ run'.more = TRUE
      /\ run'.at = "prompts" \/ (run'.at = "steer" /\ ~EndsWithAnswer(messages))
    BY ContinueIs DEF Resume, Typed
<1>2. /\ entries' = entries /\ last' = None /\ stranded' = stranded /\ at' = "running"
      /\ active' = active
    BY DEF Resume
<1>3. last'.kind \notin Incomplete /\ last'.kind \notin Failures
    BY <1>2 DEF None, Message, Incomplete, Failures
<1>4. Judgement'
    BY <1>2, <1>3 DEF Judgement
<1>5. Asked'
    BY <1>1, <1>2, <1>3 DEF Sound, Asked, Askable
<1> QED BY <1>1, <1>2, <1>4, <1>5 DEF Sound, SessionHoldsTheTranscript

\* Input, calls of clearQueue and the start of a prompt leave transcript and session.
LEMMA InputSound ==
    ASSUME Typed, Sound,
           \/ Prompt \/ ClearQueue \/ UNCHANGED vars
           \/ \E kind \in {"steer", "followUp"} : Queue(kind)
    PROVE  Sound'
<1>1. /\ messages' = messages /\ entries' = entries /\ last' = last /\ stranded' = stranded
      /\ run' = run /\ active' = active /\ job' = job
      /\ at' = at \/ (at = "idle" /\ at' = "preflight")
    BY DEF Prompt, ClearQueue, Queue, vars, agent, session
<1>2. Ending' => Ending
    BY <1>1 DEF Ending
<1>3. Judgement'
    BY <1>1 DEF Sound, Judgement, Running, At
<1>4. Asked'
    BY <1>1, <1>2 DEF Sound, Asked
<1> QED BY <1>1, <1>3, <1>4 DEF Sound, SessionHoldsTheTranscript

LEMMA AbortSound == ASSUME Typed, Sound, Abort PROVE Sound'
<1>1. /\ messages' = messages /\ entries' = entries /\ last' = last /\ stranded' = stranded
      /\ active' = active /\ job' = job /\ at' = IF at = "backoff" THEN "cancelled" ELSE at
    BY DEF Abort
<1>2. /\ run'.at = run.at /\ run'.prepared = run.prepared /\ run'.calls = run.calls
      /\ run'.more = run.more
    BY DEF Abort, AbortRun, Typed, AgentTyped, Runs
<1>3. Ending' => Ending
    BY <1>1, <1>2 DEF Ending
<1>4. Judgement'
    BY <1>1, <1>2 DEF Sound, Judgement, Running, At
<1>5. Asked'
    BY <1>1, <1>2, <1>3 DEF Sound, Asked
<1> QED BY <1>1, <1>4, <1>5 DEF Sound, SessionHoldsTheTranscript

\* Shell output enters transcript and session alike.
LEMMA ShellsSound ==
    ASSUME NEW s \in Seq(Messages), NEW e \in Seq(Messages), CutsInside(e),
           Lasting(s) = Lasting(Rebuilt(e)),
           EndsWithAnswer(s) =>
              EndsWithAnswer(e) \/ (e # <<>> /\ Last(e).role = "summary"),
           NEW n \in Nat
    PROVE  /\ Lasting(s \o Shells(n)) = Lasting(Rebuilt(e \o Shells(n)))
           /\ EndsWithAnswer(s \o Shells(n)) =>
                 \/ EndsWithAnswer(e \o Shells(n))
                 \/ e \o Shells(n) # <<>> /\ Last(e \o Shells(n)).role = "summary"
           /\ Adjacent(e) => Adjacent(e \o Shells(n))
<1> DEFINE S(j) == s \o Shells(j)
           E(j) == e \o Shells(j)
           P(j) == /\ Lasting(S(j)) = Lasting(Rebuilt(E(j)))
                   /\ EndsWithAnswer(S(j)) =>
                         EndsWithAnswer(E(j)) \/ (E(j) # <<>> /\ Last(E(j)).role = "summary")
                   /\ Adjacent(e) => Adjacent(E(j))
           G == {j \in Nat : P(j)}
<1>1. S(0) = s /\ E(0) = e
    BY ShellsBehind
<1>2. 0 \in G
    BY <1>1
<1>3. ASSUME NEW j \in G PROVE j + 1 \in G
    <2>1. j \in Nat /\ j + 1 \in Nat /\ P(j)
        BY <1>3
    <2>2. S(j) \in Seq(Messages) /\ E(j) \in Seq(Messages) /\ CutsInside(E(j))
        BY <2>1, ShellsBehind, CutsShells
    <2>3. S(j + 1) = Append(S(j), Shell) /\ E(j + 1) = Append(E(j), Shell)
        BY <2>1, ShellsBehind
    <2>4. Shell \in Messages /\ Shell.role # "summary" /\ ~IsAnswer(Shell)
        BY MessageTypes DEF Shell, Message, IsAnswer
    <2> HIDE DEF S, E
    <2>5. Lasting(S(j + 1)) = Lasting(Rebuilt(E(j + 1)))
        <3>1. Lasting(Append(S(j), Shell)) = Lasting(Rebuilt(Append(E(j), Shell)))
            BY <2>1, <2>2, <2>4, BothAppend
        <3> HIDE DEF P
        <3> QED BY <2>3, <3>1
    <2>6. ~EndsWithAnswer(S(j + 1))
        <3>1. ~EndsWithAnswer(Append(S(j), Shell))
            BY <2>2, <2>4, EndsAppend
        <3> HIDE DEF P
        <3> QED BY <2>3, <3>1
    <2>7. Adjacent(e) => Adjacent(E(j + 1))
        BY <2>1, <2>2, <2>3, <2>4, AdjacentAppend
    <2> QED BY <2>1, <2>5, <2>6, <2>7
<1>4. G = Nat
    <2>1. G \in SUBSET Nat
        OBVIOUS
    <2> HIDE DEF G
    <2> QED BY <1>2, <1>3, <2>1, SetInduction
<1>5. P(n)
    BY <1>4
<1> QED BY <1>5

LEMMA RecordShellSound == ASSUME Typed, Sound, RecordShell PROVE Sound'
<1>0. /\ messages \in Seq(Messages) /\ entries \in Seq(Messages) /\ CutsInside(entries)
      /\ Shell \in Messages /\ Shell.role # "summary" /\ ~IsAnswer(Shell)
    BY MessageTypes DEF Typed, AgentTyped, SessionTyped, Shell, Message, IsAnswer
<1>1. /\ last' = last /\ stranded' = stranded /\ run' = run /\ active' = active /\ job' = job
      /\ at' = at
    BY DEF RecordShell
<1>2. Ending' => Ending
    BY <1>1 DEF Ending
<1>3. Judgement'
    BY <1>1 DEF Sound, Judgement, Running, At
<1>4. CASE active
    <2>1. messages' = messages /\ entries' = entries
        BY <1>4 DEF RecordShell, Deferred
    <2>2. Asked'
        BY <1>1, <1>2, <2>1 DEF Sound, Asked
    <2> QED BY <1>3, <2>1, <2>2 DEF Sound, SessionHoldsTheTranscript
<1>5. CASE ~active
    <2>1. messages' = Append(messages, Shell) /\ entries' = Append(entries, Shell)
        BY <1>5 DEF RecordShell, Deferred
    <2>2. /\ run = NoRun /\ at \in {"idle", "preflight", "launch", "compacting"}
          /\ at = "compacting" => job.after # "decide"
        BY <1>5 DEF Typed, Paced, SessionTyped, Points
    <2>3. run'.at = "idle" /\ ~Ending'
        BY <1>1, <2>2, NoRunType DEF Ending
    <2>4. /\ ~EndsWithAnswer(messages') /\ entries' # <<>> /\ Last(entries') = Shell
        BY <1>0, <2>1, EndsAppend
    <2>5. stranded' => Adjacent(entries')
        BY <1>0, <1>1, <2>1, AdjacentAppend DEF Sound, Asked
    <2>6. Asked'
        BY <1>0, <1>1, <1>5, <2>2, <2>3, <2>4, <2>5 DEF Asked
    <2>7. SessionHoldsTheTranscript'
        BY <1>0, <2>1, BothAppend DEF Sound, SessionHoldsTheTranscript
    <2> QED BY <1>3, <2>6, <2>7 DEF Sound
<1> QED BY <1>4, <1>5

\* A continuation is refused only behind two failures that follow each other.
LEMMA ThrowsAdjacent == ASSUME Typed, Sound, Throws PROVE Adjacent(entries)
<1>1. at \in {"backoff", "continue"} \/ (at \in {"decide", "post", "cancelled"} /\ HasQueued)
    BY DEF Throws, Due, Over
<1>2. active /\ run = NoRun
    BY <1>1 DEF Typed, Paced
<1>3. messages # <<>>
    BY <1>2, NoRunType DEF Sound, Asked
<1>4. EndsWithAnswer(messages) /\ ~HasQueued
    BY <1>3 DEF Throws, CanContinue
<1>5. at = "continue"
    BY <1>1, <1>4 DEF Sound, Asked, Askable
<1> QED BY <1>4, <1>5 DEF Sound, Asked

LEMMA SettleSound == ASSUME Typed, Sound, Settle PROVE Sound'
<1>0. /\ entries \in Seq(Messages) /\ CutsInside(entries) /\ messages \in Seq(Messages)
      /\ pending \in Nat
    BY DEF Typed, AgentTyped, SessionTyped
<1>1. messages' = messages \o Shells(pending) /\ entries' = entries \o Shells(pending)
    BY DEF Settle, Shells
<1>2. /\ run' = run /\ active' = FALSE /\ at' = "idle" /\ last' = None
      /\ stranded' = (stranded \/ Throws)
    BY DEF Settle
<1>3. run = NoRun /\ run'.at = "idle" /\ ~Running'
    BY <1>2, NoRunType DEF Settle, Throws, Due, Over, Typed, Paced, Running, At
<1>4. ~Ending'
    BY <1>2, <1>3 DEF Ending
<1>5. /\ Lasting(messages') = Lasting(Rebuilt(entries'))
      /\ EndsWithAnswer(messages') =>
            EndsWithAnswer(entries') \/ (entries' # <<>> /\ Last(entries').role = "summary")
      /\ Adjacent(entries) => Adjacent(entries')
    BY <1>0, <1>1, ShellsSound DEF Sound, Asked, SessionHoldsTheTranscript
<1>6. stranded' => Adjacent(entries')
    BY <1>2, <1>5, ThrowsAdjacent DEF Sound, Asked
<1>7. Judgement'
    BY <1>2, <1>3 DEF Judgement
<1>8. Asked'
    BY <1>2, <1>3, <1>4, <1>5, <1>6 DEF Asked
<1> QED BY <1>5, <1>7, <1>8 DEF Sound, SessionHoldsTheTranscript

LEMMA RestartSound == ASSUME Typed, Sound, Restart PROVE Sound'
<1>0. entries \in Seq(Messages) /\ CutsInside(entries)
    BY DEF Typed, SessionTyped
<1>1. /\ run' = NoRun /\ active' = FALSE /\ at' = "idle" /\ last' = None
      /\ stranded' = stranded /\ entries' = Kept /\ messages' = Rebuilt(Kept)
    BY DEF Restart
<1>2. run'.at = "idle" /\ ~Running' /\ ~Ending'
    BY <1>1, NoRunType DEF Running, At, Ending
<1>3. Adjacent(entries) => Kept = entries
    <2> SUFFICES ASSUME Adjacent(entries)
                 PROVE  \E k \in DOMAIN entries : IsAnswer(entries[k])
        BY DEF Kept
    <2>1. PICK k \in 2..Len(entries) : Failed(entries[k])
        BY DEF Adjacent
    <2>2. k \in DOMAIN entries
        BY <1>0
    <2> QED BY <2>1, <2>2 DEF Failed
<1>4. stranded' => Adjacent(entries')
    BY <1>1, <1>3 DEF Sound, Asked
<1>5. EndsWithAnswer(messages') =>
          EndsWithAnswer(entries') \/ (entries' # <<>> /\ Last(entries').role = "summary")
    <2> SUFFICES ASSUME EndsWithAnswer(Rebuilt(Kept)), Kept = <<>> \/ Last(Kept).role # "summary"
                 PROVE  EndsWithAnswer(Kept)
        BY <1>1
    <2>1. CASE Kept = <<>>
        <3>1. Rebuilt(<<>>) = <<>>
            BY DEF Rebuilt, Compactions
        <3> QED BY <2>1, <3>1
    <2>2. CASE Kept # <<>>
        <3>1. Kept = entries
            BY <2>2 DEF Kept
        <3>2. Rebuilt(Kept) # <<>> /\ Last(Rebuilt(Kept)) = Last(Kept)
            BY <1>0, <2>2, <3>1, RebuiltEnds
        <3> QED BY <2>2, <3>2 DEF EndsWithAnswer
    <2> QED BY <2>1, <2>2
<1>6. Judgement'
    BY <1>1, <1>2 DEF Judgement
<1>7. Asked'
    BY <1>1, <1>2, <1>4, <1>5 DEF Asked
<1> QED BY <1>1, <1>6, <1>7 DEF Sound, SessionHoldsTheTranscript

LEMMA NextSound == ASSUME Typed, Held, Batch, Sound, [Next]_vars PROVE Sound'
<1>1. CASE RunStep
    BY <1>1, RunStepSound
<1>2. CASE RunEnds \/ Launch \/ PrepareRetry
    BY <1>2, RunEndsSound, LaunchSound, PrepareRetrySound
<1>3. CASE Recover \/ CompactThreshold \/ CompactManually
    BY <1>3, RecoverSound, CompactSound
<1>4. CASE CompactionDone \/ CompactionFails
    BY <1>4, CompactionDoneSound, CompactionFailsSound
<1>5. CASE Resume \/ Settle
    BY <1>5, ResumeSound, SettleSound
<1>6. CASE \/ Prompt \/ ClearQueue \/ UNCHANGED vars
           \/ \E kind \in {"steer", "followUp"} : Queue(kind)
    BY <1>6, InputSound
<1>7. CASE RecordShell \/ Abort \/ Restart
    BY <1>7, RecordShellSound, AbortSound, RestartSound
<1> QED BY <1>1, <1>2, <1>3, <1>4, <1>5, <1>6, <1>7 DEF Next, SessionStep, ClientStep

LEMMA SpecSound == Spec => []Sound
<1>1. Init => Sound
    <2> SUFFICES ASSUME Init PROVE Sound
        OBVIOUS
    <2>1. /\ messages = <<>> /\ entries = <<>> /\ last = None /\ at = "idle"
          /\ ~active /\ ~stranded /\ run.at = "idle"
        BY NoRunType DEF Init, AgentInit
    <2>2. Judgement
        BY <2>1 DEF Judgement, Running, At
    <2>3. Asked
        BY <2>1 DEF Asked, Ending, EndsWithAnswer
    <2>4. Rebuilt(<<>>) = <<>>
        BY DEF Rebuilt, Compactions
    <2> QED BY <2>1, <2>2, <2>3, <2>4 DEF Sound, SessionHoldsTheTranscript
<1>2. Typed /\ Held /\ Batch /\ Sound /\ [Next]_vars => Sound'
    BY NextSound
<1> QED BY <1>1, <1>2, SpecTyped, SpecHeld, SpecBatch, PTL DEF Spec

\* What a reader of the session file rebuilds is what the agent holds, answers that
\* failed or were cut off left aside, after any number of retries, recoveries,
\* compactions, shell commands and restarts.
THEOREM SessionKeepsTheTranscript == Spec => []SessionHoldsTheTranscript
<1>1. Sound => SessionHoldsTheTranscript
    BY DEF Sound
<1> QED BY <1>1, SpecSound, PTL

\* agent.continue() refuses a continuation of the session only where two failed answers
\* follow each other in it, however retries, recoveries and compactions follow each other.
THEOREM ContinuationsAreStarted == Spec => []ContinuationsStart
<1>1. Sound => ContinuationsStart
    BY DEF Sound, Asked, ContinuationsStart, Adjacent
<1> QED BY <1>1, SpecSound, PTL

-----------------------------------------------------------------------------
(***************************************************************************)
(* Aborts                                                                  *)
(***************************************************************************)
\* A run that is about to end with an answer has it in the transcript, and what is asked
\* again was answered with a failure.  While it is quiet the run, if there is one, is
\* aborted, or has not polled for the input it was started for; and a continuation that
\* starts later has steering to take, or queued input as its prompts, or asks again for
\* an answer that failed.
Quieted ==
    /\ run.at = "closing" => EndsWithAnswer(messages)
    /\ at \in {"backoff", "cancelled", "continue"} => LastFailed
    /\ quiet =>
        /\ Running /\ ~run.aborted => run.at \in {"prompts", "steer", "inject"}
        /\ run.at = "steer" /\ ~run.aborted =>
              /\ run.more
              /\ (~run.skip /\ steering # <<>>) \/ LastFailed
        /\ run.at \in {"closing", "end"} \/ (active /\ ~Running) =>
              EndsWithAnswer(messages) \/ followUp = <<>> \/ LastFailed

Heeded == Asks => ~run.aborted /\ (Delivers \/ LastFailed)

\* The failure that a run ended with is the last answer of the session.
LEMMA BehindIsLast ==
    ASSUME entries \in Seq(Messages), FailedBehind(entries)
    PROVE  LastFailed
<1>1. entries # <<>> /\ Failed(entries[Len(entries)]) /\ Len(entries) \in Nat
    BY DEF FailedBehind, Last
<1>2. Len(entries) \in DOMAIN entries /\ (Len(entries) + 1)..Len(entries) = {}
    BY <1>1, EmptySeq
<1> QED BY <1>1, <1>2 DEF LastFailed

\* It stays the last answer when a summary is written.
LEMMA LastStaysFailed ==
    ASSUME entries \in Seq(Messages), LastFailed, NEW m \in Messages, ~IsAnswer(m),
           entries' = Append(entries, m)
    PROVE  LastFailed'
<1>1. PICK k \in DOMAIN entries :
          Failed(entries[k]) /\ \A o \in (k + 1)..Len(entries) : ~IsAnswer(entries[o])
    BY DEF LastFailed
<1>2. /\ Len(entries') = Len(entries) + 1 /\ Len(entries) \in Nat
      /\ entries'[Len(entries) + 1] = m
      /\ \A j \in 1..Len(entries) : entries'[j] = entries[j]
    BY EndsAppend
<1>3. k \in 1..Len(entries) /\ k \in DOMAIN entries' /\ entries' \in Seq(Messages)
    BY <1>1, <1>2
<1>4. ASSUME NEW o \in (k + 1)..Len(entries') PROVE ~IsAnswer(entries'[o])
    <2>1. o = Len(entries) + 1 \/ (o \in (k + 1)..Len(entries) /\ o \in 1..Len(entries))
        BY <1>2, <1>3
    <2> QED BY <1>1, <1>2, <2>1
<1>5. Failed(entries'[k])
    BY <1>1, <1>2, <1>3
<1> QED BY <1>3, <1>4, <1>5 DEF LastFailed

\* A step of a run that input delivers or polls for.
LEMMA InputStepQuieted ==
    ASSUME Typed, Quieted, RunStep, DeliverPrompt \/ Inject \/ PollSteering \/ PollFollowUp
    PROVE  Quieted' /\ (quiet => Heeded)
<1>0. /\ run \in Runs /\ run.at \in Places /\ run.aborted \in BOOLEAN /\ at' = "running"
      /\ Running /\ Running' /\ messages \in Seq(Messages) /\ active' = TRUE
      /\ steering \in Seq(UserMessages) /\ followUp \in Seq(UserMessages)
    BY RunStepAdds, RunStepTyped, RunParts DEF Typed, Paced, AgentTyped
<1>1. quiet' => quiet /\ ~Delivers /\ ~Asks
    BY DEF RunStep, Quiet
<1>2. CASE DeliverPrompt \/ Inject
    <2> DEFINE m == Head(run.rest)
    <2>1. messages' = Append(messages, m) /\ m \in UserMessages /\ m \in Messages
        BY <1>2, DeliverPromptType, InjectType, MessageTypes DEF Typed
    <2> HIDE DEF m
    <2>2. messages' # messages /\ Last(messages') = m /\ m.role = "user"
        BY <1>0, <2>1, EndsAppend DEF UserMessages
    <2>3. ~run.aborted => Delivers
        BY <2>2 DEF Delivers
    <2>4. /\ run'.aborted = run.aborted
          /\ run'.at \in {"prompts", "steer", "inject", "request", "refused"}
          /\ run.aborted => run'.at # "request"
        BY <1>0, <1>2 DEF DeliverPrompt, Inject, Asking, Runs, At
    <2>5. quiet' => run'.aborted
        BY <1>1, <2>3, <2>4
    <2>6. Heeded
        BY <2>3, <2>4 DEF Heeded, Asks
    <2> QED BY <1>0, <2>4, <2>5, <2>6 DEF Quieted
<1>3. CASE PollSteering
    <2> DEFINE taken == IF run.skip THEN <<>> ELSE Taken(steering, SteeringMode)
    <2>1. /\ messages' = messages /\ run.at = "steer" /\ run'.aborted = run.aborted
          /\ run'.at = CASE taken # <<>> -> "inject"
                         [] taken = <<>> /\ run.more -> Asking
                         [] OTHER -> "followUp"
        BY <1>0, <1>3 DEF PollSteering, Runs, At
    <2>2. CASE run.aborted
        <3>1. run'.at \in {"inject", "refused", "followUp"}
            BY <2>1, <2>2 DEF Asking
        <3> QED BY <1>0, <2>1, <2>2, <3>1 DEF Quieted, Heeded, Asks
    <2>3. CASE ~run.aborted /\ quiet
        <3>1. run.more /\ ((~run.skip /\ steering # <<>>) \/ LastFailed)
            BY <2>1, <2>3 DEF Quieted
        <3>2. ~run.skip /\ steering # <<>> => taken # <<>>
            BY <1>0, QueueTypes
        <3>3. run'.at = "inject" \/ (run'.at = "request" /\ LastFailed)
            BY <2>1, <2>3, <3>1, <3>2 DEF Asking
        <3>4. Heeded
            BY <2>3, <3>3 DEF Heeded, Asks
        <3>5. quiet' => run'.at = "inject"
            BY <1>1, <2>1, <3>3 DEF Asks
        <3> QED BY <1>0, <3>3, <3>4, <3>5 DEF Quieted
    <2>4. CASE ~quiet
        <3>1. run'.at # "closing"
            BY <2>1 DEF Asking
        <3> QED BY <1>0, <1>1, <2>4, <3>1 DEF Quieted
    <2> QED BY <2>2, <2>3, <2>4
<1>4. CASE PollFollowUp
    <2>1. /\ messages' = messages /\ run.at = "followUp" /\ run'.aborted = run.aborted
          /\ run'.at = IF followUp = <<>> THEN "end" ELSE "inject"
        BY <1>0, <1>4 DEF PollFollowUp, Runs, At
    <2>2. quiet => run.aborted
        BY <1>0, <2>1 DEF Quieted
    <2>3. run'.at = "end" => followUp' = <<>>
        BY <1>4, <2>1 DEF PollFollowUp, Left
    <2> QED BY <1>0, <1>1, <2>1, <2>2, <2>3 DEF Quieted, Heeded, Asks
<1> QED BY <1>2, <1>3, <1>4

\* A step of a run that its answers and their tool calls take.
LEMMA AnswerStepQuieted ==
    ASSUME Typed, Quieted, RunStep,
           \/ \E stop \in Stops, calls \in 0..MaxCalls : Respond(stop, calls)
           \/ PrepareCall \/ CheckSignal \/ GiveResult \/ CloseRun
           \/ \E c \in 1..MaxCalls : FinishCall(c)
    PROVE  Quieted' /\ (quiet => Heeded)
<1>0. /\ run \in Runs /\ run.at \in Places /\ run.aborted \in BOOLEAN /\ at' = "running"
      /\ Running /\ Running' /\ messages \in Seq(Messages) /\ active' = TRUE
    BY RunStepAdds, RunStepTyped, RunParts DEF Typed, Paced, AgentTyped
<1>1. run.at \in {"request", "refused", "prepare", "check", "results", "closing"}
    BY DEF Respond, Answers, PrepareCall, CheckSignal, GiveResult, CloseRun, FinishCall, At
<1>2. quiet => run.aborted
    BY <1>0, <1>1 DEF Quieted
<1>3. ASSUME run'.aborted = run.aborted, run'.at # "request",
             run'.at \in {"closing", "end"} => EndsWithAnswer(messages')
      PROVE  Quieted' /\ (quiet => Heeded)
    <2>1. quiet' => quiet
        BY DEF RunStep, Quiet
    <2>2. Heeded
        BY <1>3 DEF Heeded, Asks
    <2>3. quiet' => run'.aborted
        BY <1>2, <1>3, <2>1
    <2> QED BY <1>0, <1>3, <2>2, <2>3 DEF Quieted
<1>4. CASE \E stop \in Stops, calls \in 0..MaxCalls : Respond(stop, calls)
    <2>1. PICK stop \in Stops, calls \in 0..MaxCalls : Respond(stop, calls)
        BY <1>4
    <2> DEFINE m == Answer(stop, calls)
    <2>2. messages' = Append(messages, m) /\ m \in Messages
        BY <2>1, RespondType DEF Typed
    <2>3. IsAnswer(m)
        BY DEF Answer, Message, IsAnswer
    <2> HIDE DEF m
    <2>4. EndsWithAnswer(messages')
        BY <1>0, <2>2, <2>3, EndsAppend
    <2>5. run'.aborted = run.aborted /\ run'.at = After(stop, calls)
        BY <1>0, <2>1 DEF Respond, Runs
    <2>6. run'.at # "request"
        <3>1. calls \in Nat
            BY Naturals
        <3> QED BY <2>5, <3>1, AfterPlace
    <2> QED BY <1>3, <2>4, <2>5, <2>6
<1>5. CASE PrepareCall \/ CheckSignal \/ \E c \in 1..MaxCalls : FinishCall(c)
    <2>1. run'.aborted = run.aborted /\ run'.at \in {"prepare", "check", "results", "steer"}
        BY <1>0, <1>5 DEF PrepareCall, CheckSignal, FinishCall, Turned, Runs, At
    <2> QED BY <1>3, <2>1
<1>6. CASE GiveResult
    <2> DEFINE r == [run EXCEPT !.given = @ + 1]
    <2>1. run.given + 1 \in Nat /\ run.at = "results"
        BY <1>0, <1>6, RunParts DEF GiveResult, At
    <2>2. r \in Runs /\ r.aborted = run.aborted /\ r.at = "results"
        BY <1>0, <2>1 DEF Runs
    <2>3. run' \in {r, Turned(r), [r EXCEPT !.at = "check"]}
        BY <1>6 DEF GiveResult
    <2> HIDE DEF r
    <2>4. run'.aborted = run.aborted /\ run'.at \in {"check", "results", "steer"}
        BY <2>2, <2>3 DEF Turned, Runs
    <2> QED BY <1>3, <2>4
<1>7. CASE CloseRun
    <2>1. /\ messages' = messages /\ run.at = "closing" /\ run'.at = "end"
          /\ run'.aborted = run.aborted
        BY <1>0, <1>7 DEF CloseRun, At, Runs
    <2>2. EndsWithAnswer(messages')
        BY <2>1 DEF Quieted
    <2> QED BY <1>3, <2>1, <2>2
<1> QED BY <1>4, <1>5, <1>6, <1>7

LEMMA ResumeQuieted == ASSUME Typed, Typed', Quieted, Resume PROVE Quieted' /\ ~Asks
<1>1. /\ run'.more = TRUE /\ messages' = messages
      /\ \/ /\ run'.at = "steer" /\ ~EndsWithAnswer(messages) /\ run'.skip = FALSE
            /\ steering' = steering /\ followUp' = followUp
         \/ run'.at = "prompts" /\ EndsWithAnswer(messages)
    BY ContinueIs DEF Resume, Typed
<1>2. /\ at' = "running" /\ active' = active /\ Running' /\ quiet' = quiet
      /\ entries' = entries
    BY DEF Resume, Typed, Paced
<1>3. active /\ ~Running
    BY DEF Resume, Due, Over, Typed, Paced
<1>4. at \in {"backoff", "cancelled", "continue"} \/ HasQueued
    BY DEF Resume, Due
<1>5. quiet /\ run'.at = "steer" => steering' # <<>> \/ LastFailed
    BY <1>1, <1>3, <1>4 DEF Quieted, HasQueued
<1>6. LastFailed' = LastFailed
    BY <1>2 DEF LastFailed
<1> QED BY <1>1, <1>2, <1>5, <1>6 DEF Quieted, Asks

LEMMA AbortQuieted ==
    ASSUME Typed, Typed', Quieted, Abort
    PROVE  Quieted' /\ ~Asks
<1>1. /\ messages' = messages /\ followUp' = followUp /\ entries' = entries
      /\ active' = active /\ at' = IF at = "backoff" THEN "cancelled" ELSE at
      /\ quiet' = (quiet \/ (Running /\ ~At("end")) \/ (at = "backoff" /\ ~HasQueued))
    BY DEF Abort, queues
<1>2. run'.at = run.at /\ run'.aborted = Running /\ Running' = Running
    BY DEF Abort, AbortRun, Typed, AgentTyped, Runs, Running, At
<1>3. Running <=> at = "running"
    BY DEF Typed, Paced
<1>4. LastFailed' = LastFailed
    BY <1>1 DEF LastFailed
<1>5. quiet' /\ (run.at \in {"closing", "end"} \/ (active /\ ~Running))
          => EndsWithAnswer(messages) \/ followUp = <<>> \/ LastFailed
    BY <1>1, <1>3 DEF Quieted, HasQueued, Running, At
<1>6. run.at = "steer" => Running
    BY DEF Running, At
<1> QED BY <1>1, <1>2, <1>3, <1>4, <1>5, <1>6 DEF Quieted, Asks

LEMMA CompactionDoneQuieted ==
    ASSUME Typed, Typed', Sound, Quieted, CompactionDone
    PROVE  Quieted' /\ ~Asks
<1>0. /\ entries \in Seq(Messages) /\ CutsInside(entries) /\ clock \in Nat
      /\ job.cut \in 1..Len(entries) /\ job.retry \in BOOLEAN /\ job.cut \in Nat
      /\ job.after \in {"idle", "launch", "decide"}
    BY DEF CompactionDone, Typed, SessionTyped, AgentTyped, Jobs
<1>1. /\ at = "compacting" /\ active' = active /\ run' = run /\ quiet' = quiet
      /\ followUp' = followUp
      /\ at' = (IF job.retry /\ job.after = "decide" THEN "continue" ELSE job.after)
      /\ messages' = Restored(Append(entries, Summary(job.cut)), job.retry)
      /\ entries' = Append(entries, Summary(job.cut))
    BY DEF CompactionDone, queues
<1>2. run.at = "idle" /\ ~Running /\ run'.at = "idle" /\ ~Running'
    BY <1>1, NoRunType DEF Typed, Paced, Running, At
<1>3. active => job.after = "decide"
    BY <1>1 DEF Typed, Paced
<1>4. EndsWithAnswer(messages) => EndsWithAnswer(entries) /\ Last(entries).role # "summary"
    BY <1>1 DEF Sound, Asked
<1>5. /\ Summary(job.cut) \in Messages /\ Summary(job.cut).role = "summary"
      /\ Summary(job.cut).n = job.cut /\ ~IsAnswer(Summary(job.cut))
    BY <1>0, MessageTypes DEF Summary, Message, IsAnswer
<1>6. ~job.retry /\ EndsWithAnswer(messages) => EndsWithAnswer(messages')
    BY <1>0, <1>1, <1>4, <1>5, RestoredIs
<1>7. LastFailed => LastFailed'
    BY <1>0, <1>1, <1>5, LastStaysFailed
<1>8. job.retry /\ job.after = "decide" => LastFailed'
    BY <1>0, <1>1, <1>7, BehindIsLast DEF Sound, Asked
<1>9. quiet' /\ active' => EndsWithAnswer(messages') \/ followUp' = <<>> \/ LastFailed'
    BY <1>0, <1>1, <1>2, <1>3, <1>6, <1>7, <1>8 DEF Quieted
<1>10. at' \in {"backoff", "cancelled", "continue"} => LastFailed'
    BY <1>0, <1>1, <1>8
<1> QED BY <1>2, <1>9, <1>10 DEF Quieted, Asks

\* What the session does between a run and what follows it.
LEMMA AfterRunQuieted ==
    ASSUME Typed, Typed', Sound, Quieted,
           \/ RunEnds \/ Launch \/ PrepareRetry \/ Recover \/ CompactThreshold
           \/ CompactManually \/ CompactionFails \/ Settle
    PROVE  Quieted' /\ ~Asks
<1>0. /\ (Running <=> at = "running") /\ (~Running => run = NoRun) /\ NoRun.at = "idle"
      /\ entries \in Seq(Messages)
    BY NoRunType DEF Typed, Paced, SessionTyped
<1>1. entries' = entries => LastFailed' = LastFailed
    BY DEF LastFailed
<1>2. CASE RunEnds
    <2>1. /\ run.at = "end" /\ run' = NoRun /\ at' = "post" /\ messages' = messages
          /\ followUp' = followUp /\ entries' = entries /\ quiet' = quiet
        BY <1>2 DEF RunEnds, EndRun, queues, At
    <2> QED BY <1>0, <1>1, <2>1 DEF Quieted, Asks, Running, At
<1>3. CASE Launch
    <2>1. run'.at = "prompts" /\ at' = "running" /\ Running'
        BY <1>3, NoRunType DEF Launch, StartPrompt, Started, NoRun, Running, At
    <2> QED BY <2>1 DEF Quieted, Asks
<1>4. CASE PrepareRetry
    <2>1. /\ at = "post" /\ last.kind \in Incomplete /\ run' = run /\ at' = "backoff"
          /\ entries' = entries
        BY <1>4 DEF PrepareRetry, Incomplete, Failures
    <2>2. LastFailed'
        BY <1>0, <1>1, <2>1, BehindIsLast DEF Sound, Asked, Ending
    <2> QED BY <1>0, <2>1, <2>2 DEF Quieted, Asks, Running, At
<1>5. CASE Recover
    <2>1. /\ at \in {"post", "preflight"} /\ active' = active /\ run' = run
          /\ entries' = entries /\ at' \in {"compacting", "launch", "decide"}
        <3>1. at # "cancelled"
            BY <1>5 DEF Recover, Recoverable, Checked, Judged, Sound, Judgement
        <3> QED BY <1>5, <3>1 DEF Recover, Recoverable, Checked, Compacting, Onward
    <2>2. at = "post" => LastFailed'
        <3>1. at = "post" => last.kind \in Incomplete
            BY <1>5 DEF Recover, Recoverable, Judged
        <3> QED BY <1>0, <1>1, <2>1, <3>1, BehindIsLast DEF Sound, Asked, Ending
    <2>3. at = "preflight" => active = FALSE
        BY DEF Typed, Paced
    <2> QED BY <1>0, <2>1, <2>2, <2>3 DEF Quieted, Asks, Running, At
<1>6. CASE CompactThreshold \/ CompactManually
    <2>1. /\ messages' = messages /\ followUp' = followUp /\ run' = run /\ quiet' = quiet
          /\ active' = active /\ at' = "compacting" /\ entries' = entries
          /\ at \in {"idle", "post", "cancelled", "preflight"}
        <3>1. CASE CompactThreshold
            BY <3>1 DEF CompactThreshold, Compacting, Checked, agent, queues
        <3>2. CASE CompactManually
            BY <3>2 DEF CompactManually, agent, queues
        <3> QED BY <1>6, <3>1, <3>2
    <2> QED BY <1>0, <1>1, <2>1 DEF Quieted, Asks, Running, At
<1>7. CASE CompactionFails
    <2>1. /\ messages' = messages /\ followUp' = followUp /\ run' = run /\ quiet' = quiet
          /\ active' = active /\ at' \in {"idle", "launch", "decide"} /\ at = "compacting"
          /\ entries' = entries
        BY <1>7 DEF CompactionFails, agent, queues, Typed, SessionTyped, Jobs
    <2> QED BY <1>0, <1>1, <2>1 DEF Quieted, Asks, Running, At
<1>8. CASE Settle
    <2>1. run' = run /\ run = NoRun /\ active' = FALSE /\ at' = "idle"
        BY <1>0, <1>8 DEF Settle, Throws, Due, Over
    <2> QED BY <1>0, <2>1 DEF Quieted, Asks, Running, At
<1> QED BY <1>2, <1>3, <1>4, <1>5, <1>6, <1>7, <1>8

LEMMA ClientQuieted ==
    ASSUME Typed, Typed', Quieted,
           \/ Prompt \/ ClearQueue \/ RecordShell \/ Restart \/ UNCHANGED vars
           \/ \E kind \in {"steer", "followUp"} : Queue(kind)
    PROVE  Quieted' /\ ~Asks
<1>0. /\ (Running <=> at = "running") /\ (~Running => run = NoRun) /\ NoRun.at = "idle"
      /\ run.at = "closing" => active = TRUE
      /\ at \in {"backoff", "cancelled", "continue"} => active = TRUE
    BY NoRunType DEF Typed, Paced, Running, At
<1>1. entries' = entries => LastFailed' = LastFailed
    BY DEF LastFailed
<1>2. CASE Prompt \/ UNCHANGED vars
    <2>1. /\ messages' = messages /\ followUp' = followUp /\ run' = run /\ quiet' = quiet
          /\ steering' = steering /\ active' = active /\ entries' = entries
          /\ at' = at \/ (at = "idle" /\ at' = "preflight")
        BY <1>2 DEF Prompt, vars, agent, queues, session
    <2> QED BY <1>0, <1>1, <2>1 DEF Quieted, Asks, Running, At
<1>3. CASE ClearQueue
    <2>1. /\ messages' = messages /\ followUp' = <<>> /\ run' = run /\ entries' = entries
          /\ at' = at /\ active' = active /\ quiet' = (quiet /\ (Running => run.aborted))
        BY <1>3 DEF ClearQueue
    <2> QED BY <1>0, <1>1, <2>1 DEF Quieted, Asks, Running, At
<1>4. CASE RecordShell
    <2>1. /\ followUp' = followUp /\ run' = run /\ steering' = steering /\ quiet' = quiet
          /\ at' = at /\ active' = active
          /\ active => messages' = messages /\ entries' = entries
        BY <1>4 DEF RecordShell, Deferred, queues
    <2>2. run.at \in {"closing", "end", "steer"} => active
        BY <1>0 DEF Typed, Paced, Running, At
    <2> QED BY <1>0, <1>1, <2>1, <2>2 DEF Quieted, Asks, Running, At
<1>5. CASE \E kind \in {"steer", "followUp"} : Queue(kind)
    <2>1. /\ messages' = messages /\ run' = run /\ at' = at /\ entries' = entries
          /\ quiet' = FALSE
        BY <1>5 DEF Queue
    <2> QED BY <1>1, <2>1 DEF Quieted, Asks
<1>6. CASE Restart
    <2>1. run' = NoRun /\ at' = "idle" /\ quiet' = FALSE
        BY <1>6 DEF Restart
    <2> QED BY <1>0, <2>1 DEF Quieted, Asks
<1> QED BY <1>2, <1>3, <1>4, <1>5, <1>6

LEMMA NextQuieted ==
    ASSUME Typed, Sound, Quieted, [Next]_vars
    PROVE  Quieted' /\ (quiet => Heeded)
<1>0. Typed'
    BY NextTyped
<1>1. CASE RunStep
    <2>1. AgentStep
        BY <1>1 DEF RunStep
    <2> QED BY <1>1, <2>1, InputStepQuieted, AnswerStepQuieted DEF AgentStep
<1>2. CASE Resume \/ CompactionDone \/ Abort
    BY <1>0, <1>2, ResumeQuieted, CompactionDoneQuieted, AbortQuieted DEF Heeded
<1>3. CASE \/ RunEnds \/ Launch \/ PrepareRetry \/ Recover \/ CompactThreshold
           \/ CompactManually \/ CompactionFails \/ Settle
    BY <1>0, <1>3, AfterRunQuieted DEF Heeded
<1>4. CASE \/ Prompt \/ ClearQueue \/ RecordShell \/ Restart \/ UNCHANGED vars
           \/ \E kind \in {"steer", "followUp"} : Queue(kind)
    BY <1>0, <1>4, ClientQuieted DEF Heeded
<1> QED BY <1>1, <1>2, <1>3, <1>4 DEF Next, SessionStep, ClientStep

\* Once abort met a run before its agent_end, or a backoff with nothing queued, no request
\* goes out until there is input that an unaborted run delivers, but for one that asks
\* again for an answer that failed or was cut off: with any number of aborts, queued
\* inputs, shell commands, compactions and calls of clearQueue in between.
THEOREM AbortKeepsRequestsBack == Spec => AbortIsHeeded
<1>1. Init => Quieted
    BY NoRunType DEF Init, AgentInit, Quieted
<1>2. Typed /\ Sound /\ Quieted /\ [Next]_vars
          => Quieted' /\ [quiet /\ Asks => ~run.aborted /\ (Delivers \/ LastFailed)]_vars
    BY NextQuieted DEF Heeded
<1> QED BY <1>1, <1>2, SpecTyped, SpecSound, PTL DEF Spec, AbortIsHeeded

-----------------------------------------------------------------------------
(***************************************************************************)
(* Queued input and what is shown of it                                    *)
(***************************************************************************)
\* Inputs of one kind, in the order in which they were sent.
Line(kind, q, top) ==
    /\ q \in Seq(UserMessages)
    /\ \A j \in 1..Len(q) : q[j].kind = kind /\ q[j].n <= top
    /\ \A j \in 1..Len(q) : \A i \in 1..(j - 1) : q[i].n < q[j].n

\* Input waits in order, what a run has drained before what its queue holds, and a prompt
\* waits only until its run starts.
Lines ==
    /\ Line("steer", steering, used.inputs) /\ Line("followUp", followUp, used.inputs)
    /\ \/ Line("prompt", run.rest, used.inputs)
       \/ Line("steer", run.rest \o steering, used.inputs)
       \/ Line("followUp", run.rest \o followUp, used.inputs)
    /\ next # None =>
          /\ Line("prompt", <<next>>, used.inputs)
          /\ at \in {"preflight", "launch"} \/ (at = "compacting" /\ job.after = "launch")

\* What is shown is what is queued, with what a run has drained where it was drained from.
Mirrored ==
    \/ mirror = [steer |-> steering, followUp |-> followUp]
    \/ /\ mirror = [steer |-> run.rest \o steering, followUp |-> followUp]
       /\ Line("steer", run.rest \o steering, used.inputs)
    \/ /\ mirror = [steer |-> steering, followUp |-> run.rest \o followUp]
       /\ Line("followUp", run.rest \o followUp, used.inputs)

Queued == Lines /\ Mirrored

LEMMA ConcatHead ==
    ASSUME NEW S, NEW p \in Seq(S), NEW q \in Seq(S), p # <<>>
    PROVE  /\ p \o q \in Seq(S) /\ p \o q # <<>>
           /\ Head(p \o q) = Head(p) /\ Tail(p \o q) = Tail(p) \o q
<1>1. /\ p \o q \in Seq(S) /\ Len(p \o q) = Len(p) + Len(q)
      /\ Len(p) \in Nat \ {0} /\ Len(q) \in Nat
      /\ \A i \in 1..(Len(p) + Len(q)) :
            (p \o q)[i] = IF i <= Len(p) THEN p[i] ELSE q[i - Len(p)]
    BY ConcatProperties, LastType
<1>2. p \o q # <<>>
    BY <1>1
<1>3. /\ Tail(p) \in Seq(S) /\ Len(Tail(p)) = Len(p) - 1
      /\ \A i \in 1..(Len(p) - 1) : Tail(p)[i] = p[i + 1]
    BY HeadTailProperties
<1>4. /\ Tail(p \o q) \in Seq(S) /\ Len(Tail(p \o q)) = Len(p) + Len(q) - 1
      /\ \A i \in 1..(Len(p) + Len(q) - 1) : Tail(p \o q)[i] = (p \o q)[i + 1]
    BY <1>1, <1>2, HeadTailProperties
<1>5. /\ Tail(p) \o q \in Seq(S) /\ Len(Tail(p) \o q) = Len(p) - 1 + Len(q)
      /\ \A i \in 1..(Len(p) - 1 + Len(q)) :
            (Tail(p) \o q)[i] = IF i <= Len(p) - 1 THEN Tail(p)[i] ELSE q[i - (Len(p) - 1)]
    BY <1>3, ConcatProperties
<1>6. \A i \in 1..(Len(p) + Len(q) - 1) : Tail(p \o q)[i] = (Tail(p) \o q)[i]
    <2> SUFFICES ASSUME NEW i \in 1..(Len(p) + Len(q) - 1)
                 PROVE  Tail(p \o q)[i] = (Tail(p) \o q)[i]
        OBVIOUS
    <2>1. i + 1 \in 1..(Len(p) + Len(q)) /\ i \in 1..(Len(p) - 1 + Len(q))
        BY <1>1
    <2>2. CASE i <= Len(p) - 1
        <3>1. i + 1 <= Len(p) /\ i \in 1..(Len(p) - 1)
            BY <1>1, <2>2
        <3> QED BY <1>1, <1>3, <1>4, <1>5, <2>1, <2>2, <3>1
    <2>3. CASE ~(i <= Len(p) - 1)
        <3>1. ~(i + 1 <= Len(p)) /\ i + 1 - Len(p) = i - (Len(p) - 1)
            BY <1>1, <2>3
        <3> QED BY <1>1, <1>4, <1>5, <2>1, <2>3, <3>1
    <2> QED BY <2>2, <2>3
<1>7. Len(p) + Len(q) - 1 = Len(p) - 1 + Len(q)
    BY <1>1
<1>8. Tail(p \o q) = Tail(p) \o q
    BY <1>4, <1>5, <1>6, <1>7, SeqEqual
<1>9. Head(p \o q) = Head(p)
    <2>1. Head(p \o q) = (p \o q)[1] /\ Head(p) = p[1] /\ 1 \in 1..(Len(p) + Len(q)) /\ 1 <= Len(p)
        BY <1>1, <1>2, LastType
    <2> QED BY <1>1, <2>1
<1> QED BY <1>1, <1>2, <1>8, <1>9

LEMMA RemoveHead ==
    ASSUME NEW s \in Seq(Messages), s # <<>>
    PROVE  RemoveFirst(s, Head(s)) = Tail(s) /\ Head(s) \in ToSet(s)
<1>1. Len(s) \in Nat \ {0} /\ Head(s) = s[1] /\ 1 \in 1..Len(s) /\ DOMAIN s = 1..Len(s)
    BY LastType
<1>2. Head(s) \in ToSet(s)
    BY <1>1 DEF ToSet
<1>3. PICK i \in 1..Len(s) :
          /\ \A j \in 1..(i - 1) : s[j] # Head(s)
          /\ RemoveFirst(s, Head(s)) = SubSeq(s, 1, i - 1) \o SubSeq(s, i + 1, Len(s))
    BY <1>2, RemoveFirstIs
<1>4. i = 1
    <2>1. ~(1 \in 1..(i - 1))
        BY <1>1, <1>3
    <2> QED BY <1>1, <2>1
<1>5. SubSeq(s, 1, 0) = <<>> /\ SubSeq(s, 2, Len(s)) = Tail(s) /\ Tail(s) \in Seq(Messages)
    <2>1. Tail(s) = SubSeq(s, 2, Len(s)) /\ Tail(s) \in Seq(Messages)
        BY TailIsSubSeq, HeadTailProperties
    <2>2. SubSeq(s, 1, 0) \in Seq(Messages) /\ Len(SubSeq(s, 1, 0)) = 0
        BY <1>1, SubSeqProperties
    <2> QED BY <2>1, <2>2, EmptySeq
<1>6. RemoveFirst(s, Head(s)) = <<>> \o Tail(s)
    BY <1>3, <1>4, <1>5
<1>7. <<>> \o Tail(s) = Tail(s)
    BY <1>5, ConcatEmptySeq
<1> QED BY <1>2, <1>6, <1>7

LEMMA LineTail ==
    ASSUME NEW kind, NEW top \in Nat, NEW q, Line(kind, q, top), q # <<>>
    PROVE  /\ Line(kind, Tail(q), top) /\ Head(q) \in UserMessages /\ Head(q).kind = kind
           /\ \A j \in 1..Len(Tail(q)) : Head(q).n < Tail(q)[j].n
           /\ Head(q) \notin ToSet(Tail(q))
<1>1. /\ q \in Seq(UserMessages) /\ Len(q) \in Nat \ {0} /\ Head(q) = q[1]
      /\ Head(q) \in UserMessages /\ Tail(q) \in Seq(UserMessages) /\ Len(Tail(q)) = Len(q) - 1
      /\ \A i \in 1..(Len(q) - 1) : Tail(q)[i] = q[i + 1]
    BY LastType, HeadTailProperties DEF Line
<1>2. \A j \in 1..Len(Tail(q)) :
          j + 1 \in 1..Len(q) /\ 1 \in 1..(j + 1 - 1) /\ j \in 1..(Len(q) - 1)
    BY <1>1
<1>3. \A j \in 1..Len(Tail(q)) : Tail(q)[j] = q[j + 1]
    BY <1>1, <1>2
<1>4. \A j \in 1..Len(Tail(q)) : Head(q).n < Tail(q)[j].n
    BY <1>1, <1>2, <1>3 DEF Line
<1>5. \A j \in 1..Len(Tail(q)) : Tail(q)[j].kind = kind /\ Tail(q)[j].n <= top
    BY <1>2, <1>3 DEF Line
<1>6. ASSUME NEW j \in 1..Len(Tail(q)), NEW i \in 1..(j - 1)
      PROVE  Tail(q)[i].n < Tail(q)[j].n
    <2>1. i \in 1..Len(Tail(q)) /\ j + 1 \in 1..Len(q) /\ i + 1 \in 1..(j + 1 - 1)
        BY <1>1
    <2> QED BY <1>3, <2>1 DEF Line
<1>7. Head(q).kind = kind
    <2>1. 1 \in 1..Len(q)
        BY <1>1
    <2> QED BY <1>1, <2>1 DEF Line
<1>8. Head(q) \notin ToSet(Tail(q))
    <2> SUFFICES ASSUME NEW j \in 1..Len(Tail(q)), Tail(q)[j] = Head(q) PROVE FALSE
        BY <1>1 DEF ToSet
    <2>1. Head(q).n < Head(q).n /\ Head(q).n \in Nat
        BY <1>1, <1>4 DEF UserMessages
    <2> QED BY <2>1
<1> QED BY <1>1, <1>4, <1>5, <1>6, <1>7, <1>8 DEF Line

LEMMA LineAppend ==
    ASSUME NEW kind, NEW top \in Nat, NEW q, Line(kind, q, top),
           NEW m \in UserMessages, m.kind = kind, m.n = top + 1
    PROVE  Line(kind, Append(q, m), top + 1)
<1> DEFINE t == Append(q, m)
<1>1. /\ t \in Seq(UserMessages) /\ Len(t) = Len(q) + 1 /\ t[Len(q) + 1] = m /\ Len(q) \in Nat
      /\ \A k \in 1..Len(q) : t[k] = q[k]
    BY AppendProperties DEF Line
<1>2. \A k \in 1..Len(q) : q[k].n \in Nat
    <2>1. q \in Seq(UserMessages)
        BY DEF Line
    <2>2. \A k \in 1..Len(q) : q[k] \in UserMessages
        BY <2>1, UserTypes
    <2>3. \A o \in UserMessages : o.n \in Nat
        BY DEF UserMessages
    <2> QED BY <2>2, <2>3
<1> HIDE DEF t
<1>3. ASSUME NEW j \in 1..Len(t)
      PROVE  /\ t[j].kind = kind /\ t[j].n <= top + 1
             /\ \A i \in 1..(j - 1) : t[i].n < t[j].n
    <2>1. CASE j = Len(q) + 1
        <3>1. \A i \in 1..(j - 1) : i \in 1..Len(q)
            BY <1>1, <2>1
        <3>2. \A i \in 1..Len(q) : q[i].n < top + 1
            BY <1>2 DEF Line
        <3> QED BY <1>1, <2>1, <3>1, <3>2
    <2>2. CASE j \in 1..Len(q)
        <3>1. \A i \in 1..(j - 1) : i \in 1..Len(q)
            BY <1>1, <2>2
        <3>2. q[j].n <= top + 1
            BY <1>2, <2>2 DEF Line
        <3> QED BY <1>1, <2>2, <3>1, <3>2 DEF Line
    <2> QED BY <1>1, <2>1, <2>2
<1> QED BY <1>1, <1>3 DEF Line, t

LEMMA LineLater ==
    ASSUME NEW kind, NEW top \in Nat, NEW q, Line(kind, q, top)
    PROVE  Line(kind, q, top + 1) /\ Line(kind, <<>>, top)
<1>1. q \in Seq(UserMessages) /\ \A j \in 1..Len(q) : q[j].n \in Nat
    <2>1. q \in Seq(UserMessages)
        BY DEF Line
    <2>2. \A k \in 1..Len(q) : q[k] \in UserMessages
        BY <2>1, UserTypes
    <2>3. \A o \in UserMessages : o.n \in Nat
        BY DEF UserMessages
    <2> QED BY <2>1, <2>2, <2>3
<1>2. \A j \in 1..Len(q) : q[j].n <= top + 1
    BY <1>1 DEF Line
<1>3. Line(kind, <<>>, top)
    BY DEF Line
<1> QED BY <1>1, <1>2, <1>3 DEF Line

\* Two parts of a line.
LEMMA LineParts ==
    ASSUME NEW kind, NEW top \in Nat, NEW p \in Seq(UserMessages), NEW q \in Seq(UserMessages),
           Line(kind, p \o q, top)
    PROVE  /\ Line(kind, p, top) /\ Line(kind, q, top)
           /\ \A i \in 1..Len(p) : \A j \in 1..Len(q) : p[i].n < q[j].n
<1>1. /\ Len(p \o q) = Len(p) + Len(q) /\ Len(p) \in Nat /\ Len(q) \in Nat
      /\ \A i \in 1..(Len(p) + Len(q)) :
            (p \o q)[i] = IF i <= Len(p) THEN p[i] ELSE q[i - Len(p)]
    BY ConcatProperties
<1>2. \A i \in 1..Len(p) : i \in 1..(Len(p) + Len(q)) /\ (p \o q)[i] = p[i]
    BY <1>1
<1>3. \A j \in 1..Len(q) : /\ j + Len(p) \in 1..(Len(p) + Len(q)) /\ ~(j + Len(p) <= Len(p))
                           /\ j + Len(p) - Len(p) = j
    BY <1>1
<1>4. \A j \in 1..Len(q) : (p \o q)[j + Len(p)] = q[j]
    BY <1>1, <1>3
<1>5. \A j \in 1..(Len(p) + Len(q)) :
          /\ (p \o q)[j].kind = kind /\ (p \o q)[j].n <= top
          /\ \A i \in 1..(j - 1) : (p \o q)[i].n < (p \o q)[j].n
    BY <1>1 DEF Line
<1>9. \A j \in 1..Len(q) : \A i \in 1..(j + Len(p) - 1) : (p \o q)[i].n < (p \o q)[j + Len(p)].n
    <2> DEFINE u == p \o q
    <2>1. \A k \in 1..(Len(p) + Len(q)) : \A i \in 1..(k - 1) : u[i].n < u[k].n
        BY <1>5
    <2> HIDE DEF u
    <2>2. \A j \in 1..Len(q) : \A i \in 1..(j + Len(p) - 1) : u[i].n < u[j + Len(p)].n
        BY <1>3, <2>1
    <2> QED BY <2>2 DEF u
<1>6. Line(kind, p, top)
    <2>1. \A j \in 1..Len(p) : \A i \in 1..(j - 1) : i \in 1..Len(p)
        BY <1>1
    <2> QED BY <1>2, <1>5, <2>1 DEF Line
<1>7. Line(kind, q, top)
    <2>1. \A j \in 1..Len(q) : \A i \in 1..(j - 1) :
              i \in 1..Len(q) /\ i + Len(p) \in 1..(j + Len(p) - 1)
        BY <1>1
    <2>2. \A j \in 1..Len(q) : q[j].kind = kind /\ q[j].n <= top
        BY <1>3, <1>4, <1>5
    <2>3. ASSUME NEW j \in 1..Len(q), NEW i \in 1..(j - 1)
          PROVE  q[i].n < q[j].n
        <3>1. i \in 1..Len(q) /\ i + Len(p) \in 1..(j + Len(p) - 1)
            BY <2>1
        <3>2. (p \o q)[i + Len(p)].n < (p \o q)[j + Len(p)].n
            BY <1>9, <3>1
        <3> QED BY <1>4, <3>1, <3>2
    <2> QED BY <2>2, <2>3 DEF Line
<1>8. \A i \in 1..Len(p) : \A j \in 1..Len(q) : p[i].n < q[j].n
    <2>1. \A i \in 1..Len(p) : \A j \in 1..Len(q) : i \in 1..(j + Len(p) - 1)
        BY <1>1
    <2> SUFFICES ASSUME NEW i \in 1..Len(p), NEW j \in 1..Len(q) PROVE p[i].n < q[j].n
        OBVIOUS
    <2>2. (p \o q)[i].n < (p \o q)[j + Len(p)].n
        BY <1>9, <2>1
    <2> QED BY <1>2, <1>4, <2>2
<1> QED BY <1>6, <1>7, <1>8

LEMMA LinesTyped ==
    ASSUME Typed
    PROVE  /\ steering \in Seq(UserMessages) /\ followUp \in Seq(UserMessages)
           /\ run.rest \in Seq(UserMessages) /\ run \in Runs /\ used.inputs \in Nat
           /\ run.rest # <<>> <=> run.at \in {"prompts", "inject"}
BY RunParts, Naturals DEF Typed, AgentTyped, SessionTyped

LEMMA EmptyFront == ASSUME NEW q \in Seq(UserMessages) PROVE <<>> \o q = q
BY ConcatEmptySeq

\* Where a run has drained nothing, what is shown is what is queued.
LEMMA NothingDrained ==
    ASSUME Typed, Mirrored, run.rest = <<>>
    PROVE  mirror = [steer |-> steering, followUp |-> followUp]
BY LinesTyped, EmptyFront DEF Mirrored

\* No message but an input is shown, so none that starts is taken off.
LEMMA ShownStays ==
    ASSUME NEW a \in Seq(UserMessages), NEW b \in Seq(UserMessages),
           mirror = [steer |-> a, followUp |-> b], NEW m, m \notin ToSet(a), m \notin ToSet(b)
    PROVE  Shown(m) = mirror
<1>1. a \in Seq(Messages) /\ b \in Seq(Messages)
    BY UserTypes
<1>2. RemoveFirst(b, m) = b
    BY <1>1, RemoveFirstIs
<1> QED BY <1>2 DEF Shown

LEMMA ToSetConcat ==
    ASSUME NEW p \in Seq(UserMessages), NEW q \in Seq(UserMessages)
    PROVE  ToSet(p \o q) = ToSet(p) \cup ToSet(q)
<1> DEFINE u == p \o q
           l == Len(p)
<1>1. /\ u \in Seq(UserMessages) /\ Len(u) = l + Len(q) /\ l \in Nat /\ Len(q) \in Nat
      /\ \A i \in 1..(l + Len(q)) : u[i] = IF i <= l THEN p[i] ELSE q[i - l]
    BY ConcatProperties
<1>2. DOMAIN u = 1..(l + Len(q)) /\ DOMAIN p = 1..l /\ DOMAIN q = 1..Len(q)
    BY <1>1
<1> HIDE DEF u, l
<1>3. \A i \in 1..l : i \in 1..(l + Len(q)) /\ u[i] = p[i]
    BY <1>1
<1>4. \A j \in 1..Len(q) : j + l \in 1..(l + Len(q)) /\ ~(j + l <= l) /\ j + l - l = j
    BY <1>1
<1>5. \A j \in 1..Len(q) : j + l \in 1..(l + Len(q)) /\ u[j + l] = q[j]
    <2> SUFFICES ASSUME NEW j \in 1..Len(q) PROVE j + l \in 1..(l + Len(q)) /\ u[j + l] = q[j]
        OBVIOUS
    <2>1. j + l \in 1..(l + Len(q)) /\ ~(j + l <= l) /\ j + l - l = j
        BY <1>4
    <2>2. u[j + l] = IF j + l <= l THEN p[j + l] ELSE q[j + l - l]
        BY <1>1, <2>1
    <2> QED BY <2>1, <2>2
<1>6. \A i \in 1..(l + Len(q)) : i \in 1..l \/ (i - l \in 1..Len(q) /\ u[i] = q[i - l])
    BY <1>1
<1>7. ToSet(u) = {u[i] : i \in 1..(l + Len(q))} /\ ToSet(p) = {p[i] : i \in 1..l}
      /\ ToSet(q) = {q[i] : i \in 1..Len(q)}
    BY <1>2 DEF ToSet
<1>8. ASSUME NEW x \in ToSet(u) PROVE x \in ToSet(p) \cup ToSet(q)
    BY <1>3, <1>6, <1>7
<1>9. ASSUME NEW x \in ToSet(p) PROVE x \in ToSet(u)
    BY <1>3, <1>7
<1>10. ASSUME NEW x \in ToSet(q) PROVE x \in ToSet(u)
    BY <1>5, <1>7
<1> QED BY <1>8, <1>9, <1>10 DEF u

LEMMA LineConcatTail ==
    ASSUME NEW kind, NEW top \in Nat, NEW p \in Seq(UserMessages), NEW q \in Seq(UserMessages),
           p # <<>>, Line(kind, p \o q, top)
    PROVE  /\ Line(kind, Tail(p) \o q, top) /\ Head(p).kind = kind
           /\ Head(p) \notin ToSet(q) /\ Head(p) \notin ToSet(Tail(p))
<1> DEFINE u == p \o q
<1>1. u # <<>> /\ Head(u) = Head(p) /\ Tail(u) = Tail(p) \o q /\ Tail(p) \in Seq(UserMessages)
    BY ConcatHead, HeadTailProperties
<1>2. Line(kind, u, top)
    OBVIOUS
<1> HIDE DEF u
<1>3. Line(kind, Tail(u), top) /\ Head(u).kind = kind /\ Head(u) \notin ToSet(Tail(u))
    BY <1>1, <1>2, LineTail
<1>4. ToSet(Tail(u)) = ToSet(Tail(p)) \cup ToSet(q)
    BY <1>1, ToSetConcat
<1> QED BY <1>1, <1>3, <1>4

\* The head of what a run has drained is what it delivers, and it is taken off what is
\* shown, if it is shown.
LEMMA DeliveredShown ==
    ASSUME Typed, Queued, run.rest # <<>>, run'.rest = Tail(run.rest),
           mirror' = Shown(Head(run.rest)), steering' = steering, followUp' = followUp,
           next' = next, used' = used, at' = at, job' = job
    PROVE  Queued'
<1> DEFINE m == Head(run.rest)
           r == run.rest
           rs == run.rest \o steering
           rf == run.rest \o followUp
           ts == Tail(run.rest) \o steering
           tf == Tail(run.rest) \o followUp
           top == used.inputs
<1>1. /\ steering \in Seq(UserMessages) /\ followUp \in Seq(UserMessages)
      /\ r \in Seq(UserMessages) /\ top \in Nat /\ Tail(r) \in Seq(UserMessages)
    BY LinesTyped, HeadTailProperties
<1>2. /\ rs # <<>> /\ Head(rs) = m /\ Tail(rs) = ts /\ rs \in Seq(UserMessages)
      /\ rf # <<>> /\ Head(rf) = m /\ Tail(rf) = tf /\ rf \in Seq(UserMessages)
    BY <1>1, ConcatHead
<1>3. Line("steer", steering, top) /\ Line("followUp", followUp, top)
    BY DEF Queued, Lines
<1> HIDE DEF m, r, rs, rf, ts, tf, top
<1>4. \A o \in ToSet(steering) : o.kind = "steer"
    BY <1>1, <1>3 DEF Line, ToSet
<1>5. \A o \in ToSet(followUp) : o.kind = "followUp"
    BY <1>1, <1>3 DEF Line, ToSet
<1>6. Line("prompt", r, top) =>
          /\ Line("prompt", Tail(r), top) /\ m \notin ToSet(steering) /\ m \notin ToSet(followUp)
    <2> SUFFICES ASSUME Line("prompt", r, top)
                 PROVE  Line("prompt", Tail(r), top) /\ m.kind = "prompt"
        BY <1>4, <1>5
    <2>1. r # <<>>
        BY DEF r
    <2> QED BY <1>1, <2>1, LineTail DEF m, r
<1>7. Line("steer", rs, top) =>
          /\ Line("steer", ts, top) /\ m \notin ToSet(steering) /\ m \notin ToSet(followUp)
    <2>1. Line("steer", rs, top) =>
              Line("steer", ts, top) /\ m.kind = "steer" /\ m \notin ToSet(steering)
        BY <1>1, LineConcatTail DEF m, r, rs, ts
    <2> QED BY <1>5, <2>1
<1>8. Line("followUp", rf, top) =>
          /\ Line("followUp", tf, top) /\ m \notin ToSet(steering) /\ m \notin ToSet(followUp)
    <2>1. Line("followUp", rf, top) =>
              Line("followUp", tf, top) /\ m.kind = "followUp" /\ m \notin ToSet(followUp)
        BY <1>1, LineConcatTail DEF m, r, rf, tf
    <2> QED BY <1>4, <2>1
<1>9. \/ Line("prompt", r, top) \/ Line("steer", rs, top) \/ Line("followUp", rf, top)
    BY DEF Queued, Lines, r, rs, rf, top
<1>10. m \notin ToSet(steering) /\ m \notin ToSet(followUp)
    BY <1>6, <1>7, <1>8, <1>9
<1>11. run'.rest = Tail(r) /\ used'.inputs = top /\ mirror' = Shown(m)
    BY DEF r, top, m
<1>12. Lines'
    <2>1. \/ Line("prompt", Tail(r), top) \/ Line("steer", ts, top) \/ Line("followUp", tf, top)
        BY <1>6, <1>7, <1>8, <1>9
    <2>2. next # None =>
              /\ Line("prompt", <<next>>, top)
              /\ at \in {"preflight", "launch"} \/ (at = "compacting" /\ job.after = "launch")
        BY DEF Queued, Lines, top
    <2> QED BY <1>3, <1>11, <2>1, <2>2 DEF Lines, r, ts, tf
<1>13. CASE mirror = [steer |-> steering, followUp |-> followUp]
    <2>1. mirror' = mirror
        BY <1>1, <1>10, <1>11, <1>13, ShownStays
    <2> QED BY <1>12, <1>13, <2>1 DEF Queued, Mirrored
<1>14. CASE mirror = [steer |-> rs, followUp |-> followUp] /\ Line("steer", rs, top)
    <2>1. RemoveFirst(rs, m) = ts /\ m \in ToSet(rs)
        <3>1. rs \in Seq(Messages)
            BY <1>2, UserTypes
        <3> QED BY <1>2, <3>1, RemoveHead
    <2>2. mirror' = [steer |-> ts, followUp |-> followUp]
        BY <1>11, <1>14, <2>1 DEF Shown
    <2> QED BY <1>7, <1>11, <1>12, <1>14, <2>2 DEF Queued, Mirrored, ts, r
<1>15. CASE mirror = [steer |-> steering, followUp |-> rf] /\ Line("followUp", rf, top)
    <2>1. RemoveFirst(rf, m) = tf /\ m \notin ToSet(steering)
        <3>1. rf \in Seq(Messages)
            BY <1>2, UserTypes
        <3> QED BY <1>2, <1>10, <3>1, RemoveHead
    <2>2. mirror' = [steer |-> steering, followUp |-> tf]
        BY <1>11, <1>15, <2>1 DEF Shown
    <2> QED BY <1>8, <1>11, <1>12, <1>15, <2>2 DEF Queued, Mirrored, tf, r
<1> QED BY <1>13, <1>14, <1>15 DEF Queued, Mirrored, rs, rf, top

LEMMA IdleRest == ASSUME Typed, ~Running PROVE run.rest = <<>>
BY NoRunType DEF Typed, Paced

\* A prompt that waits is between its call and its run.
Prompting(m, place, task) ==
    m # None => place \in {"preflight", "launch"} \/ (place = "compacting" /\ task.after = "launch")

LEMMA QueuedKept ==
    ASSUME Queued, run'.rest = run.rest, steering' = steering, followUp' = followUp,
           mirror' = mirror, used'.inputs = used.inputs,
           next' = None \/ next' = next, Prompting(next', at', job')
    PROVE  Queued'
BY DEF Queued, Lines, Mirrored, Prompting

\* Where a run has nothing drained it may drain the front of a queue.
LEMMA DrainedQueued ==
    ASSUME Typed, Queued, run.rest = <<>>, mirror' = mirror, used' = used,
           next' = None,
           \/ run'.rest = <<>> /\ steering' = steering /\ followUp' = followUp
           \/ /\ run'.rest = Taken(steering, SteeringMode) /\ followUp' = followUp
              /\ steering' = Left(steering, SteeringMode)
           \/ /\ run'.rest = Taken(followUp, FollowUpMode) /\ steering' = steering
              /\ followUp' = Left(followUp, FollowUpMode)
    PROVE  Queued'
<1> DEFINE top == used.inputs
<1>1. /\ steering \in Seq(UserMessages) /\ followUp \in Seq(UserMessages) /\ top \in Nat
      /\ used'.inputs = top
    BY LinesTyped
<1>2. mirror' = [steer |-> steering, followUp |-> followUp]
    BY NothingDrained DEF Queued
<1>3. Line("steer", steering, top) /\ Line("followUp", followUp, top)
    BY DEF Queued, Lines
<1> HIDE DEF top
<1>4. \A kind : \A mode : \A q \in Seq(UserMessages) :
          Line(kind, q, top) => /\ Taken(q, mode) \o Left(q, mode) = q
                                /\ Line(kind, Left(q, mode), top)
    <2> SUFFICES ASSUME NEW kind, NEW mode, NEW q \in Seq(UserMessages), Line(kind, q, top)
                 PROVE  /\ Taken(q, mode) \o Left(q, mode) = q
                        /\ Line(kind, Left(q, mode), top)
        OBVIOUS
    <2> DEFINE t == Taken(q, mode)
               l == Left(q, mode)
    <2>1. t \in Seq(UserMessages) /\ l \in Seq(UserMessages) /\ t \o l = q
        BY QueueTypes
    <2> HIDE DEF t, l
    <2>2. Line(kind, t \o l, top)
        BY <2>1
    <2>3. Line(kind, l, top)
        BY <1>1, <2>1, <2>2, LineParts
    <2> QED BY <2>1, <2>3 DEF t, l
<1>5. CASE run'.rest = <<>> /\ steering' = steering /\ followUp' = followUp
    <2>1. Line("prompt", <<>>, top)
        BY <1>1 DEF Line
    <2> QED BY <1>1, <1>2, <1>3, <1>5, <2>1 DEF Queued, Lines, Mirrored
<1>6. CASE /\ run'.rest = Taken(steering, SteeringMode) /\ followUp' = followUp
           /\ steering' = Left(steering, SteeringMode)
    <2>2. /\ Taken(steering, SteeringMode) \o Left(steering, SteeringMode) = steering
          /\ Line("steer", Left(steering, SteeringMode), top)
        BY <1>1, <1>3, <1>4
    <2>1. run'.rest \o steering' = steering /\ Line("steer", steering', top)
        BY <1>6, <2>2
    <2> QED BY <1>1, <1>2, <1>3, <1>6, <2>1 DEF Queued, Lines, Mirrored
<1>7. CASE /\ run'.rest = Taken(followUp, FollowUpMode) /\ steering' = steering
           /\ followUp' = Left(followUp, FollowUpMode)
    <2>2. /\ Taken(followUp, FollowUpMode) \o Left(followUp, FollowUpMode) = followUp
          /\ Line("followUp", Left(followUp, FollowUpMode), top)
        BY <1>1, <1>3, <1>4
    <2>1. run'.rest \o followUp' = followUp /\ Line("followUp", followUp', top)
        BY <1>7, <2>2
    <2> QED BY <1>1, <1>2, <1>3, <1>7, <2>1 DEF Queued, Lines, Mirrored
<1> QED BY <1>5, <1>6, <1>7

LEMMA QueueQueued ==
    ASSUME Typed, Queued, NEW kind \in {"steer", "followUp"}, Queue(kind)
    PROVE  Queued'
<1> DEFINE top == used.inputs
           m == User(used.inputs + 1, kind)
           rs == run.rest \o steering
           rf == run.rest \o followUp
<1>1. /\ steering \in Seq(UserMessages) /\ followUp \in Seq(UserMessages)
      /\ run.rest \in Seq(UserMessages) /\ top \in Nat
    BY LinesTyped
<1>2. m \in UserMessages /\ m.kind = kind /\ m.n = top + 1
    <2>1. top + 1 \in Nat /\ kind \in Kinds
        BY <1>1 DEF Kinds
    <2>2. m \in UserMessages
        BY <2>1, MessageTypes
    <2> QED BY <2>2 DEF User, Message
<1>3. /\ used'.inputs = top + 1 /\ run' = run /\ next' = next /\ at' = at /\ job' = job
    BY DEF Queue, Typed, SessionTyped
<1>4. /\ Line("steer", steering, top) /\ Line("followUp", followUp, top)
      /\ \/ Line("prompt", run.rest, top) \/ Line("steer", rs, top) \/ Line("followUp", rf, top)
      /\ next # None => /\ Line("prompt", <<next>>, top)
                        /\ at \in {"preflight", "launch"}
                             \/ (at = "compacting" /\ job.after = "launch")
    BY DEF Queued, Lines
<1>5. /\ run.rest \o Append(steering, m) = Append(rs, m)
      /\ run.rest \o Append(followUp, m) = Append(rf, m)
    <2>1. /\ steering \in Seq(Messages) /\ followUp \in Seq(Messages)
          /\ run.rest \in Seq(Messages) /\ m \in Messages
        BY <1>1, <1>2, UserTypes, MessageTypes
    <2> QED BY <2>1, ConcatAppend
<1>6. /\ steering' = IF kind = "steer" THEN Append(steering, m) ELSE steering
      /\ followUp' = IF kind = "followUp" THEN Append(followUp, m) ELSE followUp
      /\ mirror' = [mirror EXCEPT ![kind] = Append(mirror[kind], m)]
    BY <1>2 DEF Queue, Enqueue
<1> HIDE DEF top, m, rs, rf
<1>7. \A k : \A q : Line(k, q, top) => Line(k, q, top + 1)
    BY <1>1, LineLater
<1>8. \A q : Line(kind, q, top) => Line(kind, Append(q, m), top + 1)
    BY <1>1, <1>2, LineAppend
<1>9. Lines'
    <2>1. Line("steer", steering', top + 1) /\ Line("followUp", followUp', top + 1)
        BY <1>4, <1>6, <1>7, <1>8
    <2>2. Line("prompt", run.rest, top) => Line("prompt", run.rest, top + 1)
        BY <1>7
    <2>3. Line("steer", rs, top) => Line("steer", run.rest \o steering', top + 1)
        BY <1>5, <1>6, <1>7, <1>8 DEF rs
    <2>4. Line("followUp", rf, top) => Line("followUp", run.rest \o followUp', top + 1)
        BY <1>5, <1>6, <1>7, <1>8 DEF rf
    <2>5. next # None => Line("prompt", <<next>>, top + 1)
        BY <1>4, <1>7
    <2> QED BY <1>3, <1>4, <2>1, <2>2, <2>3, <2>4, <2>5 DEF Lines
<1>10. CASE mirror = [steer |-> steering, followUp |-> followUp]
    <2>1. mirror' = [steer |-> steering', followUp |-> followUp']
        <3>1. CASE kind = "steer"
            BY <1>6, <1>10, <3>1
        <3>2. CASE kind = "followUp"
            BY <1>6, <1>10, <3>2
        <3> QED BY <3>1, <3>2
    <2> QED BY <1>9, <2>1 DEF Queued, Mirrored
<1>11. CASE mirror = [steer |-> rs, followUp |-> followUp] /\ Line("steer", rs, top)
    <2>1. /\ mirror' = [steer |-> run.rest \o steering', followUp |-> followUp']
          /\ Line("steer", run.rest \o steering', top + 1)
        <3>1. CASE kind = "steer"
            <4>1. run.rest \o steering' = Append(rs, m) /\ followUp' = followUp
                BY <1>5, <1>6, <3>1
            <4>2. mirror' = [steer |-> Append(rs, m), followUp |-> followUp]
                BY <1>6, <1>11, <3>1
            <4> QED BY <1>8, <1>11, <3>1, <4>1, <4>2
        <3>2. CASE kind = "followUp"
            <4>1. run.rest \o steering' = rs /\ followUp' = Append(followUp, m)
                BY <1>6, <3>2 DEF rs
            <4>2. mirror' = [steer |-> rs, followUp |-> Append(followUp, m)]
                BY <1>6, <1>11, <3>2
            <4> QED BY <1>7, <1>11, <4>1, <4>2
        <3> QED BY <3>1, <3>2
    <2> QED BY <1>3, <1>9, <2>1 DEF Queued, Mirrored
<1>12. CASE mirror = [steer |-> steering, followUp |-> rf] /\ Line("followUp", rf, top)
    <2>1. /\ mirror' = [steer |-> steering', followUp |-> run.rest \o followUp']
          /\ Line("followUp", run.rest \o followUp', top + 1)
        <3>1. CASE kind = "followUp"
            <4>1. run.rest \o followUp' = Append(rf, m) /\ steering' = steering
                BY <1>5, <1>6, <3>1
            <4>2. mirror' = [steer |-> steering, followUp |-> Append(rf, m)]
                BY <1>6, <1>12, <3>1
            <4> QED BY <1>8, <1>12, <3>1, <4>1, <4>2
        <3>2. CASE kind = "steer"
            <4>1. run.rest \o followUp' = rf /\ steering' = Append(steering, m)
                BY <1>6, <3>2 DEF rf
            <4>2. mirror' = [steer |-> Append(steering, m), followUp |-> rf]
                BY <1>6, <1>12, <3>2
            <4> QED BY <1>7, <1>12, <4>1, <4>2
        <3> QED BY <3>1, <3>2
    <2> QED BY <1>3, <1>9, <2>1 DEF Queued, Mirrored
<1> QED BY <1>10, <1>11, <1>12 DEF Queued, Mirrored, rs, rf, top

LEMMA PromptQueued == ASSUME Typed, Queued, Prompt PROVE Queued'
<1> DEFINE top == used.inputs
           m == User(used.inputs + 1, "prompt")
<1>1. /\ steering \in Seq(UserMessages) /\ followUp \in Seq(UserMessages)
      /\ top \in Nat /\ m \in UserMessages /\ m.kind = "prompt" /\ m.n = top + 1
      /\ used'.inputs = top + 1
    <2>1. /\ steering \in Seq(UserMessages) /\ followUp \in Seq(UserMessages)
          /\ top \in Nat /\ top + 1 \in Nat /\ "prompt" \in Kinds
        BY LinesTyped DEF Kinds
    <2>2. m \in UserMessages
        BY <2>1, MessageTypes
    <2>3. m.kind = "prompt" /\ m.n = top + 1
        BY DEF User, Message
    <2>4. used'.inputs = top + 1
        BY DEF Prompt, Typed, SessionTyped
    <2> QED BY <2>1, <2>2, <2>3, <2>4
<1>2. run.rest = <<>> /\ run' = run
    BY IdleRest DEF Prompt, agent, Typed, Paced
<1>3. mirror = [steer |-> steering, followUp |-> followUp]
    BY <1>2, NothingDrained DEF Queued
<1>4. /\ next' = m /\ at' = "preflight" /\ mirror' = mirror /\ steering' = steering
      /\ followUp' = followUp
    BY DEF Prompt, agent
<1>5. Line("steer", steering, top) /\ Line("followUp", followUp, top)
    BY DEF Queued, Lines
<1> HIDE DEF top, m
<1>6. /\ Line("steer", steering, top + 1) /\ Line("followUp", followUp, top + 1)
      /\ Line("prompt", <<>>, top + 1)
    <2>1. Line("steer", steering, top + 1) /\ Line("followUp", followUp, top + 1)
        BY <1>1, <1>5, LineLater
    <2>2. Line("prompt", <<>>, top + 1)
        BY DEF Line
    <2> QED BY <2>1, <2>2
<1>7. Line("prompt", <<m>>, top + 1)
    BY <1>1 DEF Line
<1> QED BY <1>1, <1>2, <1>3, <1>4, <1>6, <1>7 DEF Queued, Lines, Mirrored

LEMMA LaunchQueued == ASSUME Typed, Queued, Launch PROVE Queued'
<1>1. next \in UserMessages /\ next # None
    BY DEF Launch, Typed, SessionTyped, UserMessages, None, Message
<1>2. run.rest = <<>> /\ run'.rest = <<next>>
    BY IdleRest, NoRunType DEF Launch, StartPrompt, Started, NoRun
<1>3. mirror = [steer |-> steering, followUp |-> followUp]
    BY <1>2, NothingDrained DEF Queued
<1>4. /\ next' = None /\ used' = used /\ mirror' = mirror /\ steering' = steering
      /\ followUp' = followUp
    BY DEF Launch, StartPrompt, queues
<1> QED BY <1>1, <1>2, <1>3, <1>4 DEF Queued, Lines, Mirrored

\* The process is lost, or the queues are cleared: nothing of them is shown.
LEMMA ClearedQueued == ASSUME Typed, Queued, ClearQueue \/ Restart PROVE Queued'
<1>1. /\ steering' = <<>> /\ followUp' = <<>> /\ mirror' = [steer |-> <<>>, followUp |-> <<>>]
      /\ used'.inputs = used.inputs /\ used.inputs \in Nat
    <2>1. used \in [inputs : 0..MaxInputs, breaks : Nat]
        BY DEF Typed, SessionTyped
    <2>2. used.inputs \in Nat
        BY LinesTyped
    <2>3. /\ steering' = <<>> /\ followUp' = <<>> /\ used' = [used EXCEPT !.breaks = @ + 1]
          /\ mirror' = [steer |-> <<>>, followUp |-> <<>>]
        BY DEF ClearQueue, Restart
    <2> QED BY <2>1, <2>2, <2>3
<1> DEFINE top == used.inputs
<1>2. \A kind : Line(kind, <<>>, top)
    BY DEF Line
<1>3. CASE ClearQueue
    <2>1. run' = run /\ next' = next /\ at' = at /\ job' = job
        BY <1>3 DEF ClearQueue
    <2>2. run.rest \o <<>> = run.rest /\ run.rest \in Seq(UserMessages)
        BY LinesTyped, ConcatEmptySeq
    <2>3. \/ Line("prompt", run.rest, top) \/ Line("steer", run.rest, top)
          \/ Line("followUp", run.rest, top)
        <3>1. /\ steering \in Seq(UserMessages) /\ followUp \in Seq(UserMessages)
              /\ run.rest \in Seq(UserMessages) /\ top \in Nat
            BY LinesTyped
        <3> QED BY <3>1, LineParts DEF Queued, Lines
    <2> QED BY <1>1, <1>2, <2>1, <2>2, <2>3 DEF Queued, Lines, Mirrored
<1>4. CASE Restart
    <2>1. run'.rest = <<>> /\ next' = None
        BY <1>4, NoRunType DEF Restart
    <2> QED BY <1>1, <1>2, <2>1 DEF Queued, Lines, Mirrored
<1> QED BY <1>3, <1>4

\* A step of a run within its batches or its answers does not touch what is queued.
LEMMA AnswersQueued ==
    ASSUME Typed, AgentStep, ~DeliverPrompt, ~Inject, ~PollSteering, ~PollFollowUp
    PROVE  /\ run.rest = <<>> /\ run'.rest = <<>> /\ UNCHANGED queues
           /\ messages' = messages
                \/ \E m \in Messages : messages' = Append(messages, m) /\ m.role # "user"
<1>0. /\ run \in Runs /\ messages \in Seq(Messages) /\ clock \in Nat
      /\ run.rest # <<>> <=> run.at \in {"prompts", "inject"}
    BY DEF Typed, AgentTyped
<1>1. CASE \E stop \in Stops, calls \in 0..MaxCalls : Respond(stop, calls)
    <2>1. PICK stop \in Stops, calls \in 0..MaxCalls : Respond(stop, calls)
        BY <1>1
    <2>2. run.at \in {"request", "refused"} /\ run'.rest = run.rest
        BY <1>0, <2>1 DEF Respond, Answers, At, Runs
    <2>3. Answer(stop, calls) \in Messages /\ Answer(stop, calls).role = "assistant"
        BY <1>0, MessageTypes, Naturals DEF Answer, Message
    <2> QED BY <1>0, <2>1, <2>2, <2>3 DEF Respond
<1>2. CASE PrepareCall
    BY <1>0, <1>2 DEF PrepareCall, At, Runs
<1>3. CASE CheckSignal
    BY <1>0, <1>3 DEF CheckSignal, At, Runs, Turned
<1>4. CASE GiveResult
    <2>1. run.at = "results" /\ run'.rest = run.rest /\ run.given \in Nat
        BY <1>0, <1>4 DEF GiveResult, At, Runs, Turned
    <2>2. Result(run.given + 1) \in Messages /\ Result(run.given + 1).role # "user"
        BY <2>1, MessageTypes DEF Result, Message
    <2> QED BY <1>0, <1>4, <2>1, <2>2 DEF GiveResult
<1>5. CASE \E c \in 1..MaxCalls : FinishCall(c)
    BY <1>0, <1>5 DEF FinishCall, At, Runs
<1>6. CASE CloseRun
    BY <1>0, <1>6 DEF CloseRun, At, Runs
<1> QED BY <1>1, <1>2, <1>3, <1>4, <1>5, <1>6 DEF AgentStep

LEMMA RunStepQueued == ASSUME Typed, Queued, RunStep PROVE Queued'
<1>0. /\ AgentStep /\ Listen /\ at = "running" /\ at' = at /\ next' = next /\ job' = job
      /\ used' = used /\ run \in Runs /\ messages \in Seq(Messages)
    BY DEF RunStep, Typed, AgentTyped
<1>1. next = None
    BY <1>0 DEF Queued, Lines
<1>2. CASE DeliverPrompt \/ Inject
    <2>1. /\ messages' = Append(messages, Head(run.rest)) /\ run.rest # <<>>
          /\ Head(run.rest) \in Messages
        BY <1>2, DeliverPromptType, InjectType, MessageTypes DEF Typed
    <2>2. Last(messages') = Head(run.rest) /\ messages' # messages
        BY <1>0, <2>1, EndsAppend
    <2>3. mirror' = Shown(Head(run.rest))
        BY <1>0, <2>2 DEF Listen, Heard
    <2>4. run'.rest = Tail(run.rest) /\ UNCHANGED queues
        BY <1>0, <1>2 DEF DeliverPrompt, Inject, Runs
    <2> QED BY <1>0, <2>1, <2>3, <2>4, DeliveredShown DEF queues
<1>3. CASE PollSteering
    <2>1. run.rest = <<>> /\ messages' = messages
        BY <1>3 DEF PollSteering, At, Typed, AgentTyped
    <2>2. mirror' = mirror
        BY <1>0, <2>1 DEF Listen
    <2>3. \/ run'.rest = <<>> /\ steering' = steering /\ followUp' = followUp
          \/ /\ run'.rest = Taken(steering, SteeringMode) /\ followUp' = followUp
             /\ steering' = Left(steering, SteeringMode)
        BY <1>0, <1>3 DEF PollSteering, Runs
    <2> QED BY <1>0, <1>1, <2>1, <2>2, <2>3, DrainedQueued
<1>4. CASE PollFollowUp
    <2>1. run.rest = <<>> /\ messages' = messages
        BY <1>4 DEF PollFollowUp, At, Typed, AgentTyped
    <2>2. mirror' = mirror
        BY <1>0, <2>1 DEF Listen
    <2>3. /\ run'.rest = Taken(followUp, FollowUpMode) /\ steering' = steering
          /\ followUp' = Left(followUp, FollowUpMode)
        BY <1>0, <1>4 DEF PollFollowUp, Runs
    <2> QED BY <1>0, <1>1, <2>1, <2>2, <2>3, DrainedQueued
<1>5. CASE ~DeliverPrompt /\ ~Inject /\ ~PollSteering /\ ~PollFollowUp
    <2>1. /\ run.rest = <<>> /\ run'.rest = <<>> /\ UNCHANGED queues
          /\ messages' = messages
               \/ \E m \in Messages : messages' = Append(messages, m) /\ m.role # "user"
        BY <1>0, <1>5, AnswersQueued
    <2>2. mirror' = mirror
        <3>1. CASE messages' = messages
            BY <1>0, <3>1 DEF Listen
        <3>2. CASE messages' # messages
            <4>1. PICK m \in Messages : messages' = Append(messages, m) /\ m.role # "user"
                BY <2>1, <3>2
            <4>2. Last(messages') = m
                BY <1>0, <4>1, EndsAppend
            <4>3. mirror' = Shown(m)
                BY <1>0, <3>2, <4>2 DEF Listen, Heard
            <4>4. mirror = [steer |-> steering, followUp |-> followUp]
                BY <2>1, NothingDrained DEF Queued
            <4>5. m \notin UserMessages
                BY <4>1 DEF UserMessages
            <4>6. /\ steering \in Seq(UserMessages) /\ followUp \in Seq(UserMessages)
                  /\ m \notin ToSet(steering) /\ m \notin ToSet(followUp)
                BY <4>5, LinesTyped, UserTypes DEF ToSet
            <4> QED BY <4>3, <4>4, <4>6, ShownStays
        <3> QED BY <3>1, <3>2
    <2> QED BY <1>0, <1>1, <2>1, <2>2, DrainedQueued DEF queues
<1> QED BY <1>2, <1>3, <1>4, <1>5

LEMMA NextQueued == ASSUME Typed, Queued, [Next]_vars PROVE Queued'
<1>1. CASE RunStep \/ Launch \/ Prompt \/ ClearQueue \/ Restart
    BY <1>1, RunStepQueued, LaunchQueued, PromptQueued, ClearedQueued
<1>2. CASE \E kind \in {"steer", "followUp"} : Queue(kind)
    BY <1>2, QueueQueued
<1>3. CASE RunEnds
    <2>1. run.rest = <<>> /\ run'.rest = <<>>
        BY <1>3, NoRunType DEF RunEnds, EndRun, At, Typed, AgentTyped
    <2>2. next = None /\ next' = None
        BY <1>3 DEF RunEnds, EndRun, At, Queued, Lines, Typed, Paced, Running
    <2> QED BY <1>3, <2>1, <2>2, DrainedQueued DEF RunEnds, EndRun, queues
<1>4. CASE Resume
    <2>1. run.rest = <<>> /\ next = None /\ next' = None
        BY <1>4, IdleRest DEF Resume, Continue, Due, Over, Queued, Lines
    <2>2. \/ run'.rest = <<>> /\ steering' = steering /\ followUp' = followUp
          \/ /\ run'.rest = Taken(steering, SteeringMode) /\ followUp' = followUp
             /\ steering' = Left(steering, SteeringMode)
          \/ /\ run'.rest = Taken(followUp, FollowUpMode) /\ steering' = steering
             /\ followUp' = Left(followUp, FollowUpMode)
        BY <1>4, ContinueIs DEF Resume, Typed
    <2> QED BY <1>4, <2>1, <2>2, DrainedQueued DEF Resume
<1>5. CASE PrepareRetry \/ Settle
    <2>1. next = None
        BY <1>5 DEF PrepareRetry, Settle, Throws, Due, Over, Queued, Lines
    <2> QED BY <1>5, <2>1, QueuedKept DEF PrepareRetry, Settle, queues, Prompting
<1>6. CASE Recover \/ CompactThreshold
    <2>1. next # None => at = "preflight"
        BY <1>6 DEF Recover, CompactThreshold, Recoverable, Checked, Queued, Lines
    <2>2. Prompting(next', at', job')
        BY <1>6, <2>1 DEF Recover, CompactThreshold, Compacting, Onward, Prompting
    <2> QED BY <1>6, <2>2, QueuedKept DEF Recover, CompactThreshold, queues, agent
<1>7. CASE CompactionDone \/ CompactionFails
    <2>1. next # None => job.after = "launch"
        BY <1>7 DEF CompactionDone, CompactionFails, Queued, Lines
    <2>2. Prompting(next', at', job')
        BY <1>7, <2>1 DEF CompactionDone, CompactionFails, Prompting
    <2> QED BY <1>7, <2>2, QueuedKept DEF CompactionDone, CompactionFails, queues, agent
<1>8. CASE CompactManually
    <2>1. next = None
        BY <1>8 DEF CompactManually, Queued, Lines
    <2> QED BY <1>8, <2>1, QueuedKept DEF CompactManually, agent, Prompting
<1>9. CASE Abort
    <2>1. run'.rest = run.rest /\ used'.inputs = used.inputs
        BY <1>9 DEF Abort, AbortRun, Typed, AgentTyped, SessionTyped, Runs
    <2>2. Prompting(next', at', job')
        BY <1>9 DEF Abort, Queued, Lines, Prompting
    <2> QED BY <1>9, <2>1, <2>2, QueuedKept DEF Abort, queues
<1>10. CASE RecordShell
    <2>1. run'.rest = run.rest /\ used'.inputs = used.inputs
        BY <1>10 DEF RecordShell, Typed, SessionTyped
    <2>2. Prompting(next', at', job')
        BY <1>10 DEF RecordShell, Queued, Lines, Prompting
    <2> QED BY <1>10, <2>1, <2>2, QueuedKept DEF RecordShell, queues
<1>11. CASE UNCHANGED vars
    BY <1>11 DEF vars, agent, session, Queued, Lines, Mirrored
<1> QED BY <1>1, <1>2, <1>3, <1>4, <1>5, <1>6, <1>7, <1>8, <1>9, <1>10, <1>11
        DEF Next, SessionStep, ClientStep

LEMMA InitQueued == Init => Queued
<1> SUFFICES ASSUME Init PROVE Queued
    OBVIOUS
<1>1. \A kind : Line(kind, <<>>, used.inputs)
    BY DEF Line
<1>2. run.rest = <<>> /\ <<>> \o <<>> = <<>>
    BY NoRunType DEF Init, AgentInit
<1> QED BY <1>1, <1>2 DEF Init, AgentInit, Queued, Lines, Mirrored

LEMMA SpecQueued == Spec => []Queued
<1>1. Typed /\ Queued /\ [Next]_vars => Queued'
    BY NextQueued
<1> QED BY <1>1, InitQueued, SpecTyped, PTL DEF Spec

\* What the user is shown as queued is what is queued, with what a run has drained and
\* not emitted yet unless clearQueue came in between, however much input is sent, in
\* whatever order it is polled, delivered, cleared and lost.
THEOREM QueuedInputIsShown == Spec => []QueuesAreMirrored
<1>1. Queued => QueuesAreMirrored
    BY DEF Queued, Mirrored, QueuesAreMirrored
<1> QED BY <1>1, SpecQueued, PTL

-----------------------------------------------------------------------------
(***************************************************************************)
(* What a user sees of the session                                         *)
(***************************************************************************)
\* Messages without their times, which is how Conversation knows them.
Talk == {Plain(m) : m \in Messages}
Log == Said(entries)

LEMMA AppendEnds ==
    ASSUME NEW S, NEW s \in Seq(S), NEW m \in S
    PROVE  /\ Append(s, m) \in Seq(S) /\ Append(s, m) # <<>> /\ Last(Append(s, m)) = m
           /\ Len(Append(s, m)) = Len(s) + 1 /\ Len(s) \in Nat
           /\ Append(s, m)[Len(s) + 1] = m /\ \A k \in 1..Len(s) : Append(s, m)[k] = s[k]
<1> DEFINE t == Append(s, m)
<1>1. /\ t \in Seq(S) /\ Len(t) = Len(s) + 1 /\ t[Len(s) + 1] = m /\ Len(s) \in Nat
      /\ \A k \in 1..Len(s) : t[k] = s[k]
    OBVIOUS
<1>2. t # <<>>
    BY <1>1
<1> HIDE DEF t
<1>3. Last(t) = m
    BY <1>1, <1>2, LastType
<1> QED BY <1>1, <1>2, <1>3 DEF t

LEMMA SelectionType ==
    ASSUME NEW S, NEW s, NEW kept, NEW n \in Nat, NEW f, Selection(f, s, kept, n),
           \A k \in 1..n : s[k] \in S
    PROVE  f[0] = <<>> /\ f[n] \in Seq(S)
<1>1. /\ f[0] = <<>>
      /\ \A k \in 1..n : f[k] = IF k \in kept THEN Append(f[k - 1], s[k]) ELSE f[k - 1]
    BY SelectionValues
<1> DEFINE G == {m \in Nat : m <= n => f[m] \in Seq(S)}
<1>2. 0 \in G
    <2>1. <<>> \in Seq(S)
        OBVIOUS
    <2> QED BY <1>1, <2>1
<1>3. ASSUME NEW m \in G PROVE m + 1 \in G
    <2> SUFFICES ASSUME m + 1 <= n PROVE f[m + 1] \in Seq(S)
        BY <1>3
    <2>1. m \in Nat /\ m + 1 \in 1..n /\ m + 1 - 1 = m /\ f[m] \in Seq(S)
        BY <1>3
    <2> HIDE DEF G
    <2>2. \A k \in 1..n : f[k] = Append(f[k - 1], s[k]) \/ f[k] = f[k - 1]
        BY <1>1
    <2>3. f[m + 1] = Append(f[m], s[m + 1]) \/ f[m + 1] = f[m]
        BY <2>1, <2>2
    <2>4. Append(f[m], s[m + 1]) \in Seq(S)
        BY <2>1
    <2> QED BY <2>1, <2>3, <2>4
<1>4. G = Nat
    <2>1. G \in SUBSET Nat
        OBVIOUS
    <2> HIDE DEF G
    <2> QED BY <1>2, <1>3, <2>1, SetInduction
<1>5. n \in G /\ n <= n
    BY <1>4
<1> QED BY <1>1, <1>5

LEMMA SaidType ==
    /\ \A s \in Seq(Messages) : Said(s) \in Seq(Talk)
    /\ Said(<<>>) = <<>>
<1>1. ASSUME NEW s \in Seq(Messages)
      PROVE  Said(s) \in Seq(Talk) /\ (s = <<>> => Said(s) = <<>>)
    <2> DEFINE p == [k \in 1..Len(s) |-> Plain(s[k])]
    <2>1. PICK f : Said(s) = f[Len(s)] /\ Selection(f, p, KeptSaid(s), Len(s))
        BY SaidSelects
    <2>2. Len(s) \in Nat /\ \A k \in 1..Len(s) : p[k] \in Talk
        BY DEF Talk
    <2> HIDE DEF p
    <2>3. f[0] = <<>> /\ f[Len(s)] \in Seq(Talk)
        BY <2>1, <2>2, SelectionType
    <2> QED BY <2>1, <2>3
<1>2. <<>> \in Seq(Messages)
    OBVIOUS
<1> QED BY <1>1, <1>2

\* What is said of a sequence that grows by something other than a summary ends with it.
LEMMA SaidEnds ==
    ASSUME NEW s \in Seq(Messages), NEW m \in Messages, m.role # "summary"
    PROVE  /\ Said(Append(s, m)) = Append(Said(s), Plain(m))
           /\ Said(s) \in Seq(Talk) /\ Said(Append(s, m)) \in Seq(Talk)
           /\ Said(Append(s, m)) # <<>> /\ Last(Said(Append(s, m))) = Plain(m)
           /\ Len(Said(s)) \in Nat /\ Len(Said(Append(s, m))) = Len(Said(s)) + 1
           /\ Said(Append(s, m))[Len(Said(s)) + 1] = Plain(m)
           /\ \A k \in 1..Len(Said(s)) : Said(Append(s, m))[k] = Said(s)[k]
<1>1. Said(Append(s, m)) = Append(Said(s), Plain(m))
    BY SaidAppend
<1>2. Said(s) \in Seq(Talk) /\ Plain(m) \in Talk
    BY SaidType DEF Talk
<1> QED BY <1>1, <1>2, AppendEnds

LEMMA SaidShells ==
    ASSUME NEW s \in Seq(Messages), NEW n \in Nat
    PROVE  /\ Said(s \o Shells(n)) = Said(s) \o [k \in 1..n |-> Plain(Shell)]
           /\ Said(s) \in Seq(Talk) /\ Len(Said(s \o Shells(n))) = Len(Said(s)) + n
<1> DEFINE p(j) == [k \in 1..j |-> Plain(Shell)]
           l == Said(s)
<1>1. l \in Seq(Talk) /\ Plain(Shell) \in Talk /\ Shell \in Messages
    BY SaidType, MessageTypes DEF Talk
<1>2. \A j \in Nat : /\ p(j) \in Seq(Talk) /\ Len(p(j)) = j
                     /\ \A k \in 1..j : p(j)[k] = Plain(Shell)
    BY <1>1, IsASeq
<1>3. p(0) = <<>>
    BY <1>2, EmptySeq
<1> HIDE DEF p, l
<1>4. ASSUME NEW j \in Nat PROVE p(j + 1) = Append(p(j), Plain(Shell))
    <2>1. /\ Append(p(j), Plain(Shell)) \in Seq(Talk)
          /\ Len(Append(p(j), Plain(Shell))) = j + 1
          /\ Append(p(j), Plain(Shell))[j + 1] = Plain(Shell)
          /\ \A k \in 1..j : Append(p(j), Plain(Shell))[k] = Plain(Shell)
        <3> DEFINE q == p(j)
        <3>1. /\ q \in Seq(Talk) /\ Len(q) = j /\ \A k \in 1..j : q[k] = Plain(Shell)
              /\ Plain(Shell) \in Talk
            BY <1>1, <1>2
        <3> HIDE DEF q
        <3>2. /\ Append(q, Plain(Shell)) \in Seq(Talk) /\ Len(Append(q, Plain(Shell))) = j + 1
              /\ Append(q, Plain(Shell))[j + 1] = Plain(Shell)
              /\ \A k \in 1..j : Append(q, Plain(Shell))[k] = q[k]
            BY <3>1, AppendEnds
        <3> QED BY <3>1, <3>2 DEF q
    <2>2. \A k \in 1..(j + 1) : k = j + 1 \/ k \in 1..j
        OBVIOUS
    <2>3. \A k \in 1..(j + 1) : Append(p(j), Plain(Shell))[k] = Plain(Shell)
        BY <2>1, <2>2
    <2>4. p(j + 1) \in Seq(Talk) /\ Len(p(j + 1)) = j + 1
          /\ \A k \in 1..(j + 1) : p(j + 1)[k] = Plain(Shell)
        BY <1>2
    <2> QED BY <2>1, <2>3, <2>4, SeqEqual
<1> DEFINE G == {j \in Nat : Said(s \o Shells(j)) = l \o p(j)}
<1>5. 0 \in G
    <2>1. s \o Shells(0) = s /\ l \o <<>> = l
        BY <1>1, ShellsBehind, ConcatEmptySeq
    <2> QED BY <1>3, <2>1 DEF l
<1>6. ASSUME NEW j \in G PROVE j + 1 \in G
    <2>1. j \in Nat /\ j + 1 \in Nat /\ Said(s \o Shells(j)) = l \o p(j)
        BY <1>6
    <2>2. s \o Shells(j) \in Seq(Messages) /\ s \o Shells(j + 1) = Append(s \o Shells(j), Shell)
        BY <2>1, ShellsBehind
    <2>3. Shell.role # "summary"
        BY DEF Shell, Message
    <2>4. Said(s \o Shells(j + 1)) = Append(l \o p(j), Plain(Shell))
        BY <1>1, <2>1, <2>2, <2>3, SaidAppend
    <2>5. l \o Append(p(j), Plain(Shell)) = Append(l \o p(j), Plain(Shell))
        BY <1>1, <1>2, <2>1
    <2>6. p(j + 1) = Append(p(j), Plain(Shell))
        BY <1>4, <2>1
    <2> QED BY <2>1, <2>4, <2>5, <2>6
<1>7. G = Nat
    <2>1. G \in SUBSET Nat
        OBVIOUS
    <2> HIDE DEF G
    <2> QED BY <1>5, <1>6, <2>1, SetInduction
<1>8. Said(s \o Shells(n)) = l \o p(n)
    BY <1>7
<1>9. Len(l \o p(n)) = Len(l) + n
    <2>1. p(n) \in Seq(Talk) /\ Len(p(n)) = n
        BY <1>2
    <2> QED BY <1>1, <2>1, ConcatProperties
<1> QED BY <1>1, <1>8, <1>9 DEF p, l

\* The last entry that is not a summary is what a reader of the file ends with, and what
\* a user sees at the end.
LEMMA RebuiltLast ==
    ASSUME NEW s \in Seq(Messages), CutsInside(s), s # <<>>,
           Last(s).role = "summary" => Front(s) # <<>> /\ Last(Front(s)).role # "summary"
    PROVE  /\ Rebuilt(s) # <<>> /\ Said(s) # <<>> /\ Last(Said(s)) = Plain(Last(Rebuilt(s)))
           /\ Last(Rebuilt(s)) \in Messages
<1>0. /\ Front(s) \in Seq(Messages) /\ Last(s) \in Messages /\ s = Append(Front(s), Last(s))
      /\ CutsInside(Front(s)) /\ Len(Front(s)) = Len(s) - 1
    BY SplitLast, CutsFront
<1>1. CASE Last(s).role # "summary"
    <2>1. Rebuilt(s) # <<>> /\ Last(Rebuilt(s)) = Last(s)
        BY <1>1, RebuiltEnds
    <2>3. /\ Said(Append(Front(s), Last(s))) # <<>>
          /\ Last(Said(Append(Front(s), Last(s)))) = Plain(Last(s))
        BY <1>0, <1>1, SaidEnds
    <2>2. Said(s) # <<>> /\ Last(Said(s)) = Plain(Last(s))
        BY <1>0, <2>3
    <2> QED BY <1>0, <2>1, <2>2
<1>2. CASE Last(s).role = "summary"
    <2> DEFINE f == Front(s)
               m == Last(s)
               kept == SubSeq(f, m.n, Len(f))
    <2>1. f # <<>> /\ Last(f).role # "summary"
        BY <1>2
    <2>2. /\ Front(f) \in Seq(Messages) /\ Last(f) \in Messages
          /\ f = Append(Front(f), Last(f)) /\ Last(f) = f[Len(f)] /\ Len(f) \in Nat \ {0}
        BY <1>0, <2>1, SplitLast, LastType
    <2>3. Said(f) # <<>> /\ Last(Said(f)) = Plain(Last(f))
        <3>1. /\ Said(Append(Front(f), Last(f))) # <<>>
              /\ Last(Said(Append(Front(f), Last(f)))) = Plain(Last(f))
            BY <2>1, <2>2, SaidEnds
        <3> QED BY <2>2, <3>1
    <2>4. Said(s) = Said(f)
        BY <1>0, <1>2, SaidAppend
    <2>5. m.n \in 1..Len(f)
        <3>1. Len(s) \in Compactions(s) /\ s[Len(s)] = m
            BY <1>0, <1>2, LastType DEF Compactions
        <3>2. m.n \in 1..(Len(s) - 1)
            BY <3>1 DEF CutsInside
        <3> QED BY <1>0, <3>2
    <2>6. /\ Rebuilt(Append(f, m)) = <<m>> \o kept /\ kept \in Seq(Messages)
          /\ Len(kept) = Len(f) - m.n + 1
          /\ \A k \in 1..(Len(f) - m.n + 1) : kept[k] = f[m.n + k - 1]
        BY <1>0, <1>2, <2>5, RebuiltSummary
    <2> HIDE DEF f, m, kept
    <2>7. /\ Len(f) - m.n + 1 \in 1..(Len(f) - m.n + 1)
          /\ m.n + (Len(f) - m.n + 1) - 1 = Len(f) /\ Len(f) - m.n + 1 \in Nat \ {0}
        BY <2>2, <2>5
    <2>8. kept # <<>> /\ kept[Len(kept)] = f[Len(f)]
        BY <2>6, <2>7
    <2>9. Last(kept) = Last(f)
        BY <2>2, <2>6, <2>8, LastType
    <2>10. <<m>> \o kept # <<>> /\ Last(<<m>> \o kept) = Last(kept)
        <3>1. <<m>> \in Seq(Messages) /\ Len(<<m>>) = 1
            BY <1>0 DEF m
        <3>2. /\ <<m>> \o kept \in Seq(Messages) /\ Len(<<m>> \o kept) = 1 + Len(kept)
              /\ \A k \in 1..(1 + Len(kept)) :
                    (<<m>> \o kept)[k] = IF k <= 1 THEN <<m>>[k] ELSE kept[k - 1]
            BY <2>6, <3>1, ConcatProperties
        <3>3. Len(kept) \in Nat \ {0}
            BY <2>6, <2>8, LastType
        <3>4. <<m>> \o kept # <<>>
            BY <3>2, <3>3
        <3>5. Last(<<m>> \o kept) = (<<m>> \o kept)[1 + Len(kept)]
            BY <3>2, <3>4, LastType
        <3>6. 1 + Len(kept) \in 1..(1 + Len(kept)) /\ ~(1 + Len(kept) <= 1)
              /\ 1 + Len(kept) - 1 = Len(kept)
            BY <3>3
        <3>7. Last(kept) = kept[Len(kept)]
            BY <2>6, <2>8, LastType
        <3> QED BY <3>2, <3>4, <3>5, <3>6, <3>7
    <2>11. Rebuilt(s) = <<m>> \o kept
        BY <1>0, <2>6 DEF f, m
    <2> QED BY <2>2, <2>3, <2>4, <2>9, <2>10, <2>11
<1> QED BY <1>1, <1>2

\* An answer that failed ends the transcript only where it ends the log, and a complete
\* one ends the log only where it ends the transcript.
Alike(s, log) ==
    /\ EndsWithAnswer(s) /\ Failed(Last(s)) => log # <<>> /\ Failed(Last(log))
    /\ log # <<>> /\ IsAnswer(Last(log)) /\ ~Failed(Last(log)) => EndsWithAnswer(s)

\* The results of a batch that were given stand behind their answer.
Given(log) ==
    run.at \in {"prepare", "check", "results"} =>
        /\ run.given \in 0..(Len(log) - 1)
        /\ log[Len(log) - run.given].role = "assistant"
        /\ log[Len(log) - run.given].n = run.calls
        /\ \A k \in 1..run.given : log[Len(log) - run.given + k] = Plain(Result(k))

\* While a session is active its log ends with what was said; inputs in it were sent, an
\* answer in it is one of the file, and no summary follows another.
Told ==
    /\ Alike(messages, Log)
    /\ Given(Log)
    /\ active /\ run.at # "prompts" =>
          Log # <<>> /\ Last(Log).role \in {"user", "assistant", "toolResult"}
    /\ \A k \in 1..Len(Log) : Log[k].role = "user" => Log[k].n <= used.inputs
    /\ (\E k \in 1..Len(Log) : Log[k].role = "assistant")
          => \E k \in 1..Len(entries) : IsAnswer(entries[k])
    /\ entries # <<>> /\ Last(entries).role = "summary"
          => Front(entries) # <<>> /\ Last(Front(entries)).role # "summary"

LEMMA PlainKeeps ==
    ASSUME NEW m
    PROVE  /\ Plain(m).role = m.role /\ Plain(m).n = m.n /\ Plain(m).kind = m.kind
           /\ Failed(Plain(m)) <=> Failed(m)
           /\ IsAnswer(Plain(m)) <=> IsAnswer(m)
BY DEF Plain, Failed, IsAnswer

\* Both end with the same message.
LEMMA AlikeEnds ==
    ASSUME NEW s, s # <<>>, NEW log, log # <<>>, Last(log) = Plain(Last(s))
    PROVE  Alike(s, log)
BY PlainKeeps DEF Alike, EndsWithAnswer, Failed

\* A failed answer that leaves the transcript stays in the log.
LEMMA AlikeDrops ==
    ASSUME NEW s \in Seq(Messages), NEW log, Alike(s, log),
           EndsWithAnswer(s) => Failed(Last(s))
    PROVE  Alike(DropAnswer(s), log)
<1>1. CASE ~EndsWithAnswer(s)
    BY <1>1 DEF DropAnswer
<1>2. CASE EndsWithAnswer(s)
    BY <1>2 DEF Alike
<1> QED BY <1>1, <1>2

\* Where neither the session nor the end of the transcript changes.
LEMMA ToldKept ==
    ASSUME Told, entries' = entries, Alike(messages', Log),
           run'.at \in {"prepare", "check", "results"} =>
               /\ run.at \in {"prepare", "check", "results"}
               /\ run'.given = run.given /\ run'.calls = run.calls,
           active' /\ run'.at # "prompts" => active /\ run.at # "prompts",
           used.inputs \in Nat, used'.inputs \in {used.inputs, used.inputs + 1},
           Log \in Seq(Talk)
    PROVE  Told'
<1>1. Log' = Log
    BY DEF Log
<1>2. Alike(messages, Log)'
    BY <1>1 DEF Alike
<1>3. Given(Log)'
    <2> SUFFICES ASSUME run'.at \in {"prepare", "check", "results"} PROVE Given(Log)'
        BY DEF Given
    <2>1. /\ run.at \in {"prepare", "check", "results"} /\ Given(Log)
          /\ run'.given = run.given /\ run'.calls = run.calls
        BY DEF Told
    <2> QED BY <1>1, <2>1 DEF Given
<1>4. \A k \in 1..Len(Log) : Log[k].role = "user" => Log[k].n <= used'.inputs
    <2>1. \A k \in 1..Len(Log) : Log[k] \in Talk
        OBVIOUS
    <2>2. \A m \in Talk : m.n \in Nat
        BY DEF Talk, Plain, Messages
    <2>3. \A i \in Nat, j \in Nat : i <= j => i <= j + 1
        OBVIOUS
    <2> QED BY <2>1, <2>2, <2>3 DEF Told
<1> QED BY <1>1, <1>2, <1>3, <1>4 DEF Told

\* Where a message enters transcript and session.
LEMMA ToldGrows ==
    ASSUME Told, NEW m \in Spoken, messages \in Seq(Messages), entries \in Seq(Messages),
           messages' = Append(messages, m), entries' = Append(entries, m),
           used'.inputs = used.inputs, m.role = "user" => m.n <= used.inputs,
           Given(Log)'
    PROVE  Told'
<1>1. m \in Messages /\ m.role \in {"user", "assistant", "toolResult"} /\ m.role # "summary"
    BY MessageTypes DEF Spoken
<1>2. /\ Log' # <<>> /\ Last(Log') = Plain(m) /\ Log' \in Seq(Talk) /\ Log \in Seq(Talk)
      /\ Len(Log) \in Nat /\ Len(Log') = Len(Log) + 1 /\ Log'[Len(Log) + 1] = Plain(m)
      /\ \A k \in 1..Len(Log) : Log'[k] = Log[k]
    BY <1>1, SaidEnds DEF Log
<1>3. messages' # <<>> /\ Last(messages') = m
    BY <1>1, EndsAppend
<1>4. Alike(messages, Log)'
    BY <1>2, <1>3, AlikeEnds
<1>6. \A k \in 1..Len(Log') : k = Len(Log) + 1 \/ k \in 1..Len(Log)
    BY <1>2
<1>7. \A k \in 1..Len(Log') : Log'[k].role = "user" => Log'[k].n <= used'.inputs
    <2>1. \A k \in 1..Len(Log) : Log[k].role = "user" => Log[k].n <= used.inputs
        BY DEF Told
    <2>2. \A k \in 1..Len(Log) : Log'[k].role = "user" => Log'[k].n <= used'.inputs
        BY <1>2, <2>1
    <2>3. Log'[Len(Log) + 1].role = "user" => Log'[Len(Log) + 1].n <= used'.inputs
        BY <1>2, PlainKeeps
    <2> QED BY <1>6, <2>2, <2>3
<1>8. /\ Len(entries') = Len(entries) + 1 /\ Len(entries) \in Nat /\ Last(entries') = m
      /\ \A k \in 1..Len(entries) : entries'[k] = entries[k]
      /\ entries'[Len(entries) + 1] = m
    BY <1>1, EndsAppend
<1>9. (\E k \in 1..Len(Log') : Log'[k].role = "assistant")
          => \E k \in 1..Len(entries') : IsAnswer(entries'[k])
    <2> SUFFICES ASSUME NEW k \in 1..Len(Log'), Log'[k].role = "assistant"
                 PROVE  \E j \in 1..Len(entries') : IsAnswer(entries'[j])
        OBVIOUS
    <2>1. CASE k = Len(Log) + 1
        <3>1. IsAnswer(m) /\ Len(entries) + 1 \in 1..Len(entries')
            BY <1>2, <1>8, <2>1, PlainKeeps DEF IsAnswer
        <3> QED BY <1>8, <3>1
    <2>2. CASE k \in 1..Len(Log)
        <3>1. PICK j \in 1..Len(entries) : IsAnswer(entries[j])
            BY <1>2, <2>2 DEF Told
        <3>2. j \in 1..Len(entries')
            BY <1>8, <3>1
        <3> QED BY <1>8, <3>1, <3>2
    <2> QED BY <1>6, <2>1, <2>2
<1>10. Last(entries').role # "summary"
    BY <1>1, <1>8
<1>11. Last(Log').role \in {"user", "assistant", "toolResult"}
    BY <1>1, <1>2, PlainKeeps
<1> QED BY <1>2, <1>4, <1>7, <1>9, <1>10, <1>11 DEF Told

LEMMA LogType == ASSUME Typed PROVE Log \in Seq(Talk) /\ Len(Log) \in Nat /\ used.inputs \in Nat
BY SaidType, Naturals DEF Log, Typed, SessionTyped

\* Input that a run delivers was sent.
LEMMA DeliveredTold ==
    ASSUME Typed, Queued, Told, RunStep, DeliverPrompt \/ Inject
    PROVE  Told'
<1> DEFINE m == Head(run.rest)
<1>1. /\ messages \in Seq(Messages) /\ entries \in Seq(Messages) /\ run \in Runs
      /\ messages' = Append(messages, m) /\ run.rest # <<>> /\ m \in Spoken
    BY DeliverPromptType, InjectType DEF Typed, AgentTyped, SessionTyped
<1>2. entries' = Append(entries, m) /\ used' = used
    <2>1. m \in Messages
        BY <1>1, MessageTypes
    <2>2. messages' # messages /\ Last(messages') = m
        BY <1>1, <2>1, EndsAppend
    <2> QED BY <2>2 DEF RunStep, Listen, Heard, Persisted
<1>3. m.n <= used.inputs
    <2>1. /\ steering \in Seq(UserMessages) /\ followUp \in Seq(UserMessages)
          /\ run.rest \in Seq(UserMessages) /\ used.inputs \in Nat
        BY LinesTyped
    <2>2. PICK kind : Line(kind, run.rest, used.inputs)
        BY <2>1, LineParts DEF Queued, Lines
    <2>3. 1 \in 1..Len(run.rest) /\ m = run.rest[1]
        BY <1>1, <2>1, LastType
    <2> QED BY <2>2, <2>3 DEF Line
<1>4. run'.at \notin {"prepare", "check", "results"}
    BY <1>1 DEF DeliverPrompt, Inject, At, Asking, Runs
<1> HIDE DEF m
<1>5. Given(Log)'
    BY <1>4 DEF Given
<1> QED BY <1>1, <1>2, <1>3, <1>5, ToldGrows

LEMMA RespondTold ==
    ASSUME Typed, Held, Told, RunStep, NEW stop \in Stops, NEW calls \in 0..MaxCalls,
           Respond(stop, calls)
    PROVE  Told'
<1> DEFINE m == Answer(stop, calls)
<1>1. /\ messages \in Seq(Messages) /\ entries \in Seq(Messages) /\ run \in Runs
      /\ messages' = Append(messages, m) /\ clock \in Nat /\ calls \in Nat
    BY Naturals DEF Typed, AgentTyped, SessionTyped, Respond
<1>2. m \in Spoken /\ m \in Messages /\ m.role = "assistant" /\ m.n = calls
    BY <1>1, MessageTypes DEF Answer, Message
<1>3. entries' = Append(entries, m) /\ used' = used
    <2>1. messages' # messages /\ Last(messages') = m
        BY <1>1, <1>2, EndsAppend
    <2> QED BY <2>1 DEF RunStep, Listen, Heard, Persisted
<1>4. run'.given = 0 /\ run'.calls = calls
    <2>1. run.given = 0
        BY DEF Held, Respond, Answers, At
    <2> QED BY <1>1, <2>1 DEF Respond, Runs
<1> HIDE DEF m
<1>5. Given(Log)'
    <2>1. /\ Len(Log') \in Nat /\ Len(Log') = Len(Log) + 1 /\ Len(Log) \in Nat
          /\ Log'[Len(Log')] = Plain(m)
        BY <1>1, <1>2, <1>3, SaidEnds DEF Log
    <2>3. 0 \in 0..(Len(Log') - 1) /\ Len(Log') - 0 = Len(Log') /\ \A k \in 1..0 : FALSE
        BY <2>1
    <2>4. Plain(m).role = "assistant" /\ Plain(m).n = calls
        BY <1>2, PlainKeeps
    <2> QED BY <1>4, <2>1, <2>3, <2>4 DEF Given
<1> QED BY <1>1, <1>2, <1>3, <1>5, ToldGrows

LEMMA ResultTold ==
    ASSUME Typed, Batch, Told, RunStep, GiveResult
    PROVE  Told'
<1> DEFINE g == run.given
           m == Result(run.given + 1)
<1>1. /\ messages \in Seq(Messages) /\ entries \in Seq(Messages) /\ run \in Runs
      /\ messages' = Append(messages, m) /\ g \in Nat
    BY DEF Typed, AgentTyped, SessionTyped, GiveResult, Runs
<1>2. m \in Spoken /\ m \in Messages /\ m.role # "user"
    <2>1. g + 1 \in Nat
        BY <1>1
    <2> QED BY <2>1, MessageTypes DEF Result, Message
<1>3. entries' = Append(entries, m) /\ used' = used
    <2>1. messages' # messages /\ Last(messages') = m
        BY <1>1, <1>2, EndsAppend
    <2> QED BY <2>1 DEF RunStep, Listen, Heard, Persisted
<1>4. run.at = "results" /\ run.given + 1 \in Nat
    BY <1>1 DEF GiveResult, At
<1>5. run'.at \in {"prepare", "check", "results"} => run'.given = g + 1 /\ run'.calls = run.calls
    BY <1>1, <1>4 DEF GiveResult, Runs, Turned
<1>6. /\ g \in 0..(Len(Log) - 1)
      /\ Log[Len(Log) - g].role = "assistant" /\ Log[Len(Log) - g].n = run.calls
      /\ \A k \in 1..g : Log[Len(Log) - g + k] = Plain(Result(k))
    BY <1>4 DEF Told, Given
<1>7. /\ Len(Log') = Len(Log) + 1 /\ Len(Log) \in Nat /\ Log'[Len(Log) + 1] = Plain(m)
      /\ \A k \in 1..Len(Log) : Log'[k] = Log[k]
    <2>1. m.role # "summary"
        BY DEF Result, Message
    <2> QED BY <1>1, <1>2, <1>3, <2>1, SaidEnds DEF Log
<1>8. /\ g + 1 \in 0..(Len(Log') - 1) /\ Len(Log') - (g + 1) = Len(Log) - g
      /\ Len(Log) - g \in 1..Len(Log) /\ \A k \in 1..g : Len(Log) - g + k \in 1..Len(Log)
      /\ Len(Log) - g + (g + 1) = Len(Log) + 1
    <2>1. \A l \in Nat, j \in Nat : j \in 0..(l - 1) =>
              /\ j + 1 \in 0..(l + 1 - 1) /\ l + 1 - (j + 1) = l - j
              /\ l - j \in 1..l /\ \A k \in 1..j : l - j + k \in 1..l
              /\ l - j + (j + 1) = l + 1
        OBVIOUS
    <2>2. Len(Log) \in Nat /\ g \in Nat /\ g \in 0..(Len(Log) - 1) /\ Len(Log') = Len(Log) + 1
        BY <1>1, <1>6, <1>7
    <2> HIDE DEF g
    <2> QED BY <2>1, <2>2
<1>9. \A k \in 1..(g + 1) : k = g + 1 \/ k \in 1..g
    BY <1>1
<1> DEFINE r == Plain(m)
<1>10. r = Plain(Result(g + 1))
    OBVIOUS
<1> HIDE DEF g, m, r
<1>11. ASSUME NEW k \in 1..(g + 1) PROVE Log'[Len(Log) - g + k] = Plain(Result(k))
    <2>1. CASE k = g + 1
        <3>1. Len(Log) - g + k = Len(Log) + 1
            BY <1>8, <2>1
        <3>2. Plain(Result(k)) = r
            BY <1>10, <2>1
        <3> QED BY <1>7, <3>1, <3>2 DEF r
    <2>2. CASE k \in 1..g
        BY <1>6, <1>7, <1>8, <2>2
    <2> QED BY <1>9, <2>1, <2>2
<1>12. Given(Log)'
    <2>1. Log'[Len(Log) - g].role = "assistant" /\ Log'[Len(Log) - g].n = run.calls
        BY <1>6, <1>7, <1>8
    <2> QED BY <1>5, <1>8, <1>11, <2>1 DEF Given
<1> QED BY <1>1, <1>2, <1>3, <1>12, ToldGrows

\* The other steps of a run say nothing.
LEMMA SilentStep ==
    ASSUME Typed, RunStep,
           \/ PollSteering \/ PollFollowUp \/ PrepareCall \/ CheckSignal \/ CloseRun
           \/ \E c \in 1..MaxCalls : FinishCall(c)
    PROVE  /\ messages' = messages /\ entries' = entries /\ run.at # "prompts"
           /\ run'.at \in {"prepare", "check", "results"} =>
                 /\ run.at \in {"prepare", "check", "results"}
                 /\ run'.given = run.given /\ run'.calls = run.calls
<1>0. run \in Runs
    BY DEF Typed, AgentTyped
<1>1. messages' = messages
    BY DEF PollSteering, PollFollowUp, PrepareCall, CheckSignal, CloseRun, FinishCall
<1>2. entries' = entries
    BY <1>1 DEF RunStep, Listen
<1>3. CASE PollSteering
    BY <1>0, <1>1, <1>2, <1>3 DEF PollSteering, At, Runs, Asking
<1>4. CASE PollFollowUp
    BY <1>0, <1>1, <1>2, <1>4 DEF PollFollowUp, At, Runs
<1>5. CASE PrepareCall
    BY <1>0, <1>1, <1>2, <1>5 DEF PrepareCall, At, Runs
<1>6. CASE CheckSignal
    BY <1>0, <1>1, <1>2, <1>6 DEF CheckSignal, At, Runs, Turned
<1>7. CASE \E c \in 1..MaxCalls : FinishCall(c)
    BY <1>0, <1>1, <1>2, <1>7 DEF FinishCall, At, Runs
<1>8. CASE CloseRun
    BY <1>0, <1>1, <1>2, <1>8 DEF CloseRun, At, Runs
<1> QED BY <1>3, <1>4, <1>5, <1>6, <1>7, <1>8

LEMMA RunStepTold == ASSUME Typed, Held, Batch, Queued, Told, RunStep PROVE Told'
<1>1. CASE DeliverPrompt \/ Inject
    BY <1>1, DeliveredTold
<1>2. CASE \E stop \in Stops, calls \in 0..MaxCalls : Respond(stop, calls)
    BY <1>2, RespondTold
<1>3. CASE GiveResult
    BY <1>3, ResultTold
<1>4. CASE \/ PollSteering \/ PollFollowUp \/ PrepareCall \/ CheckSignal \/ CloseRun
           \/ \E c \in 1..MaxCalls : FinishCall(c)
    <2>1. Alike(messages', Log) /\ active /\ used' = used
        BY <1>4, SilentStep, RunStepAdds DEF Told, RunStep
    <2> QED BY <1>4, <2>1, SilentStep, LogType, ToldKept
<1> QED BY <1>1, <1>2, <1>3, <1>4 DEF RunStep, AgentStep

\* Shell output is recorded while no run is active.
LEMMA ShellsTold ==
    ASSUME Typed, Told, NEW n \in Nat, messages' = messages \o Shells(n),
           entries' = entries \o Shells(n), run'.at = "idle", active' = FALSE,
           used'.inputs = used.inputs
    PROVE  Told'
<1>0. messages \in Seq(Messages) /\ entries \in Seq(Messages)
    BY DEF Typed, AgentTyped, SessionTyped
<1>1. CASE n = 0
    <2>1. messages' = messages /\ entries' = entries
        BY <1>0, <1>1, ShellsBehind
    <2> QED BY <2>1, LogType, ToldKept DEF Told
<1>2. CASE n # 0
    <2> DEFINE j == n - 1
               e == entries \o Shells(j)
               s == messages \o Shells(j)
    <2>1. j \in Nat /\ j + 1 = n
        BY <1>2
    <2> HIDE DEF j
    <2>2. /\ e \in Seq(Messages) /\ s \in Seq(Messages) /\ Shell \in Messages
          /\ entries' = Append(e, Shell) /\ messages' = Append(s, Shell)
        BY <1>0, <2>1, ShellsBehind, MessageTypes
    <2> HIDE DEF e, s
    <2>3. /\ Shell.role = "shell" /\ Plain(Shell).role = "shell"
        BY PlainKeeps DEF Shell, Message
    <2>4. /\ Log' # <<>> /\ Last(Log') = Plain(Shell)
          /\ messages' # <<>> /\ Last(messages') = Shell
          /\ entries' # <<>> /\ Last(entries') = Shell
        <3>1. /\ messages' # <<>> /\ Last(messages') = Shell
              /\ entries' # <<>> /\ Last(entries') = Shell
            BY <2>2, EndsAppend
        <3>2. Shell.role # "summary"
            BY <2>3
        <3>3. Said(Append(e, Shell)) # <<>> /\ Last(Said(Append(e, Shell))) = Plain(Shell)
            BY <2>2, <3>2, SaidEnds
        <3> QED BY <2>2, <3>1, <3>3 DEF Log
    <2>5. Alike(messages, Log)'
        BY <2>4, AlikeEnds
    <2>6. Given(Log)'
        BY DEF Given
    <2> DEFINE p == [k \in 1..n |-> Plain(Shell)]
    <2>7. Log' = Log \o p /\ Log \in Seq(Talk) /\ Len(Log') = Len(Log) + n /\ Len(Log) \in Nat
        <3>1. /\ Said(entries \o Shells(n)) = Said(entries) \o p /\ Said(entries) \in Seq(Talk)
              /\ Len(Said(entries \o Shells(n))) = Len(Said(entries)) + n
            BY <1>0, SaidShells
        <3>2. Log' = Said(entries \o Shells(n)) /\ Log = Said(entries)
            BY DEF Log
        <3>3. Len(Said(entries)) \in Nat
            BY <3>1
        <3> HIDE DEF p
        <3> QED BY <3>1, <3>2, <3>3
    <2>8. p \in Seq(Talk) /\ Len(p) = n /\ \A k \in 1..n : p[k] = Plain(Shell)
        <3>1. Plain(Shell) \in Talk
            BY <2>2 DEF Talk
        <3> QED BY <3>1, IsASeq
    <2> HIDE DEF p
    <2>9. \A k \in 1..Len(Log') : (k \in 1..Len(Log) /\ Log'[k] = Log[k]) \/ Log'[k] = Plain(Shell)
        <3>1. \A k \in 1..(Len(Log) + n) :
                  (Log \o p)[k] = IF k <= Len(Log) THEN Log[k] ELSE p[k - Len(Log)]
            BY <2>7, <2>8, ConcatProperties
        <3>2. \A k \in 1..(Len(Log) + n) : k <= Len(Log) => k \in 1..Len(Log)
            OBVIOUS
        <3>3. \A k \in 1..(Len(Log) + n) : ~(k <= Len(Log)) => k - Len(Log) \in 1..n
            BY <2>7
        <3> QED BY <2>7, <2>8, <3>1, <3>2, <3>3
    <2>10. \A k \in 1..Len(Log') : Log'[k].role = "user" => Log'[k].n <= used'.inputs
        BY <2>3, <2>9 DEF Told
    <2>11. \A k \in 1..Len(entries) : k \in 1..Len(entries') /\ entries'[k] = entries[k]
        <3>1. Shells(n) \in Seq(Messages) /\ Len(Shells(n)) = n
            BY ShellsGrow
        <3> DEFINE t == Shells(n)
                   u == entries \o Shells(n)
        <3>2. t \in Seq(Messages) /\ Len(t) = n /\ entries' = u /\ u = entries \o t
            BY <3>1
        <3> HIDE DEF t, u
        <3>3. /\ Len(u) = Len(entries) + n /\ Len(entries) \in Nat
              /\ \A k \in 1..(Len(entries) + n) :
                    u[k] = IF k <= Len(entries) THEN entries[k] ELSE t[k - Len(entries)]
            <4>1. /\ Len(entries \o t) = Len(entries) + Len(t) /\ Len(entries) \in Nat
                  /\ \A k \in 1..(Len(entries) + Len(t)) :
                        (entries \o t)[k] =
                            IF k <= Len(entries) THEN entries[k] ELSE t[k - Len(entries)]
                <5>1. entries \in Seq(Messages) /\ t \in Seq(Messages)
                    BY <1>0, <3>2
                <5> QED BY <5>1, ConcatProperties
            <4> QED BY <3>2, <4>1
        <3>4. \A k \in 1..Len(entries) : k \in 1..(Len(entries) + n) /\ k <= Len(entries)
            BY <3>3
        <3>5. \A k \in 1..Len(entries) : u[k] = entries[k]
            BY <3>3, <3>4
        <3> QED BY <3>2, <3>3, <3>4, <3>5
    <2>12. (\E k \in 1..Len(Log') : Log'[k].role = "assistant")
              => \E k \in 1..Len(entries') : IsAnswer(entries'[k])
        <3> SUFFICES ASSUME NEW k \in 1..Len(Log'), Log'[k].role = "assistant"
                     PROVE  \E i \in 1..Len(entries') : IsAnswer(entries'[i])
            OBVIOUS
        <3>1. k \in 1..Len(Log) /\ Log[k].role = "assistant"
            BY <2>3, <2>9
        <3>2. PICK i \in 1..Len(entries) : IsAnswer(entries[i])
            BY <3>1 DEF Told
        <3> QED BY <2>11, <3>2
    <2> QED BY <2>3, <2>4, <2>5, <2>6, <2>10, <2>12 DEF Told
<1> QED BY <1>1, <1>2

LEMMA RecordedTold == ASSUME Typed, Told, RecordShell \/ Settle PROVE Told'
<1>0. /\ messages \in Seq(Messages) /\ entries \in Seq(Messages) /\ pending \in Nat
      /\ run \in Runs
    BY DEF Typed, AgentTyped, SessionTyped
<1>1. CASE Settle
    <2>1. messages' = messages \o Shells(pending) /\ entries' = entries \o Shells(pending)
        BY <1>1 DEF Settle, Shells
    <2>2. run'.at = "idle" /\ active' = FALSE /\ used'.inputs = used.inputs
        BY <1>1, NoRunType DEF Settle, Throws, Due, Over, Typed, Paced, Running, At
    <2> QED BY <1>0, <2>1, <2>2, ShellsTold
<1>2. CASE RecordShell /\ active
    <2>1. /\ messages' = messages /\ entries' = entries /\ run' = run /\ active' = active
          /\ used'.inputs = used.inputs
        BY <1>2 DEF RecordShell, Deferred, Typed, SessionTyped
    <2> QED BY <2>1, LogType, ToldKept DEF Told
<1>3. CASE RecordShell /\ ~active
    <2>1. /\ messages' = Append(messages, Shell) /\ entries' = Append(entries, Shell)
          /\ run' = run /\ active' = active /\ used'.inputs = used.inputs
        BY <1>3 DEF RecordShell, Deferred, Typed, SessionTyped
    <2>2. run'.at = "idle" /\ active' = FALSE
        BY <1>3, <2>1 DEF Typed, SessionTyped, Paced, Running, At
    <2>3. /\ messages \o Shells(1) = Append(messages, Shell)
          /\ entries \o Shells(1) = Append(entries, Shell)
        <3>1. 0 \in Nat /\ 0 + 1 = 1
            OBVIOUS
        <3> QED BY <1>0, <3>1, ShellsBehind
    <2> QED BY <2>1, <2>2, <2>3, ShellsTold
<1> QED BY <1>1, <1>2, <1>3

\* A retry and a recovery take a failed answer out of the transcript.
LEMMA DroppedTold == ASSUME Typed, Sound, Told, PrepareRetry \/ Recover PROVE Told'
<1>1. /\ messages' = DropAnswer(messages) /\ entries' = entries /\ run' = run
      /\ active' = active /\ used' = used /\ messages \in Seq(Messages)
    BY DEF PrepareRetry, Recover, Typed, AgentTyped
<1>2. EndsWithAnswer(messages) => Failed(Last(messages))
    <2>1. CASE at = "post" /\ last.kind \in Incomplete
        <3>1. EndsWithAnswer(messages) /\ Last(messages) = last
            BY <2>1 DEF Sound, Asked, Ending
        <3> QED BY <2>1, <3>1 DEF Failed, EndsWithAnswer
    <2>2. CASE PrepareRetry
        BY <2>1, <2>2 DEF PrepareRetry, Incomplete, Failures
    <2>3. CASE Recover
        <3>1. /\ at \in {"post", "cancelled", "preflight"} /\ IsAnswer(Judged)
              /\ Judged.kind \in Incomplete /\ Judged.kind # "error"
            BY <2>3 DEF Recover, Recoverable, Checked
        <3>2. at # "cancelled"
            BY <3>1 DEF Judged, Sound, Judgement
        <3>3. CASE at = "preflight"
            BY <1>1, <3>1, <3>3, JudgedIsLast DEF Failed
        <3>4. CASE at = "post"
            BY <2>1, <3>1, <3>4 DEF Judged
        <3> QED BY <3>1, <3>2, <3>3, <3>4
    <2> QED BY <2>2, <2>3
<1>3. Alike(messages', Log)
    BY <1>1, <1>2, AlikeDrops DEF Told
<1> QED BY <1>1, <1>3, LogType, ToldKept

LEMMA CompactedTold ==
    ASSUME Typed, Typed', Sound, Told, CompactionDone
    PROVE  Told'
<1> DEFINE m == Summary(job.cut)
           r == Rebuilt(entries')
<1>1. /\ entries \in Seq(Messages) /\ entries' = Append(entries, m) /\ entries' \in Seq(Messages)
      /\ CutsInside(entries') /\ messages' = Restored(entries', job.retry) /\ run' = run
      /\ active' = active /\ used' = used /\ at = "compacting"
    BY DEF CompactionDone, Typed, SessionTyped
<1>2. m \in Messages /\ m.role = "summary"
    <2>1. job.cut \in Nat /\ clock \in Nat
        BY DEF Typed, AgentTyped, SessionTyped, Jobs
    <2> QED BY <2>1, MessageTypes DEF Summary, Message
<1>3. run.at = "idle"
    BY <1>1 DEF Typed, Paced, Running, At
<1>4. entries # <<>> /\ Last(entries).role # "summary"
    BY <1>1 DEF Sound, Asked
<1> HIDE DEF m
<1>5. /\ entries' # <<>> /\ Last(entries') = m /\ Front(entries') = entries
      /\ \A k \in 1..Len(entries) : k \in 1..Len(entries') /\ entries'[k] = entries[k]
    <2>1. /\ entries' # <<>> /\ Last(entries') = m /\ Front(entries') = entries
          /\ Len(entries') = Len(entries) + 1 /\ Len(entries) \in Nat
          /\ \A k \in 1..Len(entries) : entries'[k] = entries[k]
        BY <1>1, <1>2, EndsAppend
    <2> QED BY <2>1
<1>6. /\ r # <<>> /\ Log' # <<>> /\ Last(Log') = Plain(Last(r)) /\ r \in Seq(Messages)
    BY <1>1, <1>2, <1>4, <1>5, RebuiltLast, RebuiltType DEF Log
<1>7. Log' = Log
    BY <1>1, <1>2, SaidAppend DEF Log
<1> HIDE DEF r
<1>8. Alike(r, Log')
    BY <1>6, AlikeEnds
<1>9. Alike(messages', Log')
    <2>1. CASE messages' = r
        BY <1>8, <2>1
    <2>2. CASE messages' = DropAnswer(r) /\ Last(r).kind \in Incomplete
        <3>1. EndsWithAnswer(r) => Failed(Last(r))
            BY <2>2 DEF EndsWithAnswer, Failed
        <3> QED BY <1>6, <1>8, <2>2, <3>1, AlikeDrops
    <2> QED BY <1>1, <2>1, <2>2 DEF Restored, r
<1>10. Alike(messages, Log)'
    BY <1>9
<1>11. Given(Log)'
    BY <1>1, <1>3 DEF Given
<1>12. (\E k \in 1..Len(Log) : Log[k].role = "assistant")
          => \E k \in 1..Len(entries') : IsAnswer(entries'[k])
    <2>1. (\E k \in 1..Len(entries) : IsAnswer(entries[k]))
              => \E k \in 1..Len(entries') : IsAnswer(entries'[k])
        BY <1>5
    <2> QED BY <2>1 DEF Told
<1> QED BY <1>1, <1>4, <1>5, <1>7, <1>10, <1>11, <1>12 DEF Told

LEMMA RestartTold == ASSUME Typed, Told, Restart PROVE Told'
<1>1. /\ entries \in Seq(Messages) /\ CutsInside(entries) /\ entries' = Kept
      /\ messages' = Rebuilt(Kept) /\ active' = FALSE /\ run' = NoRun
      /\ used'.inputs = used.inputs
    BY DEF Restart, Typed, SessionTyped
<1>2. run'.at = "idle"
    BY <1>1, NoRunType
<1>3. Rebuilt(<<>>) = <<>> /\ Said(<<>>) = <<>>
    BY SaidType DEF Rebuilt, Compactions
<1>4. CASE Kept = entries /\ entries # <<>>
    <2>1. /\ Rebuilt(entries) # <<>> /\ Log # <<>>
          /\ Last(Log) = Plain(Last(Rebuilt(entries)))
        BY <1>1, <1>4, RebuiltLast DEF Log, Told
    <2>2. Alike(messages', Log)
        BY <1>1, <1>4, <2>1, AlikeEnds
    <2> QED BY <1>1, <1>2, <1>4, <2>2, LogType, ToldKept
<1>5. CASE Kept = <<>>
    <2>1. messages' = <<>> /\ entries' = <<>> /\ Log' = <<>>
        BY <1>1, <1>3, <1>5 DEF Log
    <2> QED BY <1>1, <1>2, <2>1 DEF Told, Alike, Given, EndsWithAnswer
<1> QED BY <1>4, <1>5 DEF Kept

LEMMA NextTold ==
    ASSUME Typed, Held, Batch, Sound, Queued, Told, [Next]_vars
    PROVE  Told'
<1>1. CASE RunStep
    BY <1>1, RunStepTold
<1>2. CASE RecordShell \/ Settle
    BY <1>2, RecordedTold
<1>3. CASE PrepareRetry \/ Recover
    BY <1>3, DroppedTold
<1>4. CASE CompactionDone \/ Restart
    BY <1>4, CompactedTold, RestartTold, NextTyped
<1>5. CASE Launch \/ Resume \/ RunEnds
    <2>1. /\ messages' = messages /\ entries' = entries /\ used' = used
          /\ run'.at \in {"prompts", "steer", "idle"}
          /\ active' /\ run'.at # "prompts" => active /\ run.at # "prompts"
        <3>1. CASE Launch
            <4>1. run'.at = "prompts"
                BY <3>1, NoRunType DEF Launch, StartPrompt, Started, NoRun
            <4> QED BY <3>1, <4>1 DEF Launch, StartPrompt
        <3>2. CASE Resume
            <4>1. active /\ run.at = "idle"
                BY <3>2 DEF Resume, Due, Over, Continue, Running, At, Typed, Paced
            <4>2. messages' = messages /\ run'.at \in {"prompts", "steer"}
                BY <3>2, ContinueIs DEF Resume, Typed
            <4> QED BY <3>2, <4>1, <4>2 DEF Resume
        <3>3. CASE RunEnds
            BY <3>3, NoRunType DEF RunEnds, EndRun, At
        <3> QED BY <1>5, <3>1, <3>2, <3>3
    <2>2. Alike(messages', Log)
        BY <2>1 DEF Told
    <2> QED BY <2>1, <2>2, LogType, ToldKept
<1>6. CASE \E kind \in {"steer", "followUp"} : Queue(kind)
    <2>1. /\ messages' = messages /\ entries' = entries /\ run' = run /\ active' = active
          /\ used'.inputs = used.inputs + 1
        BY <1>6 DEF Queue, Typed, SessionTyped
    <2> QED BY <2>1, LogType, ToldKept DEF Told
<1>7. CASE Prompt
    <2>1. /\ messages' = messages /\ entries' = entries /\ run' = run /\ active' = active
          /\ used'.inputs = used.inputs + 1
        BY <1>7 DEF Prompt, Typed, SessionTyped, agent
    <2> QED BY <2>1, LogType, ToldKept DEF Told
<1>8. CASE ClearQueue \/ CompactManually \/ CompactThreshold \/ CompactionFails
    <2>1. /\ messages' = messages /\ entries' = entries /\ run' = run /\ active' = active
          /\ used'.inputs = used.inputs
        BY <1>8 DEF ClearQueue, CompactManually, CompactThreshold, CompactionFails, agent,
                    Typed, SessionTyped
    <2> QED BY <2>1, LogType, ToldKept DEF Told
<1>9. CASE Abort
    <2>1. /\ messages' = messages /\ entries' = entries /\ active' = active
          /\ used'.inputs = used.inputs /\ run'.at = run.at /\ run'.given = run.given
          /\ run'.calls = run.calls
        BY <1>9 DEF Abort, AbortRun, Typed, SessionTyped, AgentTyped, Runs
    <2> QED BY <2>1, LogType, ToldKept DEF Told
<1>10. CASE UNCHANGED vars
    <2>1. /\ messages' = messages /\ entries' = entries /\ run' = run /\ active' = active
          /\ used' = used
        BY <1>10 DEF vars, agent, session
    <2> QED BY <2>1, LogType, ToldKept DEF Told
<1> QED BY <1>1, <1>2, <1>3, <1>4, <1>5, <1>6, <1>7, <1>8, <1>9, <1>10
        DEF Next, SessionStep, ClientStep

LEMMA InitTold == Init => Told
<1> SUFFICES ASSUME Init PROVE Told
    OBVIOUS
<1>1. messages = <<>> /\ entries = <<>> /\ active = FALSE /\ run.at = "idle" /\ Log = <<>>
    BY SaidType, NoRunType DEF Init, AgentInit, Log
<1> QED BY <1>1 DEF Told, Alike, Given, EndsWithAnswer

LEMMA SpecTold == Spec => []Told
<1>1. Typed /\ Held /\ Batch /\ Sound /\ Queued /\ Told /\ [Next]_vars => Told'
    BY NextTold
<1> QED BY <1>1, InitTold, SpecTyped, SpecHeld, SpecBatch, SpecSound, SpecQueued, PTL DEF Spec

-----------------------------------------------------------------------------
(***************************************************************************)
(* The session is a conversation                                           *)
(***************************************************************************)
\* What waits, as Conversation knows it.
Waiting == {Plain(m) : m \in Undelivered}

\* Without its time, which is always the same, an input is still the same input.
LEMMA PlainInput ==
    ASSUME NEW a \in UserMessages, NEW b \in UserMessages, Plain(a) = Plain(b)
    PROVE  a = b
<1>1. a.role = b.role /\ a.n = b.n /\ a.kind = b.kind
    BY PlainKeeps
<1>2. a.time = b.time
    BY DEF UserMessages
<1> QED BY <1>1, <1>2 DEF UserMessages

LEMMA LineMembers ==
    ASSUME NEW kind, NEW top, NEW q, Line(kind, q, top)
    PROVE  \A m \in ToSet(q) : m \in UserMessages /\ m.kind = kind /\ m.n <= top
<1>1. q \in Seq(UserMessages) /\ \A j \in 1..Len(q) : q[j].kind = kind /\ q[j].n <= top
    BY DEF Line
<1>2. \A m \in ToSet(q) : \E j \in 1..Len(q) : m = q[j]
    BY <1>1 DEF ToSet
<1>3. \A j \in 1..Len(q) : q[j] \in UserMessages
    BY <1>1
<1> QED BY <1>1, <1>2, <1>3

LEMMA DrainedLine ==
    ASSUME Typed, Queued
    PROVE  /\ \E kind : Line(kind, run.rest, used.inputs)
           /\ Line("steer", steering, used.inputs) /\ Line("followUp", followUp, used.inputs)
<1>1. /\ steering \in Seq(UserMessages) /\ followUp \in Seq(UserMessages)
      /\ run.rest \in Seq(UserMessages) /\ used.inputs \in Nat
    BY LinesTyped
<1> QED BY <1>1, LineParts DEF Queued, Lines

LEMMA UndeliveredIs ==
    ASSUME Typed, Queued
    PROVE  /\ Undelivered = {m \in {next} : m # None}
                               \cup ToSet(run.rest) \cup ToSet(steering) \cup ToSet(followUp)
           /\ \A o \in Undelivered : o \in UserMessages /\ o.n <= used.inputs
<1>1. /\ \A o \in ToSet(run.rest) : o \in UserMessages /\ o.n <= used.inputs
      /\ \A o \in ToSet(steering) : o \in UserMessages /\ o.n <= used.inputs
      /\ \A o \in ToSet(followUp) : o \in UserMessages /\ o.n <= used.inputs
    BY DrainedLine, LineMembers
<1>2. next # None => next \in UserMessages /\ next.n <= used.inputs
    <2> SUFFICES ASSUME next # None PROVE next \in UserMessages /\ next.n <= used.inputs
        OBVIOUS
    <2>1. \A m \in ToSet(<<next>>) : m \in UserMessages /\ m.n <= used.inputs
        BY LineMembers DEF Queued, Lines
    <2>2. next \in ToSet(<<next>>)
        BY DEF ToSet
    <2> QED BY <2>1, <2>2
<1>3. None \notin UserMessages
    BY DEF None, Message, UserMessages
<1> QED BY <1>1, <1>2, <1>3 DEF Undelivered

LEMMA DrainKeeps ==
    ASSUME Typed, next' = next,
           \/ run'.rest = run.rest /\ steering' = steering /\ followUp' = followUp
           \/ /\ run.rest = <<>>
              /\ run'.rest = Taken(steering, SteeringMode) /\ followUp' = followUp
              /\ steering' = Left(steering, SteeringMode)
           \/ /\ run.rest = <<>>
              /\ run'.rest = Taken(followUp, FollowUpMode) /\ steering' = steering
              /\ followUp' = Left(followUp, FollowUpMode)
    PROVE  Undelivered' = Undelivered
<1>1. \A mode : \A q \in Seq(UserMessages) :
          ToSet(Taken(q, mode)) \cup ToSet(Left(q, mode)) = ToSet(q)
    <2> SUFFICES ASSUME NEW mode, NEW q \in Seq(UserMessages)
                 PROVE  ToSet(Taken(q, mode)) \cup ToSet(Left(q, mode)) = ToSet(q)
        OBVIOUS
    <2>1. /\ Taken(q, mode) \in Seq(UserMessages) /\ Left(q, mode) \in Seq(UserMessages)
          /\ Taken(q, mode) \o Left(q, mode) = q
        BY QueueTypes
    <2> QED BY <2>1, ToSetConcat
<1>2. ToSet(<<>>) = {}
    BY DEF ToSet
<1>3. steering \in Seq(UserMessages) /\ followUp \in Seq(UserMessages)
    BY LinesTyped
<1>4. /\ ToSet(Taken(steering, SteeringMode)) \cup ToSet(Left(steering, SteeringMode))
            = ToSet(steering)
      /\ ToSet(Taken(followUp, FollowUpMode)) \cup ToSet(Left(followUp, FollowUpMode))
            = ToSet(followUp)
    BY <1>1, <1>3
<1>5. ToSet(run'.rest) \cup ToSet(steering') \cup ToSet(followUp')
          = ToSet(run.rest) \cup ToSet(steering) \cup ToSet(followUp)
    BY <1>2, <1>4
<1> QED BY <1>5 DEF Undelivered

-----------------------------------------------------------------------------
\* Nothing a user sees of the session changes.
LEMMA StillMapped ==
    ASSUME Log' = Log, Undelivered' = Undelivered
    PROVE  UNCHANGED C!vars
BY DEF C!vars, Log

LEMMA SendMapped ==
    ASSUME Typed, Queued, Told, NEW kind \in Kinds, used.inputs < MaxInputs, entries' = entries,
           Undelivered' = Undelivered \cup {User(used.inputs + 1, kind)}
    PROVE  C!Next
<1> DEFINE i == used.inputs + 1
           m == C!Message("user", i, kind)
<1>1. used.inputs \in Nat /\ Log \in Seq(Talk) /\ i \in Inputs
    BY LogType, Naturals DEF Inputs
<1>2. m = Plain(User(i, kind)) /\ m.n = i
    BY DEF C!Message, Plain, User, Message
<1>3. \A o \in Waiting : o.n < i
    <2>1. \A u \in Undelivered : Plain(u).n = u.n /\ u.n \in Nat /\ u.n <= used.inputs
        BY UndeliveredIs, PlainKeeps DEF UserMessages
    <2> QED BY <1>1, <2>1 DEF Waiting
<1>4. \A o \in C!Delivered : o.n < i
    <2>1. \A k \in 1..Len(Log) : Log[k].role = "user" => Log[k].n <= used.inputs /\ Log[k].n \in Nat
        <3>1. \A t \in Talk : t.n \in Nat
            BY DEF Talk, Plain, Messages
        <3> QED BY <1>1, <3>1 DEF Told
    <2>2. \A o \in C!Delivered : \E k \in 1..Len(Log) : Log[k].role = "user" /\ o = Log[k]
        BY <1>1 DEF C!Delivered, Log
    <2> QED BY <1>1, <2>1, <2>2
<1>5. Waiting' = Waiting \cup {m}
    BY <1>2 DEF Waiting
<1> HIDE DEF i, m
<1>6. C!Send(m)
    BY <1>2, <1>3, <1>4, <1>5 DEF C!Send, Waiting
<1> QED BY <1>1, <1>6 DEF C!Next, m

LEMMA WithdrawMapped ==
    ASSUME Log' = Log, Undelivered' \subseteq Undelivered
    PROVE  C!Next
<1> DEFINE taken == Waiting \ Waiting'
<1>1. Waiting' = Waiting \ taken /\ taken \in SUBSET Waiting
    BY DEF Waiting
<1> HIDE DEF taken
<1>2. C!Withdraw(taken)
    BY <1>1 DEF C!Withdraw, Waiting, Log
<1> QED BY <1>1, <1>2 DEF C!Next, Waiting

\* What a run emits next is the oldest of its kind that waits.
LEMMA HeadIsOldest ==
    ASSUME Typed, Queued, run.rest # <<>>
    PROVE  /\ Head(run.rest) \in UserMessages /\ Head(run.rest) \in ToSet(run.rest)
           /\ ToSet(run.rest) = {Head(run.rest)} \cup ToSet(Tail(run.rest))
           /\ \A o \in ToSet(Tail(run.rest)) \cup ToSet(steering) \cup ToSet(followUp) :
                 o.kind = Head(run.rest).kind => Head(run.rest).n < o.n
<1> DEFINE r == run.rest
           top == used.inputs
<1>1. /\ steering \in Seq(UserMessages) /\ followUp \in Seq(UserMessages)
      /\ r \in Seq(UserMessages) /\ top \in Nat /\ r # <<>>
    BY LinesTyped
<1>2. /\ Len(r) \in Nat \ {0} /\ Head(r) = r[1] /\ Head(r) \in UserMessages
      /\ Tail(r) \in Seq(UserMessages) /\ Len(Tail(r)) = Len(r) - 1
      /\ \A j \in 1..(Len(r) - 1) : Tail(r)[j] = r[j + 1]
    BY <1>1, LastType, HeadTailProperties
<1>3. \/ Line("prompt", r, top) \/ Line("steer", r \o steering, top)
      \/ Line("followUp", r \o followUp, top)
    BY DEF Queued, Lines
<1>4. Line("steer", steering, top) /\ Line("followUp", followUp, top)
    BY DEF Queued, Lines
<1> HIDE DEF r, top
<1>5. ASSUME NEW kind, Line(kind, r, top)
      PROVE  Head(r).kind = kind /\ \A o \in ToSet(Tail(r)) : Head(r).n < o.n
    <2>1. 1 \in 1..Len(r) /\ \A j \in 1..(Len(r) - 1) : j + 1 \in 1..Len(r) /\ 1 \in 1..(j + 1 - 1)
        BY <1>2
    <2>2. r[1].kind = kind /\ \A j \in 1..Len(r) : \A i \in 1..(j - 1) : r[i].n < r[j].n
        BY <1>5, <2>1 DEF Line
    <2>3. \A j \in 1..(Len(r) - 1) : r[1].n < r[j + 1].n
        BY <2>1, <2>2
    <2>4. \A o \in ToSet(Tail(r)) : \E j \in 1..(Len(r) - 1) : o = Tail(r)[j]
        BY <1>2 DEF ToSet
    <2> QED BY <1>2, <2>2, <2>3, <2>4
<1>6. ASSUME NEW kind, NEW q \in Seq(UserMessages), Line(kind, r \o q, top)
      PROVE  Line(kind, r, top) /\ \A o \in ToSet(q) : Head(r).n < o.n
    <2>1. Line(kind, r, top) /\ \A i \in 1..Len(r) : \A j \in 1..Len(q) : r[i].n < q[j].n
        BY <1>1, <1>6, LineParts
    <2>2. 1 \in 1..Len(r) /\ \A o \in ToSet(q) : \E j \in 1..Len(q) : o = q[j]
        BY <1>2 DEF ToSet
    <2> QED BY <1>2, <2>1, <2>2
<1>7. ToSet(r) = {Head(r)} \cup ToSet(Tail(r))
    <2>1. /\ ToSet(r) = {r[j] : j \in 1..Len(r)}
          /\ ToSet(Tail(r)) = {Tail(r)[j] : j \in 1..(Len(r) - 1)}
        <3>1. DOMAIN r = 1..Len(r)
            BY <1>1
        <3>2. DOMAIN Tail(r) = 1..(Len(r) - 1)
            BY <1>2
        <3>3. ToSet(r) = {r[j] : j \in 1..Len(r)}
            BY <3>1 DEF ToSet
        <3>4. ToSet(Tail(r)) = {Tail(r)[j] : j \in 1..(Len(r) - 1)}
            BY <3>2 DEF ToSet
        <3> QED BY <3>3, <3>4
    <2>2. \A j \in 1..Len(r) : j = 1 \/ (j - 1 \in 1..(Len(r) - 1) /\ j - 1 + 1 = j)
        BY <1>2
    <2>3. \A j \in 1..(Len(r) - 1) : j + 1 \in 1..Len(r)
        BY <1>2
    <2>4. \A j \in 1..Len(r) : j = 1 \/ r[j] = Tail(r)[j - 1]
        BY <1>2, <2>2
    <2>5. 1 \in 1..Len(r)
        BY <1>2
    <2>6. \A o : (\E j \in 1..Len(r) : o = r[j])
                     <=> (o = r[1] \/ \E j \in 1..(Len(r) - 1) : o = Tail(r)[j])
        BY <1>2, <2>2, <2>3, <2>4, <2>5
    <2>7. \A o : o \in ToSet(r) <=> (o = r[1] \/ o \in ToSet(Tail(r)))
        BY <2>1, <2>6
    <2> QED BY <1>2, <2>7
<1>8. \A o \in ToSet(Tail(r)) : Head(r).n < o.n
    BY <1>1, <1>3, <1>5, <1>6
<1>9. \A o \in ToSet(steering) \cup ToSet(followUp) : o.kind = Head(r).kind => Head(r).n < o.n
    <2>1. /\ \A o \in ToSet(steering) : o.kind = "steer"
          /\ \A o \in ToSet(followUp) : o.kind = "followUp"
        BY <1>4, LineMembers
    <2>2. CASE Line("prompt", r, top)
        BY <1>5, <2>1, <2>2
    <2>3. CASE Line("steer", r \o steering, top)
        BY <1>1, <1>5, <1>6, <2>1, <2>3
    <2>4. CASE Line("followUp", r \o followUp, top)
        BY <1>1, <1>5, <1>6, <2>1, <2>4
    <2> QED BY <1>3, <2>2, <2>3, <2>4
<1> QED BY <1>2, <1>7, <1>8, <1>9 DEF r

LEMMA DeliverMapped ==
    ASSUME Typed, Queued, RunStep, DeliverPrompt \/ Inject
    PROVE  C!Next
<1> DEFINE m == Head(run.rest)
<1>1. /\ entries \in Seq(Messages) /\ messages \in Seq(Messages) /\ run \in Runs
      /\ messages' = Append(messages, m) /\ run.rest # <<>> /\ m \in Spoken
    BY DeliverPromptType, InjectType DEF Typed, AgentTyped, SessionTyped
<1>2. /\ m \in Messages /\ m \in UserMessages /\ m.role # "summary"
      /\ ToSet(run.rest) = {m} \cup ToSet(Tail(run.rest))
      /\ \A o \in ToSet(Tail(run.rest)) \cup ToSet(steering) \cup ToSet(followUp) :
            o.kind = m.kind => m.n < o.n
    BY <1>1, HeadIsOldest, MessageTypes DEF Spoken
<1>3. entries' = Append(entries, m)
    <2>1. messages' # messages /\ Last(messages') = m
        BY <1>1, <1>2, EndsAppend
    <2> QED BY <2>1 DEF RunStep, Listen, Heard, Persisted
<1>4. next = None /\ next' = None
    BY DEF RunStep, Queued, Lines
<1>5. run'.rest = Tail(run.rest) /\ steering' = steering /\ followUp' = followUp
    BY <1>1 DEF DeliverPrompt, Inject, queues, Runs
<1>6. Undelivered = ToSet(run.rest) \cup ToSet(steering) \cup ToSet(followUp)
    BY <1>4, UndeliveredIs
<1>7. Undelivered' = ToSet(Tail(run.rest)) \cup ToSet(steering) \cup ToSet(followUp)
    <2>1. Undelivered' = {o \in {None} \cup ToSet(Tail(run.rest)) \cup ToSet(steering)
                                    \cup ToSet(followUp) : o # None}
        BY <1>4, <1>5 DEF Undelivered
    <2>2. None \notin ToSet(run.rest) \cup ToSet(steering) \cup ToSet(followUp)
        <3>1. None \notin UserMessages
            BY DEF None, Message, UserMessages
        <3> QED BY <1>6, <3>1, UndeliveredIs
    <2> QED BY <1>2, <2>1, <2>2
<1>8. m.n \in Nat /\ \A u \in Undelivered : u \in UserMessages /\ u.n \in Nat
    BY <1>2, UndeliveredIs DEF UserMessages
<1> HIDE DEF m
<1>9. m \in Undelivered /\ Undelivered' = Undelivered \ {m}
    <2>1. \A i \in Nat : ~(i < i)
        OBVIOUS
    <2>2. m \notin Undelivered'
        BY <1>2, <1>7, <1>8, <2>1
    <2> QED BY <1>2, <1>6, <1>7, <2>2
<1>10. Plain(m) \in Waiting /\ Waiting' = Waiting \ {Plain(m)}
    <2>1. \A u \in Undelivered : Plain(u) = Plain(m) => u = m
        BY <1>2, <1>8, PlainInput
    <2> QED BY <1>9, <2>1 DEF Waiting
<1>11. \A o \in Waiting : o.kind = Plain(m).kind => o.n >= Plain(m).n
    <2>1. \A u \in Undelivered : u.kind = m.kind => u.n >= m.n
        BY <1>2, <1>6, <1>8
    <2> QED BY <2>1, PlainKeeps DEF Waiting
<1>12. Log' = Append(Log, Plain(m))
    BY <1>1, <1>2, <1>3, SaidEnds DEF Log
<1>13. C!Deliver(Plain(m))
    BY <1>10, <1>11, <1>12 DEF C!Deliver, Waiting, Log
<1> QED BY <1>10, <1>13 DEF C!Next, Waiting

LEMMA RespondMapped ==
    ASSUME Typed, Held, Sound, Told, RunStep, Undelivered' = Undelivered,
           NEW stop \in Stops, NEW calls \in 0..MaxCalls, Respond(stop, calls)
    PROVE  C!Next
<1> DEFINE m == Answer(stop, calls)
<1>1. /\ messages \in Seq(Messages) /\ entries \in Seq(Messages) /\ run \in Runs
      /\ messages' = Append(messages, m) /\ clock \in Nat /\ calls \in Nat
    BY Naturals DEF Typed, AgentTyped, SessionTyped, Respond
<1>2. m \in Messages /\ m.role # "summary" /\ Plain(m) = C!Message("assistant", calls, stop)
    <2>1. m \in Spoken
        BY <1>1, MessageTypes
    <2>2. m.role = "assistant" /\ Plain(m) = C!Message("assistant", calls, stop)
        BY DEF Answer, Message, C!Message, Plain
    <2> QED BY <2>1, <2>2, MessageTypes
<1>3. entries' = Append(entries, m)
    <2>1. messages' # messages /\ Last(messages') = m
        BY <1>1, <1>2, EndsAppend
    <2> QED BY <2>1 DEF RunStep, Listen, Heard, Persisted
<1> HIDE DEF m
<1>4. Log' = Append(Log, Plain(m))
    BY <1>1, <1>2, <1>3, SaidEnds DEF Log
<1>5. C!Due
    <2>1. run.at \in {"request", "refused"} /\ active
        BY DEF Respond, Answers, At, RunStep, Typed, Paced
    <2>2. Askable(messages)
        BY <2>1 DEF Sound, Asked
    <2>3. Log # <<>> /\ Last(Log).role \in {"user", "assistant", "toolResult"}
        BY <2>1 DEF Told
    <2>4. IsAnswer(Last(Log)) => Failed(Last(Log))
        BY <2>2, <2>3 DEF Told, Alike, Askable
    <2>5. Last(Log).role = "assistant" => Last(Log).kind \in {"error", "overflow", "length"}
        BY <2>4 DEF IsAnswer, Failed, Incomplete, Failures
    <2>6. C!Last(Log) = Last(Log)
        BY DEF C!Last, Last
    <2> QED BY <2>3, <2>5, <2>6 DEF C!Due, Log
<1>6. C!Respond(stop, calls)
    BY <1>2, <1>4, <1>5 DEF C!Respond, Log
<1> QED BY <1>6 DEF C!Next

LEMMA ReturnMapped ==
    ASSUME Typed, Batch, Told, RunStep, Undelivered' = Undelivered, GiveResult
    PROVE  C!Next
<1> DEFINE g == run.given
           c == run.given + 1
           m == Result(run.given + 1)
<1>1. /\ messages \in Seq(Messages) /\ entries \in Seq(Messages) /\ run \in Runs
      /\ messages' = Append(messages, m) /\ g \in Nat /\ c \in Nat
    <2>1. /\ messages \in Seq(Messages) /\ entries \in Seq(Messages) /\ run \in Runs
          /\ messages' = Append(messages, m)
        BY DEF Typed, AgentTyped, SessionTyped, GiveResult
    <2>2. run.given \in Nat
        BY <2>1 DEF Runs
    <2> QED BY <2>1, <2>2
<1>2. m \in Messages /\ m.role # "summary" /\ Plain(m) = C!Message("toolResult", c, "none")
    <2>1. m \in Spoken
        BY <1>1, MessageTypes
    <2>2. m.role = "toolResult" /\ Plain(m) = C!Message("toolResult", c, "none")
        BY DEF Result, Message, C!Message, Plain
    <2> QED BY <2>1, <2>2, MessageTypes
<1>3. entries' = Append(entries, m)
    <2>1. messages' # messages /\ Last(messages') = m
        BY <1>1, <1>2, EndsAppend
    <2> QED BY <2>1 DEF RunStep, Listen, Heard, Persisted
<1>4. run.at = "results"
    BY DEF GiveResult, At
<1>5. c <= run.calls /\ c \in 1..MaxCalls
    <2>1. /\ run.given < Len(run.prepared) /\ Len(run.prepared) <= run.calls
          /\ run.calls \in 1..MaxCalls
        BY <1>4 DEF Batch
    <2>2. Len(run.prepared) \in Nat /\ MaxCalls \in Nat
        BY <1>1, Naturals DEF Runs
    <2> QED BY <1>1, <2>1, <2>2
<1>6. /\ g \in 0..(Len(Log) - 1)
      /\ Log[Len(Log) - g].role = "assistant" /\ Log[Len(Log) - g].n = run.calls
      /\ \A k \in 1..g : Log[Len(Log) - g + k] = Plain(Result(k))
    BY <1>4 DEF Told, Given
<1>7. \A k \in 1..g : Plain(Result(k)) = C!Message("toolResult", k, "none")
    BY DEF Result, Message, C!Message, Plain
<1>8. Len(Log) \in Nat
    BY LogType
<1>9. c - 1 = g /\ g + 1 = c
    BY <1>1
<1>10. Log' = Append(Log, Plain(m))
    BY <1>1, <1>2, <1>3, SaidEnds DEF Log
<1> HIDE DEF g, c, m
<1>11. c <= Len(Log) /\ Len(Log) - c + 1 = Len(Log) - g
    BY <1>1, <1>6, <1>8, <1>9
<1>12. \A k \in 1..(c - 1) : Log[Len(Log) - c + 1 + k] = C!Message("toolResult", k, "none")
    BY <1>6, <1>7, <1>9, <1>11
<1>13. Log[Len(Log) - c + 1].role = "assistant" /\ Log[Len(Log) - c + 1].n >= c
    BY <1>1, <1>5, <1>6, <1>11 DEF Runs
<1>14. C!Return(c)
    BY <1>2, <1>10, <1>11, <1>12, <1>13 DEF C!Return, Log
<1>15. c \in (0..MaxCalls) \ {0}
    BY <1>5
<1> QED BY <1>14, <1>15 DEF C!Next

\* A step of a run is one message that is delivered, said or given back, or none.
LEMMA RunStepMapped ==
    ASSUME Typed, Held, Batch, Sound, Queued, Told, RunStep
    PROVE  C!Next \/ UNCHANGED C!vars
<1>0. AgentStep /\ next' = next
    BY DEF RunStep
<1>1. CASE DeliverPrompt \/ Inject
    BY <1>1, DeliverMapped
<1>2. CASE PollSteering \/ PollFollowUp
    <2>1. run.rest = <<>> /\ run \in Runs
        BY <1>2 DEF PollSteering, PollFollowUp, At, Typed, AgentTyped
    <2>2. \/ run'.rest = <<>> /\ steering' = steering /\ followUp' = followUp
          \/ /\ run'.rest = Taken(steering, SteeringMode) /\ followUp' = followUp
             /\ steering' = Left(steering, SteeringMode)
          \/ /\ run'.rest = Taken(followUp, FollowUpMode) /\ steering' = steering
             /\ followUp' = Left(followUp, FollowUpMode)
        BY <1>2, <2>1 DEF PollSteering, PollFollowUp, Runs
    <2>3. Undelivered' = Undelivered
        BY <1>0, <2>1, <2>2, DrainKeeps
    <2>4. Log' = Log
        BY <1>2, SilentStep DEF Log
    <2> QED BY <2>3, <2>4, StillMapped
<1>3. CASE ~DeliverPrompt /\ ~Inject /\ ~PollSteering /\ ~PollFollowUp
    <2>1. run.rest = <<>> /\ run'.rest = <<>> /\ UNCHANGED queues
        BY <1>0, <1>3, AnswersQueued
    <2>2. Undelivered' = Undelivered
        BY <1>0, <2>1, DrainKeeps DEF queues
    <2>3. CASE \E stop \in Stops, calls \in 0..MaxCalls : Respond(stop, calls)
        BY <2>2, <2>3, RespondMapped
    <2>4. CASE GiveResult
        BY <2>2, <2>4, ReturnMapped
    <2>5. CASE \/ PrepareCall \/ CheckSignal \/ CloseRun
               \/ \E c \in 1..MaxCalls : FinishCall(c)
        <3>1. Log' = Log
            BY <2>5, SilentStep DEF Log
        <3> QED BY <2>2, <3>1, StillMapped
    <2> QED BY <1>0, <1>3, <2>3, <2>4, <2>5 DEF AgentStep
<1> QED BY <1>1, <1>2, <1>3

\* Shell output is recorded, or there was none.
LEMMA NoteMapped ==
    ASSUME NEW n \in Nat, entries \in Seq(Messages), entries' = entries \o Shells(n),
           Undelivered' = Undelivered
    PROVE  C!Next \/ UNCHANGED C!vars
<1> DEFINE p == [k \in 1..n |-> C!Message("shell", 0, "none")]
<1>1. Plain(Shell) = C!Message("shell", 0, "none")
    BY DEF Plain, Shell, Message, C!Message
<1>2. Log' = Log \o p /\ Log \in Seq(Talk) /\ Len(Log') = Len(Log) + n
    BY <1>1, SaidShells DEF Log
<1>3. Len(Log) \in Nat /\ Len(Log') - Len(Log) = n
    BY <1>2
<1>4. CASE n = 0
    <2>1. entries' = entries
        BY <1>4, ShellsBehind
    <2> QED BY <2>1, StillMapped DEF Log
<1>5. CASE n # 0
    <2>1. Len(Log) < Len(Log')
        BY <1>2, <1>3, <1>5
    <2>2. Log' = Log \o [k \in 1..(Len(Log') - Len(Log)) |-> C!Message("shell", 0, "none")]
        BY <1>2, <1>3
    <2> HIDE DEF p
    <2>3. C!Note
        BY <2>1, <2>2 DEF C!Note, Log
    <2> QED BY <2>3 DEF C!Next
<1> QED BY <1>4, <1>5

\* What is lost with a process: all of it before the first answer, and what waits.
LEMMA RestartMapped ==
    ASSUME Typed, Queued, Told, Restart
    PROVE  C!Next
<1>1. Undelivered' = {}
    <2>1. /\ next' = None /\ run'.rest = <<>> /\ steering' = <<>> /\ followUp' = <<>>
        BY NoRunType DEF Restart
    <2>2. ToSet(<<>>) = {}
        BY DEF ToSet
    <2> QED BY <2>1, <2>2 DEF Undelivered
<1>2. CASE \E k \in DOMAIN entries : IsAnswer(entries[k])
    <2>1. Log' = Log
        BY <1>2 DEF Restart, Kept, Log
    <2> QED BY <1>1, <2>1, WithdrawMapped
<1>3. CASE ~\E k \in DOMAIN entries : IsAnswer(entries[k])
    <2>1. entries' = <<>> /\ DOMAIN entries = 1..Len(entries)
        BY <1>3 DEF Restart, Kept, Typed, SessionTyped
    <2>2. Log' = <<>>
        BY <2>1, SaidType DEF Log
    <2>3. \A k \in DOMAIN Log : Log[k].role # "assistant"
        <3>1. DOMAIN Log = 1..Len(Log)
            BY LogType
        <3> QED BY <1>3, <2>1, <3>1 DEF Told
    <2>4. Waiting' = {}
        BY <1>1 DEF Waiting
    <2>5. C!Vanish
        BY <2>2, <2>3, <2>4 DEF C!Vanish, Log, Waiting
    <2> QED BY <2>5 DEF C!Next
<1> QED BY <1>2, <1>3

\* Every step of a session is a step of Conversation or leaves it alone.
LEMMA NextMapped ==
    ASSUME Typed, Held, Batch, Sound, Queued, Told, [Next]_vars
    PROVE  C!Next \/ UNCHANGED C!vars
<1>0. entries \in Seq(Messages) /\ pending \in Nat /\ used \in [inputs : 0..MaxInputs, breaks : Nat]
    BY DEF Typed, SessionTyped
<1>1. CASE RunStep
    BY <1>1, RunStepMapped
<1>2. CASE \E kind \in {"steer", "followUp"} : Queue(kind)
    <2>1. PICK kind \in {"steer", "followUp"} : Queue(kind)
        BY <1>2
    <2> DEFINE m == User(used.inputs + 1, kind)
    <2>2. /\ used.inputs < MaxInputs /\ entries' = entries /\ next' = next /\ run' = run
          /\ Enqueue(m) /\ m.kind = kind /\ m # None /\ kind \in Kinds
        BY <2>1 DEF Queue, User, Message, None, Kinds
    <2>3. \A q \in Seq(UserMessages) : ToSet(Append(q, m)) = ToSet(q) \cup {m}
        <3>1. m \in UserMessages
            <4>1. used.inputs + 1 \in Nat
                BY LogType
            <4> QED BY <2>2, <4>1, MessageTypes
        <3> HIDE DEF m
        <3> SUFFICES ASSUME NEW q \in Seq(UserMessages)
                     PROVE  ToSet(Append(q, m)) = ToSet(q) \cup {m}
            OBVIOUS
        <3>2. <<m>> \in Seq(UserMessages) /\ Append(q, m) = q \o <<m>> /\ ToSet(<<m>>) = {m}
            BY <3>1 DEF ToSet
        <3> QED BY <3>2, ToSetConcat
    <2>4. steering \in Seq(UserMessages) /\ followUp \in Seq(UserMessages)
        BY LinesTyped
    <2>5. ToSet(steering') \cup ToSet(followUp') = ToSet(steering) \cup ToSet(followUp) \cup {m}
        BY <2>2, <2>3, <2>4 DEF Enqueue
    <2> HIDE DEF m
    <2>6. Undelivered' = Undelivered \cup {m}
        BY <2>2, <2>5 DEF Undelivered
    <2> QED BY <2>2, <2>6, SendMapped DEF m
<1>3. CASE Prompt
    <2> DEFINE m == User(used.inputs + 1, "prompt")
    <2>1. /\ used.inputs < MaxInputs /\ entries' = entries /\ next' = m /\ run' = run
          /\ steering' = steering /\ followUp' = followUp /\ "prompt" \in Kinds /\ m # None
        BY <1>3 DEF Prompt, agent, User, Message, None, Kinds
    <2>2. next = None
        BY <1>3 DEF Prompt, Queued, Lines
    <2> HIDE DEF m
    <2>3. Undelivered' = Undelivered \cup {m}
        BY <2>1, <2>2 DEF Undelivered
    <2> QED BY <2>1, <2>3, SendMapped DEF m
<1>4. CASE Launch
    <2>1. run.rest = <<>> /\ run'.rest = <<next>>
        BY <1>4, IdleRest, NoRunType DEF Launch, StartPrompt, Started, NoRun
    <2>2. next \in UserMessages /\ next # None
        BY <1>4 DEF Launch, Typed, SessionTyped, UserMessages, None, Message
    <2>3. next' = None /\ entries' = entries /\ steering' = steering /\ followUp' = followUp
        BY <1>4 DEF Launch, StartPrompt, queues
    <2>4. ToSet(<<next>>) = {next} /\ ToSet(<<>>) = {}
        BY DEF ToSet
    <2>5. Undelivered' = Undelivered
        BY <2>1, <2>2, <2>3, <2>4 DEF Undelivered
    <2> QED BY <2>3, <2>5, StillMapped DEF Log
<1>5. CASE Resume
    <2>1. run.rest = <<>> /\ next' = next /\ entries' = entries
        BY <1>5, IdleRest DEF Resume, Continue
    <2>2. \/ run'.rest = <<>> /\ steering' = steering /\ followUp' = followUp
          \/ /\ run'.rest = Taken(steering, SteeringMode) /\ followUp' = followUp
             /\ steering' = Left(steering, SteeringMode)
          \/ /\ run'.rest = Taken(followUp, FollowUpMode) /\ steering' = steering
             /\ followUp' = Left(followUp, FollowUpMode)
        BY <1>5, ContinueIs DEF Resume, Typed
    <2>3. Undelivered' = Undelivered
        BY <2>1, <2>2, DrainKeeps
    <2> QED BY <2>1, <2>3, StillMapped DEF Log
<1>6. CASE RunEnds \/ PrepareRetry \/ Recover \/ CompactThreshold \/ CompactionFails
           \/ CompactManually \/ Abort \/ UNCHANGED vars
    <2>1. /\ run'.rest = run.rest /\ next' = next /\ entries' = entries
          /\ steering' = steering /\ followUp' = followUp
        <3>1. CASE RunEnds
            BY <3>1, NoRunType DEF RunEnds, EndRun, At, Typed, AgentTyped, queues
        <3>2. CASE Abort
            BY <3>2 DEF Abort, AbortRun, Typed, AgentTyped, Runs, queues
        <3>3. CASE PrepareRetry \/ Recover \/ CompactThreshold \/ CompactionFails
                   \/ CompactManually \/ UNCHANGED vars
            BY <3>3 DEF PrepareRetry, Recover, CompactThreshold, CompactionFails,
                        CompactManually, vars, agent, session, queues
        <3> QED BY <1>6, <3>1, <3>2, <3>3
    <2>2. Undelivered' = Undelivered
        BY <2>1, DrainKeeps
    <2> QED BY <2>1, <2>2, StillMapped DEF Log
<1>7. CASE CompactionDone
    <2>1. /\ run'.rest = run.rest /\ next' = next /\ entries' = Append(entries, Summary(job.cut))
          /\ steering' = steering /\ followUp' = followUp
        BY <1>7 DEF CompactionDone, queues
    <2>2. Summary(job.cut) \in Messages /\ Summary(job.cut).role = "summary"
        <3>1. job.cut \in Nat /\ clock \in Nat
            BY DEF Typed, AgentTyped, SessionTyped, Jobs
        <3> QED BY <3>1, MessageTypes DEF Summary, Message
    <2>3. Log' = Log
        BY <1>0, <2>1, <2>2, SaidAppend DEF Log
    <2>4. Undelivered' = Undelivered
        BY <2>1, DrainKeeps
    <2> QED BY <2>3, <2>4, StillMapped
<1>8. CASE RecordShell \/ Settle
    <2>1. Undelivered' = Undelivered
        <3>1. /\ run'.rest = run.rest /\ next' = next /\ steering' = steering
              /\ followUp' = followUp
            BY <1>8 DEF RecordShell, Settle, queues
        <3> QED BY <3>1, DrainKeeps
    <2>2. \E n \in Nat : entries' = entries \o Shells(n)
        <3>1. CASE Settle
            BY <1>0, <3>1 DEF Settle, Shells
        <3>2. CASE RecordShell /\ active
            <4>1. entries' = entries /\ entries \o Shells(0) = entries /\ 0 \in Nat
                BY <1>0, <3>2, ShellsBehind DEF RecordShell, Deferred
            <4> QED BY <4>1
        <3>3. CASE RecordShell /\ ~active
            <4>1. entries' = Append(entries, Shell)
                BY <3>3 DEF RecordShell, Deferred
            <4>2. 0 \in Nat /\ 0 + 1 = 1 /\ 1 \in Nat
                OBVIOUS
            <4>3. entries \o Shells(1) = Append(entries, Shell)
                BY <1>0, <4>2, ShellsBehind
            <4> QED BY <4>1, <4>2, <4>3
        <3> QED BY <1>8, <3>1, <3>2, <3>3
    <2> QED BY <1>0, <2>1, <2>2, NoteMapped
<1>9. CASE ClearQueue
    <2>1. /\ run' = run /\ next' = next /\ entries' = entries
          /\ steering' = <<>> /\ followUp' = <<>>
        BY <1>9 DEF ClearQueue
    <2>2. ToSet(<<>>) = {}
        BY DEF ToSet
    <2>3. Undelivered' \subseteq Undelivered
        BY <2>1, <2>2 DEF Undelivered
    <2> QED BY <2>1, <2>3, WithdrawMapped DEF Log
<1>10. CASE Restart
    BY <1>10, RestartMapped
<1> QED BY <1>1, <1>2, <1>3, <1>4, <1>5, <1>6, <1>7, <1>8, <1>9, <1>10
        DEF Next, SessionStep, ClientStep

\* The session file is a conversation: whatever runs, retries, recoveries, compactions,
\* clears, aborts and restarts are behind it, every input that was sent and not taken back
\* enters it once and in order, a provider is asked only when there is something to
\* answer, results follow their answer, and only a process lost before the first answer
\* takes anything of it away.
THEOREM SessionKeepsItsConversation == Spec => ImplementsConversation
<1>1. Init => C!Init
    <2> SUFFICES ASSUME Init PROVE C!Init
        OBVIOUS
    <2>1. /\ next = None /\ run.rest = <<>> /\ steering = <<>> /\ followUp = <<>>
          /\ entries = <<>>
        BY NoRunType DEF Init, AgentInit
    <2>2. Said(entries) = <<>> /\ ToSet(<<>>) = {}
        BY <2>1, SaidType DEF ToSet
    <2>3. Undelivered = {}
        BY <2>1, <2>2 DEF Undelivered
    <2> QED BY <2>2, <2>3 DEF C!Init
<1>2. Typed /\ Held /\ Batch /\ Sound /\ Queued /\ Told /\ [Next]_vars => [C!Next]_(C!vars)
    BY NextMapped
<1> QED BY <1>1, <1>2, SpecTyped, SpecHeld, SpecBatch, SpecSound, SpecQueued, SpecTold, PTL
    DEF Spec, ImplementsConversation, C!Spec

=============================================================================
