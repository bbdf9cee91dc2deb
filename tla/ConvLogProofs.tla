---------------------------- MODULE ConvLogProofs ----------------------------
(* Theorems about ConvLog: what a restart reads is what was in memory, for a
   conversation that one goroutine at a time updates, with any number of bubbles,
   chunks, renames, undos, trims and crashes; and, for any number of goroutines
   and a file that is only appended to, that each one's pieces are read back in
   their order. *)
EXTENDS ConvLog, Integers, FiniteSetTheorems, SequenceTheorems, WellFoundedInduction,
        TLAPS

-----------------------------------------------------------------------------
(* Induction over the natural numbers, for a set in the place of a predicate. *)

Smaller == {ss \in Nat \X Nat : ss[1] < ss[2]}

LEMMA LeastElement ==
    ASSUME NEW T \in SUBSET Nat, T # {}
    PROVE  \E x \in T : \A y \in T : x <= y
<1>1. IsWellFoundedOn(Smaller, Nat)
  BY NatLessThanWellFounded DEF OpToRel, Smaller
<1>2. PICK x \in T : \A y \in T : ~(<<y, x>> \in Smaller)
  BY <1>1, WFMin
<1>3. \A y, z \in Nat : y < z => <<y, z>> \in Smaller
  BY DEF Smaller
<1>4. \A y \in T : ~(y < x)
  BY <1>2, <1>3
<1> QED
  BY <1>4

LEMMA SetInduction ==
    ASSUME NEW S \in SUBSET Nat, 0 \in S, \A n \in S : n + 1 \in S
    PROVE  S = Nat
<1> DEFINE T == Nat \ S
<1> SUFFICES ASSUME T # {} PROVE FALSE
  OBVIOUS
<1>1. PICK x \in T : \A y \in T : x <= y
  BY LeastElement
<1>2. x # 0 /\ x - 1 \in Nat /\ x - 1 < x
  BY <1>1
<1>3. x - 1 \in S
  BY <1>1, <1>2
<1> QED
  BY <1>1, <1>2, <1>3

(* Two functions that go the same way from the same start are the same. *)
Alike(N, f, k) ==
    /\ f[0] = k[0]
    /\ \A n \in 1 .. N : f[n - 1] = k[n - 1] => f[n] = k[n]

LEMMA StepByStep ==
    ASSUME NEW N \in Nat, NEW f, NEW k, Alike(N, f, k)
    PROVE  \A n \in 0 .. N : f[n] = k[n]
<1> USE DEF Alike
<1> DEFINE Same == {n \in Nat : n <= N => f[n] = k[n]}
<1>1. 0 \in Same
  OBVIOUS
<1>2. ASSUME NEW n \in Same PROVE n + 1 \in Same
  <2>1. n \in Nat /\ (n + 1) - 1 = n
    OBVIOUS
  <2> SUFFICES ASSUME n + 1 <= N PROVE f[n + 1] = k[n + 1]
    BY <2>1
  <2>2. f[n] = k[n] /\ n + 1 \in 1 .. N
    BY <2>1
  <2> QED
    BY <2>1, <2>2
<1>3. Same = Nat
  <2> HIDE DEF Same
  <2> QED
    BY <1>1, <1>2, SetInduction DEF Same
<1> QED
  BY <1>3

(* A recursion in which each value is made of the one before has a solution. *)
StepsIn(S, N, step) == \A n \in 1 .. N : \A x \in S : step[<<n, x>>] \in S
Follows(S, N, base, step, f) ==
    /\ f \in [0 .. N -> S]
    /\ f[0] = base
    /\ \A n \in 1 .. N : f[n] = step[<<n, f[n - 1]>>]

LEMMA Recursion ==
    ASSUME NEW S, NEW base \in S, NEW N \in Nat, NEW step, StepsIn(S, N, step)
    PROVE  \E f : Follows(S, N, base, step, f)
<1> USE DEF StepsIn, Follows
<1> DEFINE Solves(f, m) ==
              /\ f \in [0 .. m -> S]
              /\ f[0] = base
              /\ \A n \in 1 .. m : f[n] = step[<<n, f[n - 1]>>]
           Good == {m \in Nat : m <= N => \E f : Solves(f, m)}
<1>1. 0 \in Good
  <2>1. Solves([n \in 0 .. 0 |-> base], 0)
    OBVIOUS
  <2> QED
    BY <2>1
<1>2. ASSUME NEW m \in Good PROVE m + 1 \in Good
  <2> SUFFICES ASSUME m + 1 <= N PROVE \E g : Solves(g, m + 1)
    OBVIOUS
  <2>1. m \in Nat /\ m <= N /\ \E f : Solves(f, m)
    OBVIOUS
  <2>2. PICK f : Solves(f, m)
    BY <2>1
  <2> HIDE DEF Good
  <2> DEFINE next == step[<<m + 1, f[m]>>]
             g == [n \in 0 .. m + 1 |-> IF n = m + 1 THEN next ELSE f[n]]
  <2>3. f[m] \in S /\ m + 1 \in 1 .. N
    BY <2>1, <2>2
  <2>4. next \in S
    BY <2>3
  <2>5. g \in [0 .. m + 1 -> S] /\ g[0] = base
    BY <2>1, <2>2, <2>4
  <2>6. ASSUME NEW n \in 1 .. m + 1 PROVE g[n] = step[<<n, g[n - 1]>>]
    <3>1. CASE n = m + 1
      <4>1. g[n] = next /\ g[n - 1] = f[m]
        BY <2>1, <3>1
      <4> QED
        BY <3>1, <4>1
    <3>2. CASE n # m + 1
      <4>1. n \in 1 .. m /\ g[n] = f[n] /\ g[n - 1] = f[n - 1]
        BY <2>1, <3>2
      <4> QED
        BY <2>2, <4>1
    <3> QED
      BY <3>1, <3>2
  <2> HIDE DEF g
  <2>7. Solves(g, m + 1)
    BY <2>5, <2>6
  <2> QED
    BY <2>7
<1>3. Good = Nat
  <2> HIDE DEF Good
  <2> QED
    BY <1>1, <1>2, SetInduction DEF Good
<1>4. N \in Good /\ N <= N
  BY <1>3
<1> QED
  BY <1>4

-----------------------------------------------------------------------------
(* Parsed: what a file of whole lines holds. *)

(* A bubble has text, and so has the record of one. *)
Shown == {b \in Bubbles : b.text # <<>>}

(* The records of lines that are read back. *)
Records == {r \in Tokens : /\ r.kind \notin {"newline", "hole"}
                           /\ r.kind = "bubble" => r.type \in Types /\ r.text # <<>>}

(* f is the lines one after the other; the newline of the last may be missing. *)
Holds(f, lines) ==
    /\ f \in Seq(Tokens) /\ lines \in Seq(Records)
    /\ Len(f) \in {2 * Len(lines), 2 * Len(lines) - 1}
    /\ \A k \in 1 .. Len(lines) : /\ f[2 * k - 1] = lines[k]
                                  /\ 2 * k <= Len(f) => f[2 * k] = NewLine

LEMMA ParsedLines ==
    ASSUME NEW f, NEW lines, Holds(f, lines)
    PROVE  Parsed(f) = lines
<1> DEFINE m == Len(lines)
           Separator(i) == i \in {0, Len(f) + 1} \/ f[i].kind = "newline"
           Alone(i) == /\ f[i].kind \notin {"newline", "hole"}
                       /\ Separator(i - 1) /\ Separator(i + 1)
           Whole == {i \in 1 .. Len(f) : Alone(i)}
           UpTo(i) == {j \in 1 .. i : Alone(j)}
<1>1. /\ m \in Nat /\ Len(f) \in Nat /\ Len(f) \in {2 * m, 2 * m - 1}
      /\ \A k \in 1 .. m : /\ f[2 * k - 1] = lines[k] /\ lines[k] \in Records
                           /\ 2 * k <= Len(f) => f[2 * k] = NewLine
  BY LenProperties, ElementOfSeq DEF Holds
<1>2. \A i \in 1 .. Len(f) : \E k \in 1 .. m : i = 2 * k - 1 \/ i = 2 * k
  <2>1. \A n \in Nat : \E k \in Nat : n = 2 * k - 1 \/ n = 2 * k
    <3> DEFINE Halved == {n \in Nat : \E k \in Nat : n = 2 * k - 1 \/ n = 2 * k}
    <3>1. 0 \in Halved
      <4>1. 0 = 2 * 0
        OBVIOUS
      <4> QED
        BY <4>1
    <3>2. ASSUME NEW n \in Halved PROVE n + 1 \in Halved
      <4>1. PICK k \in Nat : n = 2 * k - 1 \/ n = 2 * k
        OBVIOUS
      <4>2. n + 1 = 2 * k \/ n + 1 = 2 * (k + 1) - 1
        BY <4>1
      <4>3. k + 1 \in Nat /\ n + 1 \in Nat
        OBVIOUS
      <4> QED
        BY <4>2, <4>3
    <3> HIDE DEF Halved
    <3>3. Halved = Nat
      BY <3>1, <3>2, SetInduction DEF Halved
    <3> QED
      BY <3>3 DEF Halved
  <2>2. \A M \in Nat : \A L \in {2 * M, 2 * M - 1} : \A i \in 1 .. L : \A k \in Nat :
            i = 2 * k - 1 \/ i = 2 * k => k \in 1 .. M
    OBVIOUS
  <2> SUFFICES ASSUME NEW i \in 1 .. Len(f)
               PROVE  \E k \in 1 .. m : i = 2 * k - 1 \/ i = 2 * k
    OBVIOUS
  <2>3. PICK k \in Nat : i = 2 * k - 1 \/ i = 2 * k
    <3>1. i \in Nat
      BY <1>1
    <3> QED
      BY ONLY <2>1, <3>1
  <2>4. k \in 1 .. m
    <3> HIDE DEF m
    <3> QED
      BY ONLY <1>1, <2>2, <2>3, i \in 1 .. Len(f), k \in Nat
  <2> QED
    BY <2>3, <2>4
<1>3. \A k \in 1 .. m : 2 * k - 1 \in 1 .. Len(f) /\ Alone(2 * k - 1)
  <2> SUFFICES ASSUME NEW k \in 1 .. m
               PROVE  2 * k - 1 \in 1 .. Len(f) /\ Alone(2 * k - 1)
    OBVIOUS
  <2>1. 2 * k - 1 \in 1 .. Len(f)
    BY <1>1
  <2>2. f[2 * k - 1].kind \notin {"newline", "hole"}
    BY <1>1 DEF Records
  <2>3. Separator((2 * k - 1) - 1)
    <3>1. CASE k = 1
      BY <3>1
    <3>2. CASE k # 1
      <4>1. k - 1 \in 1 .. m /\ (2 * k - 1) - 1 = 2 * (k - 1) /\ 2 * (k - 1) <= Len(f)
        BY <1>1, <3>2
      <4>2. f[2 * (k - 1)] = NewLine
        BY <1>1, <4>1
      <4> QED
        BY <4>1, <4>2 DEF NewLine, Token
    <3> QED
      BY <3>1, <3>2
  <2>4. Separator((2 * k - 1) + 1)
    <3>1. (2 * k - 1) + 1 = 2 * k
      OBVIOUS
    <3>2. CASE 2 * k <= Len(f)
      <4>1. f[2 * k] = NewLine
        BY <1>1, <3>2
      <4> QED
        BY <3>1, <4>1 DEF NewLine, Token
    <3>3. CASE 2 * k > Len(f)
      <4>1. 2 * k = Len(f) + 1
        BY <1>1, <3>3
      <4> QED
        BY <3>1, <4>1
    <3> QED
      BY <1>1, <3>2, <3>3
  <2> QED
    BY <2>1, <2>2, <2>3, <2>4
<1>4. \A k \in 1 .. m : 2 * k <= Len(f) => ~Alone(2 * k)
  <2>1. \A k \in 1 .. m : 2 * k <= Len(f) => f[2 * k].kind = "newline"
    BY <1>1 DEF NewLine, Token
  <2> QED
    BY <2>1
<1> HIDE DEF Alone
<1>5. \A i \in 1 .. Len(f) : Alone(i) => \E k \in 1 .. m : i = 2 * k - 1
  <2> SUFFICES ASSUME NEW i \in 1 .. Len(f), Alone(i)
               PROVE  \E k \in 1 .. m : i = 2 * k - 1
    OBVIOUS
  <2>1. PICK k \in 1 .. m : i = 2 * k - 1 \/ i = 2 * k
    BY <1>2
  <2>2. i # 2 * k
    BY <1>1, <1>4
  <2> QED
    BY <2>1, <2>2
<1>6. ASSUME NEW k \in 0 .. m, NEW T, T = {j \in 1 .. Len(f) : Alone(j) /\ j <= 2 * k - 1}
      PROVE  Cardinality(T) = k
  <2> DEFINE b == [n \in 1 .. k |-> 2 * n - 1]
  <2>1. b \in [1 .. k -> T]
    <3> SUFFICES ASSUME NEW n \in 1 .. k PROVE 2 * n - 1 \in T
      OBVIOUS
    <3>1. n \in 1 .. m /\ 2 * n - 1 <= 2 * k - 1
      BY <1>1
    <3>2. 2 * n - 1 \in 1 .. Len(f) /\ Alone(2 * n - 1)
      BY <1>3, <3>1
    <3> QED
      BY <1>6, <3>1, <3>2
  <2>2. \A x, y \in 1 .. k : b[x] = b[y] => x = y
    OBVIOUS
  <2>3. \A j \in T : \E n \in 1 .. k : b[n] = j
    <3> SUFFICES ASSUME NEW j \in T PROVE \E n \in 1 .. k : b[n] = j
      OBVIOUS
    <3>1. PICK n \in 1 .. m : j = 2 * n - 1
      BY <1>5, <1>6
    <3>2. n \in 1 .. k
      BY <1>6, <3>1
    <3> QED
      BY <3>1, <3>2
  <2> HIDE DEF b
  <2>4. b \in Bijection(1 .. k, T)
    BY <2>1, <2>2, <2>3 DEF Bijection, Injection, Surjection, IsInjective
  <2>5. ExistsBijection(1 .. k, T)
    BY <2>4 DEF ExistsBijection
  <2>6. IsFiniteSet(1 .. k) /\ Cardinality(1 .. k) = k
    BY FS_Interval
  <2> QED
    BY <2>5, <2>6, FS_Bijection
<1>7. Cardinality(Whole) = m
  <2>1. Whole = {j \in 1 .. Len(f) : Alone(j) /\ j <= 2 * m - 1}
    BY <1>1, <1>5
  <2>2. m \in 0 .. m
    BY <1>1
  <2> HIDE DEF Whole, m
  <2> QED
    BY ONLY <1>6, <2>1, <2>2
<1>8. \A k \in 1 .. m : Cardinality(UpTo(2 * k - 1)) = k
  <2> SUFFICES ASSUME NEW k \in 1 .. m PROVE Cardinality(UpTo(2 * k - 1)) = k
    OBVIOUS
  <2>1. UpTo(2 * k - 1) = {j \in 1 .. Len(f) : Alone(j) /\ j <= 2 * k - 1}
    BY <1>1, <1>3
  <2>2. k \in 0 .. m
    BY <1>1
  <2> HIDE DEF UpTo, m
  <2> QED
    BY ONLY <1>6, <2>1, <2>2
<1> DEFINE At(k) == CHOOSE i \in 1 .. Len(f) : Alone(i) /\ Cardinality(UpTo(i)) = k
<1>9. \A k \in 1 .. m : At(k) = 2 * k - 1
  <2> SUFFICES ASSUME NEW k \in 1 .. m PROVE At(k) = 2 * k - 1
    OBVIOUS
  <2> HIDE DEF UpTo
  <2>1. \A i \in 1 .. Len(f) : Alone(i) /\ Cardinality(UpTo(i)) = k <=> i = 2 * k - 1
    <3> SUFFICES ASSUME NEW i \in 1 .. Len(f)
                 PROVE  Alone(i) /\ Cardinality(UpTo(i)) = k <=> i = 2 * k - 1
      OBVIOUS
    <3>1. ASSUME i = 2 * k - 1 PROVE Alone(i) /\ Cardinality(UpTo(i)) = k
      BY <1>3, <1>8, <3>1
    <3>2. ASSUME Alone(i), Cardinality(UpTo(i)) = k PROVE i = 2 * k - 1
      <4>1. PICK j \in 1 .. m : i = 2 * j - 1
        BY <1>5, <3>2
      <4>2. j = k
        BY <1>8, <3>2, <4>1
      <4> QED
        BY <4>1, <4>2
    <3> QED
      BY <3>1, <3>2
  <2> QED
    BY <1>3, <1>8, <2>1
<1>10. Parsed(f) = [k \in 1 .. m |-> f[At(k)]]
  BY <1>7 DEF Parsed, Alone
<1> HIDE DEF At
<1>11. Parsed(f) = [k \in 1 .. m |-> lines[k]]
  BY <1>1, <1>9, <1>10
<1> QED
  BY <1>11, LenProperties DEF Holds

-----------------------------------------------------------------------------
(* LoadLines: the recursion, and what one more line does. *)

Loaded == [messages : Seq(Shown), title : 0 .. MaxTitles, pending : BOOLEAN]
NothingLoaded == [messages |-> <<>>, title |-> 0, pending |-> FALSE]

LEMMA BubbleTypes ==
    ASSUME NEW b \in Shown
    PROVE  /\ b.type \in Types /\ b.text \in Seq(Chunk) /\ b.extra \in BOOLEAN
           /\ b.text # <<>> /\ b = Bubble(b.type, b.text, b.extra)
  BY DEF Shown, Bubbles, Bubble

LEMMA IsShown ==
    ASSUME NEW type \in Types, NEW text \in Seq(Chunk), text # <<>>, NEW extra \in BOOLEAN
    PROVE  Bubble(type, text, extra) \in Shown
  BY DEF Shown, Bubbles, Bubble

LEMMA RecordTypes ==
    ASSUME NEW r \in Records
    PROVE  /\ r.text \in Seq(Chunk) /\ r.extra \in BOOLEAN /\ r.title \in 0 .. MaxTitles
           /\ r.kind = "bubble" => r.type \in Types /\ r.text # <<>>
           /\ r \in Tokens
  BY DEF Records, Tokens

(* A bubble whose text grows or which gets what is attached to it. *)
LEMMA BubbleChanges ==
    ASSUME NEW b \in Shown, NEW x \in BOOLEAN, NEW s \in Seq(Chunk)
    PROVE  [b EXCEPT !.extra = x] \in Shown /\ [b EXCEPT !.text = b.text \o s] \in Shown
<1>1. /\ b \in Bubbles /\ b.text \in Seq(Chunk) /\ b.text # <<>>
  BY DEF Shown, Bubbles
<1>2. b.text \o s \in Seq(Chunk) /\ b.text \o s # <<>>
  BY <1>1, ConcatProperties, ConcatEqualIffEmpty, ConcatSimplifications, LenProperties, EmptySeq
<1>3. [b EXCEPT !.extra = x] \in Bubbles /\ [b EXCEPT !.text = b.text \o s] \in Bubbles
  BY <1>1, <1>2 DEF Bubbles
<1>4. [b EXCEPT !.extra = x].text = b.text /\ [b EXCEPT !.text = b.text \o s].text = b.text \o s
  BY <1>1 DEF Bubbles
<1> QED
  BY <1>1, <1>2, <1>3, <1>4 DEF Shown

LEMMA AttachProperties ==
    ASSUME NEW ms \in Seq(Shown), NEW id
    PROVE  /\ AttachTo(ms, id) \in Seq(Shown)
           /\ Len(AttachTo(ms, id)) = Len(ms)
           /\ \A i \in 1 .. Len(ms) :
                 AttachTo(ms, id)[i] = IF ms[i].type = "tool_request" /\ ms[i].text[1] = id
                                       THEN [ms[i] EXCEPT !.extra = TRUE] ELSE ms[i]
<1>1. /\ Len(ms) \in Nat /\ DOMAIN ms = 1 .. Len(ms)
      /\ \A i \in 1 .. Len(ms) : ms[i] \in Shown
  BY LenProperties, ElementOfSeq
<1>2. \A i \in 1 .. Len(ms) : [ms[i] EXCEPT !.extra = TRUE] \in Shown
  BY <1>1, BubbleChanges, EmptySeq
<1>3. AttachTo(ms, id) \in [1 .. Len(ms) -> Shown]
  BY <1>1, <1>2 DEF AttachTo
<1>4. \A i \in 1 .. Len(ms) :
                 AttachTo(ms, id)[i] = IF ms[i].type = "tool_request" /\ ms[i].text[1] = id
                                       THEN [ms[i] EXCEPT !.extra = TRUE] ELSE ms[i]
  BY <1>1 DEF AttachTo
<1> QED
  BY <1>1, <1>3, <1>4, LenProperties

(* Cases of LoadLine. *)
LEMMA LoadLineCases ==
    ASSUME NEW c, NEW r
    PROVE  /\ r.kind = "created" => LoadLine(c, r) = [c EXCEPT !.title = r.title]
           /\ r.kind = "stats" => LoadLine(c, r) = [c EXCEPT !.pending = TRUE]
           /\ r.kind = "response" => LoadLine(c, r) = c
           /\ r.kind = "bubble" =>
                 LET counted == r.type = "llm" /\ c.pending
                 IN  LoadLine(c, r) =
                        [c EXCEPT !.pending = c.pending /\ ~counted,
                                  !.messages = Append(c.messages,
                                                      Bubble(r.type, r.text, r.extra \/ counted))]
           /\ r.kind = "merge" /\ c.messages # <<>> /\ Last(c.messages).type = r.type =>
                 LoadLine(c, r) =
                    [c EXCEPT !.messages =
                        [c.messages EXCEPT ![Len(c.messages)] =
                            [c.messages[Len(c.messages)] EXCEPT
                                !.text = c.messages[Len(c.messages)].text \o r.text]]]
           /\ /\ r.kind = "merge"
              /\ ~(c.messages # <<>> /\ Last(c.messages).type = r.type)
              => LoadLine(c, r) = c
           /\ r.kind = "rawInput" =>
                 LoadLine(c, r) = [c EXCEPT !.messages = AttachTo(c.messages, r.text[1])]
  BY DEF LoadLine

LEMMA LoadRawInput ==
    ASSUME NEW c, NEW r, r.kind = "rawInput"
    PROVE  LoadLine(c, r) = [c EXCEPT !.messages = AttachTo(c.messages, r.text[1])]
  BY ONLY r.kind = "rawInput" DEF LoadLine

LEMMA LoadedChanges ==
    ASSUME NEW c \in Loaded, NEW ms \in Seq(Shown), NEW n \in 0 .. MaxTitles,
           NEW p \in BOOLEAN
    PROVE  /\ [c EXCEPT !.messages = ms] \in Loaded
           /\ [c EXCEPT !.title = n] \in Loaded
           /\ [c EXCEPT !.pending = p] \in Loaded
           /\ [c EXCEPT !.pending = p, !.messages = ms] \in Loaded
  BY DEF Loaded

LEMMA LoadLineTyped ==
    ASSUME NEW c \in Loaded, NEW r \in Records
    PROVE  LoadLine(c, r) \in Loaded
<1>1. c.messages \in Seq(Shown) /\ c.title \in 0 .. MaxTitles /\ c.pending \in BOOLEAN
  BY DEF Loaded
<1>2. CASE r.kind = "created"
  <2>1. [c EXCEPT !.title = r.title] \in Loaded
    <3>1. r.title \in 0 .. MaxTitles /\ <<>> \in Seq(Shown) /\ TRUE \in BOOLEAN
      BY RecordTypes, EmptySeq
    <3> QED
      BY <3>1, LoadedChanges
  <2> QED
    BY <1>2, <2>1, LoadLineCases
<1>3. CASE r.kind = "stats"
  <2>1. TRUE \in BOOLEAN
    OBVIOUS
  <2>2. [c EXCEPT !.pending = TRUE] \in Loaded
    BY <1>1, <2>1, LoadedChanges
  <2> QED
    BY <1>3, <2>2, LoadLineCases
<1>4. CASE r.kind = "response"
  BY <1>4, LoadLineCases
<1>5. CASE r.kind = "bubble"
  <2> DEFINE counted == r.type = "llm" /\ c.pending
             b == Bubble(r.type, r.text, r.extra \/ counted)
             ms == Append(c.messages, b)
             pend == c.pending /\ ~counted
  <2>1. counted \in BOOLEAN /\ pend \in BOOLEAN
    BY <1>1
  <2>2. r.extra \/ counted \in BOOLEAN
    OBVIOUS
  <2>3. b \in Shown
    BY <1>5, <2>2, RecordTypes, IsShown
  <2>4. ms \in Seq(Shown)
    BY <1>1, <2>3, AppendProperties
  <2>5. LoadLine(c, r) = [c EXCEPT !.pending = pend, !.messages = ms]
    BY <1>5, LoadLineCases
  <2> HIDE DEF pend, ms
  <2> QED
    BY <2>1, <2>4, <2>5 DEF Loaded
<1>6. CASE r.kind = "merge"
  <2> DEFINE n == Len(c.messages)
             b == [c.messages[n] EXCEPT !.text = c.messages[n].text \o r.text]
             ms == [c.messages EXCEPT ![n] = b]
  <2> SUFFICES ASSUME c.messages # <<>>, Last(c.messages).type = r.type
               PROVE  [c EXCEPT !.messages = ms] \in Loaded
    BY <1>6, LoadLineCases
  <2>1. n \in 1 .. n
    BY <1>1, LenProperties, EmptySeq
  <2>2. b \in Shown
    BY <1>1, <2>1, ElementOfSeq, RecordTypes, BubbleChanges
  <2>3. ms \in Seq(Shown)
    BY <1>1, <2>1, <2>2, ExceptSeq
  <2> HIDE DEF ms
  <2> QED
    BY <2>3 DEF Loaded
<1>7. CASE r.kind = "rawInput"
  <2>1. AttachTo(c.messages, r.text[1]) \in Seq(Shown)
    BY <1>1, AttachProperties
  <2> QED
    <3>1. [c EXCEPT !.messages = AttachTo(c.messages, r.text[1])] \in Loaded
      BY ONLY c \in Loaded, <1>1, <2>1, LoadedChanges
    <3> QED
      BY <1>7, <3>1, LoadLineCases
<1>8. r.kind \in {"created", "stats", "response", "bubble", "merge", "rawInput"}
  BY DEF Records, Tokens
<1> QED
  BY <1>2, <1>3, <1>4, <1>5, <1>6, <1>7, <1>8

LEMMA LoadDefined ==
    ASSUME NEW lines \in Seq(Records)
    PROVE  \E f \in [0 .. Len(lines) -> Loaded] :
              /\ f[0] = NothingLoaded
              /\ \A n \in 1 .. Len(lines) : f[n] = LoadLine(f[n - 1], lines[n])
              /\ LoadLines(lines) = f[Len(lines)]
<1> DEFINE N == Len(lines)
           step == [p \in (1 .. N) \X Loaded |-> LoadLine(p[2], lines[p[1]])]
           Next2(f) == [n \in 0 .. N |-> IF n = 0 THEN NothingLoaded
                                       ELSE LoadLine(f[n - 1], lines[n])]
<1>1. N \in Nat /\ \A n \in 1 .. N : lines[n] \in Records
  BY LenProperties, ElementOfSeq
<1>2. NothingLoaded \in Loaded
  <2>1. 0 \in 0 .. MaxTitles
    BY ConvLogAssumption
  <2>2. <<>> \in Seq(Shown) /\ FALSE \in BOOLEAN
    BY EmptySeq
  <2> QED
    BY <2>1, <2>2 DEF NothingLoaded, Loaded
<1>3. \A n \in 1 .. N : \A x \in Loaded : step[<<n, x>>] = LoadLine(x, lines[n])
  OBVIOUS
<1>4. StepsIn(Loaded, N, step)
  BY <1>1, <1>3, LoadLineTyped DEF StepsIn
<1> HIDE DEF step
<1>5. PICK f \in [0 .. N -> Loaded] :
              /\ f[0] = NothingLoaded
              /\ \A n \in 1 .. N : f[n] = step[<<n, f[n - 1]>>]
  <2>1. N \in Nat
    BY <1>1
  <2>2. \E f : Follows(Loaded, N, NothingLoaded, step, f)
    <3> HIDE DEF N
    <3> QED
      BY ONLY <1>2, <1>4, <2>1, Recursion
  <2> QED
    BY <2>2 DEF Follows
<1>6. \A n \in 1 .. N : f[n] = LoadLine(f[n - 1], lines[n])
  <2> SUFFICES ASSUME NEW n \in 1 .. N PROVE f[n] = LoadLine(f[n - 1], lines[n])
    OBVIOUS
  <2>1. f[n - 1] \in Loaded
    BY <1>1, <1>5
  <2> QED
    BY <1>3, <1>5, <2>1
<1>7. f = Next2(f)
  <2>1. \A n \in 0 .. N : n # 0 => n \in 1 .. N
    BY <1>1
  <2>2. \A n \in 0 .. N : f[n] = Next2(f)[n]
    BY <1>5, <1>6, <2>1
  <2> QED
    BY <1>5, <2>2
<1> DEFINE k == CHOOSE g : g = Next2(g)
<1>8. k = Next2(k)
  BY <1>7
<1>9. LoadLines(lines) = k[N]
  BY DEF LoadLines, NothingLoaded
<1> HIDE DEF k
<1>10. k[0] = NothingLoaded /\ \A n \in 1 .. N : k[n] = LoadLine(k[n - 1], lines[n])
  <2>1. 0 \in 0 .. N /\ \A n \in 1 .. N : n \in 0 .. N /\ n # 0
    BY <1>1
  <2> QED
    BY <1>8, <2>1
<1>11. \A n \in 0 .. N : f[n] = k[n]
  <2>1. Alike(N, f, k)
    BY <1>5, <1>6, <1>10 DEF Alike
  <2>2. N \in Nat
    BY <1>1
  <2> HIDE DEF N
  <2> QED
    BY ONLY <2>1, <2>2, StepByStep
<1>12. N \in 0 .. N
  BY <1>1
<1> QED
  BY <1>5, <1>6, <1>9, <1>11, <1>12

LEMMA LoadTyped ==
    ASSUME NEW lines \in Seq(Records) PROVE LoadLines(lines) \in Loaded
  BY LoadDefined, LenProperties

LEMMA LoadNothing == LoadLines(<<>>) = NothingLoaded
  BY LoadDefined, EmptySeq

LEMMA LoadOneMore ==
    ASSUME NEW lines \in Seq(Records), NEW r \in Records
    PROVE  LoadLines(Append(lines, r)) = LoadLine(LoadLines(lines), r)
<1> DEFINE N == Len(lines)
           more == Append(lines, r)
<1>1. /\ N \in Nat /\ more \in Seq(Records) /\ Len(more) = N + 1 /\ more[N + 1] = r
      /\ \A n \in 1 .. N : more[n] = lines[n]
  BY AppendProperties, LenProperties
<1> HIDE DEF more
<1>2. PICK f \in [0 .. N -> Loaded] :
              /\ f[0] = NothingLoaded
              /\ \A n \in 1 .. N : f[n] = LoadLine(f[n - 1], lines[n])
              /\ LoadLines(lines) = f[N]
  BY LoadDefined
<1>3. PICK g \in [0 .. N + 1 -> Loaded] :
              /\ g[0] = NothingLoaded
              /\ \A n \in 1 .. N + 1 : g[n] = LoadLine(g[n - 1], more[n])
              /\ LoadLines(more) = g[N + 1]
  BY <1>1, LoadDefined
<1>4. Alike(N, f, g)
  BY <1>1, <1>2, <1>3 DEF Alike
<1>5. \A n \in 0 .. N : f[n] = g[n]
  <2>1. N \in Nat
    BY <1>1
  <2> HIDE DEF N
  <2> QED
    BY ONLY <1>4, <2>1, StepByStep
<1>6. N \in 0 .. N /\ N + 1 \in 1 .. N + 1 /\ (N + 1) - 1 = N
  BY <1>1
<1> QED
  BY <1>1, <1>2, <1>3, <1>5, <1>6 DEF more

-----------------------------------------------------------------------------
(* What trim leaves, and the texts of a list of bubbles. *)

LEMMA WithoutToolsProperties ==
    ASSUME NEW ms \in Seq(Shown)
    PROVE  /\ WithoutTools(ms) \in Seq(Shown)
           /\ \A j \in 1 .. Len(WithoutTools(ms)) :
                 \E i \in 1 .. Len(ms) : WithoutTools(ms)[j] = ms[i]
<1> DEFINE N == Len(ms)
           S == {s \in Seq(Shown) : \A j \in 1 .. Len(s) : \E i \in 1 .. N : s[j] = ms[i]}
           Step(x, n) == IF ms[n].type \in ToolTypes THEN x ELSE Append(x, ms[n])
           step == [p \in (1 .. N) \X S |-> Step(p[2], p[1])]
           Next2(f) == [n \in 0 .. N |-> IF n = 0 THEN <<>>
                                       ELSE IF ms[n].type \in ToolTypes THEN f[n - 1]
                                       ELSE Append(f[n - 1], ms[n])]
<1>1. N \in Nat /\ \A n \in 1 .. N : ms[n] \in Shown
  BY LenProperties, ElementOfSeq
<1>2. <<>> \in S
  BY EmptySeq
<1>3. \A n \in 1 .. N : \A x \in S : step[<<n, x>>] = Step(x, n)
  OBVIOUS
<1>4. ASSUME NEW n \in 1 .. N, NEW x \in S PROVE Step(x, n) \in S
  <2>1. /\ x \in Seq(Shown) /\ Append(x, ms[n]) \in Seq(Shown)
        /\ Len(x) \in Nat /\ Len(Append(x, ms[n])) = Len(x) + 1
        /\ Append(x, ms[n])[Len(x) + 1] = ms[n]
        /\ \A j \in 1 .. Len(x) : Append(x, ms[n])[j] = x[j]
    BY <1>1, AppendProperties, LenProperties
  <2>2. \A j \in 1 .. Len(x) + 1 : j = Len(x) + 1 \/ j \in 1 .. Len(x)
    BY <2>1
  <2>3. Append(x, ms[n]) \in S
    BY <2>1, <2>2
  <2> QED
    BY <2>3
<1>5. StepsIn(S, N, step)
  BY <1>3, <1>4 DEF StepsIn
<1>6. \E f : Follows(S, N, <<>>, step, f)
  <2> HIDE DEF N, step, S
  <2> QED
    BY ONLY <1>1, <1>2, <1>5, Recursion
<1>7. PICK f : Follows(S, N, <<>>, step, f)
  BY <1>6
<1> HIDE DEF step
<1>8. f \in [0 .. N -> S] /\ f[0] = <<>> /\ \A n \in 1 .. N : f[n] = Step(f[n - 1], n)
  <2>1. \A n \in 1 .. N : n - 1 \in 0 .. N
    BY <1>1
  <2> QED
    BY <1>3, <1>7, <2>1 DEF Follows
<1> HIDE DEF S
<1>9. f = Next2(f)
  <2>1. \A n \in 0 .. N : n # 0 => n \in 1 .. N
    BY <1>1
  <2>2. \A n \in 0 .. N : f[n] = Next2(f)[n]
    BY <1>8, <2>1
  <2> QED
    BY <1>8, <2>2
<1> DEFINE k == CHOOSE g : g = Next2(g)
<1>10. k = Next2(k)
  BY <1>9
<1>11. WithoutTools(ms) = k[N]
  BY DEF WithoutTools
<1> HIDE DEF k
<1>12. k[0] = <<>> /\ \A n \in 1 .. N : k[n] = Step(k[n - 1], n)
  <2>1. 0 \in 0 .. N /\ \A n \in 1 .. N : n \in 0 .. N /\ n # 0
    BY <1>1
  <2> QED
    BY <1>10, <2>1
<1>13. Alike(N, f, k)
  BY <1>8, <1>12 DEF Alike
<1>14. \A n \in 0 .. N : f[n] = k[n]
  <2> HIDE DEF N
  <2> QED
    BY ONLY <1>1, <1>13, StepByStep
<1>15. WithoutTools(ms) \in S
  BY <1>1, <1>8, <1>11, <1>14
<1> QED
  BY <1>15 DEF S

(* FlattenSeq, of a sequence of sequences. *)
LEMMA FlattenDefined ==
    ASSUME NEW X, NEW ss \in Seq(Seq(X))
    PROVE  \E f \in [0 .. Len(ss) -> Seq(X)] :
              /\ f[0] = <<>>
              /\ \A n \in 1 .. Len(ss) : f[n] = f[n - 1] \o ss[n]
              /\ FlattenSeq(ss) = f[Len(ss)]
<1> DEFINE N == Len(ss)
           step == [p \in (1 .. N) \X Seq(X) |-> p[2] \o ss[p[1]]]
           Next2(f) == [i \in 1 .. N |-> IF i = 1 THEN ss[i] ELSE f[i - 1] \o ss[i]]
<1>1. N \in Nat /\ \A n \in 1 .. N : ss[n] \in Seq(X)
  BY LenProperties, ElementOfSeq
<1>2. <<>> \in Seq(X)
  BY EmptySeq
<1>3. \A n \in 1 .. N : \A x \in Seq(X) : step[<<n, x>>] = x \o ss[n]
  OBVIOUS
<1>4. StepsIn(Seq(X), N, step)
  BY <1>1, <1>3, ConcatProperties DEF StepsIn
<1> HIDE DEF step
<1>5. \E f : Follows(Seq(X), N, <<>>, step, f)
  <2> HIDE DEF N
  <2> QED
    BY ONLY <1>1, <1>2, <1>4, Recursion
<1>6. PICK f : Follows(Seq(X), N, <<>>, step, f)
  BY <1>5
<1>7. f \in [0 .. N -> Seq(X)] /\ f[0] = <<>> /\ \A n \in 1 .. N : f[n] = f[n - 1] \o ss[n]
  <2>1. \A n \in 1 .. N : n - 1 \in 0 .. N
    BY <1>1
  <2> QED
    BY <1>3, <1>6, <2>1 DEF Follows
<1>8. CASE N = 0
  <2>1. ss = <<>>
    BY <1>8, EmptySeq
  <2>2. FlattenSeq(ss) = ss
    BY <1>8 DEF FlattenSeq
  <2> QED
    BY <1>7, <1>8, <2>1, <2>2
<1>9. CASE N # 0
  <2> DEFINE h == [i \in 1 .. N |-> f[i]]
  <2>1. h = Next2(h)
    <3>1. f[1] = ss[1]
      <4>1. 1 \in 1 .. N /\ 1 - 1 = 0
        BY <1>1, <1>9
      <4>2. f[1] = <<>> \o ss[1]
        BY <1>7, <4>1
      <4> QED
        BY <1>1, <4>1, <4>2, ConcatEmptySeq
    <3>2. \A i \in 1 .. N : i # 1 => i - 1 \in 1 .. N
      BY <1>1
    <3>3. \A i \in 1 .. N : h[i] = Next2(h)[i]
      BY <1>7, <3>1, <3>2
    <3> QED
      BY <3>3
  <2> DEFINE k == CHOOSE g : g = Next2(g)
             kk == [n \in 0 .. N |-> IF n = 0 THEN <<>> ELSE k[n]]
  <2>2. k = Next2(k)
    BY <2>1
  <2>3. FlattenSeq(ss) = k[N]
    BY <1>9 DEF FlattenSeq
  <2> HIDE DEF k
  <2>4. \A n \in 1 .. N : kk[n] = kk[n - 1] \o ss[n]
    <3> SUFFICES ASSUME NEW n \in 1 .. N PROVE kk[n] = kk[n - 1] \o ss[n]
      OBVIOUS
    <3>1. CASE n = 1
      <4>1. kk[n] = ss[n] /\ kk[n - 1] = <<>>
        BY <1>1, <2>2, <3>1
      <4> QED
        BY <1>1, <4>1, ConcatEmptySeq
    <3>2. CASE n # 1
      <4>1. n - 1 \in 0 .. N /\ n \in 0 .. N /\ n - 1 # 0 /\ n # 0
        BY <1>1, <3>2
      <4>2. kk[n] = k[n] /\ kk[n - 1] = k[n - 1]
        BY <4>1
      <4>3. k[n] = k[n - 1] \o ss[n]
        BY <2>2, <3>2
      <4> QED
        BY <4>2, <4>3
    <3> QED
      BY <3>1, <3>2
  <2>5. kk[0] = <<>> /\ kk[N] = k[N]
    BY <1>1, <1>9
  <2> HIDE DEF kk
  <2>6. Alike(N, f, kk)
    BY <1>7, <2>4, <2>5 DEF Alike
  <2>7. \A n \in 0 .. N : f[n] = kk[n]
    <3> HIDE DEF N
    <3> QED
      BY ONLY <1>1, <2>6, StepByStep
  <2>8. FlattenSeq(ss) = f[N]
    BY <1>1, <2>3, <2>5, <2>7
  <2> QED
    BY <1>7, <2>8
<1> QED
  BY <1>8, <1>9

ChunksOf(messages) == UNION {Range(messages[i].text) : i \in DOMAIN messages}

(* The text is made of the chunks of all bubbles. *)
LEMMA TextRange ==
    ASSUME NEW ms \in Seq(Shown)
    PROVE  Range(Text(ms)) = ChunksOf(ms)
<1> DEFINE ss == [i \in DOMAIN ms |-> ms[i].text]
           N == Len(ms)
           Upto(n) == UNION {Range(ms[i].text) : i \in 1 .. n}
<1>1. /\ N \in Nat /\ DOMAIN ms = 1 .. N
      /\ \A i \in 1 .. N : ms[i].text \in Seq(Chunk)
  BY LenProperties, ElementOfSeq, BubbleTypes
<1>2. ss \in Seq(Seq(Chunk)) /\ Len(ss) = N /\ \A i \in 1 .. N : ss[i] = ms[i].text
  <2>1. ss \in [1 .. N -> Seq(Chunk)]
    BY <1>1
  <2> QED
    BY <1>1, <2>1, LenProperties
<1>3. Text(ms) = FlattenSeq(ss)
  BY DEF Text
<1> HIDE DEF ss
<1>4. PICK f \in [0 .. N -> Seq(Chunk)] :
              /\ f[0] = <<>>
              /\ \A n \in 1 .. N : f[n] = f[n - 1] \o ss[n]
              /\ FlattenSeq(ss) = f[N]
  <2> HIDE DEF N
  <2>1. \E g \in [0 .. Len(ss) -> Seq(Chunk)] :
              /\ g[0] = <<>>
              /\ \A n \in 1 .. Len(ss) : g[n] = g[n - 1] \o ss[n]
              /\ FlattenSeq(ss) = g[Len(ss)]
    BY ONLY <1>2, FlattenDefined
  <2> QED
    BY <1>2, <2>1
<1> DEFINE Good == {n \in Nat : n <= N => Range(f[n]) = Upto(n)}
<1>5. 0 \in Good
  BY <1>4 DEF Range
<1>6. ASSUME NEW n \in Good PROVE n + 1 \in Good
  <2> SUFFICES ASSUME n + 1 <= N PROVE Range(f[n + 1]) = Upto(n + 1)
    OBVIOUS
  <2>1. n \in Nat /\ n \in 0 .. N /\ n + 1 \in 1 .. N /\ (n + 1) - 1 = n /\ n <= N
    BY <1>1
  <2>2. Range(f[n]) = Upto(n)
    BY <2>1
  <2> HIDE DEF Good
  <2>3. f[n + 1] = f[n] \o ms[n + 1].text
    BY <1>2, <1>4, <2>1
  <2>4. f[n] \in Seq(Chunk) /\ ms[n + 1].text \in Seq(Chunk)
    BY <1>1, <1>4, <2>1
  <2>5. Range(f[n + 1]) = Range(f[n]) \cup Range(ms[n + 1].text)
    BY <2>3, <2>4, RangeConcatenation
  <2>6. 1 .. n + 1 = (1 .. n) \cup {n + 1}
    BY <2>1
  <2>7. Upto(n + 1) = Upto(n) \cup Range(ms[n + 1].text)
    BY <2>6
  <2> QED
    BY <2>2, <2>5, <2>7
<1>7. Good = Nat
  <2> HIDE DEF Good
  <2> QED
    BY <1>5, <1>6, SetInduction DEF Good
<1>8. N \in Good /\ N <= N
  <2> HIDE DEF Good
  <2> QED
    BY <1>1, <1>7
<1> QED
  BY <1>1, <1>3, <1>4, <1>8 DEF ChunksOf

-----------------------------------------------------------------------------
(* What has been loaded and what is in memory: they stay alike when a line is
   loaded and the memory changes as the code changes it before it writes the
   line. *)

Matches(c, messages) ==
    /\ Len(c.messages) = Len(messages)
    /\ \A i \in 1 .. Len(messages) : SameBubble(messages[i], c.messages[i])

LEMMA LoadedTypes ==
    ASSUME NEW c \in Loaded
    PROVE  /\ c.messages \in Seq(Shown) /\ c.title \in 0 .. MaxTitles /\ c.pending \in BOOLEAN
           /\ Len(c.messages) \in Nat /\ DOMAIN c.messages = 1 .. Len(c.messages)
           /\ \A i \in 1 .. Len(c.messages) : c.messages[i] \in Shown
<1>1. c.messages \in Seq(Shown) /\ c.title \in 0 .. MaxTitles /\ c.pending \in BOOLEAN
  BY DEF Loaded
<1> QED
  BY <1>1, LenProperties, ElementOfSeq

LEMMA ShownTypes ==
    ASSUME NEW ms \in Seq(Shown)
    PROVE  /\ Len(ms) \in Nat /\ DOMAIN ms = 1 .. Len(ms)
           /\ \A i \in 1 .. Len(ms) :
                 /\ ms[i] \in Shown /\ ms[i].type \in Types
                 /\ ms[i].text \in Seq(Chunk) /\ ms[i].text # <<>>
  BY LenProperties, ElementOfSeq, BubbleTypes

(* What the EXCEPTs of a bubble keep. *)
LEMMA BubbleFields ==
    ASSUME NEW b \in Shown, NEW x, NEW t
    PROVE  /\ [b EXCEPT !.extra = x].type = b.type /\ [b EXCEPT !.extra = x].text = b.text
           /\ [b EXCEPT !.extra = x].extra = x
           /\ [b EXCEPT !.text = t].type = b.type /\ [b EXCEPT !.text = t].text = t
           /\ [b EXCEPT !.text = t].extra = b.extra
  BY DEF Shown, Bubbles

LEMMA LoadedFields ==
    ASSUME NEW c \in Loaded, NEW ms, NEW n, NEW p
    PROVE  /\ [c EXCEPT !.messages = ms].messages = ms
           /\ [c EXCEPT !.messages = ms].title = c.title
           /\ [c EXCEPT !.messages = ms].pending = c.pending
           /\ [c EXCEPT !.title = n].messages = c.messages
           /\ [c EXCEPT !.title = n].title = n
           /\ [c EXCEPT !.title = n].pending = c.pending
           /\ [c EXCEPT !.pending = p].messages = c.messages
           /\ [c EXCEPT !.pending = p].title = c.title
           /\ [c EXCEPT !.pending = p, !.messages = ms].messages = ms
           /\ [c EXCEPT !.pending = p, !.messages = ms].title = c.title
           /\ [c EXCEPT !.pending = p, !.messages = ms].pending = p
  BY DEF Loaded

(* A new bubble. *)
LEMMA BubbleMatches ==
    ASSUME NEW c \in Loaded, NEW ms \in Seq(Shown), Matches(c, ms), NEW b \in Shown
    PROVE  /\ Append(ms, b) \in Seq(Shown)
           /\ Matches(LoadLine(c, BubbleLine(b)), Append(ms, b))
           /\ LoadLine(c, BubbleLine(b)).title = c.title
           /\ ~c.pending => /\ LoadLine(c, BubbleLine(b)).messages = Append(c.messages, b)
                            /\ LoadLine(c, BubbleLine(b)).pending = FALSE
<1> DEFINE r == BubbleLine(b)
           counted == r.type = "llm" /\ c.pending
           d == Bubble(r.type, r.text, r.extra \/ counted)
           pend == c.pending /\ ~counted
           more == Append(c.messages, d)
<1>1. r.kind = "bubble" /\ r.type = b.type /\ r.text = b.text /\ r.extra = b.extra
  BY DEF BubbleLine, Token
<1>2. LoadLine(c, r) = [c EXCEPT !.pending = pend, !.messages = more]
  BY <1>1, LoadLineCases
<1>3. /\ b.type \in Types /\ b.text \in Seq(Chunk) /\ b.extra \in BOOLEAN
      /\ b = Bubble(b.type, b.text, b.extra)
  BY BubbleTypes
<1>4. d \in Shown
  <2>1. r.extra \/ counted \in BOOLEAN
    OBVIOUS
  <2> QED
    BY <1>1, <1>3, <2>1, IsShown, BubbleTypes
<1>5. d.type = b.type /\ d.text = b.text /\ (d.type = "tool_request" => d.extra = b.extra)
  BY <1>1, <1>3 DEF Bubble
<1>6. ~c.pending => d = b /\ pend = FALSE
  BY <1>1, <1>3
<1> HIDE DEF r, d, pend, counted
<1>7. /\ Append(ms, b) \in Seq(Shown) /\ Len(Append(ms, b)) = Len(ms) + 1
      /\ Append(ms, b)[Len(ms) + 1] = b
      /\ \A i \in 1 .. Len(ms) : Append(ms, b)[i] = ms[i]
      /\ Len(ms) \in Nat
  BY AppendProperties, LenProperties
<1>8. /\ Len(more) = Len(c.messages) + 1 /\ more[Len(c.messages) + 1] = d
      /\ \A i \in 1 .. Len(c.messages) : more[i] = c.messages[i]
  BY <1>4, LoadedTypes, AppendProperties
<1>9. \A i \in 1 .. Len(ms) + 1 : i = Len(ms) + 1 \/ i \in 1 .. Len(ms)
  BY <1>7
<1> DEFINE c2 == LoadLine(c, r)
<1>10. c2.messages = more /\ c2.title = c.title /\ c2.pending = pend
  BY <1>2, LoadedFields
<1> HIDE DEF more, c2
<1>11. Matches(c2, Append(ms, b))
  <2>1. SameBubble(b, d)
    BY <1>5 DEF SameBubble
  <2> QED
    BY <1>7, <1>8, <1>9, <1>10, <2>1 DEF Matches
<1> QED
  BY <1>6, <1>7, <1>10, <1>11 DEF c2, r, more

(* A chunk that joins the last bubble. *)
Joined(b, text) == [b EXCEPT !.text = b.text \o text]

LEMMA JoinedProperties ==
    ASSUME NEW b \in Shown, NEW text \in Seq(Chunk)
    PROVE  /\ Joined(b, text) \in Shown
           /\ Joined(b, text).type = b.type /\ Joined(b, text).extra = b.extra
           /\ Joined(b, text).text = b.text \o text
<1> DEFINE t == b.text \o text
<1>1. [b EXCEPT !.text = t] \in Shown
  <2>1. TRUE \in BOOLEAN
    OBVIOUS
  <2> QED
    BY <2>1, BubbleChanges
<1>2. Joined(b, text) = [b EXCEPT !.text = t]
  BY DEF Joined
<1> HIDE DEF t
<1>3. /\ Joined(b, text).type = b.type /\ Joined(b, text).extra = b.extra
      /\ Joined(b, text).text = t
  BY <1>2, BubbleFields
<1> QED
  BY <1>1, <1>2, <1>3 DEF t

LEMMA LoadMerge ==
    ASSUME NEW c, NEW r, r.kind = "merge", c.messages # <<>>,
           Last(c.messages).type = r.type
    PROVE  LoadLine(c, r) =
              [c EXCEPT !.messages =
                  [c.messages EXCEPT ![Len(c.messages)] =
                      Joined(c.messages[Len(c.messages)], r.text)]]
  BY DEF LoadLine, Joined

LEMMA ReplaceLast ==
    ASSUME NEW ms \in Seq(Shown), ms # <<>>, NEW b \in Shown, NEW n, n = Len(ms)
    PROVE  /\ [ms EXCEPT ![n] = b] \in Seq(Shown)
           /\ Len([ms EXCEPT ![n] = b]) = n
           /\ \A i \in 1 .. n : [ms EXCEPT ![n] = b][i] = IF i = n THEN b ELSE ms[i]
<1> DEFINE more == [ms EXCEPT ![n] = b]
<1>1. n \in 1 .. n /\ DOMAIN ms = 1 .. n /\ \A i \in 1 .. n : ms[i] \in Shown
  BY ShownTypes, EmptySeq
<1>2. more \in [1 .. n -> Shown]
  BY <1>1
<1>3. \A i \in 1 .. n : more[i] = IF i = n THEN b ELSE ms[i]
  BY <1>1
<1> HIDE DEF more
<1>4. more \in Seq(Shown) /\ DOMAIN more = 1 .. n
  BY <1>1, <1>2
<1>5. Len(more) = n
  BY <1>1, <1>4, LenProperties
<1> QED
  BY <1>3, <1>4, <1>5 DEF more

(* What a merged chunk makes of the bubbles. *)
Lengthened(ms, chunk) == [ms EXCEPT ![Len(ms)].text = Append(@, chunk)]

LEMMA MergeMatches ==
    ASSUME NEW c \in Loaded, NEW ms \in Seq(Shown), Matches(c, ms), ms # <<>>,
           NEW chunk \in Chunk, NEW r, r.kind = "merge", r.type = Last(ms).type,
           r.text = <<chunk>>, NEW longer,
           longer = Lengthened(ms, chunk)
    PROVE  /\ longer \in Seq(Shown)
           /\ Matches(LoadLine(c, r), longer)
           /\ LoadLine(c, r).title = c.title
<1> DEFINE n == Len(ms)
           b == Joined(ms[n], <<chunk>>)
           d == Joined(c.messages[n], <<chunk>>)
           more == [c.messages EXCEPT ![n] = d]
<1>1. <<chunk>> \in Seq(Chunk)
  OBVIOUS
<1>2. /\ n \in 1 .. n /\ ms[n] \in Shown /\ ms[n].text \in Seq(Chunk)
      /\ ms[n].type = r.type
  BY ShownTypes, EmptySeq DEF Last
<1>3. /\ Len(c.messages) = n
      /\ \A i \in 1 .. n : c.messages[i] \in Shown /\ SameBubble(ms[i], c.messages[i])
  BY LoadedTypes DEF Matches
<1>4. c.messages # <<>> /\ Last(c.messages).type = r.type
  BY <1>2, <1>3, EmptySeq DEF Last, SameBubble
<1>5. LoadLine(c, r) = [c EXCEPT !.messages = more]
  <2>1. LoadLine(c, r) =
              [c EXCEPT !.messages =
                  [c.messages EXCEPT ![Len(c.messages)] =
                      Joined(c.messages[Len(c.messages)], r.text)]]
    BY <1>4, LoadMerge
  <2> QED
    BY <1>3, <2>1
<1>6. longer = [ms EXCEPT ![n] = b]
  <2>1. Append(ms[n].text, chunk) = ms[n].text \o <<chunk>>
    BY <1>2, AppendIsConcat
  <2> QED
    BY <2>1 DEF Joined, Lengthened
<1>7. b \in Shown /\ d \in Shown /\ SameBubble(b, d)
  <2>1. ms[n] \in Shown /\ c.messages[n] \in Shown /\ SameBubble(ms[n], c.messages[n])
    BY <1>2, <1>3
  <2>2. /\ b \in Shown /\ b.type = ms[n].type /\ b.extra = ms[n].extra
        /\ b.text = ms[n].text \o <<chunk>>
    BY <1>1, <2>1, JoinedProperties
  <2>3. /\ d \in Shown /\ d.type = c.messages[n].type /\ d.extra = c.messages[n].extra
        /\ d.text = c.messages[n].text \o <<chunk>>
    BY <1>1, <2>1, JoinedProperties
  <2> HIDE DEF b, d
  <2> QED
    BY <2>1, <2>2, <2>3 DEF SameBubble
<1> HIDE DEF b, d
<1>8. /\ longer \in Seq(Shown) /\ Len(longer) = n
      /\ \A i \in 1 .. n : longer[i] = IF i = n THEN b ELSE ms[i]
  <2>1. n = Len(ms)
    OBVIOUS
  <2> HIDE DEF n
  <2> QED
    BY ONLY <1>6, <1>7, <2>1, ms \in Seq(Shown), ms # <<>>, ReplaceLast
<1>9. /\ Len(more) = n
      /\ \A i \in 1 .. n : more[i] = IF i = n THEN d ELSE c.messages[i]
  <2>1. c.messages \in Seq(Shown)
    BY LoadedTypes
  <2> QED
    BY <1>3, <1>4, <1>7, <2>1, ReplaceLast
<1> HIDE DEF more
<1>10. LoadLine(c, r).messages = more /\ LoadLine(c, r).title = c.title
  BY <1>5, LoadedFields
<1>11. Matches(LoadLine(c, r), longer)
  BY <1>3, <1>7, <1>8, <1>9, <1>10 DEF Matches
<1> QED
  BY <1>8, <1>10, <1>11

(* Arguments that are attached to a request. *)
LEMMA AttachMatches ==
    ASSUME NEW c \in Loaded, NEW ms \in Seq(Shown), Matches(c, ms), NEW id
    PROVE  LET r == Token("rawInput", "none", <<id>>, FALSE)
           IN  /\ AttachTo(ms, id) \in Seq(Shown)
               /\ Matches(LoadLine(c, r), AttachTo(ms, id))
               /\ LoadLine(c, r).title = c.title
<1> DEFINE r == Token("rawInput", "none", <<id>>, FALSE)
           more == AttachTo(c.messages, id)
<1>1. LoadLine(c, r) = [c EXCEPT !.messages = more]
  <2>1. r.kind = "rawInput" /\ r.text[1] = id
    BY DEF Token
  <2> HIDE DEF r
  <2>2. LoadLine(c, r) = [c EXCEPT !.messages = AttachTo(c.messages, r.text[1])]
    BY <2>1, LoadRawInput
  <2> QED
    BY <2>1, <2>2
<1>2. /\ AttachTo(ms, id) \in Seq(Shown) /\ Len(AttachTo(ms, id)) = Len(ms)
      /\ \A i \in 1 .. Len(ms) :
            AttachTo(ms, id)[i] = IF ms[i].type = "tool_request" /\ ms[i].text[1] = id
                                  THEN [ms[i] EXCEPT !.extra = TRUE] ELSE ms[i]
  BY AttachProperties
<1>3. /\ Len(more) = Len(ms)
      /\ \A i \in 1 .. Len(ms) :
            more[i] = IF c.messages[i].type = "tool_request" /\ c.messages[i].text[1] = id
                      THEN [c.messages[i] EXCEPT !.extra = TRUE] ELSE c.messages[i]
  BY AttachProperties, LoadedTypes DEF Matches
<1>4. \A i \in 1 .. Len(ms) : /\ SameBubble(ms[i], c.messages[i])
                             /\ ms[i] \in Shown /\ c.messages[i] \in Shown
  BY ShownTypes, LoadedTypes DEF Matches
<1>5. ASSUME NEW i \in 1 .. Len(ms) PROVE SameBubble(AttachTo(ms, id)[i], more[i])
  <2>1. CASE ms[i].type = "tool_request" /\ ms[i].text[1] = id
    <3>1. SameBubble(ms[i], c.messages[i]) /\ ms[i] \in Shown /\ c.messages[i] \in Shown
      BY <1>4
    <3>2. c.messages[i].type = "tool_request" /\ c.messages[i].text[1] = id
      BY <2>1, <3>1 DEF SameBubble
    <3>3. /\ AttachTo(ms, id)[i] = [ms[i] EXCEPT !.extra = TRUE]
          /\ more[i] = [c.messages[i] EXCEPT !.extra = TRUE]
      BY <1>2, <1>3, <2>1, <3>2
    <3> HIDE DEF more
    <3> QED
      BY <3>1, <3>3, BubbleFields DEF SameBubble
  <2>2. CASE ~(ms[i].type = "tool_request" /\ ms[i].text[1] = id)
    BY <1>2, <1>3, <1>4, <2>2 DEF SameBubble
  <2> QED
    BY <2>1, <2>2
<1> DEFINE c2 == LoadLine(c, r)
<1>6. c2.messages = more /\ c2.title = c.title
  <2> HIDE DEF r, more
  <2> QED
    BY <1>1, LoadedFields
<1> HIDE DEF c2, more
<1> QED
  BY <1>2, <1>3, <1>5, <1>6 DEF Matches, c2

(* What is attached to other bubbles is not compared. *)
LEMMA ExtraMatches ==
    ASSUME NEW c, NEW ms \in Seq(Shown), Matches(c, ms), NEW i \in 1 .. Len(ms),
           ms[i].type # "tool_request"
    PROVE  /\ [ms EXCEPT ![i].extra = TRUE] \in Seq(Shown)
           /\ Matches(c, [ms EXCEPT ![i].extra = TRUE])
<1> DEFINE b == [ms[i] EXCEPT !.extra = TRUE]
           other == [ms EXCEPT ![i] = b]
<1>1. Len(ms) \in Nat /\ DOMAIN ms = 1 .. Len(ms) /\ \A j \in 1 .. Len(ms) : ms[j] \in Shown
  BY ShownTypes
<1>2. b \in Shown
  BY <1>1, BubbleChanges, EmptySeq
<1>3. b.type = ms[i].type /\ b.text = ms[i].text
  BY <1>1, BubbleFields
<1> HIDE DEF b
<1>4. /\ other \in Seq(Shown) /\ Len(other) = Len(ms)
      /\ \A j \in 1 .. Len(ms) : other[j] = IF j = i THEN b ELSE ms[j]
  <2>1. other \in [1 .. Len(ms) -> Shown]
    BY <1>1, <1>2
  <2>2. \A j \in 1 .. Len(ms) : other[j] = IF j = i THEN b ELSE ms[j]
    BY <1>1
  <2> HIDE DEF other
  <2> QED
    BY <1>1, <2>1, <2>2, LenProperties
<1> HIDE DEF other
<1>5. Matches(c, other)
  BY <1>3, <1>4 DEF Matches, SameBubble
<1> QED
  BY <1>4, <1>5 DEF other, b

LEMMA LoadedMatchesItself ==
    ASSUME NEW c \in Loaded PROVE Matches(c, c.messages)
  BY DEF Matches, SameBubble

-----------------------------------------------------------------------------
(* Writing: what the file holds after a record, a newline or both. *)

Whole(f)   == Holds(f, Parsed(f)) /\ Len(f) = 2 * Len(Parsed(f))
Unended(f) == Holds(f, Parsed(f)) /\ Len(f) = 2 * Len(Parsed(f)) - 1

LEMMA NoTitle == 0 \in 0 .. MaxTitles
  BY ConvLogAssumption

LEMMA TokenTypes ==
    ASSUME NEW type \in Types \cup {"none"}, NEW text \in Seq(Chunk),
           NEW extra \in BOOLEAN,
           NEW kind \in {"newline", "hole", "created", "stats", "response", "bubble",
                         "merge", "rawInput"}
    PROVE  Token(kind, type, text, extra) \in Tokens
  BY NoTitle DEF Token, Tokens

LEMMA NewLineTyped == NewLine \in Tokens
  BY TokenTypes, EmptySeq DEF NewLine

LEMMA RecordsTyped == Records \subseteq Tokens
  BY DEF Records

LEMMA Appended ==
    ASSUME NEW X, NEW f \in Seq(X), NEW r \in X, NEW g, g = Append(f, r), NEW n, n = Len(f)
    PROVE  /\ n \in Nat /\ g \in Seq(X) /\ Len(g) = n + 1 /\ DOMAIN g = 1 .. n + 1
           /\ g[n + 1] = r /\ \A i \in 1 .. n : g[i] = f[i]
  BY AppendProperties, LenProperties

(* g and more are f and lines with one record more. *)
OneMore(f, lines, r, g, more) ==
    /\ Holds(f, lines) /\ Len(f) = 2 * Len(lines) /\ r \in Records
    /\ g = Append(f, r) /\ more = Append(lines, r)

LEMMA HoldsRecord ==
    ASSUME NEW f, NEW lines, NEW r, NEW g, NEW more, OneMore(f, lines, r, g, more)
    PROVE  Holds(g, more) /\ Len(g) = 2 * Len(more) - 1
<1> USE DEF OneMore
<1> DEFINE m == Len(lines)
           n == Len(f)
<1>1. /\ f \in Seq(Tokens) /\ lines \in Seq(Records) /\ r \in Tokens
      /\ m \in Nat /\ n = 2 * m
      /\ \A k \in 1 .. m : f[2 * k - 1] = lines[k] /\ (2 * k <= n => f[2 * k] = NewLine)
  BY LenProperties, RecordsTyped DEF Holds
<1> HIDE DEF m, n
<1>2. /\ n \in Nat /\ g \in Seq(Tokens) /\ Len(g) = n + 1 /\ g[n + 1] = r
      /\ \A i \in 1 .. n : g[i] = f[i]
  <2>1. n = Len(f)
    BY DEF n
  <2>2. g = Append(f, r)
    OBVIOUS
  <2> QED
    BY ONLY <1>1, <2>1, <2>2, Appended
<1>3. /\ more \in Seq(Records) /\ Len(more) = m + 1 /\ more[m + 1] = r
      /\ \A i \in 1 .. m : more[i] = lines[i]
  BY <1>1, Appended DEF m
<1>4. Len(g) = 2 * Len(more) - 1
  BY ONLY <1>1, <1>2, <1>3
<1>5. \A a, k \in Nat : /\ k = a + 1 => 2 * k - 1 = 2 * a + 1 /\ ~(2 * k <= 2 * a + 1)
                        /\ k \in 1 .. a => 2 * k - 1 \in 1 .. 2 * a /\ 2 * k \in 1 .. 2 * a
                        /\ k \in 1 .. a + 1 => k = a + 1 \/ k \in 1 .. a
                        /\ 2 * k \in 1 .. 2 * a => 2 * k <= 2 * a
  OBVIOUS
<1>6. ASSUME NEW k \in 1 .. m + 1
      PROVE  g[2 * k - 1] = more[k] /\ (2 * k <= n + 1 => g[2 * k] = NewLine)
  <2>1. k \in Nat
    OBVIOUS
  <2>2. CASE k = m + 1
    <3>1. 2 * k - 1 = n + 1 /\ ~(2 * k <= n + 1)
      BY ONLY <1>1, <1>5, <2>1, <2>2
    <3> QED
      BY ONLY <1>2, <1>3, <2>2, <3>1
  <2>3. CASE k \in 1 .. m
    <3>1. 2 * k - 1 \in 1 .. n /\ 2 * k \in 1 .. n /\ 2 * k <= n
      BY ONLY <1>1, <1>5, <2>1, <2>3
    <3> QED
      BY ONLY <1>1, <1>2, <1>3, <2>3, <3>1
  <2> QED
    BY ONLY <1>1, <1>5, <2>1, <2>2, <2>3, k \in 1 .. m + 1
<1> QED
  BY <1>2, <1>3, <1>4, <1>6 DEF Holds

LEMMA HoldsNewLine ==
    ASSUME NEW f, NEW lines, Holds(f, lines), Len(f) = 2 * Len(lines) - 1,
           NEW g, g = Append(f, NewLine)
    PROVE  Holds(g, lines) /\ Len(g) = 2 * Len(lines)
<1> DEFINE m == Len(lines)
           n == Len(f)
<1>1. /\ f \in Seq(Tokens) /\ lines \in Seq(Records) /\ NewLine \in Tokens
      /\ m \in Nat /\ n = 2 * m - 1
      /\ \A k \in 1 .. m : f[2 * k - 1] = lines[k] /\ (2 * k <= n => f[2 * k] = NewLine)
  BY LenProperties, NewLineTyped DEF Holds
<1> HIDE DEF m, n
<1>2. /\ n \in Nat /\ g \in Seq(Tokens) /\ Len(g) = n + 1 /\ g[n + 1] = NewLine
      /\ \A i \in 1 .. n : g[i] = f[i]
  BY <1>1, Appended DEF n
<1>3. n + 1 = 2 * m
  BY ONLY <1>1
<1>4. \A a, k \in Nat : k \in 1 .. a => /\ 2 * k - 1 \in 1 .. 2 * a - 1
                                        /\ k # a => 2 * k \in 1 .. 2 * a - 1
                                        /\ 2 * k \in 1 .. 2 * a - 1 => 2 * k <= 2 * a - 1
  OBVIOUS
<1>5. ASSUME NEW k \in 1 .. m
      PROVE  g[2 * k - 1] = lines[k] /\ (2 * k <= n + 1 => g[2 * k] = NewLine)
  <2>1. k \in Nat
    OBVIOUS
  <2>2. 2 * k - 1 \in 1 .. n
    BY ONLY <1>1, <1>4, <2>1, k \in 1 .. m
  <2>3. g[2 * k - 1] = lines[k]
    BY ONLY <1>1, <1>2, <2>2, k \in 1 .. m
  <2>4. CASE k = m
    BY ONLY <1>2, <1>3, <2>3, <2>4
  <2>5. CASE k # m
    <3>1. 2 * k \in 1 .. n /\ 2 * k <= n
      BY ONLY <1>1, <1>4, <2>1, <2>5, k \in 1 .. m
    <3> QED
      BY ONLY <1>1, <1>2, <2>3, <3>1, k \in 1 .. m
  <2> QED
    BY <2>4, <2>5
<1> QED
  BY <1>1, <1>2, <1>3, <1>5 DEF Holds, m

(* Appending a record to a file of whole lines loads one line more; its newline
   changes nothing for who reads the file. *)
LEMMA TakesRecord ==
    ASSUME NEW f, Whole(f), NEW r \in Records
    PROVE  /\ Unended(Append(f, r)) /\ Parsed(Append(f, r)) = Append(Parsed(f), r)
           /\ Load(Append(f, r)) = LoadLine(Load(f), r)
<1>1. Holds(Append(f, r), Append(Parsed(f), r))
      /\ Len(Append(f, r)) = 2 * Len(Append(Parsed(f), r)) - 1
  <2> DEFINE lines == Parsed(f)
             g == Append(f, r)
             more == Append(lines, r)
  <2>1. OneMore(f, lines, r, g, more)
    BY DEF Whole, OneMore
  <2> HIDE DEF lines, g, more
  <2>3. Holds(g, more) /\ Len(g) = 2 * Len(more) - 1
    BY ONLY <2>1, HoldsRecord
  <2> QED
    BY <2>3 DEF lines, g, more
<1>2. Parsed(Append(f, r)) = Append(Parsed(f), r)
  BY <1>1, ParsedLines
<1>3. Parsed(f) \in Seq(Records)
  BY DEF Whole, Holds
<1>4. Load(Append(f, r)) = LoadLine(Load(f), r)
  BY <1>2, <1>3, LoadOneMore DEF Load
<1> QED
  BY <1>1, <1>2, <1>4 DEF Unended

LEMMA TakesNewLine ==
    ASSUME NEW f, Unended(f)
    PROVE  /\ Whole(Append(f, NewLine)) /\ Parsed(Append(f, NewLine)) = Parsed(f)
           /\ Load(Append(f, NewLine)) = Load(f)
<1>1. Holds(Append(f, NewLine), Parsed(f)) /\ Len(Append(f, NewLine)) = 2 * Len(Parsed(f))
  BY HoldsNewLine DEF Unended
<1>2. Parsed(Append(f, NewLine)) = Parsed(f)
  BY <1>1, ParsedLines
<1> QED
  BY <1>1, <1>2 DEF Whole, Load

LEMMA EmptyFile == Whole(<<>>) /\ Parsed(<<>>) = <<>> /\ Load(<<>>) = NothingLoaded
<1>1. Holds(<<>>, <<>>) /\ Len(<<>>) = 0
  BY EmptySeq DEF Holds
<1>2. Parsed(<<>>) = <<>>
  BY <1>1, ParsedLines
<1> QED
  BY <1>1, <1>2, LoadNothing DEF Whole, Load

LEMMA FileTyped ==
    ASSUME NEW f, Whole(f) \/ Unended(f)
    PROVE  /\ f \in Seq(Tokens) /\ Parsed(f) \in Seq(Records) /\ Load(f) \in Loaded
           /\ Len(f) \in Nat /\ Len(Parsed(f)) \in Nat
  BY LoadTyped, LenProperties DEF Whole, Unended, Holds, Load

(* The rewriting goroutine writes where the file ends. *)
LEMMA WritesAtEnd ==
    ASSUME NEW f \in Seq(Tokens), NEW r \in Tokens
    PROVE  WriteAt(f, Len(f), <<r, NewLine>>) = Append(Append(f, r), NewLine)
<1> DEFINE n == Len(f)
           two == <<r, NewLine>>
           g == Append(Append(f, r), NewLine)
<1>1. n \in Nat /\ Len(two) = 2 /\ two[1] = r /\ two[2] = NewLine
  BY LenProperties
<1>2. /\ Append(f, r) \in Seq(Tokens) /\ Len(Append(f, r)) = n + 1
      /\ Append(f, r)[n + 1] = r /\ \A i \in 1 .. n : Append(f, r)[i] = f[i]
  BY AppendProperties
<1>3. /\ g \in Seq(Tokens) /\ Len(g) = (n + 1) + 1
      /\ g[(n + 1) + 1] = NewLine /\ \A i \in 1 .. n + 1 : g[i] = Append(f, r)[i]
  BY <1>2, NewLineTyped, AppendProperties
<1> DEFINE both == {n, n + Len(two)}
<1>4. Max(both) = n + 2
  <2>1. \A x \in both : (\A y \in both : x >= y) <=> x = n + 2
    BY <1>1
  <2>2. n + 2 \in both
    BY <1>1
  <2> HIDE DEF both
  <2> QED
    BY <2>1, <2>2 DEF Max
<1>5. WriteAt(f, n, two) =
         [i \in 1 .. n + 2 |-> IF i \in n + 1 .. n + 2 THEN two[i - n]
                               ELSE IF i <= n THEN f[i] ELSE Hole]
  BY <1>1, <1>4 DEF WriteAt
<1>6. g = [i \in 1 .. n + 2 |-> g[i]]
  <2> HIDE DEF g, n
  <2>1. g \in [1 .. Len(g) -> Tokens]
    BY <1>3, LenProperties
  <2>2. Len(g) = n + 2
    BY <1>1, <1>3
  <2> QED
    BY <2>1, <2>2
<1> HIDE DEF g, two
<1>7. ASSUME NEW i \in 1 .. n + 2
      PROVE  g[i] = IF i \in n + 1 .. n + 2 THEN two[i - n] ELSE IF i <= n THEN f[i] ELSE Hole
  <2> HIDE DEF n
  <2>1. CASE i = n + 2
    BY <1>1, <1>3, <2>1
  <2>2. CASE i = n + 1
    <3>1. i \in 1 .. n + 1 /\ i \in n + 1 .. n + 2 /\ i - n = 1
      BY <1>1, <2>2
    <3> QED
      BY <1>1, <1>2, <1>3, <2>2, <3>1
  <2>3. CASE i \in 1 .. n
    <3>1. i \in 1 .. n + 1 /\ ~(i \in n + 1 .. n + 2) /\ i <= n
      BY <1>1, <2>3
    <3> QED
      BY <1>2, <1>3, <2>3, <3>1
  <2> QED
    BY <1>1, <2>1, <2>2, <2>3
<1> QED
  BY <1>5, <1>6, <1>7 DEF g, two

-----------------------------------------------------------------------------
(* Lines that say nothing of a bubble, and the chunks a line brings. *)

LEMMA LoadOther ==
    ASSUME NEW c \in Loaded, NEW r, r.kind \in {"created", "stats", "response"}
    PROVE  /\ LoadLine(c, r).messages = c.messages
           /\ LoadLine(c, r).title = IF r.kind = "created" THEN r.title ELSE c.title
           /\ r.kind = "created" => LoadLine(c, r).pending = c.pending
<1>1. CASE r.kind = "created"
  <2>1. LoadLine(c, r) = [c EXCEPT !.title = r.title]
    BY <1>1, LoadLineCases
  <2> QED
    BY <1>1, <2>1, LoadedFields
<1>2. CASE r.kind = "stats"
  <2>1. LoadLine(c, r) = [c EXCEPT !.pending = TRUE]
    BY <1>2, LoadLineCases
  <2> QED
    BY <1>2, <2>1, LoadedFields
<1>3. CASE r.kind = "response"
  BY <1>3, LoadLineCases
<1> QED
  BY <1>1, <1>2, <1>3

LEMMA OtherMatches ==
    ASSUME NEW c \in Loaded, NEW ms, Matches(c, ms), NEW r,
           r.kind \in {"created", "stats", "response"}
    PROVE  /\ Matches(LoadLine(c, r), ms)
           /\ LoadLine(c, r).title = IF r.kind = "created" THEN r.title ELSE c.title
  BY LoadOther DEF Matches

LEMMA InChunks ==
    ASSUME NEW ms \in Seq(Shown), NEW i \in 1 .. Len(ms)
    PROVE  Range(ms[i].text) \subseteq ChunksOf(ms)
  BY ShownTypes DEF ChunksOf

LEMMA ChunksWithin ==
    ASSUME NEW ms \in Seq(Shown), NEW T,
           \A j \in 1 .. Len(ms) : Range(ms[j].text) \subseteq T
    PROVE  ChunksOf(ms) \subseteq T
  BY ShownTypes DEF ChunksOf

(* A list made of bubbles of the memory has no text the file does not have. *)
LEMMA SubText ==
    ASSUME NEW c \in Loaded, NEW ms \in Seq(Shown), Matches(c, ms), NEW ms2 \in Seq(Shown),
           \A j \in 1 .. Len(ms2) : \E i \in 1 .. Len(ms) : ms2[j] = ms[i]
    PROVE  ChunksOf(ms2) \subseteq ChunksOf(c.messages)
<1>1. c.messages \in Seq(Shown) /\ Len(c.messages) = Len(ms)
      /\ \A i \in 1 .. Len(ms) : c.messages[i].text = ms[i].text
  BY LoadedTypes DEF Matches, SameBubble
<1>2. ASSUME NEW j \in 1 .. Len(ms2) PROVE Range(ms2[j].text) \subseteq ChunksOf(c.messages)
  <2>1. PICK i \in 1 .. Len(ms) : ms2[j] = ms[i]
    OBVIOUS
  <2>2. Range(c.messages[i].text) \subseteq ChunksOf(c.messages)
    BY <1>1, InChunks
  <2> QED
    BY <1>1, <2>1, <2>2
<1> QED
  BY <1>2, ChunksWithin

(* The chunks of the memory are those of the file. *)
LEMMA MatchedText ==
    ASSUME NEW c \in Loaded, NEW ms \in Seq(Shown), Matches(c, ms)
    PROVE  ChunksOf(ms) \subseteq ChunksOf(c.messages)
<1>1. \A j \in 1 .. Len(ms) : \E i \in 1 .. Len(ms) : ms[j] = ms[i]
  OBVIOUS
<1> QED
  BY <1>1, SubText

(* A line adds at most its own text. *)
LEMMA LoadLineChunks ==
    ASSUME NEW c \in Loaded, NEW r \in Records
    PROVE  ChunksOf(LoadLine(c, r).messages) \subseteq ChunksOf(c.messages) \cup Range(r.text)
<1> DEFINE T == ChunksOf(c.messages) \cup Range(r.text)
           n == Len(c.messages)
<1>1. /\ c.messages \in Seq(Shown) /\ n \in Nat /\ DOMAIN c.messages = 1 .. n
      /\ \A i \in 1 .. n : /\ c.messages[i] \in Shown
                           /\ Range(c.messages[i].text) \subseteq T
  BY LoadedTypes, InChunks
<1>2. r.text \in Seq(Chunk) /\ r.extra \in BOOLEAN
  BY RecordTypes
<1>3. CASE r.kind \in {"created", "stats", "response"}
  BY <1>3, LoadOther
<1>4. CASE r.kind = "bubble"
  <2> DEFINE counted == r.type = "llm" /\ c.pending
             b == Bubble(r.type, r.text, r.extra \/ counted)
             pend == c.pending /\ ~counted
             more == Append(c.messages, b)
  <2>1. LoadLine(c, r) = [c EXCEPT !.pending = pend, !.messages = more]
    BY <1>4, LoadLineCases
  <2>2. b \in Shown
    <3>1. r.extra \/ counted \in BOOLEAN
      OBVIOUS
    <3> QED
      BY <1>4, <3>1, RecordTypes, IsShown
  <2>3. b.text = r.text
    BY DEF Bubble
  <2> HIDE DEF b, pend
  <2>4. /\ more \in Seq(Shown) /\ Len(more) = n + 1 /\ more[n + 1] = b
        /\ \A i \in 1 .. n : more[i] = c.messages[i]
    BY <1>1, <2>2, Appended
  <2> HIDE DEF more, n, T
  <2>5. \A j \in 1 .. n + 1 : j = n + 1 \/ j \in 1 .. n
    BY <1>1
  <2>6. Range(r.text) \subseteq T
    BY DEF T
  <2>7. \A j \in 1 .. Len(more) : Range(more[j].text) \subseteq T
    BY <1>1, <2>3, <2>4, <2>5, <2>6
  <2>8. ChunksOf(more) \subseteq T
    BY <2>4, <2>7, ChunksWithin
  <2> QED
    BY <2>1, <2>8, LoadedFields DEF T
<1>5. CASE r.kind = "merge" /\ c.messages # <<>> /\ Last(c.messages).type = r.type
  <2> DEFINE d == Joined(c.messages[n], r.text)
             more == [c.messages EXCEPT ![n] = d]
  <2>1. LoadLine(c, r) = [c EXCEPT !.messages = more]
    BY <1>5, LoadMerge
  <2>2. n \in 1 .. n
    BY <1>1, <1>5, EmptySeq
  <2>3. d \in Shown /\ d.text = c.messages[n].text \o r.text
    BY <1>1, <1>2, <2>2, JoinedProperties
  <2>4. Range(d.text) \subseteq T
    <3>1. c.messages[n].text \in Seq(Chunk)
      BY <1>1, <2>2, BubbleTypes
    <3>2. Range(d.text) = Range(c.messages[n].text) \cup Range(r.text)
      BY <1>2, <2>3, <3>1, RangeConcatenation
    <3> QED
      BY <1>1, <2>2, <3>2
  <2>5. /\ more \in Seq(Shown) /\ Len(more) = n
        /\ \A i \in 1 .. n : more[i] = IF i = n THEN d ELSE c.messages[i]
    <3>1. n = Len(c.messages)
      OBVIOUS
    <3> HIDE DEF n, d
    <3> QED
      BY <1>1, <1>5, <2>3, <3>1, ReplaceLast
  <2> HIDE DEF d, more, T, n
  <2>6. \A j \in 1 .. Len(more) : Range(more[j].text) \subseteq T
    BY <1>1, <2>4, <2>5
  <2>7. ChunksOf(more) \subseteq T
    BY <2>5, <2>6, ChunksWithin
  <2> QED
    BY <2>1, <2>7, LoadedFields DEF T
<1>6. CASE r.kind = "merge" /\ ~(c.messages # <<>> /\ Last(c.messages).type = r.type)
  BY <1>6, LoadLineCases
<1>7. CASE r.kind = "rawInput"
  <2> DEFINE id == r.text[1]
             more == AttachTo(c.messages, id)
  <2>1. LoadLine(c, r) = [c EXCEPT !.messages = more]
    BY <1>7, LoadRawInput
  <2> HIDE DEF id
  <2>2. /\ more \in Seq(Shown) /\ Len(more) = n
        /\ \A i \in 1 .. n : more[i] = IF c.messages[i].type = "tool_request"
                                          /\ c.messages[i].text[1] = id
                                       THEN [c.messages[i] EXCEPT !.extra = TRUE]
                                       ELSE c.messages[i]
    BY <1>1, AttachProperties
  <2>3. \A i \in 1 .. n : [c.messages[i] EXCEPT !.extra = TRUE].text = c.messages[i].text
    BY <1>1, BubbleFields
  <2> HIDE DEF more, T, n
  <2>4. \A j \in 1 .. Len(more) : Range(more[j].text) \subseteq T
    BY <1>1, <2>2, <2>3
  <2>5. ChunksOf(more) \subseteq T
    BY <2>2, <2>4, ChunksWithin
  <2> QED
    BY <2>1, <2>5, LoadedFields DEF T
<1>8. r.kind \in {"created", "stats", "response", "bubble", "merge", "rawInput"}
  BY DEF Records, Tokens
<1> QED
  BY <1>3, <1>4, <1>5, <1>6, <1>7, <1>8

-----------------------------------------------------------------------------
(* The inductive invariant, for a conversation that one goroutine at a time
   updates: w is that goroutine. *)

OneWriter(w) == Writers = {w} /\ "crashMidAppend" \notin Ops

Places == {"idle", "data", "newline", "arm", "finish", "marshal", "truncate", "rewrite",
           "remove"}

(* Where memory and file say the same, but for the title in "marshal". *)
SyncedPlaces == {"idle", "arm", "finish", "newline", "marshal"}

LogTypes(w) ==
    /\ exists \in BOOLEAN /\ pending \in BOOLEAN /\ running \in BOOLEAN
    /\ onDisk \in BOOLEAN
    /\ mem \in Seq(Shown)
    /\ title \in 0 .. MaxTitles
    /\ pc \in [Writers -> Places]
    /\ rec \in [Writers -> Tokens]
    /\ pc[w] \in {"data", "newline"} => rec[w] \in Records
    /\ rest \in [Writers -> Seq(Records)]
    /\ offset \in [Writers -> Nat]
    /\ chunks \in [Writers -> 0 .. MaxChunks]

(* The file is whole lines; the newline of the last is missing only while its
   writer is between its two writes. *)
FileWhole(w) == /\ pc[w] = "newline" => Unended(file)
                /\ pc[w] # "newline" => Whole(file)

InStep(w) ==
    exists /\ pc[w] \in SyncedPlaces =>
        /\ Matches(Load(file), mem)
        /\ pc[w] # "marshal" => Load(file).title = title

(* The memory is one line ahead of the file, and w holds that line. *)
OneLineAhead(w) ==
    exists /\ pc[w] = "data" =>
        /\ Matches(LoadLine(Load(file), rec[w]), mem)
        /\ LoadLine(Load(file), rec[w]).title = title

(* The lines of a whole conversation. *)
Full(t, ms) == <<Created(t)>> \o [i \in DOMAIN ms |-> BubbleLine(ms[i])]

(* While the file is written again it has the first lines of the conversation,
   and rest has the others. *)
Copied(f, t, ms, lines) ==
    LET n == Len(Parsed(f))
    IN  /\ n <= Len(ms)
        /\ Len(lines) = Len(ms) + 1 - n
        /\ \A i \in 1 .. Len(lines) : lines[i] = Full(t, ms)[n + i]
        /\ n = 0 => Load(f) = NothingLoaded
        /\ n > 0 => /\ Load(f).title = t /\ Load(f).pending = FALSE
                    /\ Len(Load(f).messages) = n - 1
                    /\ \A i \in 1 .. n - 1 : Load(f).messages[i] = ms[i]

Rewritten(w) ==
    pc[w] = "rewrite" => offset[w] = Len(file) /\ Copied(file, title, mem, rest[w])

(* Undo and trim have only taken text away. *)
Shortened(w) ==
    exists /\ pc[w] = "truncate" => ChunksOf(mem) \subseteq ChunksOf(Load(file).messages)

Removed(w) == pc[w] = "remove" => ~exists

LogInv(w) ==
    /\ LogTypes(w) /\ FileWhole(w) /\ InStep(w) /\ OneLineAhead(w) /\ Rewritten(w)
    /\ Shortened(w) /\ Removed(w)

(* The records that are logged. *)
LEMMA CreatedRecord ==
    ASSUME NEW n \in 0 .. MaxTitles
    PROVE  Created(n) \in Records /\ Created(n).kind = "created" /\ Created(n).title = n
<1> DEFINE k == Token("created", "none", <<>>, FALSE)
<1>1. k \in Tokens
  BY TokenTypes, EmptySeq
<1>2. k.kind = "created"
  BY DEF Token
<1>3. Created(n) = [k EXCEPT !.title = n]
  BY DEF Created
<1> HIDE DEF k
<1>4. /\ [k EXCEPT !.title = n] \in Tokens /\ [k EXCEPT !.title = n].kind = k.kind
      /\ [k EXCEPT !.title = n].title = n
  BY <1>1 DEF Tokens
<1> QED
  BY <1>2, <1>3, <1>4 DEF Records

LEMMA LoggedRecords ==
    ASSUME NEW b \in Shown, NEW type \in Types, NEW chunk \in Chunk
    PROVE  /\ BubbleLine(b) \in Records
           /\ Token("merge", type, <<chunk>>, FALSE) \in Records
           /\ Token("rawInput", "none", <<chunk>>, FALSE) \in Records
<1>1. BubbleLine(b) \in Records
  <2>1. BubbleLine(b) \in Tokens
    BY BubbleTypes, TokenTypes DEF BubbleLine
  <2>2. BubbleLine(b).kind = "bubble" /\ BubbleLine(b).type = b.type /\ BubbleLine(b).text = b.text
    BY DEF BubbleLine, Token
  <2> QED
    BY <2>1, <2>2, BubbleTypes DEF Records
<1>2. <<chunk>> \in Seq(Chunk)
  OBVIOUS
<1>3. Token("merge", type, <<chunk>>, FALSE) \in Records
  <2>1. Token("merge", type, <<chunk>>, FALSE) \in Tokens
    BY <1>2, TokenTypes
  <2>2. Token("merge", type, <<chunk>>, FALSE).kind = "merge"
    BY DEF Token
  <2> QED
    BY <2>1, <2>2 DEF Records
<1>4. Token("rawInput", "none", <<chunk>>, FALSE) \in Records
  <2>1. Token("rawInput", "none", <<chunk>>, FALSE) \in Tokens
    BY <1>2, TokenTypes
  <2>2. Token("rawInput", "none", <<chunk>>, FALSE).kind = "rawInput"
    BY DEF Token
  <2> QED
    BY <2>1, <2>2 DEF Records
<1> QED
  BY <1>1, <1>3, <1>4

LEMMA OtherRecords ==
    /\ Stats \in Records /\ Stats.kind = "stats"
    /\ Response \in Records /\ Response.kind = "response"
<1>1. Stats \in Tokens /\ Response \in Tokens
  BY TokenTypes, EmptySeq DEF Stats, Response
<1>2. Stats.kind = "stats" /\ Response.kind = "response"
  BY DEF Stats, Response, Token
<1> QED
  BY <1>1, <1>2 DEF Records

LEMMA Going ==
    ASSUME NEW w, Writers = {w}, pc \in [Writers -> Places], NEW from, NEW to \in Places,
           Goto(w, from, to)
    PROVE  pc[w] = from /\ pc'[w] = to /\ pc' \in [Writers -> Places]
  BY DEF Goto

(* A line that fits the memory is handed to the writer. *)
LEMMA LogKeeps ==
    ASSUME NEW w, OneWriter(w), LogInv(w), NEW r \in Records, Log(w, r),
           UNCHANGED <<exists, title, disk>>, mem' \in Seq(Shown), pending' \in BOOLEAN,
           running' \in BOOLEAN, chunks' \in [Writers -> 0 .. MaxChunks],
           exists => Matches(LoadLine(Load(file), r), mem')
                     /\ LoadLine(Load(file), r).title = title
    PROVE  LogInv(w)'
<1>1. LogTypes(w) /\ FileWhole(w) /\ Writers = {w} /\ w \in Writers
  BY DEF LogInv, OneWriter
<1>2. pc[w] = "idle" /\ pc'[w] = "data" /\ pc' \in [Writers -> Places]
  <2>1. Goto(w, "idle", "data")
    BY DEF Log
  <2>2. pc \in [Writers -> Places] /\ "data" \in Places
    BY <1>1 DEF LogTypes, Places
  <2> QED
    BY <1>1, <2>1, <2>2, Going
<1>3. /\ rec' \in [Writers -> Tokens] /\ rec'[w] = r /\ rest' = rest /\ offset' = offset
      /\ file' = file /\ onDisk' = onDisk
  <2>1. r \in Tokens
    BY RecordsTyped
  <2> QED
    BY <1>1, <2>1 DEF Log, LogTypes, disk
<1>4. LogTypes(w)'
  BY <1>1, <1>2, <1>3 DEF LogTypes
<1>5. FileWhole(w)'
  BY <1>1, <1>2, <1>3 DEF FileWhole
<1>6. InStep(w)' /\ Rewritten(w)' /\ Shortened(w)' /\ Removed(w)'
  BY <1>2 DEF InStep, Rewritten, Shortened, Removed, SyncedPlaces
<1>7. OneLineAhead(w)'
  <2>1. Load(file)' = Load(file)
    BY <1>3
  <2> QED
    BY <1>3, <2>1 DEF OneLineAhead
<1> QED
  BY <1>4, <1>5, <1>6, <1>7 DEF LogInv

(* A step that changes neither the file nor what the memory must match. *)
LEMMA SyncKeeps ==
    ASSUME NEW w, OneWriter(w), LogInv(w), UNCHANGED <<exists, disk, rec, rest, offset>>,
           NEW from \in {"idle", "arm", "finish"}, NEW to \in {"idle", "marshal"},
           pc[w] = from, pc'[w] = to, pc' \in [Writers -> Places],
           mem' \in Seq(Shown), title' \in 0 .. MaxTitles, pending' \in BOOLEAN,
           running' \in BOOLEAN, chunks' \in [Writers -> 0 .. MaxChunks],
           exists => Matches(Load(file), mem'),
           exists /\ to # "marshal" => Load(file).title = title'
    PROVE  LogInv(w)'
<1>1. LogTypes(w) /\ FileWhole(w) /\ Writers = {w} /\ w \in Writers
  BY DEF LogInv, OneWriter
<1>2. file' = file /\ onDisk' = onDisk /\ rec' = rec /\ rest' = rest /\ offset' = offset
  BY DEF disk
<1>3. LogTypes(w)'
  BY <1>1, <1>2 DEF LogTypes
<1>4. FileWhole(w)'
  BY <1>1, <1>2 DEF FileWhole
<1>5. OneLineAhead(w)' /\ Rewritten(w)' /\ Shortened(w)' /\ Removed(w)'
  BY DEF OneLineAhead, Rewritten, Shortened, Removed
<1>6. InStep(w)'
  <2>1. Load(file)' = Load(file)
    BY <1>2
  <2> QED
    BY <1>2, <2>1 DEF InStep
<1> QED
  BY <1>3, <1>4, <1>5, <1>6 DEF LogInv

(* What the invariant says of the file while nobody writes. *)
LEMMA IdleFacts ==
    ASSUME NEW w, OneWriter(w), LogInv(w), pc[w] \in {"idle", "arm", "finish", "marshal"}
    PROVE  /\ Whole(file) /\ Load(file) \in Loaded
           /\ exists => Matches(Load(file), mem)
           /\ exists /\ pc[w] # "marshal" => Load(file).title = title
<1>1. FileWhole(w) /\ InStep(w)
  BY DEF LogInv
<1>2. Whole(file)
  BY <1>1 DEF FileWhole
<1> QED
  BY <1>1, <1>2, FileTyped DEF InStep, SyncedPlaces

LEMMA LogFrom ==
    ASSUME NEW w, NEW r, Log(w, r) PROVE pc[w] = "idle"
  BY DEF Log, Goto

LEMMA KeptByAddBubble ==
    ASSUME NEW w, OneWriter(w), LogInv(w), NEW type \in Types, AddBubble(w, type)
    PROVE  LogInv(w)'
<1> DEFINE chunk == <<w, chunks[w] + 1>>
           merges == type \in Streamed /\ mem # <<>> /\ Last(mem).type = type
           counted == type = "llm" /\ pending
           bubble == Bubble(type, <<chunk>>, counted)
           r == Token("merge", type, <<chunk>>, FALSE)
<1>1. LogTypes(w) /\ Writers = {w} /\ w \in Writers
  BY DEF LogInv, OneWriter
<1>2. chunk \in Chunk /\ chunks' \in [Writers -> 0 .. MaxChunks]
  <2>1. /\ chunks \in [Writers -> 0 .. MaxChunks] /\ chunks[w] < MaxChunks
        /\ chunks' = [chunks EXCEPT ![w] = chunks[w] + 1]
    BY <1>1 DEF AddBubble, BringChunk, LogTypes
  <2>2. chunks[w] + 1 \in 1 .. MaxChunks /\ chunks[w] + 1 \in 0 .. MaxChunks
    BY <1>1, <2>1, ConvLogAssumption
  <2> QED
    BY <1>1, <2>1, <2>2 DEF Chunk
<1>3. UNCHANGED <<exists, title, disk>> /\ running' = running /\ exists
  BY DEF AddBubble
<1>4. mem \in Seq(Shown) /\ pending \in BOOLEAN /\ running \in BOOLEAN
  BY <1>1 DEF LogTypes
<1>5. CASE /\ merges
           /\ mem' = [mem EXCEPT ![Len(mem)].text = Append(@, chunk)]
           /\ Log(w, Token("merge", type, <<chunk>>, FALSE))
           /\ UNCHANGED pending
  <2>1. pc[w] \in {"idle", "arm", "finish", "marshal"}
    BY <1>5, LogFrom
  <2>2. Load(file) \in Loaded /\ Matches(Load(file), mem) /\ Load(file).title = title
    BY <1>3, <1>5, <2>1, IdleFacts, LogFrom
  <2>3. r.kind = "merge" /\ r.type = Last(mem).type /\ r.text = <<chunk>>
    BY <1>5 DEF Token
  <2>4. r \in Records
    <3>1. Bubble(type, <<chunk>>, FALSE) \in Shown
      <4>1. <<chunk>> \in Seq(Chunk) /\ <<chunk>> # <<>> /\ FALSE \in BOOLEAN
        BY <1>2
      <4> QED
        BY <4>1, IsShown
    <3> QED
      BY <1>2, <3>1, LoggedRecords
  <2>5. Log(w, r)
    BY <1>5
  <2> DEFINE longer == [mem EXCEPT ![Len(mem)].text = Append(@, chunk)]
             c == Load(file)
  <2>6. mem # <<>> /\ mem' = longer
    BY <1>5
  <2> HIDE DEF r, c
  <2>7. /\ longer \in Seq(Shown) /\ Matches(LoadLine(c, r), longer)
        /\ LoadLine(c, r).title = c.title
    <3>1. longer = Lengthened(mem, chunk)
      BY DEF Lengthened
    <3>2. c \in Loaded /\ Matches(c, mem)
      BY <2>2 DEF c
    <3>3. chunk \in Chunk
      BY <1>2
    <3> HIDE DEF longer, chunk, merges, counted, bubble
    <3> QED
      BY ONLY <1>4, <2>3, <2>6, <3>1, <3>2, <3>3, MergeMatches
  <2>8. pending' \in BOOLEAN /\ running' \in BOOLEAN /\ mem' \in Seq(Shown)
    BY <1>3, <1>4, <1>5, <2>6, <2>7
  <2>9. Matches(LoadLine(Load(file), r), mem') /\ LoadLine(Load(file), r).title = title
    BY <2>2, <2>6, <2>7 DEF c
  <2> QED
    BY <1>2, <1>3, <2>4, <2>5, <2>8, <2>9, LogKeeps
<1>6. CASE /\ ~merges
           /\ mem' = Append(mem, bubble)
           /\ Log(w, BubbleLine(bubble))
           /\ pending' = (pending /\ ~counted)
  <2>1. pc[w] \in {"idle", "arm", "finish", "marshal"}
    BY <1>6, LogFrom
  <2>2. Load(file) \in Loaded /\ Matches(Load(file), mem) /\ Load(file).title = title
    BY <1>3, <1>6, <2>1, IdleFacts, LogFrom
  <2>3. bubble \in Shown
    <3>1. <<chunk>> \in Seq(Chunk) /\ <<chunk>> # <<>> /\ counted \in BOOLEAN
      BY <1>2, <1>4
    <3> QED
      BY <3>1, IsShown
  <2> HIDE DEF bubble
  <2>4. BubbleLine(bubble) \in Records
    BY <1>2, <2>3, LoggedRecords
  <2>5. /\ mem' \in Seq(Shown) /\ Matches(LoadLine(Load(file), BubbleLine(bubble)), mem')
        /\ LoadLine(Load(file), BubbleLine(bubble)).title = title
    BY <1>4, <1>6, <2>2, <2>3, BubbleMatches
  <2>6. pending' \in BOOLEAN /\ running' \in BOOLEAN /\ Log(w, BubbleLine(bubble))
    BY <1>3, <1>4, <1>6
  <2> QED
    BY <1>2, <1>3, <2>4, <2>5, <2>6, LogKeeps
<1> QED
  BY <1>5, <1>6 DEF AddBubble

LEMMA KeptByRawInput ==
    ASSUME NEW w, OneWriter(w), LogInv(w), RawInput(w)
    PROVE  LogInv(w)'
<1>1. LogTypes(w) /\ Writers = {w} /\ w \in Writers
  BY DEF LogInv, OneWriter
<1>2. mem \in Seq(Shown) /\ pending \in BOOLEAN /\ running \in BOOLEAN
      /\ chunks \in [Writers -> 0 .. MaxChunks]
  BY <1>1 DEF LogTypes
<1>3. PICK i \in DOMAIN mem :
          /\ mem[i].type = "tool_request"
          /\ mem' = AttachTo(mem, mem[i].text[1])
          /\ Log(w, Token("rawInput", "none", <<mem[i].text[1]>>, FALSE))
  BY DEF RawInput
<1>4. UNCHANGED <<exists, title, disk, pending, running, chunks>> /\ exists
  BY DEF RawInput
<1> DEFINE id == mem[i].text[1]
           r == Token("rawInput", "none", <<id>>, FALSE)
<1>5. mem[i] \in Shown /\ id \in Chunk
  <2>1. mem[i] \in Shown
    BY <1>2, ShownTypes
  <2>2. mem[i].text \in Seq(Chunk) /\ mem[i].text # <<>>
    BY <2>1, BubbleTypes
  <2>3. 1 \in 1 .. Len(mem[i].text)
    BY <2>2, EmptySeq, LenProperties
  <2> QED
    BY <2>1, <2>2, <2>3, ElementOfSeq
<1>6. Log(w, r) /\ mem' = AttachTo(mem, id)
  BY <1>3
<1> HIDE DEF id
<1>7. r \in Records
  <2>1. mem[i].type \in Types
    BY <1>5, BubbleTypes
  <2> QED
    BY <1>5, <2>1, LoggedRecords
<1>8. Load(file) \in Loaded /\ Matches(Load(file), mem) /\ Load(file).title = title
  <2>1. pc[w] = "idle"
    BY <1>6, LogFrom
  <2> QED
    BY <1>4, <2>1, IdleFacts
<1> DEFINE c == Load(file)
<1>9. /\ AttachTo(mem, id) \in Seq(Shown) /\ Matches(LoadLine(c, r), AttachTo(mem, id))
      /\ LoadLine(c, r).title = c.title
  <2> HIDE DEF c
  <2>1. c \in Loaded /\ Matches(c, mem)
    BY <1>8 DEF c
  <2> QED
    BY <1>2, <2>1, AttachMatches
<1> HIDE DEF r
<1> QED
  BY <1>1, <1>2, <1>4, <1>6, <1>7, <1>8, <1>9, LogKeeps

LEMMA KeptByTokenStats ==
    ASSUME NEW w, OneWriter(w), LogInv(w), TokenStats(w)
    PROVE  LogInv(w)'
<1>1. LogTypes(w) /\ Writers = {w} /\ w \in Writers
  BY DEF LogInv, OneWriter
<1>2. mem \in Seq(Shown) /\ pending \in BOOLEAN /\ running \in BOOLEAN
      /\ chunks \in [Writers -> 0 .. MaxChunks]
  BY <1>1 DEF LogTypes
<1>3. /\ UNCHANGED <<exists, title, disk, mem, running, chunks>> /\ exists
      /\ pending' = TRUE /\ Log(w, Stats)
  BY DEF TokenStats
<1>4. Load(file) \in Loaded /\ Matches(Load(file), mem) /\ Load(file).title = title
  <2>1. pc[w] = "idle"
    BY <1>3, LogFrom
  <2> QED
    BY <1>3, <2>1, IdleFacts
<1>5. Matches(LoadLine(Load(file), Stats), mem) /\ LoadLine(Load(file), Stats).title = title
  BY <1>2, <1>4, OtherRecords, OtherMatches
<1> QED
  BY <1>2, <1>3, <1>5, OtherRecords, LogKeeps

LEMMA KeptByPromptResponse ==
    ASSUME NEW w, OneWriter(w), LogInv(w), PromptResponse(w)
    PROVE  LogInv(w)'
<1>1. LogTypes(w) /\ Writers = {w} /\ w \in Writers
  BY DEF LogInv, OneWriter
<1>2. mem \in Seq(Shown) /\ pending \in BOOLEAN /\ running \in BOOLEAN
      /\ chunks \in [Writers -> 0 .. MaxChunks]
  BY <1>1 DEF LogTypes
<1>3. /\ UNCHANGED <<exists, title, disk, mem, running, pending, chunks>>
      /\ Log(w, Response)
  BY DEF PromptResponse, memory
<1>4. /\ Load(file) \in Loaded
      /\ exists => Matches(Load(file), mem) /\ Load(file).title = title
  <2>1. pc[w] = "idle"
    BY <1>3, LogFrom
  <2> QED
    BY <2>1, IdleFacts
<1>5. exists => /\ Matches(LoadLine(Load(file), Response), mem)
                /\ LoadLine(Load(file), Response).title = title
  BY <1>2, <1>4, OtherRecords, OtherMatches
<1> QED
  BY <1>2, <1>3, <1>5, OtherRecords, LogKeeps

LEMMA KeptByAnswerAsk ==
    ASSUME NEW w, OneWriter(w), LogInv(w), AnswerAsk(w)
    PROVE  LogInv(w)'
<1>1. LogTypes(w) /\ Writers = {w} /\ w \in Writers
  BY DEF LogInv, OneWriter
<1>2. /\ mem \in Seq(Shown) /\ pending \in BOOLEAN /\ running \in BOOLEAN
      /\ chunks \in [Writers -> 0 .. MaxChunks] /\ title \in 0 .. MaxTitles
      /\ pc \in [Writers -> Places]
  BY <1>1 DEF LogTypes
<1>3. /\ UNCHANGED <<exists, title, pending, running, disk, chunks, pc, rec, rest, offset>>
      /\ exists /\ pc[w] = "idle" /\ pc'[w] = "idle"
  BY DEF AnswerAsk, control
<1>4. PICK i \in DOMAIN mem : mem[i].type = "ask" /\ mem' = [mem EXCEPT ![i].extra = TRUE]
  BY DEF AnswerAsk
<1>5. Matches(Load(file), mem) /\ Load(file).title = title
  BY <1>3, IdleFacts
<1>6. mem' \in Seq(Shown) /\ Matches(Load(file), mem')
  <2>1. i \in 1 .. Len(mem) /\ mem[i].type # "tool_request"
    BY <1>2, <1>4, ShownTypes
  <2> DEFINE other == [mem EXCEPT ![i].extra = TRUE]
  <2>2. other \in Seq(Shown) /\ Matches(Load(file), other)
    BY <1>2, <1>5, <2>1, ExtraMatches
  <2> QED
    BY <1>4, <2>2
<1> QED
  BY <1>2, <1>3, <1>5, <1>6, SyncKeeps

(* The largest of some numbers is one of them. *)
LEMMA MaxIsIn ==
    ASSUME NEW N \in Nat, NEW S \in SUBSET (1 .. N), S # {}
    PROVE  Max(S) \in S
<1> DEFINE T == {N - x : x \in S}
<1>1. T \in SUBSET Nat /\ T # {}
  <2>1. \A x \in S : N - x \in Nat /\ N - x \in T
    OBVIOUS
  <2> QED
    BY <2>1
<1>2. PICK m \in T : \A y \in T : m <= y
  <2> HIDE DEF T
  <2> QED
    BY <1>1, LeastElement
<1>3. PICK x \in S : m = N - x
  BY <1>2
<1>4. \A y \in S : x >= y
  <2> SUFFICES ASSUME NEW y \in S PROVE x >= y
    OBVIOUS
  <2>1. N - x <= N - y
    BY <1>2, <1>3
  <2>2. x \in Nat /\ y \in Nat
    OBVIOUS
  <2> QED
    BY ONLY <2>1, <2>2, N \in Nat
<1> QED
  BY <1>4 DEF Max

LEMMA KeptByFinishTurn ==
    ASSUME NEW w, OneWriter(w), LogInv(w), FinishTurn(w)
    PROVE  LogInv(w)'
<1>1. LogTypes(w) /\ Writers = {w} /\ w \in Writers
  BY DEF LogInv, OneWriter
<1>2. /\ mem \in Seq(Shown) /\ pending \in BOOLEAN /\ running \in BOOLEAN
      /\ chunks \in [Writers -> 0 .. MaxChunks] /\ title \in 0 .. MaxTitles
      /\ pc \in [Writers -> Places]
  BY <1>1 DEF LogTypes
<1>3. /\ UNCHANGED <<exists, title, disk, chunks, rec, rest, offset>>
      /\ running' \in BOOLEAN /\ pending' \in BOOLEAN
  BY <1>2 DEF FinishTurn
<1>4. pc[w] = "finish" /\ pc'[w] = "idle" /\ pc' \in [Writers -> Places]
  <2>1. Goto(w, "finish", "idle") /\ "idle" \in Places
    BY DEF FinishTurn, Places
  <2> QED
    BY <1>1, <1>2, <2>1, Going
<1>5. exists => Matches(Load(file), mem) /\ Load(file).title = title
  BY <1>4, IdleFacts
<1>6. mem' \in Seq(Shown) /\ (exists => Matches(Load(file), mem'))
  <2>1. CASE exists /\ pending /\ \E i \in DOMAIN mem : mem[i].type = "llm"
    <3> DEFINE I == {i \in 1 .. Len(mem) : mem[i].type = "llm"}
               last == Max(I)
               other == [mem EXCEPT ![last].extra = TRUE]
    <3>1. Len(mem) \in Nat /\ I \in SUBSET (1 .. Len(mem)) /\ I # {}
      BY <1>2, <2>1, ShownTypes
    <3>2. last \in I
      <4> HIDE DEF I
      <4> QED
        BY <3>1, MaxIsIn
    <3>3. SelectLastInSeq(mem, LAMBDA b : b.type = "llm") = last
      BY <3>1 DEF SelectLastInSeq
    <3>4. mem' = other
      BY <2>1, <3>3 DEF FinishTurn
    <3>5. last \in 1 .. Len(mem) /\ mem[last].type # "tool_request"
      BY <3>2
    <3> HIDE DEF last
    <3>6. other \in Seq(Shown) /\ Matches(Load(file), other)
      BY <1>2, <1>5, <2>1, <3>5, ExtraMatches
    <3> QED
      BY <3>4, <3>6
  <2>2. CASE ~(exists /\ pending /\ \E i \in DOMAIN mem : mem[i].type = "llm")
    <3>1. mem' = mem
      BY <2>2 DEF FinishTurn
    <3> QED
      BY <1>2, <1>5, <3>1
  <2> QED
    BY <2>1, <2>2
<1> QED
  BY <1>2, <1>3, <1>4, <1>5, <1>6, SyncKeeps

LEMMA KeptByCancel ==
    ASSUME NEW w, OneWriter(w), LogInv(w), Cancel
    PROVE  LogInv(w)'
<1>1. running' \in BOOLEAN
      /\ UNCHANGED <<exists, mem, title, pending, onDisk, file, pc, rec, rest, offset, chunks>>
  BY DEF Cancel, disk, control
<1>2. LogTypes(w)'
  BY <1>1 DEF LogInv, LogTypes
<1>3. FileWhole(w)' /\ InStep(w)' /\ OneLineAhead(w)' /\ Rewritten(w)' /\ Shortened(w)'
      /\ Removed(w)'
  BY <1>1 DEF LogInv, FileWhole, InStep, OneLineAhead, Rewritten, Shortened, Removed
<1> QED
  BY <1>2, <1>3 DEF LogInv

LEMMA KeptByRename ==
    ASSUME NEW w, OneWriter(w), LogInv(w), Rename(w)
    PROVE  LogInv(w)'
<1>1. LogTypes(w) /\ Writers = {w} /\ w \in Writers
  BY DEF LogInv, OneWriter
<1>2. /\ mem \in Seq(Shown) /\ pending \in BOOLEAN /\ running \in BOOLEAN
      /\ chunks \in [Writers -> 0 .. MaxChunks] /\ title \in 0 .. MaxTitles
      /\ pc \in [Writers -> Places]
  BY <1>1 DEF LogTypes
<1>3. /\ UNCHANGED <<exists, mem, pending, running, disk, chunks, rec, rest, offset>>
      /\ title' = title + 1 /\ title < MaxTitles
  BY DEF Rename
<1>4. title' \in 0 .. MaxTitles
  BY <1>2, <1>3, ConvLogAssumption
<1>5. pc[w] = "idle" /\ pc'[w] = "marshal" /\ pc' \in [Writers -> Places]
  <2>1. Goto(w, "idle", "marshal") /\ "marshal" \in Places
    BY DEF Rename, Places
  <2> QED
    BY <1>1, <1>2, <2>1, Going
<1>6. exists => Matches(Load(file), mem')
  BY <1>3, <1>5, IdleFacts
<1> QED
  BY <1>2, <1>3, <1>4, <1>5, <1>6, SyncKeeps

LEMMA KeptByArmRunning ==
    ASSUME NEW w, OneWriter(w), LogInv(w), ArmRunning(w)
    PROVE  LogInv(w)'
<1>1. LogTypes(w) /\ Writers = {w} /\ w \in Writers
  BY DEF LogInv, OneWriter
<1>2. /\ mem \in Seq(Shown) /\ pending \in BOOLEAN
      /\ chunks \in [Writers -> 0 .. MaxChunks] /\ title \in 0 .. MaxTitles
      /\ pc \in [Writers -> Places]
  BY <1>1 DEF LogTypes
<1>3. /\ UNCHANGED <<exists, mem, title, pending, disk, chunks, rec, rest, offset>>
      /\ running' \in BOOLEAN
  BY DEF ArmRunning
<1>4. pc[w] = "arm" /\ pc'[w] = "idle" /\ pc' \in [Writers -> Places]
  <2>1. Goto(w, "arm", "idle") /\ "idle" \in Places
    BY DEF ArmRunning, Places
  <2> QED
    BY <1>1, <1>2, <2>1, Going
<1>5. exists => Matches(Load(file), mem') /\ Load(file).title = title'
  BY <1>3, <1>4, IdleFacts
<1> QED
  BY <1>2, <1>3, <1>4, <1>5, SyncKeeps

LEMMA KeptByMarshal ==
    ASSUME NEW w, OneWriter(w), LogInv(w), Marshal(w)
    PROVE  LogInv(w)'
<1>1. LogTypes(w) /\ FileWhole(w) /\ Writers = {w} /\ w \in Writers
  BY DEF LogInv, OneWriter
<1>2. pc[w] = "marshal" /\ pc'[w] = "data" /\ pc' \in [Writers -> Places]
  <2>1. Goto(w, "marshal", "data") /\ "data" \in Places
    BY DEF Marshal, Places
  <2> QED
    BY <1>1, <2>1, Going DEF LogTypes
<1>3. title \in 0 .. MaxTitles /\ rec \in [Writers -> Tokens] /\ mem \in Seq(Shown)
  BY <1>1 DEF LogTypes
<1> DEFINE r == Created(title)
<1>4. r \in Records /\ r.kind = "created" /\ r.title = title
  BY <1>3, CreatedRecord
<1> HIDE DEF r
<1>5. /\ UNCHANGED <<exists, mem, title, pending, running, onDisk, file, rest, offset, chunks>>
      /\ rec' = [rec EXCEPT ![w] = r]
  BY DEF Marshal, memory, disk, r
<1>6. rec' \in [Writers -> Tokens] /\ rec'[w] = r
  BY <1>1, <1>3, <1>4, <1>5, RecordsTyped
<1>7. LogTypes(w)'
  BY <1>1, <1>2, <1>4, <1>5, <1>6 DEF LogTypes
<1>8. FileWhole(w)'
  BY <1>1, <1>2, <1>5 DEF FileWhole
<1>9. InStep(w)' /\ Rewritten(w)' /\ Shortened(w)' /\ Removed(w)'
  BY <1>2 DEF InStep, Rewritten, Shortened, Removed, SyncedPlaces
<1>10. OneLineAhead(w)'
  <2>1. exists => /\ Matches(LoadLine(Load(file), r), mem)
                  /\ LoadLine(Load(file), r).title = title
    BY <1>2, <1>3, <1>4, IdleFacts, OtherMatches
  <2>2. Load(file)' = Load(file)
    BY <1>5
  <2> QED
    BY <1>5, <1>6, <2>1, <2>2 DEF OneLineAhead
<1> QED
  BY <1>7, <1>8, <1>9, <1>10 DEF LogInv

LEMMA KeptByWriteData ==
    ASSUME NEW w, OneWriter(w), LogInv(w), WriteData(w)
    PROVE  LogInv(w)'
<1>1. LogTypes(w) /\ FileWhole(w) /\ OneLineAhead(w) /\ Writers = {w} /\ w \in Writers
  BY DEF LogInv, OneWriter
<1>2. pc[w] = "data" /\ pc'[w] = "newline" /\ pc' \in [Writers -> Places]
  <2>1. Goto(w, "data", "newline") /\ "newline" \in Places
    BY DEF WriteData, Places
  <2> QED
    BY <1>1, <2>1, Going DEF LogTypes
<1>3. /\ UNCHANGED <<exists, mem, title, pending, running, rec, rest, offset, chunks>>
      /\ onDisk' = TRUE /\ file' = Append(file, rec[w])
  BY DEF WriteData, memory
<1>4. Whole(file) /\ rec[w] \in Records
  BY <1>1, <1>2 DEF FileWhole, LogTypes
<1>5. Unended(Append(file, rec[w])) /\ Load(Append(file, rec[w])) = LoadLine(Load(file), rec[w])
  BY <1>4, TakesRecord
<1>6. Unended(file)' /\ Load(file)' = LoadLine(Load(file), rec[w])
  BY <1>3, <1>5
<1>7. LogTypes(w)'
  BY <1>1, <1>2, <1>3, <1>4 DEF LogTypes
<1>8. FileWhole(w)'
  BY <1>2, <1>6 DEF FileWhole
<1>9. OneLineAhead(w)' /\ Rewritten(w)' /\ Shortened(w)' /\ Removed(w)'
  BY <1>2 DEF OneLineAhead, Rewritten, Shortened, Removed
<1>10. InStep(w)'
  <2>1. exists => /\ Matches(LoadLine(Load(file), rec[w]), mem)
                  /\ LoadLine(Load(file), rec[w]).title = title
    BY <1>1, <1>2 DEF OneLineAhead
  <2> QED
    BY <1>3, <1>6, <2>1 DEF InStep
<1> QED
  BY <1>7, <1>8, <1>9, <1>10 DEF LogInv

LEMMA KeptByWriteNewline ==
    ASSUME NEW w, OneWriter(w), LogInv(w), WriteNewline(w)
    PROVE  LogInv(w)'
<1>1. LogTypes(w) /\ FileWhole(w) /\ InStep(w) /\ Writers = {w} /\ w \in Writers
  BY DEF LogInv, OneWriter
<1> DEFINE next == AfterLine(rec[w])
<1>2. next \in {"idle", "arm", "finish"}
  BY DEF AfterLine
<1> HIDE DEF next
<1>3. pc[w] = "newline" /\ pc'[w] = next /\ pc' \in [Writers -> Places]
  <2>1. Goto(w, "newline", next) /\ next \in Places
    BY <1>2 DEF WriteNewline, Places, next
  <2> QED
    BY <1>1, <2>1, Going DEF LogTypes
<1>4. /\ UNCHANGED <<exists, mem, title, pending, running, onDisk, rest, offset, chunks>>
      /\ rec' = [rec EXCEPT ![w] = NewLine] /\ file' = Append(file, NewLine)
  BY DEF WriteNewline, memory
<1>5. rec' \in [Writers -> Tokens]
  BY <1>1, <1>4, NewLineTyped DEF LogTypes
<1>6. Unended(file)
  BY <1>1, <1>3 DEF FileWhole
<1>7. Whole(Append(file, NewLine)) /\ Load(Append(file, NewLine)) = Load(file)
  BY <1>6, TakesNewLine
<1>8. Whole(file)' /\ Load(file)' = Load(file)
  BY <1>4, <1>7
<1>9. LogTypes(w)'
  BY <1>1, <1>2, <1>3, <1>4, <1>5 DEF LogTypes
<1>10. FileWhole(w)'
  BY <1>2, <1>3, <1>8 DEF FileWhole
<1>11. OneLineAhead(w)' /\ Rewritten(w)' /\ Shortened(w)' /\ Removed(w)'
  BY <1>2, <1>3 DEF OneLineAhead, Rewritten, Shortened, Removed
<1>12. InStep(w)'
  <2>1. exists => Matches(Load(file), mem) /\ Load(file).title = title
    BY <1>1, <1>3 DEF InStep, SyncedPlaces
  <2> QED
    BY <1>4, <1>8, <2>1 DEF InStep
<1> QED
  BY <1>9, <1>10, <1>11, <1>12 DEF LogInv

(* Undo and trim leave bubbles the memory had. *)
LEMMA ShorteningKeeps ==
    ASSUME NEW w, OneWriter(w), LogInv(w), Goto(w, "idle", "truncate"),
           UNCHANGED <<exists, title, pending, running, disk, rec, rest, offset, chunks>>,
           mem' \in Seq(Shown),
           \A j \in 1 .. Len(mem') : \E i \in 1 .. Len(mem) : mem'[j] = mem[i]
    PROVE  LogInv(w)'
<1>1. LogTypes(w) /\ FileWhole(w) /\ InStep(w) /\ Writers = {w} /\ w \in Writers
  BY DEF LogInv, OneWriter
<1>2. pc[w] = "idle" /\ pc'[w] = "truncate" /\ pc' \in [Writers -> Places]
  <2>1. "truncate" \in Places
    BY DEF Places
  <2> QED
    BY <1>1, <2>1, Going DEF LogTypes
<1>3. UNCHANGED <<exists, title, pending, running, onDisk, file, rec, rest, offset, chunks>>
  BY DEF disk
<1>4. LogTypes(w)'
  BY <1>1, <1>2, <1>3 DEF LogTypes
<1>5. FileWhole(w)'
  BY <1>1, <1>2, <1>3 DEF FileWhole
<1>6. InStep(w)' /\ OneLineAhead(w)' /\ Rewritten(w)' /\ Removed(w)'
  BY <1>2 DEF InStep, OneLineAhead, Rewritten, Removed, SyncedPlaces
<1>7. Shortened(w)'
  <2>1. mem \in Seq(Shown)
    BY <1>1 DEF LogTypes
  <2>2. exists => ChunksOf(mem') \subseteq ChunksOf(Load(file).messages)
    BY <1>2, <2>1, IdleFacts, SubText
  <2>3. ChunksOf(mem)' = ChunksOf(mem') /\ Load(file)' = Load(file)
    BY <1>3
  <2> QED
    BY <1>3, <2>2, <2>3 DEF Shortened
<1> QED
  BY <1>4, <1>5, <1>6, <1>7 DEF LogInv

LEMMA KeptByUndo ==
    ASSUME NEW w, OneWriter(w), LogInv(w), Undo(w)
    PROVE  LogInv(w)'
<1>1. mem \in Seq(Shown)
  BY DEF LogInv, LogTypes
<1>2. PICK i \in DOMAIN mem : mem' = SubSeq(mem, 1, i - 1)
  BY DEF Undo
<1>3. Len(mem) \in Nat /\ i \in 1 .. Len(mem) /\ \A j \in 1 .. Len(mem) : mem[j] \in Shown
  BY <1>1, <1>2, ShownTypes
<1> DEFINE n == i - 1
<1>4. n \in Nat /\ n <= Len(mem)
  BY <1>3
<1>5. SubSeq(mem, 1, n) = [j \in 1 .. n |-> mem[j]]
  BY <1>1, <1>4
<1>6. \A j \in 1 .. n : j \in 1 .. Len(mem)
  BY <1>3
<1> HIDE DEF n
<1>7. mem' \in [1 .. n -> Shown] /\ \A j \in 1 .. n : mem'[j] = mem[j]
  <2>1. mem' = [j \in 1 .. n |-> mem[j]]
    BY <1>2, <1>5 DEF n
  <2> QED
    BY <1>3, <1>6, <2>1
<1>8. mem' \in Seq(Shown) /\ Len(mem') = n
  <2>1. mem' \in Seq(Shown) /\ DOMAIN mem' = 1 .. n
    BY <1>4, <1>7
  <2> QED
    BY <1>4, <2>1, LenProperties
<1>9. \A j \in 1 .. Len(mem') : \E k \in 1 .. Len(mem) : mem'[j] = mem[k]
  BY <1>6, <1>7, <1>8
<1>10. /\ Goto(w, "idle", "truncate")
       /\ UNCHANGED <<exists, title, pending, running, disk, rec, rest, offset, chunks>>
  BY DEF Undo
<1> QED
  BY <1>8, <1>9, <1>10, ShorteningKeeps

LEMMA KeptByTrim ==
    ASSUME NEW w, OneWriter(w), LogInv(w), Trim(w)
    PROVE  LogInv(w)'
<1>1. mem \in Seq(Shown)
  BY DEF LogInv, LogTypes
<1>2. mem' = WithoutTools(mem)
  BY DEF Trim
<1>3. /\ mem' \in Seq(Shown)
      /\ \A j \in 1 .. Len(mem') : \E i \in 1 .. Len(mem) : mem'[j] = mem[i]
  BY <1>1, <1>2, WithoutToolsProperties
<1>4. /\ Goto(w, "idle", "truncate")
      /\ UNCHANGED <<exists, title, pending, running, disk, rec, rest, offset, chunks>>
  BY DEF Trim
<1> QED
  BY <1>3, <1>4, ShorteningKeeps

LEMMA KeptByDelete ==
    ASSUME NEW w, OneWriter(w), LogInv(w), Delete(w)
    PROVE  LogInv(w)'
<1>1. LogTypes(w) /\ FileWhole(w) /\ Writers = {w} /\ w \in Writers
  BY DEF LogInv, OneWriter
<1>2. pc[w] = "idle" /\ pc'[w] = "remove" /\ pc' \in [Writers -> Places]
  <2>1. Goto(w, "idle", "remove") /\ "remove" \in Places
    BY DEF Delete, Places
  <2> QED
    BY <1>1, <2>1, Going DEF LogTypes
<1>3. /\ UNCHANGED <<mem, title, pending, running, onDisk, file, rec, rest, offset, chunks>>
      /\ exists' = FALSE
  BY DEF Delete, disk
<1>4. LogTypes(w)'
  BY <1>1, <1>2, <1>3 DEF LogTypes
<1>5. FileWhole(w)'
  BY <1>1, <1>2, <1>3 DEF FileWhole
<1>6. InStep(w)' /\ OneLineAhead(w)' /\ Rewritten(w)' /\ Shortened(w)' /\ Removed(w)'
  BY <1>2, <1>3 DEF InStep, OneLineAhead, Rewritten, Shortened, Removed
<1> QED
  BY <1>4, <1>5, <1>6 DEF LogInv

LEMMA KeptByRemoveFile ==
    ASSUME NEW w, OneWriter(w), LogInv(w), RemoveFile(w)
    PROVE  LogInv(w)'
<1>1. LogTypes(w) /\ Removed(w) /\ Writers = {w} /\ w \in Writers
  BY DEF LogInv, OneWriter
<1>2. /\ UNCHANGED <<exists, mem, title, pending, running, rest, offset, chunks>>
      /\ onDisk' = FALSE /\ file' = <<>> /\ pc[w] = "remove"
      /\ pc' = [v \in Writers |->
                 IF v = w \/ pc[v] = "rewrite" THEN "idle"
                 ELSE IF pc[v] = "newline" THEN AfterLine(rec[v]) ELSE pc[v]]
      /\ rec' = [v \in Writers |-> IF pc[v] = "newline" THEN NewLine ELSE rec[v]]
  BY DEF RemoveFile, memory
<1>3. pc' \in [Writers -> Places] /\ pc'[w] = "idle"
  <2>1. pc' = [v \in Writers |-> "idle"] /\ "idle" \in Places
    BY <1>1, <1>2 DEF Places
  <2> QED
    BY <1>1, <2>1
<1>4. rec' \in [Writers -> Tokens]
  BY <1>1, <1>2, NewLineTyped DEF LogTypes
<1>5. LogTypes(w)'
  BY <1>1, <1>2, <1>3, <1>4 DEF LogTypes
<1>6. FileWhole(w)'
  BY <1>2, <1>3, EmptyFile DEF FileWhole
<1>7. InStep(w)' /\ OneLineAhead(w)' /\ Rewritten(w)' /\ Shortened(w)' /\ Removed(w)'
  <2>1. exists' = FALSE
    BY <1>1, <1>2 DEF Removed, LogTypes
  <2> QED
    BY <1>3, <2>1 DEF InStep, OneLineAhead, Rewritten, Shortened, Removed
<1> QED
  BY <1>5, <1>6, <1>7 DEF LogInv

LEMMA FullProperties ==
    ASSUME NEW t \in 0 .. MaxTitles, NEW ms \in Seq(Shown), NEW full, full = Full(t, ms)
    PROVE  /\ full \in Seq(Records) /\ Len(full) = Len(ms) + 1
           /\ full[1] = Created(t)
           /\ \A i \in 1 .. Len(ms) : full[i + 1] = BubbleLine(ms[i])
<1> DEFINE n == Len(ms)
           one == <<Created(t)>>
           lines == [i \in DOMAIN ms |-> BubbleLine(ms[i])]
<1>1. n \in Nat /\ DOMAIN ms = 1 .. n /\ \A i \in 1 .. n : ms[i] \in Shown
  BY ShownTypes
<1>2. \A i \in 1 .. n : BubbleLine(ms[i]) \in Records
  <2> SUFFICES ASSUME NEW i \in 1 .. n PROVE BubbleLine(ms[i]) \in Records
    OBVIOUS
  <2>1. ms[i] \in Shown
    BY <1>1
  <2>2. PICK type \in Types : TRUE
    BY <2>1, BubbleTypes
  <2>3. ms[i].text \in Seq(Chunk) /\ ms[i].text # <<>>
    BY <2>1, BubbleTypes
  <2>4. PICK chunk \in Chunk : TRUE
    <3>1. 1 \in 1 .. Len(ms[i].text)
      BY <2>3, EmptySeq, LenProperties
    <3> QED
      BY <2>3, <3>1, ElementOfSeq
  <2> QED
    BY <2>1, LoggedRecords
<1>3. lines \in [1 .. n -> Records] /\ \A i \in 1 .. n : lines[i] = BubbleLine(ms[i])
  BY <1>1, <1>2
<1>4. one \in Seq(Records) /\ Len(one) = 1 /\ one[1] = Created(t)
  BY CreatedRecord
<1>5. full = one \o lines
  BY DEF Full
<1> HIDE DEF one, lines
<1>6. lines \in Seq(Records) /\ Len(lines) = n
  <2>1. lines \in Seq(Records) /\ DOMAIN lines = 1 .. n
    BY <1>1, <1>3
  <2> QED
    BY <1>1, <2>1, LenProperties
<1>7. /\ full \in Seq(Records) /\ Len(full) = 1 + n
      /\ \A i \in 1 .. 1 + n : full[i] = IF i <= 1 THEN one[i] ELSE lines[i - 1]
  <2> DEFINE a == Len(one)
             b == Len(lines)
  <2>1. one \in Seq(Records) /\ lines \in Seq(Records)
    BY <1>4, <1>6
  <2>2. /\ full \in Seq(Records) /\ Len(full) = a + b
        /\ \A i \in 1 .. a + b : full[i] = IF i <= a THEN one[i] ELSE lines[i - a]
    BY ONLY <1>5, <2>1, ConcatProperties
  <2>3. a = 1 /\ b = n
    BY <1>4, <1>6
  <2> HIDE DEF a, b, n
  <2> QED
    BY ONLY <2>2, <2>3
<1> HIDE DEF n
<1>8. 1 + n = n + 1 /\ 1 \in 1 .. 1 + n
      /\ \A i \in 1 .. n : i + 1 \in 1 .. 1 + n /\ ~(i + 1 <= 1) /\ (i + 1) - 1 = i
  BY ONLY <1>1
<1>9. full[1] = Created(t)
  BY ONLY <1>4, <1>7, <1>8
<1>10. \A i \in 1 .. n : full[i + 1] = BubbleLine(ms[i])
  <2> SUFFICES ASSUME NEW i \in 1 .. n PROVE full[i + 1] = BubbleLine(ms[i])
    OBVIOUS
  <2>1. i + 1 \in 1 .. 1 + n /\ ~(i + 1 <= 1) /\ (i + 1) - 1 = i
    BY ONLY <1>8, i \in 1 .. n
  <2> QED
    BY ONLY <1>3, <1>7, <2>1, i \in 1 .. n
<1> QED
  BY <1>7, <1>8, <1>9, <1>10 DEF n

LEMMA KeptByTruncate ==
    ASSUME NEW w, OneWriter(w), LogInv(w), Truncate(w)
    PROVE  LogInv(w)'
<1>1. LogTypes(w) /\ Writers = {w} /\ w \in Writers
  BY DEF LogInv, OneWriter
<1>2. pc[w] = "truncate" /\ pc'[w] = "rewrite" /\ pc' \in [Writers -> Places]
  <2>1. Goto(w, "truncate", "rewrite") /\ "rewrite" \in Places
    BY DEF Truncate, Places
  <2> QED
    BY <1>1, <2>1, Going DEF LogTypes
<1> DEFINE full == Full(title, mem)
<1>3. /\ UNCHANGED <<exists, mem, title, pending, running, rec, chunks>>
      /\ onDisk' = TRUE /\ file' = <<>>
      /\ rest' = [rest EXCEPT ![w] = full] /\ offset' = [offset EXCEPT ![w] = 0]
  BY DEF Truncate, memory, Full
<1>4. mem \in Seq(Shown) /\ title \in 0 .. MaxTitles
      /\ rest \in [Writers -> Seq(Records)] /\ offset \in [Writers -> Nat]
  BY <1>1 DEF LogTypes
<1>5. full \in Seq(Records) /\ Len(full) = Len(mem) + 1 /\ Len(mem) \in Nat
  BY <1>4, FullProperties, LenProperties
<1>6. Full(title, mem)' = full
  BY <1>3 DEF Full
<1> HIDE DEF full
<1>7. /\ rest' \in [Writers -> Seq(Records)] /\ offset' \in [Writers -> Nat]
      /\ rest'[w] = full /\ offset'[w] = 0
  BY <1>1, <1>3, <1>4, <1>5
<1>8. LogTypes(w)'
  BY <1>1, <1>2, <1>3, <1>7 DEF LogTypes
<1>9. FileWhole(w)'
  BY <1>2, <1>3, EmptyFile DEF FileWhole
<1>10. InStep(w)' /\ OneLineAhead(w)' /\ Shortened(w)' /\ Removed(w)'
  BY <1>2 DEF InStep, OneLineAhead, Shortened, Removed, SyncedPlaces
<1>11. Rewritten(w)'
  <2>1. Len(<<>>) = 0 /\ Parsed(<<>>) = <<>> /\ Load(<<>>) = NothingLoaded
    BY EmptyFile, EmptySeq
  <2>2. \A i \in 1 .. Len(full) : full[i] = full[0 + i]
    BY <1>5
  <2>3. Copied(<<>>, title, mem, full)
    BY <1>5, <2>1, <2>2 DEF Copied, full
  <2>4. Copied(file, title, mem, rest[w])' = Copied(<<>>, title, mem, full)
    BY <1>3, <1>7
  <2>5. offset'[w] = Len(file')
    BY <1>3, <1>7, <2>1
  <2> QED
    BY <2>3, <2>4, <2>5 DEF Rewritten
<1> QED
  BY <1>8, <1>9, <1>10, <1>11 DEF LogInv

(* One line is copied: then one more of the lines is in the file, or all are, and
   the file reads as the memory. *)
LEMMA CopyOne ==
    ASSUME NEW f, Whole(f), NEW t \in 0 .. MaxTitles, NEW ms \in Seq(Shown),
           NEW lines \in Seq(Records), Copied(f, t, ms, lines),
           NEW r, r = Head(lines), NEW g, g = Append(Append(f, r), NewLine)
    PROVE  /\ r \in Records /\ Whole(g) /\ Len(g) = Len(f) + 2
           /\ Len(lines) = 1 => Matches(Load(g), ms) /\ Load(g).title = t
           /\ Len(lines) # 1 => Copied(g, t, ms, Tail(lines))
<1> DEFINE n == Len(Parsed(f))
           m == Len(ms)
           full == Full(t, ms)
           c == Load(f)
           d == Load(g)
<1>1. /\ n \in Nat /\ m \in Nat /\ n <= m /\ Len(lines) = m + 1 - n
      /\ Load(f) \in Loaded /\ f \in Seq(Tokens) /\ Parsed(f) \in Seq(Records)
  BY FileTyped, ShownTypes DEF Copied
<1>2. /\ \A i \in 1 .. Len(lines) : lines[i] = full[n + i]
      /\ n = 0 => c = NothingLoaded
      /\ n > 0 => /\ c.title = t /\ c.pending = FALSE /\ Len(c.messages) = n - 1
                  /\ \A i \in 1 .. n - 1 : c.messages[i] = ms[i]
  BY DEF Copied
<1>3. /\ full \in Seq(Records) /\ Len(full) = m + 1 /\ full[1] = Created(t)
      /\ \A i \in 1 .. m : full[i + 1] = BubbleLine(ms[i])
  BY FullProperties
<1> HIDE DEF full, n, m
<1>4. lines # <<>> /\ Len(lines) \in Nat /\ 1 \in 1 .. Len(lines)
  <2>1. Len(lines) \in Nat /\ 1 \in 1 .. Len(lines)
    BY ONLY <1>1
  <2> QED
    BY <2>1, EmptySeq
<1>5. r = lines[1] /\ r = full[n + 1] /\ r \in Records
  BY <1>2, <1>4, ElementOfSeq
<1>6. /\ Unended(Append(f, r)) /\ Parsed(Append(f, r)) = Append(Parsed(f), r)
      /\ Load(Append(f, r)) = LoadLine(c, r)
  BY <1>5, TakesRecord
<1>7. Whole(g) /\ Parsed(g) = Append(Parsed(f), r) /\ d = LoadLine(c, r)
  BY <1>6, TakesNewLine
<1>8. Len(Parsed(g)) = n + 1
  BY <1>1, <1>5, <1>7, AppendProperties DEF n
<1>9. Len(g) = Len(f) + 2
  <2>1. Len(g) = 2 * (n + 1) /\ Len(f) = 2 * n
    BY <1>7, <1>8 DEF Whole, n
  <2> QED
    BY ONLY <1>1, <2>1
<1> HIDE DEF c, d
<1>10. /\ d.title = t /\ d.pending = FALSE /\ Len(d.messages) = n
       /\ \A i \in 1 .. n : d.messages[i] = ms[i]
  <2>1. CASE n = 0
    <3>1. r = Created(t) /\ r.kind = "created" /\ r.title = t
      BY <1>3, <1>5, <2>1, CreatedRecord
    <3>2. c = NothingLoaded /\ c \in Loaded
      BY <1>1, <1>2, <2>1 DEF c
    <3>3. c.messages = <<>> /\ c.pending = FALSE
      BY <3>2 DEF NothingLoaded
    <3>4. d.messages = c.messages /\ d.title = t /\ d.pending = c.pending
      BY <1>7, <3>1, <3>2, LoadOther
    <3> QED
      BY <2>1, <3>3, <3>4
  <2>2. CASE n # 0
    <3>1. n > 0 /\ n \in 1 .. m /\ n + 1 \in Nat
      BY ONLY <1>1, <2>2
    <3>2. r = BubbleLine(ms[n]) /\ ms[n] \in Shown
      BY <1>3, <1>5, <3>1, ShownTypes DEF m
    <3>3. /\ c \in Loaded /\ c.title = t /\ c.pending = FALSE /\ Len(c.messages) = n - 1
          /\ \A i \in 1 .. n - 1 : c.messages[i] = ms[i]
      BY <1>1, <1>2, <3>1 DEF c
    <3>4. c.messages \in Seq(Shown) /\ Matches(c, c.messages)
      BY <3>3, LoadedTypes, LoadedMatchesItself
    <3>5. d.messages = Append(c.messages, ms[n]) /\ d.title = t /\ d.pending = FALSE
      <4> DEFINE b == ms[n]
                 ms2 == c.messages
      <4>1. b \in Shown /\ ms2 \in Seq(Shown) /\ Matches(c, ms2) /\ c \in Loaded /\ ~c.pending
        BY <3>2, <3>3, <3>4
      <4> HIDE DEF b, ms2
      <4>2. ~c.pending => /\ LoadLine(c, BubbleLine(b)).messages = Append(c.messages, b)
                          /\ LoadLine(c, BubbleLine(b)).pending = FALSE
        BY ONLY <4>1, BubbleMatches
      <4>3. LoadLine(c, BubbleLine(b)).title = c.title
        BY ONLY <4>1, BubbleMatches
      <4>4. d = LoadLine(c, BubbleLine(b))
        BY <1>7, <3>2 DEF b
      <4> QED
        BY <3>3, <4>1, <4>2, <4>3, <4>4 DEF b
    <3> DEFINE k == Len(c.messages)
    <3>6. /\ Len(d.messages) = k + 1 /\ d.messages[k + 1] = ms[n]
          /\ \A i \in 1 .. k : d.messages[i] = c.messages[i]
      BY <3>2, <3>4, <3>5, Appended
    <3>7. k = n - 1
      BY <3>3
    <3> HIDE DEF k
    <3>8. k + 1 = n /\ \A i \in 1 .. n : i = n \/ i \in 1 .. k
      BY ONLY <3>1, <3>7, <1>1
    <3>9. \A i \in 1 .. n : d.messages[i] = ms[i]
      BY <3>3, <3>6, <3>7, <3>8
    <3> QED
      BY <3>5, <3>6, <3>8, <3>9
  <2> QED
    BY <2>1, <2>2
<1>11. Len(lines) = 1 => Matches(d, ms) /\ d.title = t
  <2> SUFFICES ASSUME Len(lines) = 1 PROVE Matches(d, ms)
    BY <1>10
  <2>1. n = m
    <3>1. \A x, y \in Nat : y + 1 - x = 1 => x = y
      OBVIOUS
    <3>2. n \in Nat /\ m \in Nat /\ m + 1 - n = 1
      BY <1>1
    <3> QED
      BY ONLY <3>1, <3>2
  <2> QED
    BY <1>10, <2>1 DEF Matches, SameBubble, m
<1>12. Len(lines) # 1 => Copied(g, t, ms, Tail(lines))
  <2> SUFFICES ASSUME Len(lines) # 1 PROVE Copied(g, t, ms, Tail(lines))
    OBVIOUS
  <2> DEFINE more == Tail(lines)
  <2>1. n + 1 <= m /\ Len(lines) - 1 = m + 1 - (n + 1) /\ n + 1 > 0 /\ n + 1 # 0
        /\ (n + 1) - 1 = n
    BY ONLY <1>1, Len(lines) # 1
  <2>2. Len(more) = Len(lines) - 1 /\ \A i \in 1 .. Len(more) : more[i] = lines[i + 1]
    BY <1>4, HeadTailProperties
  <2> HIDE DEF more
  <2>3. \A i \in 1 .. Len(more) : more[i] = full[(n + 1) + i]
    <3> SUFFICES ASSUME NEW i \in 1 .. Len(more) PROVE more[i] = full[(n + 1) + i]
      OBVIOUS
    <3>1. i + 1 \in 1 .. Len(lines) /\ n + (i + 1) = (n + 1) + i
      BY ONLY <1>1, <1>4, <2>2, i \in 1 .. Len(more)
    <3>2. lines[i + 1] = full[n + (i + 1)]
      BY <1>2, <3>1
    <3> QED
      BY <2>2, <3>1, <3>2
  <2>4. Copied(g, t, ms, more)
    <3> DEFINE k == Len(Parsed(g))
    <3>1. k = n + 1 /\ k <= m /\ Len(more) = m + 1 - k /\ k > 0 /\ k # 0 /\ k - 1 = n
      BY <1>8, <2>1, <2>2
    <3>2. \A i \in 1 .. Len(more) : more[i] = full[k + i]
      BY <2>3, <3>1
    <3>3. /\ Load(g).title = t /\ Load(g).pending = FALSE
          /\ Len(Load(g).messages) = k - 1
          /\ \A i \in 1 .. k - 1 : Load(g).messages[i] = ms[i]
      BY <1>8, <1>10, <3>1 DEF d
    <3> QED
      BY <3>1, <3>2, <3>3 DEF Copied, full, m
  <2> QED
    BY <2>4 DEF more
<1> QED
  BY <1>5, <1>7, <1>9, <1>11, <1>12 DEF d

LEMMA KeptByRewriteLine ==
    ASSUME NEW w, OneWriter(w), LogInv(w), RewriteLine(w)
    PROVE  LogInv(w)'
<1>1. LogTypes(w) /\ FileWhole(w) /\ Rewritten(w) /\ Writers = {w} /\ w \in Writers
  BY DEF LogInv, OneWriter
<1> DEFINE next == IF Len(rest[w]) = 1 THEN "idle" ELSE "rewrite"
           lines == rest[w]
           r == Head(lines)
           g == Append(Append(file, r), NewLine)
<1>2. next \in {"idle", "rewrite"} /\ (next = "idle" <=> Len(lines) = 1)
  OBVIOUS
<1>3. pc[w] = "rewrite" /\ pc'[w] = next /\ pc' \in [Writers -> Places]
  <2>1. Goto(w, "rewrite", next)
    BY DEF RewriteLine
  <2>2. next \in Places
    BY DEF Places
  <2> HIDE DEF next
  <2> QED
    BY <1>1, <2>1, <2>2, Going DEF LogTypes
<1> HIDE DEF next
<1>4. /\ UNCHANGED <<exists, mem, title, pending, running, onDisk, rec, chunks>>
      /\ file' = WriteAt(file, offset[w], <<Head(rest[w]), NewLine>>)
      /\ offset' = [offset EXCEPT ![w] = offset[w] + 2]
      /\ rest' = [rest EXCEPT ![w] = Tail(rest[w])]
  BY DEF RewriteLine, memory
<1>5. /\ mem \in Seq(Shown) /\ title \in 0 .. MaxTitles /\ lines \in Seq(Records)
      /\ rest \in [Writers -> Seq(Records)] /\ offset \in [Writers -> Nat]
  BY <1>1 DEF LogTypes
<1>6. Whole(file) /\ offset[w] = Len(file) /\ Copied(file, title, mem, lines)
  BY <1>1, <1>3 DEF FileWhole, Rewritten
<1>7. /\ r \in Records /\ Whole(g) /\ Len(g) = Len(file) + 2
      /\ Len(lines) = 1 => Matches(Load(g), mem) /\ Load(g).title = title
      /\ Len(lines) # 1 => Copied(g, title, mem, Tail(lines))
  <2> HIDE DEF lines
  <2> QED
    BY <1>5, <1>6, CopyOne
<1>8. file' = g
  <2>1. file \in Seq(Tokens) /\ r \in Tokens
    BY <1>6, <1>7, FileTyped, RecordsTyped
  <2>2. WriteAt(file, Len(file), <<r, NewLine>>) = g
    BY <2>1, WritesAtEnd
  <2> QED
    BY <1>4, <1>6, <2>2
<1>9. Len(lines) \in Nat /\ Len(lines) > 0
  <2>1. Len(lines) = Len(mem) + 1 - Len(Parsed(file)) /\ Len(Parsed(file)) <= Len(mem)
    BY <1>6 DEF Copied
  <2>2. Len(mem) \in Nat /\ Len(Parsed(file)) \in Nat
    BY <1>5, <1>6, FileTyped, ShownTypes
  <2> HIDE DEF lines
  <2> QED
    BY ONLY <2>1, <2>2
<1>10. Tail(lines) \in Seq(Records)
  <2>1. lines # <<>>
    BY <1>9, EmptySeq
  <2> HIDE DEF lines
  <2> QED
    BY <1>5, <2>1, HeadTailProperties
<1> HIDE DEF r, g
<1>11. /\ rest' \in [Writers -> Seq(Records)] /\ rest'[w] = Tail(lines)
       /\ offset' \in [Writers -> Nat] /\ offset'[w] = Len(file) + 2
  BY <1>1, <1>4, <1>5, <1>6, <1>10
<1> HIDE DEF lines
<1>12. LogTypes(w)'
  BY <1>1, <1>2, <1>3, <1>4, <1>11 DEF LogTypes
<1>13. FileWhole(w)'
  BY <1>2, <1>3, <1>7, <1>8 DEF FileWhole
<1>14. OneLineAhead(w)' /\ Shortened(w)' /\ Removed(w)'
  BY <1>2, <1>3 DEF OneLineAhead, Shortened, Removed
<1>15. InStep(w)'
  <2>1. CASE next = "idle"
    <3>1. Matches(Load(g), mem) /\ Load(g).title = title
      BY <1>2, <1>7, <2>1
    <3>2. Load(file)' = Load(g)
      BY <1>8
    <3> QED
      BY <1>4, <3>1, <3>2 DEF InStep
  <2>2. CASE next = "rewrite"
    BY <1>3, <2>2 DEF InStep, SyncedPlaces
  <2> QED
    BY <1>2, <2>1, <2>2
<1>16. Rewritten(w)'
  <2>1. CASE next = "idle"
    BY <1>3, <2>1 DEF Rewritten
  <2>2. CASE next = "rewrite"
    <3>1. Copied(g, title, mem, Tail(lines))
      BY <1>2, <1>7, <2>2
    <3>2. Copied(file, title, mem, rest[w])' = Copied(g, title, mem, Tail(lines))
      BY <1>4, <1>8, <1>11
    <3>3. offset'[w] = Len(file')
      BY <1>7, <1>8, <1>11
    <3> QED
      BY <3>1, <3>2, <3>3 DEF Rewritten
  <2> QED
    BY <1>2, <2>1, <2>2
<1> QED
  BY <1>12, <1>13, <1>14, <1>15, <1>16 DEF LogInv

LEMMA KeptByCrash ==
    ASSUME NEW w, OneWriter(w), LogInv(w), Crash
    PROVE  LogInv(w)'
<1>1. LogTypes(w) /\ FileWhole(w) /\ Writers = {w} /\ w \in Writers
  BY DEF LogInv, OneWriter
<1>2. pc[w] # "newline"
  <2>1. \/ \A v \in Writers : pc[v] \notin {"newline", "rewrite"}
        \/ \E v \in Writers : pc[v] = "rewrite"
    BY DEF Crash, OneWriter
  <2> QED
    BY <1>1, <2>1
<1>3. Whole(file) /\ Load(file) \in Loaded
  BY <1>1, <1>2, FileTyped DEF FileWhole
<1>4. /\ exists' = onDisk /\ mem' = Load(file).messages /\ title' = Load(file).title
      /\ pending' = FALSE /\ running' = FALSE
      /\ pc' = [v \in Writers |-> "idle"] /\ rec' = [v \in Writers |-> NewLine]
      /\ rest' = [v \in Writers |-> <<>>] /\ offset' = [v \in Writers |-> 0]
      /\ UNCHANGED <<onDisk, file, chunks>>
  BY DEF Crash, disk
<1>5. /\ mem' \in Seq(Shown) /\ title' \in 0 .. MaxTitles
      /\ pc' \in [Writers -> Places] /\ pc'[w] = "idle" /\ rec' \in [Writers -> Tokens]
      /\ rest' \in [Writers -> Seq(Records)] /\ offset' \in [Writers -> Nat]
  <2>1. "idle" \in Places /\ <<>> \in Seq(Records) /\ 0 \in Nat
    BY EmptySeq DEF Places
  <2>2. mem' \in Seq(Shown) /\ title' \in 0 .. MaxTitles
    BY <1>3, <1>4, LoadedTypes
  <2> QED
    BY <1>1, <1>4, <2>1, <2>2, NewLineTyped
<1>6. LogTypes(w)'
  BY <1>1, <1>4, <1>5 DEF LogTypes
<1>7. FileWhole(w)'
  BY <1>3, <1>4, <1>5 DEF FileWhole
<1>8. OneLineAhead(w)' /\ Rewritten(w)' /\ Shortened(w)' /\ Removed(w)'
  BY <1>5 DEF OneLineAhead, Rewritten, Shortened, Removed
<1>9. InStep(w)'
  <2>1. Matches(Load(file), Load(file).messages)
    BY <1>3, LoadedMatchesItself
  <2>2. Load(file)' = Load(file)
    BY <1>4
  <2> QED
    BY <1>4, <2>1, <2>2 DEF InStep
<1> QED
  BY <1>6, <1>7, <1>8, <1>9 DEF LogInv

LEMMA InitLog ==
    ASSUME NEW w, OneWriter(w), Init
    PROVE  LogInv(w)
<1>1. Writers = {w} /\ w \in Writers
  BY DEF OneWriter
<1>2. /\ exists = TRUE /\ mem = <<>> /\ title = 0 /\ pending = FALSE /\ running = FALSE
      /\ onDisk = TRUE /\ file = <<Created(0), NewLine>>
      /\ pc = [v \in Writers |-> "idle"] /\ rec = [v \in Writers |-> NewLine]
      /\ rest = [v \in Writers |-> <<>>] /\ offset = [v \in Writers |-> 0]
      /\ chunks = [v \in Writers |-> 0]
  BY DEF Init
<1> DEFINE r == Created(0)
           f == Append(<<>>, r)
<1>3. r \in Records /\ r.kind = "created" /\ r.title = 0
  BY NoTitle, CreatedRecord
<1>4. Unended(f) /\ Load(f) = LoadLine(NothingLoaded, r)
  BY <1>3, EmptyFile, TakesRecord
<1>5. Whole(Append(f, NewLine)) /\ Load(Append(f, NewLine)) = LoadLine(NothingLoaded, r)
  BY <1>4, TakesNewLine
<1>6. file = Append(f, NewLine)
  BY <1>2
<1>7. Whole(file) /\ Load(file) = LoadLine(NothingLoaded, r)
  BY <1>5, <1>6
<1> HIDE DEF r, f
<1>8. NothingLoaded \in Loaded /\ NothingLoaded.messages = <<>>
  BY EmptyFile, FileTyped DEF NothingLoaded
<1>9. Load(file).messages = <<>> /\ Load(file).title = 0
  BY <1>3, <1>7, <1>8, LoadOther
<1>10. pc[w] = "idle"
  BY <1>1, <1>2
<1>11. LogTypes(w)
  <2>1. "idle" \in Places /\ <<>> \in Seq(Records) /\ <<>> \in Seq(Shown)
    BY EmptySeq DEF Places
  <2>2. 0 \in 0 .. MaxChunks
    BY ConvLogAssumption
  <2> QED
    BY <1>2, <1>10, <2>1, <2>2, NewLineTyped, NoTitle DEF LogTypes
<1>12. FileWhole(w)
  BY <1>7, <1>10 DEF FileWhole
<1>13. InStep(w)
  BY <1>2, <1>9, EmptySeq DEF InStep, Matches
<1>14. OneLineAhead(w) /\ Rewritten(w) /\ Shortened(w) /\ Removed(w)
  BY <1>10 DEF OneLineAhead, Rewritten, Shortened, Removed
<1> QED
  BY <1>11, <1>12, <1>13, <1>14 DEF LogInv

LEMMA NextLog ==
    ASSUME NEW w, OneWriter(w), LogInv(w), [Next]_vars
    PROVE  LogInv(w)'
<1>1. ASSUME UNCHANGED vars PROVE LogInv(w)'
  <2>1. UNCHANGED <<exists, mem, title, pending, running, onDisk, file, pc, rec, rest,
                    offset, chunks>>
    BY <1>1 DEF vars, memory, disk, control
  <2>2. LogTypes(w)'
    BY <2>1 DEF LogInv, LogTypes
  <2>3. FileWhole(w)' /\ InStep(w)' /\ OneLineAhead(w)' /\ Rewritten(w)' /\ Shortened(w)'
        /\ Removed(w)'
    BY <2>1 DEF LogInv, FileWhole, InStep, OneLineAhead, Rewritten, Shortened, Removed
  <2> QED
    BY <2>2, <2>3 DEF LogInv
<1>2. ASSUME NEW v \in Writers,
             \/ AgentBubble(v) \/ UserMessage(v) \/ RawInput(v) \/ TokenStats(v)
             \/ AnswerAsk(v) \/ PromptResponse(v) \/ Rename(v) \/ Undo(v)
             \/ Trim(v) \/ Delete(v) \/ WriterStep(v)
      PROVE  LogInv(w)'
  <2>1. v = w
    BY DEF OneWriter
  <2>2. CASE AgentBubble(w)
    <3>1. PICK type \in Types : AddBubble(w, type)
      BY <2>2 DEF AgentBubble
    <3> QED
      BY <3>1, KeptByAddBubble
  <2>3. CASE UserMessage(w)
    <3>1. "user" \in Types /\ AddBubble(w, "user")
      BY <2>3 DEF UserMessage
    <3> QED
      BY <3>1, KeptByAddBubble
  <2>4. CASE RawInput(w)
    BY <2>4, KeptByRawInput
  <2>5. CASE TokenStats(w)
    BY <2>5, KeptByTokenStats
  <2>6. CASE AnswerAsk(w)
    BY <2>6, KeptByAnswerAsk
  <2>7. CASE PromptResponse(w)
    BY <2>7, KeptByPromptResponse
  <2>8. CASE Rename(w)
    BY <2>8, KeptByRename
  <2>9. CASE Undo(w)
    BY <2>9, KeptByUndo
  <2>10. CASE Trim(w)
    BY <2>10, KeptByTrim
  <2>11. CASE Delete(w)
    BY <2>11, KeptByDelete
  <2>12. CASE Marshal(w)
    BY <2>12, KeptByMarshal
  <2>13. CASE WriteData(w)
    BY <2>13, KeptByWriteData
  <2>14. CASE WriteNewline(w)
    BY <2>14, KeptByWriteNewline
  <2>15. CASE ArmRunning(w)
    BY <2>15, KeptByArmRunning
  <2>16. CASE FinishTurn(w)
    BY <2>16, KeptByFinishTurn
  <2>17. CASE Truncate(w)
    BY <2>17, KeptByTruncate
  <2>18. CASE RewriteLine(w)
    BY <2>18, KeptByRewriteLine
  <2>19. CASE RemoveFile(w)
    BY <2>19, KeptByRemoveFile
  <2> QED
    BY <1>2, <2>1, <2>2, <2>3, <2>4, <2>5, <2>6, <2>7, <2>8, <2>9, <2>10, <2>11, <2>12,
       <2>13, <2>14, <2>15, <2>16, <2>17, <2>18, <2>19 DEF WriterStep
<1>3. CASE Cancel
  BY <1>3, KeptByCancel
<1>4. CASE Crash
  BY <1>4, KeptByCrash
<1> QED
  BY <1>1, <1>2, <1>3, <1>4 DEF Next

(* While one goroutine at a time updates a conversation, and no record is cut off
   from its newline by the end of the process, a restart brings back what is in
   memory, whatever was renamed, undone, trimmed, or lost in earlier crashes. *)
THEOREM RestartBringsBack ==
    ASSUME NEW w, Writers = {w}, "crashMidAppend" \notin Ops
    PROVE  Spec => []ReloadMatches
<1>1. OneWriter(w)
  BY DEF OneWriter
<1>2. LogInv(w) => ReloadMatches
  <2> SUFFICES ASSUME LogInv(w), exists, Quiet
               PROVE  /\ Len(Load(file).messages) = Len(mem)
                      /\ \A i \in DOMAIN mem : SameBubble(mem[i], Load(file).messages[i])
                      /\ Load(file).title = title
    BY DEF ReloadMatches
  <2>1. pc[w] = "idle"
    BY DEF Quiet
  <2>2. Matches(Load(file), mem) /\ Load(file).title = title
    BY <1>1, <2>1, IdleFacts
  <2>3. DOMAIN mem = 1 .. Len(mem)
    BY ShownTypes DEF LogInv, LogTypes
  <2> QED
    BY <2>2, <2>3 DEF Matches
<1>3. Init => LogInv(w)
  BY <1>1, InitLog
<1>4. LogInv(w) /\ [Next]_vars => LogInv(w)'
  BY <1>1, NextLog
<1> QED
  BY <1>2, <1>3, <1>4, PTL DEF Spec

(* A crash then costs at most the line that has not reached the file. *)
LEMMA CrashCost ==
    ASSUME NEW w, OneWriter(w), LogInv(w), Crash, exists, pc[w] # "rewrite",
           NEW c \in Range(Text(mem))
    PROVE  \/ c \in Range(Text(mem'))
           \/ pc[w] = "data" /\ c \in Range(rec[w].text)
<1>1. LogTypes(w) /\ FileWhole(w) /\ InStep(w) /\ OneLineAhead(w) /\ Shortened(w)
      /\ Removed(w) /\ w \in Writers /\ mem \in Seq(Shown)
  BY DEF LogInv, OneWriter, LogTypes
<1>2. Load(file) \in Loaded
  BY <1>1, FileTyped DEF FileWhole
<1> DEFINE loaded == Load(file)
           ms == loaded.messages
<1>3. ms \in Seq(Shown) /\ mem' = ms
  BY <1>2, LoadedTypes DEF Crash
<1>4. Range(Text(mem)) = ChunksOf(mem) /\ Range(Text(ms)) = ChunksOf(ms)
  <2> HIDE DEF ms
  <2> QED
    BY <1>1, <1>3, TextRange
<1>5. pc[w] \in Places
  BY <1>1 DEF LogTypes
<1>6. CASE pc[w] \in SyncedPlaces
  <2>1. Matches(loaded, mem)
    BY <1>1, <1>6 DEF InStep
  <2> HIDE DEF loaded
  <2>2. loaded \in Loaded
    BY <1>2 DEF loaded
  <2>3. ChunksOf(mem) \subseteq ChunksOf(ms)
    BY <1>1, <2>1, <2>2, MatchedText
  <2> HIDE DEF ms
  <2> QED
    BY <1>3, <1>4, <2>3
<1>7. CASE pc[w] = "truncate"
  <2>1. ChunksOf(mem) \subseteq ChunksOf(ms)
    BY <1>1, <1>7 DEF Shortened
  <2> HIDE DEF ms
  <2> QED
    BY <1>3, <1>4, <2>1
<1>8. CASE pc[w] = "data"
  <2> DEFINE r == rec[w]
             next == LoadLine(loaded, r)
  <2>1. r \in Records /\ Matches(next, mem)
    BY <1>1, <1>8 DEF LogTypes, OneLineAhead
  <2> HIDE DEF loaded, r
  <2>2. loaded \in Loaded
    BY <1>2 DEF loaded
  <2>3. next \in Loaded
    BY <2>1, <2>2, LoadLineTyped
  <2>4. ChunksOf(next.messages) \subseteq ChunksOf(loaded.messages) \cup Range(r.text)
    BY <2>1, <2>2, LoadLineChunks
  <2> HIDE DEF next
  <2>5. ChunksOf(mem) \subseteq ChunksOf(next.messages)
    BY <1>1, <2>1, <2>3, MatchedText
  <2>6. c \in ChunksOf(ms) \/ c \in Range(r.text)
    BY <1>4, <2>4, <2>5
  <2> HIDE DEF ms
  <2> QED
    BY <1>3, <1>4, <1>8, <2>6 DEF r
<1>9. pc[w] # "remove"
  BY <1>1 DEF Removed
<1> QED
  BY <1>5, <1>6, <1>7, <1>8, <1>9 DEF Places, SyncedPlaces

(* No crash takes from the conversation what was in the file already, and of what
   was not, no more than one line; a file that is being written again is left
   out. *)
THEOREM CrashTakesOneLine ==
    ASSUME NEW v, Writers = {v}, "crashMidAppend" \notin Ops
    PROVE  Spec => CrashKeepsRest
<1>1. OneWriter(v)
  BY DEF OneWriter
<1>2. LogInv(v) /\ [Next]_vars =>
         [Crash /\ exists /\ (\A w \in Writers : pc[w] # "rewrite") =>
            \A c \in Range(Text(mem)) :
              \/ c \in Range(Text(mem'))
              \/ \E w \in Writers : pc[w] = "data" /\ c \in Range(rec[w].text)]_vars
  BY <1>1, CrashCost
<1>3. Init => LogInv(v)
  BY <1>1, InitLog
<1>4. LogInv(v) /\ [Next]_vars => LogInv(v)'
  BY <1>1, NextLog
<1> QED
  BY <1>2, <1>3, <1>4, PTL DEF Spec, CrashKeepsRest

-----------------------------------------------------------------------------
(* Several writers, and a file that is only appended to.  First, what is read of
   any file: its lone records, in their order. *)

Reads(f, m, pos) ==
    /\ m \in Nat /\ pos \in [1 .. m -> 1 .. Len(f)]
    /\ Parsed(f) = [k \in 1 .. m |-> f[pos[k]]]
    /\ \A k \in 1 .. m : f[pos[k]].kind \notin {"newline", "hole"}
    /\ \A k, l \in 1 .. m : k < l => pos[k] < pos[l]

LEMMA ParsedReads ==
    ASSUME NEW X, NEW f \in Seq(X)
    PROVE  \E m, pos : Reads(f, m, pos)
<1> DEFINE N == Len(f)
           Separator(i) == i \in {0, N + 1} \/ f[i].kind = "newline"
           Alone(i) == /\ f[i].kind \notin {"newline", "hole"}
                       /\ Separator(i - 1) /\ Separator(i + 1)
           UpTo(i) == {j \in 1 .. i : Alone(j)}
           m == Cardinality({i \in 1 .. N : Alone(i)})
           Is(i, k) == i \in 1 .. N /\ Alone(i) /\ Cardinality(UpTo(i)) = k
           At(k) == CHOOSE i \in 1 .. N : Alone(i) /\ Cardinality(UpTo(i)) = k
           pos == [k \in 1 .. m |-> At(k)]
<1>1. N \in Nat
  BY LenProperties
<1>2. Parsed(f) = [k \in 1 .. m |-> f[At(k)]]
  BY DEF Parsed
<1> HIDE DEF Alone
<1>3. \A n \in Nat : IsFiniteSet(UpTo(n)) /\ Cardinality(UpTo(n)) \in Nat
  <2> SUFFICES ASSUME NEW n \in Nat PROVE IsFiniteSet(UpTo(n)) /\ Cardinality(UpTo(n)) \in Nat
    OBVIOUS
  <2>1. IsFiniteSet(1 .. n)
    BY FS_Interval
  <2>2. UpTo(n) \subseteq 1 .. n
    OBVIOUS
  <2> QED
    BY <2>1, <2>2, FS_Subset, FS_CardinalityType
<1>4. ASSUME NEW n \in Nat
      PROVE  UpTo(n + 1) = IF Alone(n + 1) THEN UpTo(n) \cup {n + 1} ELSE UpTo(n)
  <2>1. 1 .. n + 1 = (1 .. n) \cup {n + 1}
    OBVIOUS
  <2> QED
    BY <2>1
<1>5. ASSUME NEW n \in Nat
      PROVE  Cardinality(UpTo(n + 1)) =
                IF Alone(n + 1) THEN Cardinality(UpTo(n)) + 1 ELSE Cardinality(UpTo(n))
  <2>1. n + 1 \notin UpTo(n)
    OBVIOUS
  <2>2. IsFiniteSet(UpTo(n))
    BY <1>3
  <2> HIDE DEF UpTo
  <2>3. Cardinality(UpTo(n) \cup {n + 1}) = Cardinality(UpTo(n)) + 1
    BY <2>1, <2>2, FS_AddElement
  <2> QED
    BY <1>4, <2>3
<1>6. Cardinality(UpTo(0)) = 0
  <2>1. UpTo(0) = {}
    OBVIOUS
  <2> QED
    BY <2>1, FS_EmptySet
<1> DEFINE card == [n \in Nat |-> Cardinality(UpTo(n))]
<1>7. /\ card[0] = 0 /\ \A n \in Nat : card[n] \in Nat
      /\ \A n \in Nat : card[n + 1] = IF Alone(n + 1) THEN card[n] + 1 ELSE card[n]
  <2>1. \A n \in Nat : card[n] = Cardinality(UpTo(n)) /\ n + 1 \in Nat
    OBVIOUS
  <2>2. 0 \in Nat
    OBVIOUS
  <2> HIDE DEF card, UpTo
  <2> QED
    BY <1>3, <1>5, <1>6, <2>1, <2>2
<1>8. card[N] = m
  BY <1>1
<1>9. \A i \in 1 .. N, k \in Nat : Is(i, k) <=> Alone(i) /\ card[i] = k
  OBVIOUS
<1> HIDE DEF UpTo, card, m
(* The count grows with the place, and takes every value. *)
<1>10. \A n \in Nat : \A k \in 1 .. card[n] : \E i \in 1 .. n : Alone(i) /\ card[i] = k
  <2> DEFINE Good == {n \in Nat : \A k \in 1 .. card[n] :
                                     \E i \in 1 .. n : Alone(i) /\ card[i] = k}
  <2>1. 0 \in Good
    BY <1>7
  <2>2. ASSUME NEW n \in Good PROVE n + 1 \in Good
    <3>1. n \in Nat /\ n + 1 \in Nat
      OBVIOUS
    <3> SUFFICES ASSUME NEW k \in 1 .. card[n + 1]
                 PROVE  \E i \in 1 .. n + 1 : Alone(i) /\ card[i] = k
      BY <3>1
    <3>2. CASE k \in 1 .. card[n]
      <4>1. PICK i \in 1 .. n : Alone(i) /\ card[i] = k
        BY <3>2
      <4>2. i \in 1 .. n + 1
        BY <3>1
      <4> QED
        BY <4>1, <4>2
    <3>3. CASE k \notin 1 .. card[n]
      <4>1. Alone(n + 1) /\ card[n + 1] = card[n] + 1 /\ card[n] \in Nat
        BY <1>7, <3>1, <3>3
      <4>2. k = card[n + 1]
        BY <3>3, <4>1
      <4>3. n + 1 \in 1 .. n + 1
        BY <3>1
      <4> QED
        BY <4>1, <4>2, <4>3
    <3> QED
      BY <3>2, <3>3
  <2>3. Good = Nat
    <3> HIDE DEF Good
    <3> QED
      BY <2>1, <2>2, SetInduction DEF Good
  <2> QED
    BY <2>3
<1>11. \A d, n \in Nat : card[n] <= card[n + d]
  <2> SUFFICES ASSUME NEW n \in Nat PROVE \A d \in Nat : card[n] <= card[n + d]
    OBVIOUS
  <2> DEFINE Good == {d \in Nat : card[n] <= card[n + d]}
  <2>1. 0 \in Good
    <3>1. n + 0 = n /\ card[n] \in Nat
      BY <1>7
    <3>2. \A x \in Nat : x <= x
      OBVIOUS
    <3> QED
      BY ONLY <3>1, <3>2
  <2>2. ASSUME NEW d \in Good PROVE d + 1 \in Good
    <3>1. d \in Nat /\ n + d \in Nat /\ n + (d + 1) = (n + d) + 1
      OBVIOUS
    <3>2. card[n] \in Nat /\ card[n + d] \in Nat /\ card[(n + d) + 1] \in Nat
          /\ (card[(n + d) + 1] = card[n + d] + 1 \/ card[(n + d) + 1] = card[n + d])
      BY <1>7, <3>1
    <3>3. card[n] <= card[n + d]
      OBVIOUS
    <3>4. card[n] <= card[(n + d) + 1]
      BY <3>2, <3>3
    <3> QED
      BY <3>1, <3>4
  <2>3. Good = Nat
    <3> HIDE DEF Good
    <3> QED
      BY <2>1, <2>2, SetInduction DEF Good
  <2> QED
    BY <2>3
<1>12. m \in Nat
  BY <1>1, <1>7, <1>8
<1>13. \A k \in 1 .. m : /\ pos[k] \in 1 .. N /\ Alone(pos[k]) /\ card[pos[k]] = k
                         /\ pos[k] = At(k)
  <2> SUFFICES ASSUME NEW k \in 1 .. m
               PROVE  At(k) \in 1 .. N /\ Alone(At(k)) /\ card[At(k)] = k
    OBVIOUS
  <2>1. \E i \in 1 .. N : Alone(i) /\ card[i] = k
    BY <1>1, <1>8, <1>10
  <2>2. \E i \in 1 .. N : Alone(i) /\ Cardinality(UpTo(i)) = k
    BY <2>1 DEF card
  <2>3. At(k) \in 1 .. N /\ Alone(At(k)) /\ Cardinality(UpTo(At(k))) = k
    BY <2>2
  <2> HIDE DEF At
  <2> QED
    BY <2>3 DEF card
<1> HIDE DEF At
<1>14. \A k, l \in 1 .. m : k < l => pos[k] < pos[l]
  <2> SUFFICES ASSUME NEW k \in 1 .. m, NEW l \in 1 .. m, k < l, ~(pos[k] < pos[l])
               PROVE  FALSE
    OBVIOUS
  <2> DEFINE x == pos[k]
             y == pos[l]
  <2>1. x \in Nat /\ y \in Nat /\ card[x] = k /\ card[y] = l
    BY <1>13
  <2> HIDE DEF x, y
  <2>2. x - y \in Nat /\ y + (x - y) = x
    BY <2>1 DEF x, y
  <2>3. card[y] <= card[x]
    BY <1>11, <2>1, <2>2
  <2> QED
    BY <2>1, <2>3
<1>15. pos \in [1 .. m -> 1 .. N]
  BY <1>13
<1>16. Parsed(f) = [k \in 1 .. m |-> f[pos[k]]]
  BY <1>2
<1>17. \A k \in 1 .. m : f[pos[k]].kind \notin {"newline", "hole"}
  BY <1>13 DEF Alone
<1> HIDE DEF pos
<1>18. Reads(f, m, pos)
  BY <1>12, <1>14, <1>15, <1>16, <1>17 DEF Reads
<1> QED
  BY <1>18

(* The text of a list of bubbles, bubble by bubble. *)
Flat(ms, f) ==
    /\ f \in [0 .. Len(ms) -> Seq(Chunk)]
    /\ f[0] = <<>>
    /\ \A n \in 1 .. Len(ms) : f[n] = f[n - 1] \o ms[n].text
    /\ Text(ms) = f[Len(ms)]

LEMMA FlatExists ==
    ASSUME NEW ms \in Seq(Shown)
    PROVE  /\ \E f : Flat(ms, f)
           /\ Text(ms) \in Seq(Chunk)
<1> DEFINE ss == [i \in DOMAIN ms |-> ms[i].text]
           N == Len(ms)
<1>1. /\ N \in Nat /\ DOMAIN ms = 1 .. N
      /\ \A i \in 1 .. N : ms[i].text \in Seq(Chunk)
  BY ShownTypes
<1>2. ss \in Seq(Seq(Chunk)) /\ Len(ss) = N /\ \A i \in 1 .. N : ss[i] = ms[i].text
  <2>1. ss \in [1 .. N -> Seq(Chunk)]
    BY <1>1
  <2> QED
    BY <1>1, <2>1, LenProperties
<1>3. Text(ms) = FlattenSeq(ss)
  BY DEF Text
<1> HIDE DEF ss
<1>4. PICK f \in [0 .. Len(ss) -> Seq(Chunk)] :
              /\ f[0] = <<>>
              /\ \A n \in 1 .. Len(ss) : f[n] = f[n - 1] \o ss[n]
              /\ FlattenSeq(ss) = f[Len(ss)]
  BY ONLY <1>2, FlattenDefined
<1>5. Flat(ms, f)
  BY <1>2, <1>3, <1>4 DEF Flat
<1>6. Text(ms) \in Seq(Chunk)
  BY <1>1, <1>5 DEF Flat
<1> QED
  BY <1>5, <1>6

LEMMA FlatAgree ==
    ASSUME NEW ms, NEW ls, NEW f, NEW g, Flat(ms, f), Flat(ls, g), NEW K \in Nat,
           Len(ms) \in Nat, Len(ls) \in Nat, K <= Len(ms), K <= Len(ls),
           \A i \in 1 .. K : ms[i].text = ls[i].text
    PROVE  f[K] = g[K]
<1>1. Alike(K, f, g)
  <2>1. \A n \in 1 .. K : n \in 1 .. Len(ms) /\ n \in 1 .. Len(ls)
    OBVIOUS
  <2> QED
    BY <2>1 DEF Flat, Alike
<1>2. \A n \in 0 .. K : f[n] = g[n]
  BY <1>1, StepByStep
<1> QED
  BY <1>2

LEMMA TextSame ==
    ASSUME NEW ms \in Seq(Shown), NEW ls \in Seq(Shown), Len(ls) = Len(ms),
           \A i \in 1 .. Len(ms) : ls[i].text = ms[i].text
    PROVE  Text(ls) = Text(ms)
<1>1. PICK f : Flat(ms, f)
  BY FlatExists
<1>2. PICK g : Flat(ls, g)
  BY FlatExists
<1>3. Len(ms) \in Nat /\ Len(ms) <= Len(ms)
  BY ShownTypes
<1>4. g[Len(ms)] = f[Len(ms)]
  BY <1>1, <1>2, <1>3, FlatAgree
<1> QED
  BY <1>1, <1>2, <1>4 DEF Flat

LEMMA TextAppend ==
    ASSUME NEW ms \in Seq(Shown), NEW b \in Shown
    PROVE  Text(Append(ms, b)) = Text(ms) \o b.text
<1> DEFINE n == Len(ms)
           ls == Append(ms, b)
<1>1. /\ ls \in Seq(Shown) /\ Len(ls) = n + 1 /\ ls[n + 1] = b
      /\ \A i \in 1 .. n : ls[i] = ms[i]
      /\ n \in Nat
  BY Appended
<1> HIDE DEF ls
<1>2. PICK f : Flat(ms, f)
  BY FlatExists
<1>3. PICK g : Flat(ls, g)
  BY <1>1, FlatExists
<1>4. g[n] = f[n]
  <2>1. n <= n /\ n <= n + 1 /\ n + 1 \in Nat
    BY <1>1
  <2> QED
    BY <1>1, <1>2, <1>3, <2>1, FlatAgree
<1>5. n + 1 \in 1 .. n + 1 /\ (n + 1) - 1 = n
  BY <1>1
<1>6. Text(ls) = g[n] \o b.text
  BY <1>1, <1>3, <1>5 DEF Flat
<1>7. Text(ms) = f[n]
  BY <1>2 DEF Flat
<1> QED
  BY <1>4, <1>6, <1>7 DEF ls

LEMMA TextJoin ==
    ASSUME NEW ms \in Seq(Shown), NEW ls \in Seq(Shown), NEW n, n = Len(ms), ms # <<>>,
           NEW text \in Seq(Chunk), Len(ls) = n,
           \A i \in 1 .. n : i # n => ls[i] = ms[i],
           ls[n].text = ms[n].text \o text
    PROVE  Text(ls) = Text(ms) \o text
<1>1. n \in Nat /\ n \in 1 .. n
  BY ShownTypes, EmptySeq
<1>2. PICK k \in Nat : n = k + 1
  <2>1. n - 1 \in Nat /\ n = (n - 1) + 1
    BY ONLY <1>1
  <2> QED
    BY <2>1
<1>3. k <= n /\ n - 1 = k /\ \A i \in 1 .. k : i \in 1 .. n /\ i # n
  BY ONLY <1>1, <1>2
<1>4. \A i \in 1 .. k : ls[i].text = ms[i].text
  BY <1>3
<1>5. PICK f : Flat(ms, f)
  BY FlatExists
<1>6. PICK g : Flat(ls, g)
  BY FlatExists
<1>7. g[k] = f[k]
  <2>1. Len(ls) \in Nat /\ Len(ms) \in Nat /\ k <= Len(ls) /\ k <= Len(ms)
    BY <1>1, <1>3
  <2> QED
    BY ONLY <1>2, <1>4, <1>5, <1>6, <2>1, FlatAgree
<1>8. Text(ms) = f[k] \o ms[n].text /\ f[k] \in Seq(Chunk)
  <2>1. n \in 1 .. Len(ms) /\ n = Len(ms) /\ n - 1 = k /\ k \in 0 .. Len(ms)
    BY <1>1, <1>2, <1>3
  <2> QED
    BY ONLY <1>5, <2>1 DEF Flat
<1>9. Text(ls) = g[k] \o ls[n].text
  <2>1. n \in 1 .. Len(ls) /\ n = Len(ls) /\ n - 1 = k
    BY <1>1, <1>3
  <2> QED
    BY ONLY <1>6, <2>1 DEF Flat
<1>10. ms[n].text \in Seq(Chunk)
  BY <1>1, ShownTypes
<1> DEFINE a == f[k]
           b == ms[n].text
<1>11. a \in Seq(Chunk) /\ b \in Seq(Chunk)
  BY <1>8, <1>10
<1> HIDE DEF a, b
<1>12. (a \o b) \o text = a \o (b \o text)
  BY ONLY <1>11, text \in Seq(Chunk), ConcatAssociative, SMTT(30)
<1> QED
  BY <1>7, <1>8, <1>9, <1>12 DEF a, b

(* What a line says: the text it brings to the reader. *)
Says(r) == IF r.kind \in {"bubble", "merge"} THEN r.text ELSE <<>>

LEMMA LoadLineText ==
    ASSUME NEW c \in Loaded, NEW r \in Records
    PROVE  \/ Text(LoadLine(c, r).messages) = Text(c.messages)
           \/ Text(LoadLine(c, r).messages) = Text(c.messages) \o Says(r)
<1>1. c.messages \in Seq(Shown)
  BY LoadedTypes
<1>2. CASE r.kind \in {"created", "stats", "response"}
  BY <1>2, LoadOther
<1>3. CASE r.kind = "bubble"
  <2> DEFINE counted == r.type = "llm" /\ c.pending
             b == Bubble(r.type, r.text, r.extra \/ counted)
             pend == c.pending /\ ~counted
  <2>1. LoadLine(c, r) = [c EXCEPT !.pending = pend, !.messages = Append(c.messages, b)]
    BY <1>3, LoadLineCases
  <2>2. b \in Shown
    <3>1. r.extra \/ counted \in BOOLEAN
      OBVIOUS
    <3> QED
      BY <1>3, <3>1, RecordTypes, IsShown
  <2>3. b.text = r.text
    BY DEF Bubble
  <2> HIDE DEF b, pend
  <2>4. LoadLine(c, r).messages = Append(c.messages, b)
    BY <2>1, LoadedFields
  <2>5. Says(r) = r.text
    BY <1>3 DEF Says
  <2> QED
    BY <1>1, <2>2, <2>3, <2>4, <2>5, TextAppend
<1>4. CASE r.kind = "merge" /\ c.messages # <<>> /\ Last(c.messages).type = r.type
  <2> DEFINE n == Len(c.messages)
             b == Joined(c.messages[n], r.text)
             ls == [c.messages EXCEPT ![n] = b]
  <2>1. LoadLine(c, r) = [c EXCEPT !.messages = ls]
    BY <1>4, LoadMerge
  <2>2. c.messages[n] \in Shown /\ r.text \in Seq(Chunk) /\ n \in 1 .. n
    BY <1>1, <1>4, ShownTypes, EmptySeq, RecordTypes
  <2>3. b \in Shown /\ b.text = c.messages[n].text \o r.text
    BY <2>2, JoinedProperties
  <2>4. n = Len(c.messages)
    OBVIOUS
  <2> HIDE DEF b, n
  <2>5. /\ ls \in Seq(Shown) /\ Len(ls) = n
        /\ \A i \in 1 .. n : ls[i] = IF i = n THEN b ELSE c.messages[i]
    BY <1>1, <1>4, <2>3, <2>4, ReplaceLast
  <2> HIDE DEF ls
  <2>6. Text(ls) = Text(c.messages) \o r.text
    <3> DEFINE ms == c.messages
               t == r.text
    <3>1. ms \in Seq(Shown) /\ ms # <<>> /\ t \in Seq(Chunk) /\ n = Len(ms)
      BY <1>1, <1>4, <2>2, <2>4
    <3>2. /\ \A i \in 1 .. n : i # n => ls[i] = ms[i]
          /\ ls[n].text = ms[n].text \o t
      BY <2>2, <2>3, <2>5
    <3> HIDE DEF ms, t
    <3>3. Text(ls) = Text(ms) \o t
      BY ONLY <2>5, <3>1, <3>2, TextJoin
    <3> QED
      BY <3>3 DEF ms, t
  <2>7. Says(r) = r.text /\ LoadLine(c, r).messages = ls
    BY <1>4, <2>1, LoadedFields DEF Says
  <2> QED
    BY <2>6, <2>7
<1>5. CASE r.kind = "merge" /\ ~(c.messages # <<>> /\ Last(c.messages).type = r.type)
  BY <1>5, LoadLineCases
<1>6. CASE r.kind = "rawInput"
  <2> DEFINE id == r.text[1]
             ls == AttachTo(c.messages, id)
  <2>1. LoadLine(c, r) = [c EXCEPT !.messages = ls]
    BY <1>6, LoadRawInput
  <2> HIDE DEF id
  <2>2. /\ ls \in Seq(Shown) /\ Len(ls) = Len(c.messages)
        /\ \A i \in 1 .. Len(c.messages) :
              ls[i] = IF c.messages[i].type = "tool_request" /\ c.messages[i].text[1] = id
                      THEN [c.messages[i] EXCEPT !.extra = TRUE] ELSE c.messages[i]
    BY <1>1, AttachProperties
  <2>3. \A i \in 1 .. Len(c.messages) : ls[i].text = c.messages[i].text
    <3>1. \A i \in 1 .. Len(c.messages) :
             [c.messages[i] EXCEPT !.extra = TRUE].text = c.messages[i].text
      BY <1>1, ShownTypes, BubbleFields
    <3> HIDE DEF ls
    <3> QED
      BY <2>2, <3>1
  <2> HIDE DEF ls
  <2>4. Text(ls) = Text(c.messages)
    BY <1>1, <2>2, <2>3, TextSame
  <2> QED
    BY <2>1, <2>4, LoadedFields
<1>7. r.kind \in {"created", "stats", "response", "bubble", "merge", "rawInput"}
  BY DEF Records, Tokens
<1> QED
  BY <1>2, <1>3, <1>4, <1>5, <1>6, <1>7

(* Texts in which the pieces of each writer are in the order of their numbers. *)
Ordered(text) ==
    \A i, j \in DOMAIN text : i < j /\ text[i][1] = text[j][1] => text[i][2] < text[j][2]

LEMMA OrderedAppend ==
    ASSUME NEW text \in Seq(Chunk), NEW c \in Chunk, Ordered(text),
           \A d \in Range(text) : d[1] = c[1] => d[2] < c[2]
    PROVE  /\ Ordered(Append(text, c))
           /\ Range(Append(text, c)) = Range(text) \cup {c}
<1> DEFINE more == Append(text, c)
           n == Len(text)
<1>1. /\ n \in Nat /\ Len(more) = n + 1 /\ DOMAIN more = 1 .. n + 1 /\ DOMAIN text = 1 .. n
      /\ more[n + 1] = c /\ \A i \in 1 .. n : more[i] = text[i]
  BY Appended, LenProperties
<1> HIDE DEF more, n
<1>2. \A i \in 1 .. n + 1 : i = n + 1 \/ i \in 1 .. n
  BY <1>1
<1>3. ASSUME NEW i \in 1 .. n + 1, NEW j \in 1 .. n + 1, i < j, more[i][1] = more[j][1]
      PROVE  more[i][2] < more[j][2]
  <2>1. i \in 1 .. n
    BY <1>1, <1>3
  <2>2. CASE j \in 1 .. n
    BY <1>1, <1>3, <2>1, <2>2 DEF Ordered
  <2>3. CASE j = n + 1
    <3>1. text[i] \in Range(text)
      BY <1>1, <2>1 DEF Range
    <3> QED
      BY <1>1, <1>3, <2>1, <2>3, <3>1
  <2> QED
    BY <1>2, <2>2, <2>3
<1>4. Ordered(more)
  BY <1>1, <1>3 DEF Ordered
<1>5. Range(more) = Range(text) \cup {c}
  <2>1. n + 1 \in 1 .. n + 1 /\ \A i \in 1 .. n : i \in 1 .. n + 1
    BY <1>1
  <2> QED
    BY <1>1, <1>2, <2>1 DEF Range
<1> QED
  BY <1>4, <1>5 DEF more

(* A file whose lines say at most one piece each, a writer's pieces one after the
   other. *)
Pieces(f)  == \A i \in 1 .. Len(f) : Says(f[i]) = <<>> \/ \E c \in Chunk : Says(f[i]) = <<c>>
Climbing(f) ==
    \A i, j \in 1 .. Len(f) : \A c, d \in Chunk :
        i < j /\ Says(f[i]) = <<c>> /\ Says(f[j]) = <<d>> /\ c[1] = d[1] => c[2] < d[2]

LEMMA ReadsRecords ==
    ASSUME NEW f \in Seq(Records \cup {NewLine}), NEW m, NEW pos, Reads(f, m, pos)
    PROVE  /\ m \in Nat /\ Parsed(f) \in Seq(Records) /\ Len(Parsed(f)) = m
           /\ \A k \in 1 .. m : pos[k] \in 1 .. Len(f) /\ Parsed(f)[k] = f[pos[k]]
           /\ \A k, l \in 1 .. m : k < l => pos[k] < pos[l]
<1>1. /\ m \in Nat /\ pos \in [1 .. m -> 1 .. Len(f)]
      /\ Parsed(f) = [k \in 1 .. m |-> f[pos[k]]]
      /\ \A k \in 1 .. m : f[pos[k]].kind \notin {"newline", "hole"}
      /\ \A k, l \in 1 .. m : k < l => pos[k] < pos[l]
  BY DEF Reads
<1>2. NewLine.kind = "newline"
  BY DEF NewLine, Token
<1>3. \A k \in 1 .. m : f[pos[k]] \in Records
  <2> SUFFICES ASSUME NEW k \in 1 .. m PROVE f[pos[k]] \in Records
    OBVIOUS
  <2>1. f[pos[k]] \in Records \cup {NewLine}
    BY <1>1, ElementOfSeq
  <2>2. f[pos[k]].kind # "newline"
    BY <1>1
  <2> QED
    BY <1>2, <2>1, <2>2
<1>4. Parsed(f) \in [1 .. m -> Records] /\ \A k \in 1 .. m : Parsed(f)[k] = f[pos[k]]
  BY <1>1, <1>3
<1>5. Parsed(f) \in Seq(Records) /\ Len(Parsed(f)) = m
  BY <1>1, <1>4, LenProperties
<1> QED
  BY <1>1, <1>4, <1>5

LEMMA LoadOrdered ==
    ASSUME NEW f \in Seq(Records \cup {NewLine}), Pieces(f), Climbing(f)
    PROVE  Load(f) \in Loaded /\ Ordered(Text(Load(f).messages))
<1>1. PICK m, pos : Reads(f, m, pos)
  BY ParsedReads
<1> DEFINE lines == Parsed(f)
<1>2. /\ m \in Nat /\ lines \in Seq(Records) /\ Len(lines) = m
      /\ \A k \in 1 .. m : pos[k] \in 1 .. Len(f) /\ lines[k] = f[pos[k]]
      /\ \A k, l \in 1 .. m : k < l => pos[k] < pos[l]
  BY <1>1, ReadsRecords
<1>3. Load(f) = LoadLines(lines)
  BY DEF Load
<1> HIDE DEF lines
<1>4. PICK g \in [0 .. m -> Loaded] :
         /\ g[0] = NothingLoaded
         /\ \A n \in 1 .. m : g[n] = LoadLine(g[n - 1], lines[n])
         /\ LoadLines(lines) = g[m]
  BY <1>2, LoadDefined
<1> DEFINE text(n) == Text(g[n].messages)
           Told(n) == /\ Ordered(text(n))
                      /\ \A c \in Range(text(n)) : \E l \in 1 .. n : Says(lines[l]) = <<c>>
           Good == {n \in Nat : n <= m => Told(n)}
<1>5. \A n \in 0 .. m : g[n].messages \in Seq(Shown) /\ text(n) \in Seq(Chunk)
  BY <1>4, LoadedTypes, FlatExists
<1>6. text(0) = <<>>
  <2>1. g[0].messages = <<>>
    BY <1>4 DEF NothingLoaded
  <2> DEFINE ms == g[0].messages
  <2>2. ms \in Seq(Shown) /\ Len(ms) = 0
    BY <1>2, <1>5, <2>1, EmptySeq
  <2>3. PICK h : Flat(ms, h)
    BY <2>2, FlatExists
  <2> HIDE DEF ms
  <2>4. Text(ms) = <<>>
    BY <2>2, <2>3 DEF Flat
  <2> QED
    BY <2>4 DEF ms
<1>7. 0 \in Good
  BY <1>6, EmptySeq DEF Ordered, Range
<1> HIDE DEF text
<1>8. ASSUME NEW n \in Good PROVE n + 1 \in Good
  <2>1. n \in Nat
    OBVIOUS
  <2> SUFFICES ASSUME n + 1 <= m PROVE Told(n + 1)
    BY <2>1
  <2>2. /\ n \in 0 .. m /\ n + 1 \in 1 .. m /\ n + 1 \in 0 .. m /\ (n + 1) - 1 = n /\ n <= m
        /\ \A l \in 1 .. n : l \in 1 .. n + 1 /\ l \in 1 .. m /\ l < n + 1
        /\ n + 1 \in 1 .. n + 1
    BY <1>2, <2>1
  <2>3. Told(n)
    BY <2>2
  <2> HIDE DEF Good
  <2> DEFINE r == lines[n + 1]
  <2>4. text(n + 1) = text(n) \/ text(n + 1) = text(n) \o Says(r)
    <3>1. g[n] \in Loaded /\ r \in Records /\ g[n + 1] = LoadLine(g[n], r)
      BY <1>2, <1>4, <2>2, ElementOfSeq
    <3> HIDE DEF r
    <3> QED
      BY <3>1, LoadLineText DEF text
  <2>5. text(n) \in Seq(Chunk)
    BY <1>5, <2>2
  <2>6. CASE text(n + 1) = text(n)
    BY <2>2, <2>3, <2>6
  <2>7. CASE text(n + 1) = text(n) \o Says(r) /\ Says(r) = <<>>
    <3>1. text(n + 1) = text(n)
      BY <2>5, <2>7, ConcatEmptySeq
    <3> QED
      BY <2>2, <2>3, <3>1
  <2>8. CASE text(n + 1) = text(n) \o Says(r) /\ \E c \in Chunk : Says(r) = <<c>>
    <3>1. PICK c \in Chunk : Says(r) = <<c>>
      BY <2>8
    <3>2. text(n + 1) = Append(text(n), c)
      BY <2>5, <2>8, <3>1, AppendIsConcat
    <3>3. ASSUME NEW d \in Range(text(n)), d[1] = c[1] PROVE d[2] < c[2]
      <4>1. PICK l \in 1 .. n : Says(lines[l]) = <<d>>
        BY <2>3
      <4>2. l \in 1 .. m /\ l < n + 1
        BY <2>2
      <4>3. pos[l] \in 1 .. Len(f) /\ pos[n + 1] \in 1 .. Len(f) /\ pos[l] < pos[n + 1]
        BY <1>2, <2>2, <4>2
      <4>4. Says(f[pos[l]]) = <<d>> /\ Says(f[pos[n + 1]]) = <<c>>
        BY <1>2, <2>2, <3>1, <4>1, <4>2
      <4>5. d \in Chunk
        BY <2>5, ElementOfSeq, LenProperties DEF Range
      <4> QED
        BY <3>3, <4>3, <4>4, <4>5 DEF Climbing
    <3>4. /\ Ordered(text(n + 1)) /\ Range(text(n + 1)) = Range(text(n)) \cup {c}
      BY <2>3, <2>5, <3>2, <3>3, OrderedAppend
    <3>5. ASSUME NEW d \in Range(text(n + 1))
          PROVE  \E l \in 1 .. n + 1 : Says(lines[l]) = <<d>>
      <4>1. CASE d = c
        BY <2>2, <3>1, <4>1
      <4>2. CASE d \in Range(text(n))
        BY <2>2, <2>3, <4>2
      <4> QED
        BY <3>4, <4>1, <4>2
    <3> QED
      BY <3>4, <3>5
  <2>9. Says(r) = <<>> \/ \E c \in Chunk : Says(r) = <<c>>
    <3> DEFINE i == pos[n + 1]
    <3>1. i \in 1 .. Len(f) /\ r = f[i]
      BY <1>2, <2>2
    <3> HIDE DEF i, r
    <3> QED
      BY <3>1 DEF Pieces
  <2> QED
    BY <2>4, <2>6, <2>7, <2>8, <2>9
<1>9. Good = Nat
  <2> HIDE DEF Good
  <2> QED
    BY <1>7, <1>8, SetInduction DEF Good
<1>10. Told(m)
  <2>1. m \in Good /\ m <= m
    <3> HIDE DEF Good
    <3> QED
      BY <1>2, <1>9
  <2> QED
    BY <2>1
<1>11. Load(f) = g[m] /\ g[m] \in Loaded
  BY <1>2, <1>3, <1>4
<1> QED
  BY <1>10, <1>11 DEF text

-----------------------------------------------------------------------------
(* The inductive invariant, for any number of writers: the file is only appended
   to, each line says at most one piece, and the piece in a writer's hand is later
   than all of its pieces in the file. *)

AppendPlaces == {"idle", "data", "newline", "arm", "finish", "marshal", "remove"}

SharedTypes ==
    /\ mem \in Seq(Shown) /\ title \in 0 .. MaxTitles /\ pending \in BOOLEAN
    /\ file \in Seq(Records \cup {NewLine})
    /\ pc \in [Writers -> AppendPlaces]
    /\ rec \in [Writers -> Records \cup {NewLine}]
    /\ chunks \in [Writers -> 0 .. MaxChunks]

Known == \A i \in 1 .. Len(file) :
            \/ Says(file[i]) = <<>>
            \/ \E c \in Chunk : c[2] <= chunks[c[1]] /\ Says(file[i]) = <<c>>

Newest(v) ==
    /\ chunks[v] \in 1 .. MaxChunks
    /\ Says(rec[v]) = << <<v, chunks[v]>> >>
    /\ \A i \in 1 .. Len(file) : \A c \in Chunk :
          Says(file[i]) = <<c>> /\ c[1] = v => c[2] < chunks[v]

InHand == \A v \in Writers : pc[v] = "data" => Says(rec[v]) = <<>> \/ Newest(v)

SharedInv == SharedTypes /\ Known /\ Climbing(file) /\ InHand

(* What a line about to be written says: nothing, or the piece just brought. *)
Brings(w, r) ==
    \/ Says(r) = <<>> /\ chunks' = chunks
    \/ /\ Says(r) = << <<w, chunks[w] + 1>> >>
       /\ chunks[w] < MaxChunks
       /\ chunks' = [chunks EXCEPT ![w] = @ + 1]

LEMMA ChunkParts ==
    ASSUME NEW c \in Chunk
    PROVE  c[1] \in Writers /\ c[2] \in 1 .. MaxChunks /\ c = <<c[1], c[2]>>
  BY DEF Chunk

LEMMA SameSequence ==
    ASSUME NEW a, NEW b, <<a>> = <<b>> PROVE a = b
  OBVIOUS

LEMMA SharedLog ==
    ASSUME SharedInv, NEW w \in Writers, NEW r \in Records, Log(w, r), Brings(w, r),
           file' = file, title' = title, mem' \in Seq(Shown), pending' \in BOOLEAN
    PROVE  SharedInv'
<1>1. SharedTypes /\ Known /\ Climbing(file) /\ InHand
  BY DEF SharedInv
<1>2. /\ pc[w] = "idle" /\ pc' = [pc EXCEPT ![w] = "data"] /\ rec' = [rec EXCEPT ![w] = r]
  BY DEF Log, Goto
<1>3. MaxChunks \in Nat /\ \A v \in Writers : chunks[v] \in 0 .. MaxChunks
  BY <1>1, ConvLogAssumption DEF SharedTypes
<1>4. /\ chunks' \in [Writers -> 0 .. MaxChunks]
      /\ \A v \in Writers : chunks[v] <= chunks'[v] /\ (v # w => chunks'[v] = chunks[v])
  <2>1. CASE chunks' = chunks
    BY <1>1, <1>3, <2>1 DEF SharedTypes
  <2>2. CASE chunks[w] < MaxChunks /\ chunks' = [chunks EXCEPT ![w] = chunks[w] + 1]
    <3>1. chunks[w] + 1 \in 0 .. MaxChunks
      BY <1>3, <2>2
    <3> QED
      BY <1>1, <1>3, <2>2, <3>1 DEF SharedTypes
  <2> QED
    BY <2>1, <2>2 DEF Brings
<1>5. SharedTypes'
  <2>1. "data" \in AppendPlaces
    BY DEF AppendPlaces
  <2> QED
    BY <1>1, <1>2, <1>4, <2>1 DEF SharedTypes
<1>6. Known'
  <2> SUFFICES ASSUME NEW i \in 1 .. Len(file), NEW c \in Chunk, c[2] <= chunks[c[1]],
                      Says(file[i]) = <<c>>
               PROVE  c[2] <= chunks'[c[1]]
    BY <1>1 DEF Known
  <2>1. c[1] \in Writers /\ c[2] \in Nat
    BY <1>3, ChunkParts
  <2>2. chunks[c[1]] <= chunks'[c[1]] /\ chunks[c[1]] \in Nat /\ chunks'[c[1]] \in Nat
    BY <1>3, <1>4, <2>1
  <2> QED
    BY ONLY <2>1, <2>2, c[2] <= chunks[c[1]]
<1>7. Climbing(file)'
  BY <1>1 DEF Climbing
<1>8. InHand'
  <2> SUFFICES ASSUME NEW v \in Writers, pc'[v] = "data", Says(rec'[v]) # <<>>
               PROVE  Newest(v)'
    BY DEF InHand
  <2>1. CASE v # w
    <3>1. pc[v] = "data" /\ rec'[v] = rec[v] /\ chunks'[v] = chunks[v]
      BY <1>1, <1>2, <1>4, <2>1 DEF SharedTypes
    <3>2. Newest(v)
      BY <1>1, <3>1 DEF InHand
    <3> QED
      BY <3>1, <3>2 DEF Newest
  <2>2. CASE v = w
    <3>1. rec'[w] = r
      BY <1>1, <1>2 DEF SharedTypes
    <3>2. /\ Says(r) = << <<w, chunks[w] + 1>> >> /\ chunks[w] < MaxChunks
          /\ chunks'[w] = chunks[w] + 1
      BY <1>1, <2>2, <3>1 DEF Brings, SharedTypes
    <3>3. chunks'[w] \in 1 .. MaxChunks
      BY <1>3, <3>2
    <3>4. ASSUME NEW i \in 1 .. Len(file), NEW c \in Chunk, Says(file[i]) = <<c>>, c[1] = w
          PROVE  c[2] < chunks'[w]
      <4>1. c[2] <= chunks[c[1]]
        <5>1. PICK d \in Chunk : d[2] <= chunks[d[1]] /\ Says(file[i]) = <<d>>
          BY <1>1, <3>4, EmptySeq DEF Known
        <5>2. c = d
          BY <3>4, <5>1, SameSequence
        <5> QED
          BY <5>1, <5>2
      <4>2. c[2] \in Nat
        BY ChunkParts, <1>3
      <4> QED
        BY <1>3, <3>2, <3>4, <4>1, <4>2
    <3> QED
      BY <2>2, <3>1, <3>2, <3>3, <3>4 DEF Newest
  <2> QED
    BY <2>1, <2>2
<1> QED
  BY <1>5, <1>6, <1>7, <1>8 DEF SharedInv

(* A step that neither writes nor takes anything to write. *)
LEMMA SharedKeeps ==
    ASSUME SharedInv, UNCHANGED <<file, chunks>>, pc' \in [Writers -> AppendPlaces],
           rec' \in [Writers -> Records \cup {NewLine}],
           \A v \in Writers : pc'[v] = "data" =>
               Says(rec'[v]) = <<>> \/ (pc[v] = "data" /\ rec'[v] = rec[v]),
           mem' \in Seq(Shown), title' \in 0 .. MaxTitles, pending' \in BOOLEAN
    PROVE  SharedInv'
<1>1. SharedTypes /\ Known /\ Climbing(file) /\ InHand
  BY DEF SharedInv
<1>2. SharedTypes'
  BY <1>1 DEF SharedTypes
<1>3. Known' /\ Climbing(file)'
  BY <1>1 DEF Known, Climbing
<1>4. InHand'
  <2> SUFFICES ASSUME NEW v \in Writers, pc'[v] = "data", Says(rec'[v]) # <<>>
               PROVE  Newest(v)'
    BY DEF InHand
  <2>1. pc[v] = "data" /\ rec'[v] = rec[v]
    OBVIOUS
  <2>2. Newest(v)
    BY <1>1, <2>1 DEF InHand
  <2> QED
    BY <2>1, <2>2 DEF Newest
<1> QED
  BY <1>2, <1>3, <1>4 DEF SharedInv

LEMMA SaysNothing ==
    /\ Says(Stats) = <<>> /\ Says(Response) = <<>> /\ Says(NewLine) = <<>>
    /\ \A id : Says(Token("rawInput", "none", <<id>>, FALSE)) = <<>>
    /\ \A n : Says(Created(n)) = <<>>
<1>1. \A n : Created(n).kind = "created"
  BY DEF Created, Token
<1> QED
  BY <1>1 DEF Says, Stats, Response, NewLine, Token

LEMMA SaysText ==
    ASSUME NEW type, NEW text, NEW extra, NEW r,
           \/ r = Token("merge", type, text, extra)
           \/ r = BubbleLine(Bubble(type, text, extra))
    PROVE  Says(r) = text
  BY DEF Says, BubbleLine, Token, Bubble

LEMMA SharedAddBubble ==
    ASSUME SharedInv, NEW w \in Writers, NEW type \in Types, AddBubble(w, type)
    PROVE  SharedInv'
<1> DEFINE chunk == <<w, chunks[w] + 1>>
           merges == type \in Streamed /\ mem # <<>> /\ Last(mem).type = type
           counted == type = "llm" /\ pending
           bubble == Bubble(type, <<chunk>>, counted)
<1>1. /\ mem \in Seq(Shown) /\ pending \in BOOLEAN /\ chunks \in [Writers -> 0 .. MaxChunks]
      /\ MaxChunks \in Nat
  BY ConvLogAssumption DEF SharedInv, SharedTypes
<1>2. /\ chunks[w] < MaxChunks /\ chunks' = [chunks EXCEPT ![w] = @ + 1]
      /\ title' = title /\ file' = file
  BY DEF AddBubble, BringChunk, disk
<1>3. chunk \in Chunk
  <2>1. chunks[w] + 1 \in 1 .. MaxChunks
    BY <1>1, <1>2
  <2> QED
    BY <2>1 DEF Chunk
<1>4. \/ /\ merges
         /\ mem' = [mem EXCEPT ![Len(mem)].text = Append(@, chunk)]
         /\ Log(w, Token("merge", type, <<chunk>>, FALSE))
         /\ UNCHANGED pending
      \/ /\ ~merges
         /\ mem' = Append(mem, bubble)
         /\ Log(w, BubbleLine(bubble))
         /\ pending' = (pending /\ ~counted)
  BY DEF AddBubble
<1>5. bubble \in Shown
  <2>1. <<chunk>> \in Seq(Chunk) /\ <<chunk>> # <<>> /\ counted \in BOOLEAN
    BY <1>1, <1>3
  <2> QED
    BY <2>1, IsShown
<1>6. CASE /\ merges
           /\ mem' = [mem EXCEPT ![Len(mem)].text = Append(@, chunk)]
           /\ Log(w, Token("merge", type, <<chunk>>, FALSE))
           /\ UNCHANGED pending
  <2> DEFINE r == Token("merge", type, <<chunk>>, FALSE)
             n == Len(mem)
             text == Append(mem[n].text, chunk)
             b == [mem[n] EXCEPT !.text = text]
             longer == [mem EXCEPT ![n] = b]
  <2>1. r \in Records
    BY <1>3, <1>5, LoggedRecords
  <2>2. Says(r) = <<chunk>>
    <3> DEFINE said == <<chunk>>
               none == FALSE
    <3>1. r = Token("merge", type, said, none)
      OBVIOUS
    <3> HIDE DEF r, said, none
    <3>2. Says(r) = said
      BY ONLY <3>1, SaysText
    <3> QED
      BY <3>2 DEF said
  <2>3. b \in Shown
    <3>1. mem[n] \in Shown /\ mem[n].text \in Seq(Chunk) /\ <<chunk>> \in Seq(Chunk)
      <4>1. mem # <<>>
        BY <1>6
      <4>2. n \in 1 .. n
        BY ONLY <1>1, <4>1, ShownTypes, EmptySeq
      <4>3. <<chunk>> \in Seq(Chunk)
        BY <1>3
      <4> QED
        BY <1>1, <4>2, <4>3, ShownTypes
    <3>2. text = mem[n].text \o <<chunk>>
      BY <1>3, <3>1, AppendIsConcat
    <3>3. TRUE \in BOOLEAN
      OBVIOUS
    <3> HIDE DEF text, n
    <3> QED
      BY <3>1, <3>2, <3>3, BubbleChanges
  <2>4. mem' = longer /\ n = Len(mem)
    BY <1>6
  <2> HIDE DEF b, n
  <2>5. longer \in Seq(Shown)
    BY <1>1, <1>6, <2>3, <2>4, ReplaceLast
  <2> HIDE DEF longer, r
  <2>6. Log(w, r) /\ pending' \in BOOLEAN /\ mem' \in Seq(Shown)
    BY <1>1, <1>6, <2>4, <2>5 DEF r
  <2>7. Brings(w, r)
    BY <1>2, <2>2 DEF Brings
  <2> QED
    BY <1>2, <2>1, <2>6, <2>7, SharedLog
<1>7. CASE /\ ~merges
           /\ mem' = Append(mem, bubble)
           /\ Log(w, BubbleLine(bubble))
           /\ pending' = (pending /\ ~counted)
  <2>1. Says(BubbleLine(bubble)) = <<chunk>>
    <3> DEFINE line == BubbleLine(bubble)
    <3>1. line = BubbleLine(Bubble(type, <<chunk>>, counted))
      OBVIOUS
    <3> HIDE DEF line, chunk, counted
    <3>2. Says(line) = <<chunk>>
      BY ONLY <3>1, SaysText
    <3> QED
      BY <3>2 DEF line
  <2>2. pending' \in BOOLEAN
    BY <1>1, <1>7
  <2> HIDE DEF bubble
  <2>3. BubbleLine(bubble) \in Records
    BY <1>3, <1>5, LoggedRecords
  <2>4. mem' \in Seq(Shown)
    BY <1>1, <1>5, <1>7, AppendProperties
  <2>5. Brings(w, BubbleLine(bubble))
    BY <1>2, <2>1 DEF Brings
  <2> QED
    BY <1>2, <1>7, <2>2, <2>3, <2>4, <2>5, SharedLog
<1> QED
  BY <1>4, <1>6, <1>7

LEMMA SharedRawInput ==
    ASSUME SharedInv, NEW w \in Writers, RawInput(w)
    PROVE  SharedInv'
<1>1. mem \in Seq(Shown) /\ pending \in BOOLEAN
  BY DEF SharedInv, SharedTypes
<1>2. PICK i \in DOMAIN mem :
          /\ mem[i].type = "tool_request"
          /\ mem' = AttachTo(mem, mem[i].text[1])
          /\ Log(w, Token("rawInput", "none", <<mem[i].text[1]>>, FALSE))
  BY DEF RawInput
<1>3. title' = title /\ file' = file /\ pending' = pending /\ chunks' = chunks
  BY DEF RawInput, disk
<1> DEFINE id == mem[i].text[1]
           r == Token("rawInput", "none", <<id>>, FALSE)
<1>4. mem[i] \in Shown /\ id \in Chunk
  <2>1. mem[i] \in Shown
    BY <1>1, ShownTypes
  <2>2. mem[i].text \in Seq(Chunk) /\ mem[i].text # <<>>
    BY <2>1, BubbleTypes
  <2>3. 1 \in 1 .. Len(mem[i].text)
    BY <2>2, EmptySeq, LenProperties
  <2> QED
    BY <2>1, <2>2, <2>3, ElementOfSeq
<1>5. Log(w, r) /\ mem' = AttachTo(mem, id)
  BY <1>2
<1> HIDE DEF id
<1>6. r \in Records
  <2>1. mem[i].type \in Types
    BY <1>4, BubbleTypes
  <2> QED
    BY <1>4, <2>1, LoggedRecords
<1>7. mem' \in Seq(Shown)
  BY <1>1, <1>5, AttachProperties
<1>8. Brings(w, r)
  BY <1>3, SaysNothing DEF Brings
<1> HIDE DEF r
<1> QED
  BY <1>1, <1>3, <1>5, <1>6, <1>7, <1>8, SharedLog

LEMMA SharedTokenStats ==
    ASSUME SharedInv, NEW w \in Writers, TokenStats(w)
    PROVE  SharedInv'
<1>1. mem \in Seq(Shown)
  BY DEF SharedInv, SharedTypes
<1>2. /\ UNCHANGED <<title, file, mem, chunks>>
      /\ pending' = TRUE /\ Log(w, Stats)
  BY DEF TokenStats, disk
<1>3. Brings(w, Stats)
  BY <1>2, SaysNothing DEF Brings
<1> QED
  BY <1>1, <1>2, <1>3, OtherRecords, SharedLog

LEMMA SharedPromptResponse ==
    ASSUME SharedInv, NEW w \in Writers, PromptResponse(w)
    PROVE  SharedInv'
<1>1. mem \in Seq(Shown) /\ pending \in BOOLEAN
  BY DEF SharedInv, SharedTypes
<1>2. UNCHANGED <<title, file, mem, pending, chunks>> /\ Log(w, Response)
  BY DEF PromptResponse, memory, disk
<1>3. Brings(w, Response)
  BY <1>2, SaysNothing DEF Brings
<1> QED
  BY <1>1, <1>2, <1>3, OtherRecords, SharedLog

LEMMA ExtraTyped ==
    ASSUME NEW ms \in Seq(Shown), NEW i \in 1 .. Len(ms)
    PROVE  [ms EXCEPT ![i].extra = TRUE] \in Seq(Shown)
<1> DEFINE b == [ms[i] EXCEPT !.extra = TRUE]
           other == [ms EXCEPT ![i] = b]
<1>1. b \in Shown
  BY ShownTypes, BubbleChanges, EmptySeq
<1> HIDE DEF b
<1>2. other \in Seq(Shown)
  <2>1. Len(ms) \in Nat /\ DOMAIN ms = 1 .. Len(ms) /\ \A j \in 1 .. Len(ms) : ms[j] \in Shown
    BY ShownTypes
  <2>2. other \in [1 .. Len(ms) -> Shown]
    BY <1>1, <2>1
  <2> HIDE DEF other
  <2> QED
    BY <2>1, <2>2
<1> QED
  BY <1>2 DEF b

LEMMA SharedAnswerAsk ==
    ASSUME SharedInv, NEW w \in Writers, AnswerAsk(w)
    PROVE  SharedInv'
<1>1. SharedTypes
  BY DEF SharedInv
<1>2. UNCHANGED <<title, pending, file, chunks, pc, rec>>
  BY DEF AnswerAsk, control, disk
<1>3. PICK i \in DOMAIN mem : mem' = [mem EXCEPT ![i].extra = TRUE]
  BY DEF AnswerAsk
<1> DEFINE other == [mem EXCEPT ![i].extra = TRUE]
<1>4. i \in 1 .. Len(mem) /\ mem \in Seq(Shown)
  BY <1>1, <1>3, ShownTypes DEF SharedTypes
<1>5. other \in Seq(Shown)
  BY <1>4, ExtraTyped
<1>6. mem' \in Seq(Shown)
  BY <1>3, <1>5
<1> QED
  BY <1>1, <1>2, <1>6, SharedKeeps DEF SharedTypes

(* One writer goes on, and takes nothing to write. *)
LEMMA SharedGoing ==
    ASSUME SharedTypes, NEW w \in Writers, NEW from, NEW to \in AppendPlaces,
           to # "data", Goto(w, from, to)
    PROVE  /\ pc' \in [Writers -> AppendPlaces] /\ pc[w] = from /\ pc'[w] = to
           /\ \A v \in Writers : v # w => pc'[v] = pc[v]
           /\ \A v \in Writers : pc'[v] = "data" => pc[v] = "data"
  BY DEF SharedTypes, Goto

LEMMA SharedFinishTurn ==
    ASSUME SharedInv, NEW w \in Writers, FinishTurn(w)
    PROVE  SharedInv'
<1>1. SharedTypes /\ mem \in Seq(Shown) /\ pending \in BOOLEAN
  BY DEF SharedInv, SharedTypes
<1>2. UNCHANGED <<title, file, chunks, rec>> /\ pending' \in BOOLEAN
  BY <1>1 DEF FinishTurn, disk
<1>3. /\ pc' \in [Writers -> AppendPlaces]
      /\ \A v \in Writers : pc'[v] = "data" => pc[v] = "data"
  <2>1. Goto(w, "finish", "idle") /\ "idle" \in AppendPlaces
    BY DEF FinishTurn, AppendPlaces
  <2> QED
    BY <1>1, <2>1, SharedGoing
<1>4. mem' \in Seq(Shown)
  <2>1. CASE exists /\ pending /\ \E i \in DOMAIN mem : mem[i].type = "llm"
    <3> DEFINE I == {i \in 1 .. Len(mem) : mem[i].type = "llm"}
               last == Max(I)
               other == [mem EXCEPT ![last].extra = TRUE]
    <3>1. Len(mem) \in Nat /\ I \in SUBSET (1 .. Len(mem)) /\ I # {}
      BY <1>1, <2>1, ShownTypes
    <3>2. last \in I
      <4> HIDE DEF I
      <4> QED
        BY <3>1, MaxIsIn
    <3>3. SelectLastInSeq(mem, LAMBDA b : b.type = "llm") = last
      BY <3>1 DEF SelectLastInSeq
    <3>4. mem' = other
      BY <2>1, <3>3 DEF FinishTurn
    <3>5. last \in 1 .. Len(mem)
      BY <3>2
    <3> HIDE DEF last
    <3>6. other \in Seq(Shown)
      BY <1>1, <3>5, ExtraTyped
    <3> QED
      BY <3>4, <3>6
  <2>2. CASE ~(exists /\ pending /\ \E i \in DOMAIN mem : mem[i].type = "llm")
    <3>1. mem' = mem
      BY <2>2 DEF FinishTurn
    <3> QED
      BY <1>1, <3>1
  <2> QED
    BY <2>1, <2>2
<1>5. rec' \in [Writers -> Records \cup {NewLine}] /\ title' \in 0 .. MaxTitles
  BY <1>1, <1>2 DEF SharedTypes
<1> QED
  BY <1>2, <1>3, <1>4, <1>5, SharedKeeps

LEMMA SharedCancel ==
    ASSUME SharedInv, Cancel
    PROVE  SharedInv'
<1>1. SharedTypes
  BY DEF SharedInv
<1>2. UNCHANGED <<mem, title, pending, file, chunks, pc, rec>>
  BY DEF Cancel, control, disk
<1> QED
  BY <1>1, <1>2, SharedKeeps DEF SharedTypes

LEMMA SharedRename ==
    ASSUME SharedInv, NEW w \in Writers, Rename(w)
    PROVE  SharedInv'
<1>1. SharedTypes /\ mem \in Seq(Shown) /\ pending \in BOOLEAN /\ title \in 0 .. MaxTitles
      /\ MaxTitles \in Nat
  BY ConvLogAssumption DEF SharedInv, SharedTypes
<1>2. UNCHANGED <<mem, pending, file, chunks, rec>> /\ title' = title + 1 /\ title < MaxTitles
  BY DEF Rename, disk
<1>3. /\ pc' \in [Writers -> AppendPlaces]
      /\ \A v \in Writers : pc'[v] = "data" => pc[v] = "data"
  <2>1. Goto(w, "idle", "marshal") /\ "marshal" \in AppendPlaces
    BY DEF Rename, AppendPlaces
  <2> QED
    BY <1>1, <2>1, SharedGoing
<1>4. title' \in 0 .. MaxTitles
  BY <1>1, <1>2
<1>5. rec' \in [Writers -> Records \cup {NewLine}]
  BY <1>1, <1>2 DEF SharedTypes
<1> QED
  BY <1>1, <1>2, <1>3, <1>4, <1>5, SharedKeeps

LEMMA SharedMarshal ==
    ASSUME SharedInv, NEW w \in Writers, Marshal(w)
    PROVE  SharedInv'
<1>1. SharedTypes /\ mem \in Seq(Shown) /\ pending \in BOOLEAN /\ title \in 0 .. MaxTitles
  BY DEF SharedInv, SharedTypes
<1>2. UNCHANGED <<mem, title, pending, file, chunks>> /\ rec' = [rec EXCEPT ![w] = Created(title)]
  BY DEF Marshal, disk, memory
<1>3. pc' = [pc EXCEPT ![w] = "data"]
  BY DEF Marshal, Goto
<1>4. Created(title) \in Records /\ Says(Created(title)) = <<>>
  BY <1>1, CreatedRecord, SaysNothing
<1>5. pc' \in [Writers -> AppendPlaces] /\ rec' \in [Writers -> Records \cup {NewLine}]
  <2> DEFINE r == Created(title)
  <2>1. pc' \in [Writers -> AppendPlaces]
    BY <1>1, <1>3 DEF SharedTypes, AppendPlaces
  <2>2. r \in Records /\ rec' = [rec EXCEPT ![w] = r]
    BY <1>2, <1>4
  <2>3. rec \in [Writers -> Records \cup {NewLine}]
    BY <1>1 DEF SharedTypes
  <2> HIDE DEF r
  <2>4. rec' \in [Writers -> Records \cup {NewLine}]
    BY ONLY <2>2, <2>3
  <2> QED
    BY <2>1, <2>4
<1>6. ASSUME NEW v \in Writers, pc'[v] = "data"
      PROVE  Says(rec'[v]) = <<>> \/ (pc[v] = "data" /\ rec'[v] = rec[v])
  <2>1. CASE v = w
    BY <1>1, <1>2, <1>4, <2>1 DEF SharedTypes
  <2>2. CASE v # w
    BY <1>1, <1>2, <1>3, <1>6, <2>2 DEF SharedTypes
  <2> QED
    BY <2>1, <2>2
<1> QED
  BY <1>1, <1>2, <1>5, <1>6, SharedKeeps

LEMMA SharedArmRunning ==
    ASSUME SharedInv, NEW w \in Writers, ArmRunning(w)
    PROVE  SharedInv'
<1>1. SharedTypes
  BY DEF SharedInv
<1>2. UNCHANGED <<mem, title, pending, file, chunks, rec>>
  BY DEF ArmRunning, disk
<1>3. /\ pc' \in [Writers -> AppendPlaces]
      /\ \A v \in Writers : pc'[v] = "data" => pc[v] = "data"
  <2>1. Goto(w, "arm", "idle") /\ "idle" \in AppendPlaces
    BY DEF ArmRunning, AppendPlaces
  <2> QED
    BY <1>1, <2>1, SharedGoing
<1> QED
  BY <1>1, <1>2, <1>3, SharedKeeps DEF SharedTypes

LEMMA SharedDelete ==
    ASSUME SharedInv, NEW w \in Writers, Delete(w)
    PROVE  SharedInv'
<1>1. SharedTypes
  BY DEF SharedInv
<1>2. UNCHANGED <<mem, title, pending, file, chunks, rec>>
  BY DEF Delete, disk
<1>3. /\ pc' \in [Writers -> AppendPlaces]
      /\ \A v \in Writers : pc'[v] = "data" => pc[v] = "data"
  <2>1. Goto(w, "idle", "remove") /\ "remove" \in AppendPlaces
    BY DEF Delete, AppendPlaces
  <2> QED
    BY <1>1, <2>1, SharedGoing
<1> QED
  BY <1>1, <1>2, <1>3, SharedKeeps DEF SharedTypes

(* One more token in the file, which says nothing or what one writer has in its
   hand and lets go of. *)
LEMMA SharedWrites ==
    ASSUME SharedInv, NEW w \in Writers, NEW r \in Records \cup {NewLine},
           file' = Append(file, r), UNCHANGED <<mem, title, pending, chunks>>,
           pc' \in [Writers -> AppendPlaces], rec' \in [Writers -> Records \cup {NewLine}],
           pc'[w] # "data",
           \A v \in Writers : v # w => pc'[v] = pc[v] /\ rec'[v] = rec[v],
           Says(r) = <<>> \/ (Newest(w) /\ r = rec[w])
    PROVE  SharedInv'
<1>1. SharedTypes /\ Known /\ Climbing(file) /\ InHand
  BY DEF SharedInv
<1> DEFINE n == Len(file)
           more == Append(file, r)
<1>2. /\ n \in Nat /\ more \in Seq(Records \cup {NewLine}) /\ Len(more) = n + 1
      /\ more[n + 1] = r /\ \A i \in 1 .. n : more[i] = file[i]
  <2>1. file \in Seq(Records \cup {NewLine})
    BY <1>1 DEF SharedTypes
  <2> QED
    BY <2>1, Appended
<1>3. file' = more
  OBVIOUS
<1> HIDE DEF more
<1>4. \A i \in 1 .. n + 1 : i = n + 1 \/ i \in 1 .. n
  BY <1>2
<1>5. SharedTypes'
  BY <1>1, <1>2, <1>3 DEF SharedTypes
<1>6. ASSUME NEW c \in Chunk, Says(r) = <<c>>
      PROVE  /\ c = <<w, chunks[w]>> /\ c[1] = w /\ c[2] = chunks[w]
             /\ \A i \in 1 .. n : \A d \in Chunk :
                   Says(file[i]) = <<d>> /\ d[1] = w => d[2] < chunks[w]
  <2>1. Newest(w) /\ r = rec[w]
    BY <1>6, EmptySeq
  <2>2. Says(r) = << <<w, chunks[w]>> >>
    BY <2>1 DEF Newest
  <2>3. c = <<w, chunks[w]>>
    BY <1>6, <2>2, SameSequence
  <2> QED
    BY <2>1, <2>3 DEF Newest
<1>7. Known'
  <2> SUFFICES ASSUME NEW i \in 1 .. n + 1
               PROVE  \/ Says(more[i]) = <<>>
                      \/ \E c \in Chunk : c[2] <= chunks[c[1]] /\ Says(more[i]) = <<c>>
    BY <1>2, <1>3 DEF Known
  <2>1. CASE i \in 1 .. n
    BY <1>1, <1>2, <2>1 DEF Known
  <2>2. CASE i = n + 1 /\ Says(r) = <<>>
    BY <1>2, <2>2
  <2>3. CASE i = n + 1 /\ Newest(w) /\ r = rec[w]
    <3> DEFINE c == <<w, chunks[w]>>
    <3>1. Says(r) = <<c>> /\ chunks[w] \in 1 .. MaxChunks
      BY <2>3 DEF Newest
    <3>2. c \in Chunk /\ c[1] = w /\ c[2] = chunks[w]
      BY <3>1 DEF Chunk
    <3>3. c[2] <= chunks[c[1]]
      BY <1>1, <3>2 DEF SharedTypes
    <3> HIDE DEF c
    <3> QED
      BY <1>2, <2>3, <3>1, <3>2, <3>3
  <2> QED
    BY <1>4, <2>1, <2>2, <2>3
<1>8. Climbing(more)
  <2> SUFFICES ASSUME NEW i \in 1 .. n + 1, NEW j \in 1 .. n + 1, NEW c \in Chunk,
                      NEW d \in Chunk, i < j, Says(more[i]) = <<c>>, Says(more[j]) = <<d>>,
                      c[1] = d[1]
               PROVE  c[2] < d[2]
    BY <1>2 DEF Climbing
  <2>1. i \in 1 .. n
    BY <1>2
  <2>2. CASE j \in 1 .. n
    BY <1>1, <1>2, <2>1, <2>2 DEF Climbing
  <2>3. CASE j = n + 1
    <3>1. Says(file[i]) = <<c>> /\ Says(r) = <<d>>
      BY <1>2, <2>1, <2>3
    <3> QED
      BY <1>6, <2>1, <3>1
  <2> QED
    BY <1>4, <2>2, <2>3
<1>9. InHand'
  <2> SUFFICES ASSUME NEW v \in Writers, pc'[v] = "data", Says(rec'[v]) # <<>>
               PROVE  Newest(v)'
    BY DEF InHand
  <2>1. v # w /\ pc[v] = "data" /\ rec'[v] = rec[v]
    OBVIOUS
  <2>2. Newest(v)
    BY <1>1, <2>1 DEF InHand
  <2>3. ASSUME NEW i \in 1 .. n + 1, NEW c \in Chunk, Says(more[i]) = <<c>>, c[1] = v
        PROVE  c[2] < chunks[v]
    <3>1. CASE i \in 1 .. n
      BY <1>2, <2>2, <2>3, <3>1 DEF Newest
    <3>2. CASE i = n + 1
      BY <1>2, <1>6, <2>1, <2>3, <3>2
    <3> QED
      BY <1>4, <3>1, <3>2
  <2> QED
    BY <1>2, <1>3, <2>1, <2>2, <2>3 DEF Newest
<1> QED
  BY <1>3, <1>5, <1>7, <1>8, <1>9 DEF SharedInv

LEMMA SharedWriteData ==
    ASSUME SharedInv, NEW w \in Writers, WriteData(w)
    PROVE  SharedInv'
<1>1. SharedTypes /\ InHand
  BY DEF SharedInv
<1>2. /\ UNCHANGED <<mem, title, pending, chunks, rec>> /\ file' = Append(file, rec[w])
      /\ Goto(w, "data", "newline")
  BY DEF WriteData, memory
<1>3. /\ pc' \in [Writers -> AppendPlaces] /\ pc[w] = "data" /\ pc'[w] = "newline"
      /\ \A v \in Writers : v # w => pc'[v] = pc[v]
  <2>1. "newline" \in AppendPlaces
    BY DEF AppendPlaces
  <2> QED
    BY <1>1, <1>2, <2>1, SharedGoing
<1>4. Says(rec[w]) = <<>> \/ Newest(w)
  BY <1>1, <1>3 DEF InHand
<1>5. rec[w] \in Records \cup {NewLine} /\ rec' \in [Writers -> Records \cup {NewLine}]
  BY <1>1, <1>2 DEF SharedTypes
<1> QED
  BY <1>2, <1>3, <1>4, <1>5, SharedWrites

LEMMA SharedWriteNewline ==
    ASSUME SharedInv, NEW w \in Writers, WriteNewline(w)
    PROVE  SharedInv'
<1>1. SharedTypes
  BY DEF SharedInv
<1>2. /\ UNCHANGED <<mem, title, pending, chunks>> /\ file' = Append(file, NewLine)
      /\ rec' = [rec EXCEPT ![w] = NewLine] /\ Goto(w, "newline", AfterLine(rec[w]))
  BY DEF WriteNewline, memory
<1>3. /\ pc' \in [Writers -> AppendPlaces] /\ pc'[w] # "data"
      /\ \A v \in Writers : v # w => pc'[v] = pc[v]
  <2>1. AfterLine(rec[w]) \in AppendPlaces /\ AfterLine(rec[w]) # "data"
    BY DEF AfterLine, AppendPlaces
  <2> QED
    BY <1>1, <1>2, <2>1, SharedGoing
<1>4. /\ rec' \in [Writers -> Records \cup {NewLine}]
      /\ \A v \in Writers : v # w => rec'[v] = rec[v]
  BY <1>1, <1>2 DEF SharedTypes
<1> DEFINE r == NewLine
<1>5. Says(r) = <<>> /\ r \in Records \cup {NewLine} /\ file' = Append(file, r)
  BY <1>2, SaysNothing
<1>6. UNCHANGED <<mem, title, pending, chunks>>
  BY <1>2
<1> HIDE DEF r
<1> QED
  BY <1>3, <1>4, <1>5, <1>6, SharedWrites

(* A file without a name takes what was being written with it. *)
LEMMA SharedRemoveFile ==
    ASSUME SharedInv, NEW w \in Writers, RemoveFile(w)
    PROVE  SharedInv'
<1>1. SharedTypes /\ InHand
  BY DEF SharedInv
<1>2. /\ UNCHANGED <<mem, title, pending, chunks>> /\ file' = <<>>
      /\ pc' = [v \in Writers |->
                   IF v = w \/ pc[v] = "rewrite" THEN "idle"
                   ELSE IF pc[v] = "newline" THEN AfterLine(rec[v]) ELSE pc[v]]
      /\ rec' = [v \in Writers |-> IF pc[v] = "newline" THEN NewLine ELSE rec[v]]
  BY DEF RemoveFile, memory
<1>3. \A v \in Writers : AfterLine(rec[v]) \in AppendPlaces /\ AfterLine(rec[v]) # "data"
  BY DEF AfterLine, AppendPlaces
<1>4. SharedTypes'
  <2>1. "idle" \in AppendPlaces /\ \A v \in Writers : pc[v] \in AppendPlaces
    BY <1>1 DEF AppendPlaces, SharedTypes
  <2>2. pc' \in [Writers -> AppendPlaces]
    BY <1>2, <1>3, <2>1
  <2>3. rec' \in [Writers -> Records \cup {NewLine}]
    BY <1>1, <1>2 DEF SharedTypes
  <2>4. file' \in Seq(Records \cup {NewLine})
    BY <1>2, EmptySeq
  <2> QED
    BY <1>1, <1>2, <2>2, <2>3, <2>4 DEF SharedTypes
<1>5. Len(file') = 0
  BY <1>2, EmptySeq
<1>6. Known' /\ Climbing(file)'
  BY <1>5 DEF Known, Climbing
<1>7. InHand'
  <2> SUFFICES ASSUME NEW v \in Writers, pc'[v] = "data", Says(rec'[v]) # <<>>
               PROVE  Newest(v)'
    BY DEF InHand
  <2>1. pc[v] = "data" /\ rec'[v] = rec[v]
    BY <1>2, <1>3
  <2>2. Newest(v)
    BY <1>1, <2>1 DEF InHand
  <2> QED
    BY <1>2, <1>5, <2>1, <2>2 DEF Newest
<1> QED
  BY <1>4, <1>6, <1>7 DEF SharedInv

LEMMA SharedReads ==
    ASSUME SharedInv
    PROVE  Load(file) \in Loaded /\ Ordered(Text(Load(file).messages))
<1>1. file \in Seq(Records \cup {NewLine}) /\ Known /\ Climbing(file)
  BY DEF SharedInv, SharedTypes
<1>2. Pieces(file)
  BY <1>1 DEF Known, Pieces
<1> QED
  BY <1>1, <1>2, LoadOrdered

LEMMA SharedCrash ==
    ASSUME SharedInv, Crash
    PROVE  SharedInv'
<1>1. SharedTypes
  BY DEF SharedInv
<1>2. Load(file) \in Loaded
  BY SharedReads
<1>3. /\ mem' = Load(file).messages /\ title' = Load(file).title /\ pending' = FALSE
      /\ pc' = [v \in Writers |-> "idle"] /\ rec' = [v \in Writers |-> NewLine]
      /\ UNCHANGED <<file, chunks>>
  BY DEF Crash, disk
<1>4. mem' \in Seq(Shown) /\ title' \in 0 .. MaxTitles /\ pending' \in BOOLEAN
  BY <1>2, <1>3, LoadedTypes
<1>5. pc' \in [Writers -> AppendPlaces] /\ rec' \in [Writers -> Records \cup {NewLine}]
  BY <1>3 DEF AppendPlaces
<1>6. \A v \in Writers : pc'[v] # "data"
  BY <1>3
<1> QED
  BY <1>3, <1>4, <1>5, <1>6, SharedKeeps

LEMMA SharedInit ==
    ASSUME Init
    PROVE  SharedInv
<1>1. /\ mem = <<>> /\ title = 0 /\ pending = FALSE /\ file = <<Created(0), NewLine>>
      /\ pc = [v \in Writers |-> "idle"] /\ rec = [v \in Writers |-> NewLine]
      /\ chunks = [v \in Writers |-> 0]
  BY DEF Init
<1> DEFINE r == Created(0)
<1>2. r \in Records /\ Says(r) = <<>> /\ Says(NewLine) = <<>>
  BY NoTitle, CreatedRecord, SaysNothing
<1>3. file = <<r, NewLine>>
  BY <1>1
<1> HIDE DEF r
<1>4. /\ file \in Seq(Records \cup {NewLine}) /\ Len(file) = 2
      /\ file[1] = r /\ file[2] = NewLine
  BY <1>2, <1>3
<1>5. SharedTypes
  <2>1. pc \in [Writers -> AppendPlaces] /\ rec \in [Writers -> Records \cup {NewLine}]
    BY <1>1 DEF AppendPlaces
  <2>2. chunks \in [Writers -> 0 .. MaxChunks]
    BY <1>1, ConvLogAssumption
  <2> QED
    BY <1>1, <1>4, <2>1, <2>2, NoTitle, EmptySeq DEF SharedTypes
<1>6. \A i \in 1 .. Len(file) : Says(file[i]) = <<>>
  <2>1. \A i \in 1 .. 2 : i = 1 \/ i = 2
    OBVIOUS
  <2> QED
    BY <1>2, <1>4, <2>1
<1>7. Known /\ Climbing(file)
  BY <1>6, EmptySeq DEF Known, Climbing
<1>8. InHand
  BY <1>1 DEF InHand
<1> QED
  BY <1>5, <1>7, <1>8 DEF SharedInv

LEMMA SharedNext ==
    ASSUME SharedInv, [Next]_vars, "undo" \notin Ops, "trim" \notin Ops
    PROVE  SharedInv'
<1>1. CASE UNCHANGED vars
  <2>1. UNCHANGED <<mem, title, pending, file, pc, rec, chunks>>
    BY <1>1 DEF vars, memory, disk, control
  <2>2. SharedTypes
    BY DEF SharedInv
  <2> QED
    BY <2>1, <2>2, SharedKeeps DEF SharedTypes
<1>2. ASSUME NEW w \in Writers,
             \/ AgentBubble(w) \/ UserMessage(w) \/ RawInput(w) \/ TokenStats(w)
             \/ AnswerAsk(w) \/ PromptResponse(w) \/ Rename(w) \/ Undo(w)
             \/ Trim(w) \/ Delete(w) \/ WriterStep(w)
      PROVE  SharedInv'
  <2>1. CASE AgentBubble(w)
    <3>1. PICK type \in Types : AddBubble(w, type)
      BY <2>1 DEF AgentBubble
    <3> QED
      BY <3>1, SharedAddBubble
  <2>2. CASE UserMessage(w)
    <3>1. "user" \in Types /\ AddBubble(w, "user")
      BY <2>2 DEF UserMessage
    <3> QED
      BY <3>1, SharedAddBubble
  <2>3. CASE RawInput(w)
    BY <2>3, SharedRawInput
  <2>4. CASE TokenStats(w)
    BY <2>4, SharedTokenStats
  <2>5. CASE AnswerAsk(w)
    BY <2>5, SharedAnswerAsk
  <2>6. CASE PromptResponse(w)
    BY <2>6, SharedPromptResponse
  <2>7. CASE Rename(w)
    BY <2>7, SharedRename
  <2>8. CASE Delete(w)
    BY <2>8, SharedDelete
  <2>9. CASE Marshal(w)
    BY <2>9, SharedMarshal
  <2>10. CASE WriteData(w)
    BY <2>10, SharedWriteData
  <2>11. CASE WriteNewline(w)
    BY <2>11, SharedWriteNewline
  <2>12. CASE ArmRunning(w)
    BY <2>12, SharedArmRunning
  <2>13. CASE FinishTurn(w)
    BY <2>13, SharedFinishTurn
  <2>14. CASE RemoveFile(w)
    BY <2>14, SharedRemoveFile
  <2>15. ~Undo(w) /\ ~Trim(w)
    BY DEF Undo, Trim
  <2>16. ~Truncate(w) /\ ~RewriteLine(w)
    <3>1. pc[w] \in AppendPlaces
      BY DEF SharedInv, SharedTypes
    <3> QED
      BY <3>1 DEF Truncate, RewriteLine, Goto, AppendPlaces
  <2> QED
    BY <1>2, <2>1, <2>2, <2>3, <2>4, <2>5, <2>6, <2>7, <2>8, <2>9, <2>10, <2>11, <2>12,
       <2>13, <2>14, <2>15, <2>16 DEF WriterStep
<1>3. CASE Cancel
  BY <1>3, SharedCancel
<1>4. CASE Crash
  BY <1>4, SharedCrash
<1> QED
  BY <1>1, <1>2, <1>3, <1>4 DEF Next

(* Any number of goroutines may write at once, and the process may end at any
   moment: as long as the file is only appended to, what each goroutine wrote is
   read back in its order, and no piece of it twice.  Undo and trim write the file
   again from the memory, which may hold a piece whose line is not written yet: it
   is then there twice. *)
THEOREM PiecesStayInOrder ==
    ASSUME "undo" \notin Ops, "trim" \notin Ops
    PROVE  Spec => []WritersInOrder
<1>1. Init => SharedInv
  BY SharedInit
<1>2. SharedInv /\ [Next]_vars => SharedInv'
  BY SharedNext
<1>3. SharedInv => WritersInOrder
  BY SharedReads DEF WritersInOrder, Ordered
<1> QED
  BY <1>1, <1>2, <1>3, PTL DEF Spec
=============================================================================
