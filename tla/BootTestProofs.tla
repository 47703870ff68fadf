---------------------------- MODULE BootTestProofs ----------------------------
(***************************************************************************)
(* Proofs about BootTest for a dialog of any length, chunks of any size    *)
(* and a machine that prints whatever it likes.                            *)
(***************************************************************************)
EXTENDS BootTest, SequenceTheorems, WellFoundedInduction, TLAPS

MarkerAt(text, k, i) ==
    i \in 1 .. Len(text) - 1 /\ text[i] = <<"head", k>> /\ text[i + 1] = <<"tail", k>>

(* No newline between the positions a and b; b ends a line.                *)
Between(text, a, b) == \A i \in a + 1 .. b - 1 : text[i] # Newline
EndsAt(text, b)     == b = Len(text) + 1 \/ text[b] = Newline

(* The text d goes on where c ends.                                        *)
Extends(c, d) == Len(c) <= Len(d) /\ \A i \in 1 .. Len(c) : d[i] = c[i]

TestSet    == [pc : {"reading", "communicate", "ended"}, at : 1 .. Prompts, buf : Seq(Token),
               read : Nat, from : Nat, success : BOOLEAN, status : {0, 1}]
MachineSet == [ends : Seq(Nat), got : Nat, typed : Nat, chatter : Nat]
PastSet    == [flushed : BOOLEAN, dropped : BOOLEAN, missed : BOOLEAN]
Typed ==
    /\ console \in Seq(Token) /\ machine \in MachineSet /\ past \in PastSet
    /\ group \in [alive : SUBSET {"leader", "child"}, reaped : BOOLEAN]
    /\ test \in TestSet /\ test.from <= test.read /\ test.read <= Len(console)
    /\ timer \in {"armed", "fired"}

(* The timer ends the dialog, and the status follows from how it ended.    *)
Phase ==
    /\ test.pc = "reading" => timer = "armed" /\ ~ test.success
    /\ test.pc = "communicate" /\ test.success => timer = "armed"
    /\ test.pc # "ended" => test.status = 1
    /\ test.pc = "ended" => (test.status = 0 <=> test.success /\ timer = "armed")

(* The first n prompts are in the text before a position, in their order.  *)
Dialog(text, n, upto) ==
    \E at \in [1 .. n -> Nat] :
        /\ \A k \in 1 .. n : MarkerAt(text, k, at[k]) /\ at[k] < upto
        /\ \A k \in 2 .. n : at[k - 1] < at[k]
DialogOK ==
    /\ test.pc = "reading" => Dialog(console, test.at - 1, test.from)
    /\ test.success => Dialog(console, Prompts, Len(console))

(* The buffer is what was read after the last newline.                     *)
BufferAt(text, from, read, p) ==
    /\ p \in from .. read /\ (p = from \/ text[p] = Newline) /\ Between(text, p, read + 1)
BufferOK ==
    test.pc = "reading" =>
        \E p \in Nat : /\ BufferAt(console, test.from, test.read, p)
                       /\ test.buf = SubSeq(console, p + 1, test.read)

(* If the prompt was read, then a line is to blame that shows it and that  *)
(* cannot be decoded -- which the last line, not complete, may still be.   *)
BadLine(text, k, from, read, a, b) ==
    /\ a \in from .. read /\ b \in a + 1 .. read + 1
    /\ a = from \/ text[a] = Newline
    /\ b = read + 1 \/ text[b] = Newline
    /\ Between(text, a, b)
    /\ Starts(k, SubSeq(text, a + 1, b - 1)) # {} /\ ~ Decodable(SubSeq(text, a + 1, b - 1))
Blamed(text, k, from, read) ==
    \A i \in from + 1 .. read - 1 : MarkerAt(text, k, i) =>
        \E a, b \in Nat : BadLine(text, k, from, read, a, b)
SearchOK == test.pc = "reading" => Blamed(console, test.at, test.from, test.read)

(* The machine has printed its prompts where it says, took no reply before *)
(* its prompt, and the prompt that is searched for is still to be read.    *)
MachineOK ==
    /\ Asked <= Prompts /\ machine.got <= Asked
    /\ \A k \in 1 .. Asked : MarkerAt(console, k, machine.ends[k] - 1)
RepliesOK ==
    test.pc = "reading" =>
        /\ past.flushed \/ test.at - 1 <= machine.got + machine.typed
        /\ past.dropped \/ (test.at <= Asked => test.from < machine.ends[test.at] - 1)

IInv == Typed /\ Phase /\ DialogOK /\ BufferOK /\ SearchOK /\ MachineOK /\ RepliesOK
-----------------------------------------------------------------------------
(***************************************************************************)
(* Texts and their lines.                                                  *)
(***************************************************************************)
LEMMA SmallestExists ==
    ASSUME NEW S \in SUBSET Nat, S # {}
    PROVE  \E m \in S : \A x \in S : m <= x
<1>1. PICK m \in S : \A x \in S : ~ (<<x, m>> \in OpToRel(<, Nat))
  BY WFMin, NatLessThanWellFounded
<1>2. \A x \in S : ~ (x < m)
  BY <1>1 DEF OpToRel
<1>3. QED
  BY <1>2

LEMMA LargestExists ==
    ASSUME NEW n \in Nat, NEW S \in SUBSET (0 .. n), S # {}
    PROVE  \E m \in S : \A x \in S : x <= m
<1> DEFINE T == {n - x : x \in S}
<1>1. T \in SUBSET Nat /\ T # {}
  <2>1. \A x \in S : n - x \in Nat
    OBVIOUS
  <2>2. QED
    BY <2>1
<1>2. PICK t \in T : \A y \in T : t <= y
  BY <1>1, SmallestExists
<1>3. PICK m \in S : t = n - m
  OBVIOUS
<1>4. ASSUME NEW x \in S PROVE x <= m
  <2>1. n - x \in T
    OBVIOUS
  <2>2. n - m <= n - x
    BY <1>2, <1>3, <2>1
  <2>3. QED
    BY <2>2
<1>5. QED
  BY <1>4

LEMMA MinIs ==
    ASSUME NEW S \in SUBSET Nat, NEW m \in S, \A x \in S : m <= x
    PROVE  Min(S) = m
<1>1. \E x \in S : \A y \in S : x =< y
  OBVIOUS
<1>2. Min(S) \in S /\ \A y \in S : Min(S) =< y
  BY <1>1, Zenon DEF Min
<1>3. Min(S) \in Nat /\ m \in Nat /\ Min(S) <= m /\ m <= Min(S)
  BY <1>2
<1>4. QED
  BY <1>3

LEMMA MinFacts ==
    ASSUME NEW S \in SUBSET Nat, S # {}
    PROVE  Min(S) \in S /\ \A x \in S : Min(S) <= x
<1>1. PICK m \in S : \A x \in S : m <= x
  BY SmallestExists
<1>2. QED
  BY <1>1, MinIs

LEMMA MaxFacts ==
    ASSUME NEW n \in Nat, NEW S \in SUBSET (0 .. n), S # {}
    PROVE  Max(S) \in S /\ \A x \in S : x <= Max(S)
<1>1. PICK m \in S : \A x \in S : x <= m
  BY LargestExists
<1>2. \E m1 \in S : \A x \in S : m1 >= x
  BY <1>1
<1>3. Max(S) \in S /\ \A x \in S : Max(S) >= x
  BY <1>2, Zenon DEF Max
<1>4. QED
  BY <1>3

LEMMA MarkerIsText == ASSUME NEW k \in Nat
                      PROVE  /\ Marker(k) \in Seq(Token) /\ Len(Marker(k)) = 2
                             /\ Marker(k)[1] = <<"head", k>> /\ Marker(k)[2] = <<"tail", k>>
                             /\ <<"head", k>> # Newline /\ <<"tail", k>> # Newline
<1>1. <<"head", k>> \in Token /\ <<"tail", k>> \in Token
  BY DEF Token
<1>2. \A x, y \in Token : <<x, y>> \in Seq(Token) /\ Len(<<x, y>>) = 2
  OBVIOUS
<1>3. <<"head", k>> # Newline /\ <<"tail", k>> # Newline
  BY DEF Newline
<1>4. QED
  BY <1>1, <1>2, <1>3 DEF Marker

(* marker in line.                                                         *)
LEMMA StartsAt ==
    ASSUME NEW text \in Seq(Token), NEW k \in Nat, NEW i
    PROVE  i \in Starts(k, text) <=> MarkerAt(text, k, i)
<1>1. CASE i \in 1 .. Len(text) - 1
  <2> DEFINE pair == SubSeq(text, i, i + 1)
  <2>1. /\ pair \in Seq(Token) /\ Len(pair) = 2
        /\ pair[1] = text[i] /\ pair[2] = text[i + 1]
    <3>1. \A j \in i .. i + 1 : text[j] \in Token
      BY <1>1, ElementOfSeq
    <3>2. /\ pair \in Seq(Token) /\ Len(pair) = (IF i <= i + 1 THEN (i + 1) - i + 1 ELSE 0)
          /\ \A j \in 1 .. (i + 1) - i + 1 : pair[j] = text[i + j - 1]
      BY <1>1, <3>1, SubSeqProperties
    <3>3. QED
      BY <1>1, <3>2
  <2>2. pair = Marker(k) <=> pair[1] = Marker(k)[1] /\ pair[2] = Marker(k)[2]
    <3>1. ASSUME pair[1] = Marker(k)[1], pair[2] = Marker(k)[2] PROVE pair = Marker(k)
      <4> HIDE DEF pair
      <4>1. \A j \in 1 .. Len(pair) : pair[j] = Marker(k)[j]
        BY <2>1, <3>1
      <4>2. QED
        BY <2>1, <4>1, MarkerIsText, SeqEqual
    <3>2. QED
      BY <3>1
  <2>3. i \in Starts(k, text) <=> pair = Marker(k)
    BY <1>1 DEF Starts
  <2>4. QED
    BY <1>1, <2>1, <2>2, <2>3, MarkerIsText DEF MarkerAt
<1>2. CASE i \notin 1 .. Len(text) - 1
  BY <1>2 DEF Starts, MarkerAt
<1>3. QED
  BY <1>1, <1>2

(* A part of a text, by its positions.                                     *)
LEMMA PartOf ==
    ASSUME NEW text \in Seq(Token), NEW a \in Nat, NEW b \in Nat, b <= Len(text)
    PROVE  /\ SubSeq(text, a + 1, b) \in Seq(Token)
           /\ Len(SubSeq(text, a + 1, b)) = IF a < b THEN b - a ELSE 0
           /\ \A i \in 1 .. b - a : SubSeq(text, a + 1, b)[i] = text[a + i]
<1>1. \A i \in a + 1 .. b : text[i] \in Token
  BY ElementOfSeq
<1>2. /\ SubSeq(text, a + 1, b) \in Seq(Token)
      /\ Len(SubSeq(text, a + 1, b)) = (IF a + 1 <= b THEN b - (a + 1) + 1 ELSE 0)
      /\ \A i \in 1 .. b - (a + 1) + 1 : SubSeq(text, a + 1, b)[i] = text[(a + 1) + i - 1]
  BY <1>1, SubSeqProperties
<1>3. QED
  BY <1>2

LEMMA PartOfPart ==
    ASSUME NEW text \in Seq(Token), NEW a \in Nat, NEW b \in Nat, b <= Len(text), a <= b,
           NEW c \in Nat, NEW d \in Nat, c <= d, d <= b - a
    PROVE  SubSeq(SubSeq(text, a + 1, b), c + 1, d) = SubSeq(text, a + c + 1, a + d)
<1> DEFINE part == SubSeq(text, a + 1, b)
<1>1. /\ part \in Seq(Token) /\ Len(part) = b - a
      /\ \A i \in 1 .. b - a : part[i] = text[a + i]
  BY PartOf
<1> HIDE DEF part
<1>2. /\ SubSeq(part, c + 1, d) \in Seq(Token) /\ Len(SubSeq(part, c + 1, d)) = d - c
      /\ \A i \in 1 .. d - c : SubSeq(part, c + 1, d)[i] = part[c + i]
  BY <1>1, PartOf
<1>3. /\ SubSeq(text, (a + c) + 1, a + d) \in Seq(Token)
      /\ Len(SubSeq(text, (a + c) + 1, a + d)) = d - c
      /\ \A i \in 1 .. d - c : SubSeq(text, (a + c) + 1, a + d)[i] = text[(a + c) + i]
  <2>1. a + c \in Nat /\ a + d \in Nat /\ a + d <= Len(text) /\ (a + d) - (a + c) = d - c
        /\ (IF a + c < a + d THEN (a + d) - (a + c) ELSE 0) = d - c
    OBVIOUS
  <2> DEFINE u == a + c
             v == a + d
  <2> HIDE DEF u, v
  <2>2. /\ SubSeq(text, u + 1, v) \in Seq(Token)
        /\ Len(SubSeq(text, u + 1, v)) = (IF u < v THEN v - u ELSE 0)
        /\ \A i \in 1 .. v - u : SubSeq(text, u + 1, v)[i] = text[u + i]
    BY <2>1, PartOf DEF u, v
  <2>3. QED
    BY <2>1, <2>2 DEF u, v
<1>4. \A i \in 1 .. d - c : part[c + i] = text[(a + c) + i]
  <2>1. \A i \in 1 .. d - c : c + i \in 1 .. b - a /\ a + (c + i) = (a + c) + i
    OBVIOUS
  <2>2. QED
    BY <1>1, <2>1
<1>5. SubSeq(part, c + 1, d) = SubSeq(text, (a + c) + 1, a + d)
  BY <1>2, <1>3, <1>4, SeqEqual
<1>6. QED
  BY <1>5 DEF part

LEMMA PartOfLonger ==
    ASSUME NEW c \in Seq(Token), NEW d \in Seq(Token), Extends(c, d),
           NEW a \in Nat, NEW b \in Nat, b <= Len(c)
    PROVE  SubSeq(d, a + 1, b) = SubSeq(c, a + 1, b)
<1>1. b <= Len(d) /\ Len(d) \in Nat /\ Len(c) \in Nat
  BY LenProperties DEF Extends
<1>2. /\ SubSeq(c, a + 1, b) \in Seq(Token) /\ SubSeq(d, a + 1, b) \in Seq(Token)
      /\ Len(SubSeq(c, a + 1, b)) = Len(SubSeq(d, a + 1, b))
      /\ Len(SubSeq(c, a + 1, b)) = IF a < b THEN b - a ELSE 0
      /\ \A i \in 1 .. b - a : SubSeq(c, a + 1, b)[i] = c[a + i] /\ SubSeq(d, a + 1, b)[i] = d[a + i]
  BY <1>1, PartOf
<1>3. \A i \in 1 .. b - a : c[a + i] = d[a + i]
  <2>1. \A i \in 1 .. b - a : a + i \in 1 .. Len(c)
    BY <1>1
  <2>2. QED
    BY <2>1 DEF Extends
<1>4. \A i \in 1 .. Len(SubSeq(c, a + 1, b)) : SubSeq(c, a + 1, b)[i] = SubSeq(d, a + 1, b)[i]
  BY <1>2, <1>3
<1>5. QED
  BY <1>2, <1>4, SeqEqual

(* What Lines gives for a position, and that every character is in a line. *)
Line(text, c, d) == c < d /\ d <= Len(text) + 1 /\ EndsAt(text, d) /\ Between(text, c, d)

LEMMA LinesStart ==
    ASSUME NEW text \in Seq(Token)
    PROVE  /\ DOMAIN Lines(text) = {0} \cup Newlines(text)
           /\ DOMAIN Lines(text) \in SUBSET (0 .. Len(text))
  BY LenProperties DEF Lines, Newlines

LEMMA LineIs ==
    ASSUME NEW text \in Seq(Token), NEW c \in DOMAIN Lines(text), NEW d \in Nat,
           Line(text, c, d)
    PROVE  Lines(text)[c] = SubSeq(text, c + 1, d - 1)
<1> DEFINE S == {x \in Newlines(text) \cup {Len(text) + 1} : c < x}
<1>1. S \in SUBSET Nat /\ Len(text) \in Nat /\ c \in Nat
  BY LinesStart, LenProperties DEF Newlines
<1>2. d \in S
  BY <1>1, LenProperties DEF Line, EndsAt, Newlines
<1>3. \A x \in S : d <= x
  BY <1>1 DEF Line, Between, Newlines
<1>4. Min(S) = d
  BY <1>1, <1>2, <1>3, MinIs
<1>5. Lines(text)[c] = SubSeq(text, c + 1, Min(S) - 1)
  BY DEF Lines
<1>6. QED
  BY <1>4, <1>5

LEMMA LineExists ==
    ASSUME NEW text \in Seq(Token), NEW c \in DOMAIN Lines(text)
    PROVE  \E d \in Nat : Line(text, c, d) /\ Lines(text)[c] = SubSeq(text, c + 1, d - 1)
<1> DEFINE S == {x \in Newlines(text) \cup {Len(text) + 1} : c < x}
<1>1. S \in SUBSET Nat /\ Len(text) \in Nat /\ c \in 0 .. Len(text)
  <2>1. DOMAIN Lines(text) \in SUBSET (0 .. Len(text))
    BY LinesStart
  <2>2. c \in 0 .. Len(text)
    BY <2>1
  <2>3. S \in SUBSET Nat /\ Len(text) \in Nat
    BY LenProperties DEF Newlines
  <2>4. QED
    BY <2>2, <2>3
<1>2. Len(text) + 1 \in S
  BY <1>1
<1>3. PICK d \in S : \A x \in S : d <= x
  BY <1>1, <1>2, SmallestExists
<1>4. c < d /\ d <= Len(text) + 1 /\ EndsAt(text, d)
  BY <1>1, <1>2, <1>3 DEF EndsAt, Newlines
<1>5. Between(text, c, d)
  <2>1. SUFFICES ASSUME NEW i \in c + 1 .. d - 1, text[i] = Newline PROVE FALSE
    BY DEF Between
  <2>2. i \in DOMAIN text
    BY <1>1, <1>3, <1>4, LenProperties
  <2>3. i \in S
    BY <1>1, <2>1, <2>2 DEF Newlines
  <2>4. QED
    BY <1>1, <1>3, <2>3
<1>6. QED
  BY <1>1, <1>3, <1>4, <1>5, LineIs DEF Line

LEMMA LineAround ==
    ASSUME NEW text \in Seq(Token), NEW i \in 1 .. Len(text), text[i] # Newline
    PROVE  \E c \in DOMAIN Lines(text) : c < i /\ Between(text, c, i)
<1> DEFINE S == {c \in DOMAIN Lines(text) : c < i}
<1>1. S \in SUBSET (0 .. Len(text)) /\ 0 \in S /\ Len(text) \in Nat
  <2>1. DOMAIN Lines(text) \in SUBSET (0 .. Len(text)) /\ 0 \in DOMAIN Lines(text)
    BY LinesStart
  <2>2. Len(text) \in Nat
    BY LenProperties
  <2>3. QED
    BY <2>1, <2>2
<1>2. PICK c \in S : \A x \in S : x <= c
  BY <1>1, LargestExists
<1>3. Between(text, c, i)
  <2>1. SUFFICES ASSUME NEW j \in c + 1 .. i - 1, text[j] = Newline PROVE FALSE
    BY DEF Between
  <2>2. j \in DOMAIN text /\ j \in Nat /\ c \in Nat /\ j < i /\ c < j
    BY <1>1, LenProperties
  <2>3. j \in S
    BY <2>1, <2>2, LinesStart DEF Newlines
  <2>4. QED
    BY <1>2, <2>2, <2>3
<1>4. QED
  BY <1>2, <1>3

(* A marker is found in the line that it is in.                            *)
LEMMA MarkerInLine ==
    ASSUME NEW text \in Seq(Token), NEW k \in Nat, NEW i, MarkerAt(text, k, i)
    PROVE  \E c \in DOMAIN Lines(text) : Starts(k, Lines(text)[c]) # {}
<1>1. i \in 1 .. Len(text) /\ text[i] # Newline /\ text[i + 1] # Newline /\ Len(text) \in Nat
      /\ i + 1 <= Len(text)
  BY MarkerIsText, LenProperties DEF MarkerAt
<1>2. PICK c \in DOMAIN Lines(text) : c < i /\ Between(text, c, i)
  BY <1>1, LineAround
<1>3. PICK d \in Nat : Line(text, c, d) /\ Lines(text)[c] = SubSeq(text, c + 1, d - 1)
  BY LineExists
<1>4. c \in Nat /\ d - 1 \in Nat /\ d - 1 <= Len(text)
  <2>1. DOMAIN Lines(text) \in SUBSET (0 .. Len(text))
    BY LinesStart
  <2>2. c \in Nat
    BY <2>1
  <2>3. QED
    BY <1>1, <1>3, <2>2 DEF Line
<1>5. i + 1 < d
  BY <1>1, <1>2, <1>3, <1>4 DEF Line, EndsAt, Between
<1> DEFINE line == SubSeq(text, c + 1, d - 1)
<1>6. /\ line \in Seq(Token) /\ Len(line) = (IF c < d - 1 THEN (d - 1) - c ELSE 0)
      /\ \A j \in 1 .. (d - 1) - c : line[j] = text[c + j]
  BY <1>4, PartOf
<1> HIDE DEF line
<1>7. MarkerAt(line, k, i - c)
  <2>1. i - c \in 1 .. (d - 1) - c /\ i - c + 1 \in 1 .. (d - 1) - c
        /\ c + (i - c) = i /\ c + (i - c + 1) = i + 1 /\ Len(line) = (d - 1) - c
    BY <1>1, <1>2, <1>4, <1>5, <1>6
  <2>2. QED
    BY <1>6, <2>1 DEF MarkerAt
<1>8. i - c \in Starts(k, line)
  BY <1>6, <1>7, StartsAt
<1>9. QED
  BY <1>3, <1>8 DEF line
-----------------------------------------------------------------------------
(***************************************************************************)
(* What is known of a console stays known when it goes on.                 *)
(***************************************************************************)
LEMMA MarkerStays ==
    ASSUME NEW c \in Seq(Token), NEW d \in Seq(Token), Extends(c, d), NEW k, NEW i
    PROVE  /\ MarkerAt(c, k, i) => MarkerAt(d, k, i)
           /\ MarkerAt(d, k, i) /\ i + 1 <= Len(c) => MarkerAt(c, k, i)
<1>1. Len(c) \in Nat /\ Len(d) \in Nat /\ Len(c) <= Len(d)
  BY LenProperties DEF Extends
<1>2. ASSUME i \in 1 .. Len(c) - 1 PROVE d[i] = c[i] /\ d[i + 1] = c[i + 1] /\ i \in 1 .. Len(d) - 1
  BY <1>1, <1>2 DEF Extends
<1>3. MarkerAt(d, k, i) /\ i + 1 <= Len(c) => i \in 1 .. Len(c) - 1
  BY <1>1 DEF MarkerAt
<1>4. QED
  BY <1>2, <1>3 DEF MarkerAt

LEMMA BetweenStays ==
    ASSUME NEW c \in Seq(Token), NEW d \in Seq(Token), Extends(c, d),
           NEW a \in Nat, NEW b \in Nat, b <= Len(c) + 1, Between(c, a, b)
    PROVE  Between(d, a, b)
  BY LenProperties DEF Extends, Between

LEMMA DialogStays ==
    ASSUME NEW c \in Seq(Token), NEW d \in Seq(Token), Extends(c, d), NEW n, NEW u \in Nat,
           NEW v \in Nat, u <= v, Dialog(c, n, u)
    PROVE  Dialog(d, n, v)
<1>1. PICK at \in [1 .. n -> Nat] :
         /\ \A k \in 1 .. n : MarkerAt(c, k, at[k]) /\ at[k] < u
         /\ \A k \in 2 .. n : at[k - 1] < at[k]
  BY DEF Dialog
<1>2. \A k \in 1 .. n : MarkerAt(d, k, at[k]) /\ at[k] < v
  BY <1>1, MarkerStays
<1>3. QED
  BY <1>1, <1>2 DEF Dialog

LEMMA BlameStays ==
    ASSUME NEW c \in Seq(Token), NEW d \in Seq(Token), Extends(c, d), NEW k \in Nat,
           NEW from \in Nat, NEW read \in Nat, read <= Len(c), Blamed(c, k, from, read)
    PROVE  Blamed(d, k, from, read)
<1>1. SUFFICES ASSUME NEW i \in from + 1 .. read - 1, MarkerAt(d, k, i)
               PROVE  \E a, b \in Nat : BadLine(d, k, from, read, a, b)
  BY DEF Blamed
<1>2. MarkerAt(c, k, i)
  BY <1>1, MarkerStays, LenProperties
<1>3. PICK a \in Nat, b \in Nat : BadLine(c, k, from, read, a, b)
  BY <1>2 DEF Blamed
<1>4. /\ a \in from .. read /\ b \in a + 1 .. read + 1 /\ Len(c) \in Nat
      /\ b - 1 \in Nat /\ b - 1 <= Len(c) /\ b <= Len(c) + 1
  BY <1>3, LenProperties DEF BadLine
<1>5. SubSeq(d, a + 1, b - 1) = SubSeq(c, a + 1, b - 1)
  <2>1. \A e \in Nat : e <= Len(c) => SubSeq(d, a + 1, e) = SubSeq(c, a + 1, e)
    BY PartOfLonger
  <2>2. b - 1 \in Nat /\ b - 1 <= Len(c)
    BY <1>4
  <2>3. QED
    BY <2>1, <2>2
<1>6. Between(d, a, b)
  BY <1>3, <1>4, BetweenStays DEF BadLine
<1>7. (a = from \/ d[a] = Newline) /\ (b = read + 1 \/ d[b] = Newline)
  <2>1. (a = from \/ c[a] = Newline) /\ (b = read + 1 \/ c[b] = Newline)
    BY <1>3 DEF BadLine
  <2>2. (a # from => a \in 1 .. Len(c)) /\ (b # read + 1 => b \in 1 .. Len(c))
    BY <1>4
  <2>3. \A j \in 1 .. Len(c) : d[j] = c[j]
    BY DEF Extends
  <2>4. QED
    BY <2>1, <2>2, <2>3
<1>8. BadLine(d, k, from, read, a, b)
  BY <1>3, <1>4, <1>5, <1>6, <1>7 DEF BadLine
<1>9. QED
  BY <1>8

LEMMA TypedFacts ==
    ASSUME Typed
    PROVE  /\ console \in Seq(Token) /\ Len(console) \in Nat /\ Asked \in Nat
           /\ test.pc \in {"reading", "communicate", "ended"}
           /\ test.at \in 1 .. Prompts /\ test.at \in Nat /\ test.buf \in Seq(Token)
           /\ test.read \in Nat /\ test.from \in Nat /\ test.from <= test.read
           /\ test.read <= Len(console) /\ Prompts \in Nat \ {0} /\ BufferSize \in Nat \ {0}
           /\ test.success \in BOOLEAN
           /\ machine.ends \in Seq(Nat) /\ machine.got \in Nat /\ machine.typed \in Nat
  BY LenProperties, DialogAssumption DEF Typed, TestSet, MachineSet, Asked

LEMMA Numbers ==
    ASSUME Typed
    PROVE  /\ Len(console) \in Nat /\ Asked \in Nat /\ Prompts \in Nat
           /\ test.at \in Nat /\ test.at >= 1 /\ test.at <= Prompts
           /\ test.read \in Nat /\ test.from \in Nat /\ test.from <= test.read
           /\ test.read <= Len(console) /\ machine.got \in Nat /\ machine.typed \in Nat
  BY TypedFacts

(* The console goes on and the task does nothing.                          *)
LEMMA TestUntouched ==
    ASSUME IInv, console' \in Seq(Token), Extends(console, console'), UNCHANGED <<test, timer>>
    PROVE  Phase' /\ DialogOK' /\ BufferOK' /\ SearchOK'
<1>1. Phase'
  BY DEF IInv, Phase
<1>2. /\ console \in Seq(Token) /\ Len(console) \in Nat /\ Len(console') \in Nat
      /\ Len(console) <= Len(console') /\ test.from \in Nat /\ test.read \in Nat
      /\ test.read <= Len(console) /\ test.at \in Nat
  BY TypedFacts, LenProperties DEF IInv, Extends
<1>3. DialogOK'
  <2>1. test.pc = "reading" => Dialog(console', test.at - 1, test.from)
    BY <1>2, DialogStays DEF IInv, DialogOK
  <2>2. test.success => Dialog(console', Prompts, Len(console'))
    BY <1>2, DialogStays DEF IInv, DialogOK
  <2>3. QED
    BY <2>1, <2>2 DEF DialogOK
<1>4. BufferOK'
  <2>1. SUFFICES ASSUME test.pc = "reading"
                 PROVE  \E p \in Nat : /\ BufferAt(console', test.from, test.read, p)
                                       /\ test.buf = SubSeq(console', p + 1, test.read)
    BY DEF BufferOK
  <2>2. PICK p \in Nat : /\ BufferAt(console, test.from, test.read, p)
                         /\ test.buf = SubSeq(console, p + 1, test.read)
    BY <2>1 DEF IInv, BufferOK
  <2>3. SubSeq(console', p + 1, test.read) = SubSeq(console, p + 1, test.read)
    <3>1. test.read \in Nat /\ test.read <= Len(console) /\ console \in Seq(Token)
      BY <1>2
    <3>2. QED
      BY <3>1, PartOfLonger, Zenon
  <2>4. Between(console', p, test.read + 1)
    BY <1>2, <2>2, BetweenStays DEF BufferAt
  <2>5. p \in test.from .. test.read /\ (p = test.from \/ console'[p] = Newline)
    <3>1. p \in test.from .. test.read /\ (p = test.from \/ console[p] = Newline)
      BY <2>2 DEF BufferAt
    <3>2. ASSUME p # test.from PROVE console'[p] = console[p]
      <4>1. p \in 1 .. Len(console)
        BY <1>2, <3>1, <3>2
      <4>2. QED
        BY <4>1 DEF Extends
    <3>3. QED
      BY <3>1, <3>2
  <2>6. QED
    BY <2>2, <2>3, <2>4, <2>5 DEF BufferAt
<1>5. SearchOK'
  BY <1>2, BlameStays DEF IInv, SearchOK
<1>6. QED
  BY <1>1, <1>3, <1>4, <1>5

LEMMA Reflexive == ASSUME Typed PROVE Extends(console, console)
  BY TypedFacts DEF Extends

LEMMA Appended ==
    ASSUME Typed, NEW text \in Seq(Token)
    PROVE  /\ console \o text \in Seq(Token) /\ Extends(console, console \o text)
           /\ Len(console \o text) = Len(console) + Len(text)
           /\ \A i \in 1 .. Len(text) : (console \o text)[Len(console) + i] = text[i]
<1>1. /\ console \in Seq(Token) /\ Len(console) \in Nat /\ Len(text) \in Nat
  BY TypedFacts, LenProperties
<1>2. /\ console \o text \in Seq(Token)
      /\ Len(console \o text) = Len(console) + Len(text)
      /\ \A i \in 1 .. Len(console) + Len(text) : (console \o text)[i] =
             IF i <= Len(console) THEN console[i] ELSE text[i - Len(console)]
  BY <1>1, ConcatProperties
<1>3. \A i \in 1 .. Len(text) : (console \o text)[Len(console) + i] = text[i]
  BY <1>1, <1>2
<1>4. \A i \in 1 .. Len(console) : (console \o text)[i] = console[i]
  BY <1>1, <1>2
<1>5. QED
  BY <1>1, <1>2, <1>3, <1>4 DEF Extends
-----------------------------------------------------------------------------
(***************************************************************************)
(* The machine's steps.                                                    *)
(***************************************************************************)
LEMMA MachineFacts ==
    ASSUME Typed
    PROVE  /\ machine \in MachineSet /\ past \in PastSet /\ test \in TestSet
           /\ group \in [alive : SUBSET {"leader", "child"}, reaped : BOOLEAN]
           /\ timer \in {"armed", "fired"}
           /\ machine.chatter \in Nat
           /\ past.flushed \in BOOLEAN /\ past.dropped \in BOOLEAN /\ past.missed \in BOOLEAN
           /\ group.alive \in SUBSET {"leader", "child"} /\ group.reaped \in BOOLEAN
  BY DEF Typed, MachineSet, PastSet

LEMMA PromptInv == ASSUME IInv, Prompt PROVE IInv'
<1> DEFINE n == Asked + 1
<1>1. n \in Nat /\ n \in 1 .. Prompts /\ Asked \in Nat /\ Typed /\ Asked < Prompts
  <2>1. Typed /\ Asked < Prompts
    BY DEF IInv, Prompt
  <2>2. Asked \in Nat /\ Prompts \in Nat
    BY <2>1, Numbers
  <2>3. QED
    BY <2>1, <2>2
<1>2. /\ console' \in Seq(Token) /\ Extends(console, console')
      /\ Len(console') = Len(console) + 2
      /\ console'[Len(console) + 1] = <<"head", n>> /\ console'[Len(console) + 2] = <<"tail", n>>
  <2>1. /\ Marker(n) \in Seq(Token) /\ Len(Marker(n)) = 2
        /\ Marker(n)[1] = <<"head", n>> /\ Marker(n)[2] = <<"tail", n>>
    BY <1>1, MarkerIsText
  <2>2. console' = console \o Marker(n)
    BY DEF Prompt
  <2> HIDE DEF n
  <2>3. /\ console' \in Seq(Token) /\ Extends(console, console')
        /\ Len(console') = Len(console) + Len(Marker(n))
        /\ \A i \in 1 .. Len(Marker(n)) : console'[Len(console) + i] = Marker(n)[i]
    BY <1>1, <2>1, <2>2, Appended
  <2>4. 1 \in 1 .. Len(Marker(n)) /\ 2 \in 1 .. Len(Marker(n))
    BY <2>1
  <2>5. QED
    BY <2>1, <2>3, <2>4
<1>3. PICK flush \in BOOLEAN :
         /\ machine' = [machine EXCEPT !.ends = Append(@, Len(console')), !.got = Asked,
                                       !.typed = IF flush THEN 0 ELSE @]
         /\ past' = [past EXCEPT !.flushed = @ \/ (flush /\ machine.typed > 0)]
  BY DEF Prompt
<1>4. /\ machine' \in MachineSet /\ machine'.ends = Append(machine.ends, Len(console'))
      /\ machine'.got = Asked /\ machine'.typed = (IF flush THEN 0 ELSE machine.typed)
  <2>1. Append(machine.ends, Len(console')) \in Seq(Nat)
    BY <1>1, <1>2, TypedFacts, AppendProperties
  <2>2. QED
    BY <1>1, <1>3, <2>1, TypedFacts, MachineFacts DEF MachineSet
<1>5. /\ past' \in PastSet /\ past'.dropped = past.dropped
      /\ past'.flushed = (past.flushed \/ (flush /\ machine.typed > 0))
  BY <1>1, <1>3, MachineFacts, TypedFacts DEF PastSet
<1>6. UNCHANGED <<group, test, timer>>
  BY DEF Prompt
<1>7. Typed'
  BY <1>1, <1>2, <1>4, <1>5, <1>6, TypedFacts, MachineFacts DEF Typed
<1>8. /\ Asked' = n /\ machine'.ends[n] = Len(console) + 2
      /\ \A k \in 1 .. Asked : machine'.ends[k] = machine.ends[k]
  <2>1. Len(console') \in Nat /\ machine.ends \in Seq(Nat)
    BY <1>1, <1>2, TypedFacts
  <2>2. QED
    BY <1>2, <1>4, <2>1, AppendProperties DEF Asked
<1>9. MachineOK'
  <2>1. MarkerAt(console', n, Len(console) + 1)
    BY <1>1, <1>2, TypedFacts DEF MarkerAt
  <2>2. \A k \in 1 .. Asked : MarkerAt(console', k, machine.ends[k] - 1)
    BY <1>1, <1>2, MarkerStays, TypedFacts DEF IInv, MachineOK
  <2>3. ASSUME NEW k \in 1 .. n PROVE MarkerAt(console', k, machine'.ends[k] - 1)
    <3>1. CASE k = n
      <4>1. machine'.ends[k] - 1 = Len(console) + 1
        BY <1>1, <1>8, <3>1, Numbers
      <4>2. QED
        BY <2>1, <3>1, <4>1
    <3>2. CASE k # n
      <4>1. k \in 1 .. Asked
        BY <1>1, <3>2
      <4>2. QED
        BY <1>8, <2>2, <4>1
    <3>3. QED
      BY <3>1, <3>2
  <2>4. Asked' <= Prompts /\ machine'.got <= Asked'
    BY <1>1, <1>4, <1>8
  <2>5. QED
    BY <1>8, <2>3, <2>4 DEF MachineOK
<1>10. RepliesOK'
  <2>1. SUFFICES ASSUME test.pc = "reading"
                 PROVE  /\ past'.flushed \/ test.at - 1 <= machine'.got + machine'.typed
                        /\ past'.dropped \/ (test.at <= n => test.from < machine'.ends[test.at] - 1)
    BY <1>6, <1>8 DEF RepliesOK
  <2>2. past'.flushed \/ test.at - 1 <= machine'.got + machine'.typed
    <3>1. past.flushed \/ test.at - 1 <= machine.got + machine.typed
      BY <2>1 DEF IInv, RepliesOK
    <3>2. machine.got <= Asked
      BY DEF IInv, MachineOK
    <3>3. CASE flush /\ machine.typed > 0
      BY <1>5, <3>3
    <3>4. CASE ~ (flush /\ machine.typed > 0)
      <4>1. machine'.typed = machine.typed
        BY <1>1, <1>4, <3>4, TypedFacts
      <4>2. /\ machine.got \in Nat /\ machine.typed \in Nat /\ test.at \in Nat
            /\ machine'.got = Asked
        BY <1>1, <1>4, TypedFacts
      <4>3. ASSUME ~ past.flushed PROVE test.at - 1 <= machine'.got + machine'.typed
        BY <1>1, <3>1, <3>2, <4>1, <4>2, <4>3
      <4>4. QED
        BY <1>5, <4>3
    <3>5. QED
      BY <3>3, <3>4
  <2>3. ASSUME test.at = n PROVE test.from < machine'.ends[test.at] - 1
    BY <1>1, <1>8, <2>3, Numbers
  <2>4. ASSUME test.at <= n, test.at # n, ~ past.dropped
        PROVE  test.from < machine'.ends[test.at] - 1
    <3>1. test.at \in 1 .. Asked
      BY <1>1, <2>4, Numbers
    <3>2. test.from < machine.ends[test.at] - 1
      BY <2>1, <2>4, <3>1 DEF IInv, RepliesOK
    <3>3. QED
      BY <1>8, <3>1, <3>2
  <2>5. QED
    BY <1>5, <2>2, <2>3, <2>4
<1>11. Phase' /\ DialogOK' /\ BufferOK' /\ SearchOK'
  BY <1>2, <1>6, TestUntouched
<1>12. QED
  BY <1>7, <1>9, <1>10, <1>11 DEF IInv

(* A step that prints no prompt and does nothing for the task.             *)
LEMMA MachineIdles ==
    ASSUME IInv, Typed', console' \in Seq(Token), Extends(console, console'),
           UNCHANGED <<test, timer, past>>, machine'.ends = machine.ends,
           machine'.got <= Asked,
           machine'.got + machine'.typed = machine.got + machine.typed
    PROVE  IInv'
<1>1. Phase' /\ DialogOK' /\ BufferOK' /\ SearchOK'
  BY TestUntouched
<1>2. Asked' = Asked
  BY DEF Asked
<1>3. \A k \in 1 .. Asked : MarkerAt(console', k, machine.ends[k] - 1)
  BY MarkerStays, TypedFacts DEF IInv, MachineOK
<1>4. MachineOK'
  BY <1>2, <1>3 DEF IInv, MachineOK
<1>5. RepliesOK'
  BY <1>2 DEF IInv, RepliesOK
<1>6. QED
  BY <1>1, <1>4, <1>5 DEF IInv

LEMMA TakeReplyInv == ASSUME IInv, TakeReply PROVE IInv'
<1>1. Typed /\ UNCHANGED <<console, group, test, timer, past>>
  BY DEF IInv, TakeReply
<1>2. /\ machine' \in MachineSet /\ machine'.ends = machine.ends
      /\ machine'.got = machine.got + 1 /\ machine'.typed = machine.typed - 1
      /\ machine.got < Asked
  <2>1. /\ machine' = [machine EXCEPT !.got = @ + 1, !.typed = @ - 1]
        /\ machine.got < Asked /\ machine.typed > 0
    BY DEF TakeReply
  <2>2. machine.got + 1 \in Nat /\ machine.typed - 1 \in Nat /\ machine \in MachineSet
    <3>1. machine.got \in Nat /\ machine.typed \in Nat /\ machine \in MachineSet
      BY <1>1, TypedFacts, MachineFacts
    <3>2. QED
      BY <2>1, <3>1
  <2>3. QED
    BY <2>1, <2>2 DEF MachineSet
<1>3. Typed'
  BY <1>1, <1>2, TypedFacts, MachineFacts DEF Typed
<1>4. machine'.got <= Asked /\ machine'.got + machine'.typed = machine.got + machine.typed
  <2>1. machine.got \in Nat /\ machine.typed \in Nat /\ Asked \in Nat
    BY <1>1, TypedFacts
  <2>2. QED
    BY <1>2, <2>1
<1>5. console' \in Seq(Token) /\ Extends(console, console')
  BY <1>1, Reflexive, TypedFacts
<1>6. QED
  BY <1>1, <1>2, <1>3, <1>4, <1>5, MachineIdles

LEMMA SayInv == ASSUME IInv, Say PROVE IInv'
<1>1. Typed /\ UNCHANGED <<group, test, timer, past>>
  BY DEF IInv, Say
<1>2. PICK text \in Chatter : console' = console \o text
  BY DEF Say
<1>3. console' \in Seq(Token) /\ Extends(console, console')
      /\ Len(console') = Len(console) + Len(text) /\ Len(text) \in Nat
  BY <1>1, <1>2, Appended, DialogAssumption, LenProperties
<1>4. /\ machine' \in MachineSet /\ machine'.ends = machine.ends
      /\ machine'.got = machine.got /\ machine'.typed = machine.typed
  <2>1. machine' = [machine EXCEPT !.chatter = @ + 1]
    BY DEF Say
  <2>2. machine \in MachineSet /\ machine.chatter + 1 \in Nat
    BY <1>1, MachineFacts
  <2>3. QED
    BY <2>1, <2>2 DEF MachineSet
<1>5. Typed'
  <2>1. /\ past \in PastSet /\ group \in [alive : SUBSET {"leader", "child"}, reaped : BOOLEAN]
        /\ test \in TestSet /\ timer \in {"armed", "fired"}
    BY <1>1, MachineFacts
  <2>2. test.from <= test.read /\ test.read <= Len(console')
    BY <1>1, <1>3, Numbers, LenProperties DEF Extends
  <2>3. QED
    BY <1>1, <1>3, <1>4, <2>1, <2>2 DEF Typed
<1>6. machine'.got <= Asked
  BY <1>4 DEF IInv, MachineOK
<1>7. QED
  BY <1>1, <1>3, <1>4, <1>5, <1>6, MachineIdles

LEMMA ProcessesInv == ASSUME IInv, Dies \/ Reap PROVE IInv'
<1>1. Typed /\ UNCHANGED <<console, machine, test, timer, past>>
  BY DEF IInv, Dies, Reap
<1>2. group' \in [alive : SUBSET {"leader", "child"}, reaped : BOOLEAN]
  BY <1>1, MachineFacts DEF Dies, Reap
<1>3. Typed'
  BY <1>1, <1>2, TypedFacts, MachineFacts DEF Typed
<1>4. console' \in Seq(Token) /\ Extends(console, console')
  BY <1>1, Reflexive, TypedFacts
<1>5. machine'.got <= Asked
  BY <1>1 DEF IInv, MachineOK
<1>6. QED
  BY <1>1, <1>3, <1>4, <1>5, MachineIdles
-----------------------------------------------------------------------------
(***************************************************************************)
(* The text that await_line searches is a part of the console.             *)
(***************************************************************************)
LEMMA MarkerMoves ==
    ASSUME NEW text \in Seq(Token), NEW p \in Nat, NEW r \in Nat, p <= r, r <= Len(text), NEW k
    PROVE  /\ \A i : MarkerAt(SubSeq(text, p + 1, r), k, i) =>
                        p + i \in p + 1 .. r - 1 /\ MarkerAt(text, k, p + i)
           /\ \A i \in p + 1 .. r - 1 : MarkerAt(text, k, i) =>
                        MarkerAt(SubSeq(text, p + 1, r), k, i - p)
<1> DEFINE part == SubSeq(text, p + 1, r)
<1>1. /\ part \in Seq(Token) /\ Len(part) = (IF p < r THEN r - p ELSE 0)
      /\ \A i \in 1 .. r - p : part[i] = text[p + i]
  BY PartOf
<1>2. Len(text) \in Nat
  BY LenProperties
<1> HIDE DEF part
<1>3. ASSUME NEW i, MarkerAt(part, k, i)
      PROVE  p + i \in p + 1 .. r - 1 /\ MarkerAt(text, k, p + i)
  <2>1. i \in 1 .. Len(part) - 1 /\ part[i] = <<"head", k>> /\ part[i + 1] = <<"tail", k>>
    BY <1>3 DEF MarkerAt
  <2>2. /\ i \in 1 .. r - p /\ i + 1 \in 1 .. r - p /\ p + (i + 1) = (p + i) + 1
        /\ p + i \in p + 1 .. r - 1 /\ p + i \in 1 .. Len(text) - 1
    BY <1>1, <1>2, <2>1
  <2>3. part[i] = text[p + i] /\ part[i + 1] = text[(p + i) + 1]
    BY <1>1, <2>2
  <2>4. QED
    BY <2>1, <2>2, <2>3 DEF MarkerAt
<1>4. ASSUME NEW i \in p + 1 .. r - 1, MarkerAt(text, k, i) PROVE MarkerAt(part, k, i - p)
  <2>1. /\ i - p \in 1 .. r - p /\ (i - p) + 1 \in 1 .. r - p /\ p + ((i - p) + 1) = i + 1
        /\ p + (i - p) = i /\ i - p \in 1 .. Len(part) - 1
    BY <1>1
  <2>2. part[i - p] = text[p + (i - p)] /\ part[(i - p) + 1] = text[p + ((i - p) + 1)]
    BY <1>1, <2>1
  <2>3. QED
    BY <1>4, <2>1, <2>2 DEF MarkerAt
<1>5. QED
  BY <1>3, <1>4 DEF part

(* The line of a part that begins behind c is the text between p + c and b. *)
LineOf(text, p, r, lines, c, b) ==
    /\ b \in p + c + 1 .. r + 1
    /\ c \in 0 .. r - p /\ (c = 0 \/ text[p + c] = Newline)
    /\ b = r + 1 \/ text[b] = Newline
    /\ b # r + 1 => b - p \in DOMAIN lines
    /\ Between(text, p + c, b)
    /\ lines[c] = SubSeq(text, p + c + 1, b - 1)

LEMMA LineMoves ==
    ASSUME NEW text \in Seq(Token), NEW p \in Nat, NEW r \in Nat, p <= r, r <= Len(text),
           NEW lines, lines = Lines(SubSeq(text, p + 1, r)), NEW c \in DOMAIN lines
    PROVE  \E b \in Nat : LineOf(text, p, r, lines, c, b)
<1> DEFINE part == SubSeq(text, p + 1, r)
<1>1. /\ part \in Seq(Token) /\ Len(part) = r - p
      /\ \A i \in 1 .. r - p : part[i] = text[p + i]
  BY PartOf
<1>0. ASSUME NEW x \in Nat, NEW y \in Nat, x <= y, y <= r - p
      PROVE  SubSeq(part, x + 1, y) = SubSeq(text, p + x + 1, p + y)
  BY <1>0, PartOfPart
<1> HIDE DEF part
<1>2. /\ DOMAIN lines = {0} \cup Newlines(part) /\ c \in 0 .. r - p
  <2>1. DOMAIN Lines(part) = {0} \cup Newlines(part) /\ DOMAIN Lines(part) \in SUBSET (0 .. Len(part))
    BY <1>1, LinesStart
  <2>2. lines = Lines(part)
    BY DEF part
  <2>3. QED
    BY <1>1, <2>1, <2>2
<1>3. c = 0 \/ text[p + c] = Newline
  BY <1>1, <1>2 DEF Newlines
<1>4. PICK d \in Nat : Line(part, c, d) /\ lines[c] = SubSeq(part, c + 1, d - 1)
  <2>1. lines = Lines(part)
    BY DEF part
  <2>2. QED
    BY <1>1, <2>1, LineExists
<1>5. c < d /\ d <= (r - p) + 1 /\ (d = (r - p) + 1 \/ part[d] = Newline) /\ Between(part, c, d)
  BY <1>1, <1>4 DEF Line, EndsAt
<1>6. p + d \in p + c + 1 .. r + 1 /\ (d # (r - p) + 1 => d \in 1 .. r - p)
  BY <1>2, <1>5
<1>7. p + d = r + 1 \/ (text[p + d] = Newline /\ d \in Newlines(part))
  BY <1>1, <1>5, <1>6, LenProperties DEF Newlines
<1>8. Between(text, p + c, p + d)
  <2>1. SUFFICES ASSUME NEW i \in p + c + 1 .. p + d - 1 PROVE text[i] # Newline
    BY DEF Between
  <2>2. i - p \in c + 1 .. d - 1 /\ i - p \in 1 .. r - p /\ p + (i - p) = i
    BY <1>2, <1>5
  <2>3. QED
    BY <1>1, <1>5, <2>2 DEF Between
<1>9. lines[c] = SubSeq(text, p + c + 1, p + d - 1)
  <2>1. d - 1 \in Nat /\ c \in Nat /\ c <= d - 1 /\ d - 1 <= r - p
    BY <1>2, <1>5
  <2>2. SubSeq(part, c + 1, d - 1) = SubSeq(text, p + c + 1, p + (d - 1))
    BY <2>1, <1>0
  <2>3. p + (d - 1) = p + d - 1
    OBVIOUS
  <2>4. QED
    BY <1>4, <2>2, <2>3
<1>10. p + d # r + 1 => (p + d) - p \in DOMAIN lines
  BY <1>2, <1>7
<1>11. LineOf(text, p, r, lines, c, p + d)
  BY <1>2, <1>3, <1>6, <1>7, <1>8, <1>9, <1>10 DEF LineOf
<1>12. QED
  BY <1>11

LEMMA ChunkFacts ==
    ASSUME IInv, test.pc = "reading", NEW size \in 1 .. BufferSize,
           test.read + size <= Len(console)
    PROVE  \E p \in Nat :
              /\ BufferAt(console, test.from, test.read, p)
              /\ test.buf \o SubSeq(console, test.read + 1, test.read + size) =
                    SubSeq(console, p + 1, test.read + size)
<1>1. PICK p \in Nat : /\ BufferAt(console, test.from, test.read, p)
                       /\ test.buf = SubSeq(console, p + 1, test.read)
  BY DEF IInv, BufferOK
<1>2. /\ console \in Seq(Token) /\ Len(console) \in Nat /\ test.read \in Nat /\ p <= test.read
      /\ test.read + size \in Nat /\ size \in Nat
  <2>1. /\ console \in Seq(Token) /\ Len(console) \in Nat /\ test.read \in Nat
        /\ test.from \in Nat
    BY TypedFacts DEF IInv
  <2>2. p <= test.read
    BY <1>1, <2>1 DEF BufferAt
  <2>3. QED
    BY <2>1, <2>2
<1>3. /\ p + 1 \in 1 .. Len(console) + 1 /\ test.read \in (p + 1) - 1 .. Len(console)
      /\ test.read + size \in test.read .. Len(console)
  BY <1>2
<1>4. SubSeq(console, p + 1, test.read) \o SubSeq(console, test.read + 1, test.read + size) =
         SubSeq(console, p + 1, test.read + size)
  BY <1>2, <1>3, ConcatAdjacentSubSeq
<1>5. QED
  BY <1>1, <1>4

LEMMA LeavesReading ==
    ASSUME IInv, Typed', Phase', UNCHANGED <<console, machine>>, test'.pc # "reading",
           test'.success => Dialog(console, Prompts, Len(console))
    PROVE  IInv'
<1>1. DialogOK' /\ BufferOK' /\ SearchOK' /\ RepliesOK'
  BY DEF DialogOK, BufferOK, SearchOK, RepliesOK
<1>2. MachineOK'
  BY DEF IInv, MachineOK, Asked
<1>3. QED
  BY <1>1, <1>2 DEF IInv

LEMMA KillFacts ==
    ASSUME Typed, KillGroup
    PROVE  /\ group' \in [alive : SUBSET {"leader", "child"}, reaped : BOOLEAN]
           /\ past' \in PastSet
  BY MachineFacts DEF KillGroup, PastSet

LEMMA ReadEofInv == ASSUME IInv, ReadEof PROVE IInv'
<1>1. Typed /\ Phase /\ UNCHANGED <<console, machine, timer>> /\ test.pc = "reading" /\ KillGroup
      /\ test' = [test EXCEPT !.pc = "ended"]
  BY DEF IInv, ReadEof
<1>2. /\ test' \in TestSet /\ test'.pc = "ended" /\ test'.success = test.success
      /\ test'.read = test.read /\ test'.from = test.from /\ test'.status = test.status
  BY <1>1, MachineFacts DEF TestSet
<1>3. Typed'
  BY <1>1, <1>2, KillFacts, TypedFacts, MachineFacts DEF Typed
<1>4. Phase' /\ ~ test'.success
  BY <1>1, <1>2 DEF Phase
<1>5. QED
  BY <1>1, <1>2, <1>3, <1>4, LeavesReading

LEMMA CommunicateInv == ASSUME IInv, Communicate PROVE IInv'
<1>1. /\ Typed /\ Phase /\ DialogOK /\ UNCHANGED <<console, machine, group, timer, past>>
      /\ test.pc = "communicate"
      /\ test' = [test EXCEPT !.pc = "ended", !.read = Len(console),
                              !.status = IF test.success THEN 0 ELSE 1]
  BY DEF IInv, Communicate
<1>2. /\ test' \in TestSet /\ test'.pc = "ended" /\ test'.success = test.success
      /\ test'.read = Len(console) /\ test'.from = test.from
      /\ test'.status = IF test.success THEN 0 ELSE 1
  BY <1>1, MachineFacts, TypedFacts DEF TestSet
<1>3. Typed'
  BY <1>1, <1>2, TypedFacts, MachineFacts DEF Typed
<1>4. Phase'
  BY <1>1, <1>2 DEF Phase
<1>5. test'.success => Dialog(console, Prompts, Len(console))
  BY <1>1, <1>2 DEF DialogOK
<1>6. QED
  BY <1>1, <1>2, <1>3, <1>4, <1>5, LeavesReading

LEMMA FailTimeoutInv == ASSUME IInv, FailTimeout PROVE IInv'
<1>1. /\ Typed /\ Phase /\ DialogOK /\ UNCHANGED <<console, machine>> /\ timer = "armed"
      /\ timer' = "fired" /\ test.pc # "ended"
  BY DEF IInv, FailTimeout, Running
<1>2. /\ group' \in [alive : SUBSET {"leader", "child"}, reaped : BOOLEAN]
      /\ past' \in PastSet
  BY <1>1, KillFacts, MachineFacts DEF FailTimeout
<1>3. /\ test' \in TestSet /\ test'.success = test.success /\ test'.status = test.status
      /\ test'.read = test.read /\ test'.from = test.from
      /\ \/ test.pc = "reading" /\ test'.pc = "communicate"
         \/ test.pc = "communicate" /\ test'.pc = "ended"
  BY <1>1, MachineFacts DEF FailTimeout, TestSet
<1>4. Typed'
  BY <1>1, <1>2, <1>3, TypedFacts, MachineFacts DEF Typed
<1>5. Phase'
  BY <1>1, <1>3 DEF Phase
<1>6. test'.success => Dialog(console, Prompts, Len(console))
  BY <1>1, <1>3 DEF DialogOK
<1>7. QED
  BY <1>1, <1>3, <1>4, <1>5, <1>6, LeavesReading
-----------------------------------------------------------------------------
(***************************************************************************)
(* The steps of await_line.  Its text is the console behind p, where its   *)
(* buffer began, up to r.                                                  *)
(***************************************************************************)
Searched(p, r, lines) ==
    /\ p \in Nat /\ r \in Nat /\ test.read <= r /\ r <= Len(console)
    /\ BufferAt(console, test.from, test.read, p)
    /\ lines = Lines(SubSeq(console, p + 1, r))

LEMMA SearchedFacts ==
    ASSUME IInv, NEW p, NEW r, NEW lines, Searched(p, r, lines)
    PROVE  /\ p \in Nat /\ r \in Nat /\ p <= test.read /\ test.from <= p /\ p <= r
           /\ test.read <= r /\ r <= Len(console) /\ console \in Seq(Token)
           /\ Len(console) \in Nat /\ test.from \in Nat /\ test.read \in Nat /\ test.at \in Nat
           /\ DOMAIN lines \in SUBSET (0 .. r - p) /\ 0 \in DOMAIN lines
           /\ lines = Lines(SubSeq(console, p + 1, r))
<1>1. /\ p \in Nat /\ r \in Nat /\ p <= test.read /\ test.from <= p /\ p <= r
      /\ test.read <= r /\ r <= Len(console) /\ console \in Seq(Token)
      /\ Len(console) \in Nat /\ test.from \in Nat /\ test.read \in Nat /\ test.at \in Nat
      /\ lines = Lines(SubSeq(console, p + 1, r))
  BY TypedFacts DEF IInv, Searched, BufferAt
<1>2. SubSeq(console, p + 1, r) \in Seq(Token) /\ Len(SubSeq(console, p + 1, r)) = r - p
  BY <1>1, PartOf
<1>3. DOMAIN lines \in SUBSET (0 .. r - p) /\ 0 \in DOMAIN lines
  BY <1>1, <1>2, LinesStart
<1>4. QED
  BY <1>1, <1>3

(* An answer is a prompt on the console.                                   *)
LEMMA AnswerIsShown ==
    ASSUME IInv, NEW p, NEW r, NEW lines, Searched(p, r, lines), Answers(lines, test.at)
    PROVE  \E i \in p + 1 .. r - 1 : MarkerAt(console, test.at, i)
<1> DEFINE k == test.at
<1>1. PICK c \in DOMAIN lines : Starts(k, lines[c]) # {}
  BY DEF Answers
<1>2. /\ p \in Nat /\ r \in Nat /\ p <= r /\ r <= Len(console) /\ console \in Seq(Token)
      /\ k \in Nat /\ lines = Lines(SubSeq(console, p + 1, r)) /\ Len(console) \in Nat
  BY SearchedFacts
<1>3. PICK b \in Nat : LineOf(console, p, r, lines, c, b)
  BY <1>2, LineMoves
<1> DEFINE a == p + c
<1>4. a \in Nat /\ b - 1 \in Nat /\ a <= b - 1 /\ b - 1 <= Len(console) /\ p <= a /\ b - 1 <= r
  BY <1>2, <1>3 DEF LineOf
<1>5. lines[c] = SubSeq(console, a + 1, b - 1)
  BY <1>3 DEF LineOf
<1> HIDE DEF a
<1>6. SubSeq(console, a + 1, b - 1) \in Seq(Token)
  BY <1>2, <1>4, PartOf
<1>7. PICK j : MarkerAt(SubSeq(console, a + 1, b - 1), k, j)
  BY <1>1, <1>2, <1>5, <1>6, StartsAt
<1>8. a + j \in a + 1 .. (b - 1) - 1 /\ MarkerAt(console, k, a + j)
  BY <1>2, <1>4, <1>7, MarkerMoves
<1>9. a + j \in p + 1 .. r - 1
  BY <1>2, <1>4, <1>8
<1>10. QED
  BY <1>8, <1>9

(* A prompt in the text that is no answer is in a line that cannot be      *)
(* decoded.                                                                *)
LEMMA BlameInText ==
    ASSUME IInv, NEW p, NEW r, NEW lines, Searched(p, r, lines), ~ Answers(lines, test.at),
           NEW i \in p + 1 .. r - 1, MarkerAt(console, test.at, i)
    PROVE  \E a, b \in Nat : BadLine(console, test.at, test.from, r, a, b)
<1> DEFINE k      == test.at
           having == {c \in DOMAIN lines : Starts(k, lines[c]) # {}}
<1>1. /\ p \in Nat /\ r \in Nat /\ p <= r /\ r <= Len(console) /\ console \in Seq(Token)
      /\ k \in Nat /\ lines = Lines(SubSeq(console, p + 1, r)) /\ Len(console) \in Nat
      /\ test.from \in Nat /\ test.from <= p /\ DOMAIN lines \in SUBSET (0 .. r - p)
  BY SearchedFacts
<1>2. SubSeq(console, p + 1, r) \in Seq(Token)
  BY <1>1, PartOf
<1>3. MarkerAt(SubSeq(console, p + 1, r), k, i - p)
  BY <1>1, MarkerMoves
<1>4. having # {}
  BY <1>1, <1>2, <1>3, MarkerInLine
<1>5. having \in SUBSET Nat
  BY <1>1
<1>6. Min(having) \in having
  BY <1>4, <1>5, MinFacts
<1>7. ~ Decodable(lines[Min(having)])
  BY <1>4 DEF Answers
<1>8. PICK c \in DOMAIN lines : Starts(k, lines[c]) # {} /\ ~ Decodable(lines[c])
  BY <1>6, <1>7
<1>9. PICK b \in Nat : LineOf(console, p, r, lines, c, b)
  BY <1>1, LineMoves
<1> DEFINE a == p + c
<1>10. /\ a \in test.from .. r /\ b \in a + 1 .. r + 1 /\ a \in Nat /\ b \in Nat
  BY <1>1, <1>9 DEF LineOf
<1>11. a = test.from \/ console[a] = Newline
  <2>1. p = test.from \/ console[p] = Newline
    BY DEF Searched, BufferAt
  <2>2. c = 0 => a = p
    BY <1>1
  <2>3. QED
    BY <1>9, <2>1, <2>2 DEF LineOf
<1>12. BadLine(console, k, test.from, r, a, b)
  BY <1>8, <1>9, <1>10, <1>11 DEF BadLine, LineOf
<1>13. QED
  BY <1>10, <1>12

(* One round of await_line that finds no answer.                           *)
LEMMA BlameGoesOn ==
    ASSUME IInv, test.pc = "reading", NEW p, NEW r, NEW lines, Searched(p, r, lines),
           ~ Answers(lines, test.at)
    PROVE  Blamed(console, test.at, test.from, r)
<1> DEFINE k == test.at
<1>1. SUFFICES ASSUME NEW i \in test.from + 1 .. r - 1, MarkerAt(console, k, i)
               PROVE  \E a, b \in Nat : BadLine(console, k, test.from, r, a, b)
  BY DEF Blamed
<1>2. /\ p \in Nat /\ r \in Nat /\ p <= test.read /\ test.from <= p /\ p <= r
      /\ test.read <= r /\ r <= Len(console) /\ console \in Seq(Token)
      /\ Len(console) \in Nat /\ test.from \in Nat /\ test.read \in Nat /\ k \in Nat
  BY SearchedFacts
<1>3. /\ p = test.from \/ console[p] = Newline
      /\ Between(console, p, test.read + 1)
  BY DEF Searched, BufferAt
<1>4. CASE i > p
  <2>1. i \in p + 1 .. r - 1
    BY <1>2, <1>4
  <2>2. QED
    BY <1>1, <2>1, BlameInText
<1>5. CASE i <= p
  <2>1. console[i] # Newline /\ console[i + 1] # Newline
    BY <1>1, <1>2, MarkerIsText DEF MarkerAt
  <2>2. i # p /\ i + 1 # p
    <3>1. p # test.from
      BY <1>2, <1>5
    <3>2. QED
      BY <1>3, <2>1, <3>1
  <2>3. i \in test.from + 1 .. test.read - 1
    BY <1>2, <1>5, <2>2
  <2>4. PICK a \in Nat, b \in Nat : BadLine(console, k, test.from, test.read, a, b)
    BY <1>1, <2>3 DEF IInv, SearchOK, Blamed
  <2>5. CASE b # test.read + 1
    <3>1. BadLine(console, k, test.from, r, a, b)
      BY <1>2, <2>4, <2>5 DEF BadLine
    <3>2. QED
      BY <3>1
  <2>6. CASE b = test.read + 1
    <3>1. /\ a \in test.from .. test.read /\ Between(console, a, test.read + 1)
          /\ Starts(k, SubSeq(console, a + 1, b - 1)) # {} /\ b - 1 = test.read
      BY <1>2, <2>4, <2>6 DEF BadLine
    <3>2. p <= a
      <4>1. SUFFICES ASSUME a < p PROVE FALSE
        BY <1>2
      <4>2. p \in a + 1 .. (test.read + 1) - 1 /\ p # test.from
        BY <1>2, <3>1, <4>1
      <4>3. console[p] = Newline /\ console[p] # Newline
        BY <1>3, <3>1, <4>2 DEF Between
      <4>4. QED
        BY <4>3
    <3>3. SubSeq(console, a + 1, test.read) \in Seq(Token)
      BY <1>2, PartOf
    <3>4. PICK j : MarkerAt(SubSeq(console, a + 1, test.read), k, j)
      BY <1>2, <3>1, <3>3, StartsAt
    <3>5. a + j \in a + 1 .. test.read - 1 /\ MarkerAt(console, k, a + j)
      <4>1. a \in Nat /\ test.read \in Nat /\ a <= test.read /\ test.read <= Len(console)
        BY <1>2, <3>1
      <4>2. QED
        BY <1>2, <3>4, <4>1, MarkerMoves, Zenon
    <3>6. a + j \in p + 1 .. r - 1
      <4>1. /\ a \in Nat /\ p \in Nat /\ r \in Nat /\ test.read \in Nat /\ test.read <= r
        BY <1>2, <3>1
      <4>2. QED
        BY <3>2, <3>5, <4>1
    <3>7. QED
      BY <3>5, <3>6, BlameInText
  <2>7. QED
    BY <2>5, <2>6
<1>6. QED
  BY <1>2, <1>4, <1>5

(* The last line of the text is the buffer that goes on.                   *)
LEMMA BufferGoesOn ==
    ASSUME IInv, test.pc = "reading", NEW p, NEW r, NEW lines, Searched(p, r, lines)
    PROVE  \E q \in Nat : /\ BufferAt(console, test.from, r, q)
                          /\ NextBuf(lines) = SubSeq(console, q + 1, r)
<1> DEFINE c == Max(DOMAIN lines)
<1>1. /\ p \in Nat /\ r \in Nat /\ p <= r /\ r <= Len(console) /\ console \in Seq(Token)
      /\ lines = Lines(SubSeq(console, p + 1, r)) /\ Len(console) \in Nat
      /\ test.from \in Nat /\ test.from <= p /\ DOMAIN lines \in SUBSET (0 .. r - p)
      /\ 0 \in DOMAIN lines
  BY SearchedFacts
<1>2. r - p \in Nat /\ DOMAIN lines # {}
  BY <1>1
<1>3. c \in DOMAIN lines /\ \A x \in DOMAIN lines : x <= c
  BY <1>1, <1>2, MaxFacts
<1>4. NextBuf(lines) = lines[c]
  BY DEF NextBuf
<1> HIDE DEF c
<1>5. PICK b \in Nat : LineOf(console, p, r, lines, c, b)
  BY <1>1, <1>3, LineMoves
<1>6. /\ c \in 0 .. r - p /\ b \in p + c + 1 .. r + 1 /\ (b # r + 1 => b - p \in DOMAIN lines)
      /\ lines[c] = SubSeq(console, p + c + 1, b - 1) /\ Between(console, p + c, b)
      /\ c = 0 \/ console[p + c] = Newline
  BY <1>5 DEF LineOf
<1>7. b = r + 1
  <2>1. SUFFICES ASSUME b # r + 1 PROVE FALSE
    OBVIOUS
  <2>2. b - p <= c
    BY <1>3, <1>6, <2>1
  <2>3. QED
    BY <1>1, <1>6, <2>2
<1> DEFINE q == p + c
<1>8. q \in Nat /\ q \in test.from .. r /\ r + 1 - 1 = r
  BY <1>1, <1>6
<1>9. q = test.from \/ console[q] = Newline
  <2>1. p = test.from \/ console[p] = Newline
    BY DEF Searched, BufferAt
  <2>2. c = 0 => q = p
    BY <1>1
  <2>3. QED
    BY <1>6, <2>1, <2>2
<1>10. BufferAt(console, test.from, r, q)
  BY <1>6, <1>7, <1>8, <1>9 DEF BufferAt
<1>11. NextBuf(lines) = SubSeq(console, q + 1, r)
  <2>1. b - 1 = r
    BY <1>1, <1>7
  <2>2. NextBuf(lines) = SubSeq(console, p + c + 1, b - 1)
    BY <1>4, <1>6
  <2>3. QED
    BY <2>1, <2>2
<1>12. QED
  BY <1>8, <1>10, <1>11

LEMMA ReadOnInv ==
    ASSUME IInv, test.pc = "reading", NEW p, NEW size \in Nat, NEW lines,
           Searched(p, test.read + size, lines), ReadOn(size, lines), UNCHANGED <<console, timer>>
    PROVE  IInv'
<1> DEFINE r == test.read + size
<1>1. /\ Typed /\ Phase /\ DialogOK /\ MachineOK /\ RepliesOK
      /\ UNCHANGED <<console, timer, machine, group, past>>
      /\ test' = [test EXCEPT !.buf = NextBuf(lines), !.read = r] /\ ~ Answers(lines, test.at)
  BY DEF IInv, ReadOn
<1>2. r \in Nat /\ r <= Len(console) /\ console \in Seq(Token) /\ test.from <= r
  <2>1. /\ r \in Nat /\ r <= Len(console) /\ console \in Seq(Token)
        /\ p \in Nat /\ test.from \in Nat /\ test.from <= p /\ p <= r
    BY SearchedFacts
  <2>2. QED
    BY <2>1
<1>3. PICK q \in Nat : /\ BufferAt(console, test.from, r, q)
                       /\ NextBuf(lines) = SubSeq(console, q + 1, r)
  BY BufferGoesOn
<1>4. NextBuf(lines) \in Seq(Token)
  BY <1>2, <1>3, PartOf
<1> HIDE DEF r
<1>5. /\ test' \in TestSet /\ test'.pc = test.pc /\ test'.at = test.at /\ test'.read = r
      /\ test'.from = test.from /\ test'.buf = NextBuf(lines) /\ test'.success = test.success
      /\ test'.status = test.status
  BY <1>1, <1>2, <1>4, MachineFacts DEF TestSet
<1>6. Typed'
  BY <1>1, <1>2, <1>5, TypedFacts, MachineFacts DEF Typed
<1>7. Phase' /\ DialogOK' /\ MachineOK' /\ RepliesOK'
  BY <1>1, <1>5 DEF Phase, DialogOK, MachineOK, RepliesOK, Asked
<1>8. BufferOK'
  BY <1>1, <1>3, <1>5 DEF BufferOK
<1>9. Blamed(console, test.at, test.from, r)
  BY <1>1, BlameGoesOn DEF r
<1>10. SearchOK'
  BY <1>1, <1>5, <1>9 DEF SearchOK
<1>11. QED
  BY <1>6, <1>7, <1>8, <1>10 DEF IInv

(* The next prompt of the dialog.                                          *)
LEMMA DialogGrows ==
    ASSUME NEW text, NEW n \in Nat, NEW u \in Nat, NEW i \in Nat, NEW v \in Nat, u < i, i < v,
           Dialog(text, n, u), MarkerAt(text, n + 1, i)
    PROVE  Dialog(text, n + 1, v)
<1>1. PICK at \in [1 .. n -> Nat] :
         /\ \A k \in 1 .. n : MarkerAt(text, k, at[k]) /\ at[k] < u
         /\ \A k \in 2 .. n : at[k - 1] < at[k]
  BY DEF Dialog
<1> DEFINE all == [k \in 1 .. n + 1 |-> IF k = n + 1 THEN i ELSE at[k]]
<1>2. all \in [1 .. n + 1 -> Nat] /\ all[n + 1] = i /\ \A k \in 1 .. n : all[k] = at[k]
  OBVIOUS
<1> HIDE DEF all
<1>3. \A k \in 1 .. n + 1 : MarkerAt(text, k, all[k]) /\ all[k] < v
  <2>1. ASSUME NEW k \in 1 .. n PROVE MarkerAt(text, k, all[k]) /\ all[k] < v
    BY <1>1, <1>2
  <2>2. \A k \in 1 .. n + 1 : k = n + 1 \/ k \in 1 .. n
    OBVIOUS
  <2>3. QED
    BY <1>2, <2>1, <2>2
<1>4. \A k \in 2 .. n + 1 : all[k - 1] < all[k]
  <2>1. ASSUME NEW k \in 2 .. n + 1 PROVE all[k - 1] < all[k]
    <3>1. k - 1 \in 1 .. n
      OBVIOUS
    <3>2. CASE k = n + 1
      BY <1>1, <1>2, <3>1, <3>2
    <3>3. CASE k # n + 1
      <4>1. k \in 2 .. n /\ k \in 1 .. n
        BY <3>3
      <4>2. QED
        BY <1>1, <1>2, <3>1, <4>1
    <3>4. QED
      BY <3>2, <3>3
  <2>2. QED
    BY <2>1
<1>5. QED
  BY <1>2, <1>3, <1>4 DEF Dialog

LEMMA AnswerGrows ==
    ASSUME IInv, test.pc = "reading", NEW p, NEW r, NEW lines, Searched(p, r, lines),
           Answers(lines, test.at)
    PROVE  Dialog(console, test.at, r)
<1>1. PICK i \in p + 1 .. r - 1 : MarkerAt(console, test.at, i)
  BY AnswerIsShown
<1>2. /\ p \in Nat /\ r \in Nat /\ test.from \in Nat /\ test.from <= p /\ test.at - 1 \in Nat
      /\ (test.at - 1) + 1 = test.at
  <2>1. p \in Nat /\ r \in Nat /\ test.from \in Nat /\ test.from <= p
    BY SearchedFacts
  <2>2. test.at \in 1 .. Prompts /\ Prompts \in Nat
    BY TypedFacts DEF IInv
  <2>3. test.at - 1 \in Nat /\ (test.at - 1) + 1 = test.at
    BY <2>2
  <2>4. QED
    BY <2>1, <2>3
<1>3. Dialog(console, test.at - 1, test.from)
  BY DEF IInv, DialogOK
<1>4. i \in Nat /\ test.from < i /\ i < r
  BY <1>2
<1> DEFINE n == test.at - 1
<1>5. n \in Nat /\ Dialog(console, n, test.from) /\ MarkerAt(console, n + 1, i)
  BY <1>1, <1>2, <1>3
<1> HIDE DEF n
<1>6. Dialog(console, n + 1, r)
  BY <1>2, <1>4, <1>5, DialogGrows
<1>7. QED
  BY <1>2, <1>6 DEF n

LEMMA ReplyInv ==
    ASSUME IInv, test.pc = "reading", NEW p, NEW size \in Nat, NEW lines,
           Searched(p, test.read + size, lines), Reply(size, lines), UNCHANGED <<console, timer>>
    PROVE  IInv'
<1> DEFINE r == test.read + size
<1>1. /\ Typed /\ Phase /\ DialogOK /\ MachineOK /\ RepliesOK
      /\ UNCHANGED <<console, timer, group>> /\ Answers(lines, test.at) /\ test.at < Prompts
      /\ test' = [test EXCEPT !.buf = <<>>, !.read = @ + size, !.from = test.read + size,
                              !.at = @ + 1]
      /\ machine' = [machine EXCEPT !.typed = @ + 1]
  BY DEF IInv, Reply
<1>2. past' = [past EXCEPT !.dropped = \/ @
                                       \/ /\ Asked > test.at
                                          /\ machine.ends[test.at + 1] - 1 <= r]
  BY DEF Reply
<1>3. r \in Nat /\ r <= Len(console) /\ console \in Seq(Token) /\ Len(console) \in Nat
  BY SearchedFacts
<1>4. Dialog(console, test.at, r)
  BY <1>1, AnswerGrows
<1>5. /\ test' \in TestSet /\ test'.pc = "reading" /\ test'.at = test.at + 1 /\ test'.read = r
      /\ test'.from = r /\ test'.buf = <<>> /\ test'.success = test.success
      /\ test'.status = test.status
  <2>1. test.at + 1 \in 1 .. Prompts /\ r \in Nat /\ <<>> \in Seq(Token)
    <3>1. test.at \in Nat /\ Prompts \in Nat /\ test.at < Prompts
      BY <1>1, Numbers
    <3>2. QED
      BY <1>3, <3>1
  <2>2. QED
    BY <1>1, <2>1, MachineFacts DEF TestSet
<1> HIDE DEF r
<1>6. /\ machine' \in MachineSet /\ machine'.ends = machine.ends /\ machine'.got = machine.got
      /\ machine'.typed = machine.typed + 1
  <2>1. machine.typed + 1 \in Nat
    BY <1>1, Numbers
  <2>2. QED
    BY <1>1, <2>1, MachineFacts DEF MachineSet
<1>7. /\ past' \in PastSet /\ past'.flushed = past.flushed
      /\ past'.dropped = \/ past.dropped
                         \/ Asked > test.at /\ machine.ends[test.at + 1] - 1 <= r
  BY <1>1, <1>2, MachineFacts DEF PastSet
<1>8. Typed'
  BY <1>1, <1>3, <1>5, <1>6, <1>7, MachineFacts DEF Typed
<1>9. Phase'
  BY <1>1, <1>5 DEF Phase
<1>10. DialogOK'
  <2>1. test'.at - 1 = test.at /\ ~ test.success
    <3>1. test.at \in Nat
      BY <1>1, Numbers
    <3>2. QED
      BY <1>1, <1>5, <3>1 DEF Phase
  <2>2. QED
    BY <1>1, <1>4, <1>5, <2>1 DEF DialogOK
<1>11. BufferOK'
  <2>1. SubSeq(console, r + 1, r) = <<>>
    BY <1>3, SubSeqEmpty
  <2>2. BufferAt(console, r, r, r)
    BY <1>3 DEF BufferAt, Between
  <2>3. QED
    BY <1>1, <1>3, <1>5, <2>1, <2>2 DEF BufferOK
<1>12. SearchOK'
  <2>1. Blamed(console, test'.at, r, r)
    BY <1>3 DEF Blamed
  <2>2. QED
    BY <1>1, <1>5, <2>1 DEF SearchOK
<1>13. MachineOK'
  BY <1>1, <1>6 DEF MachineOK, Asked
<1>14. RepliesOK'
  <2>1. Asked' = Asked /\ Asked \in Nat /\ test.at \in Nat
    BY <1>1, <1>6, TypedFacts DEF Asked
  <2>2. past'.flushed \/ test'.at - 1 <= machine'.got + machine'.typed
    <3>1. past.flushed \/ test.at - 1 <= machine.got + machine.typed
      BY <1>1 DEF RepliesOK
    <3>2. machine.got \in Nat /\ machine.typed \in Nat
      BY <1>1, TypedFacts
    <3>3. QED
      BY <1>5, <1>6, <1>7, <2>1, <3>1, <3>2
  <2>3. ASSUME ~ past'.dropped, test'.at <= Asked PROVE test'.from < machine'.ends[test'.at] - 1
    <3>1. ~ (machine.ends[test.at + 1] - 1 <= r)
      BY <1>5, <1>7, <2>1, <2>3
    <3>2. machine.ends[test.at + 1] \in Nat
      <4>1. test.at + 1 \in 1 .. Len(machine.ends)
        BY <1>5, <2>1, <2>3 DEF Asked
      <4>2. QED
        BY <1>1, <4>1, TypedFacts, ElementOfSeq
    <3>3. QED
      BY <1>3, <1>5, <1>6, <3>1, <3>2
  <2>4. QED
    BY <2>1, <2>2, <2>3 DEF RepliesOK
<1>15. QED
  BY <1>8, <1>9, <1>10, <1>11, <1>12, <1>13, <1>14 DEF IInv

LEMMA SucceedInv ==
    ASSUME IInv, test.pc = "reading", NEW p, NEW size \in Nat, NEW lines,
           Searched(p, test.read + size, lines), Succeed(size, lines), UNCHANGED <<console, timer>>
    PROVE  IInv'
<1> DEFINE r == test.read + size
<1>1. /\ Typed /\ Phase /\ UNCHANGED <<console, timer, machine>> /\ KillGroup
      /\ Answers(lines, test.at) /\ test.at = Prompts
      /\ test' = [test EXCEPT !.pc = "communicate", !.read = @ + size, !.success = TRUE]
  BY DEF IInv, Succeed
<1>2. /\ r \in Nat /\ r <= Len(console) /\ console \in Seq(Token) /\ Len(console) \in Nat
      /\ test.from <= r
  <2>1. /\ r \in Nat /\ r <= Len(console) /\ console \in Seq(Token) /\ Len(console) \in Nat
        /\ p \in Nat /\ test.from \in Nat /\ test.from <= p /\ p <= r
    BY SearchedFacts
  <2>2. QED
    BY <2>1
<1>3. Dialog(console, Prompts, r)
  BY <1>1, AnswerGrows
<1>4. Dialog(console, Prompts, Len(console))
  <2>1. Extends(console, console)
    BY <1>1, Reflexive
  <2>2. QED
    BY <1>2, <1>3, <2>1, DialogStays
<1>5. /\ test' \in TestSet /\ test'.pc = "communicate" /\ test'.success = TRUE
      /\ test'.read = r /\ test'.from = test.from /\ test'.status = test.status
  BY <1>1, <1>2, MachineFacts DEF TestSet
<1>6. Typed'
  BY <1>1, <1>2, <1>5, KillFacts, TypedFacts, MachineFacts DEF Typed
<1>7. Phase'
  BY <1>1, <1>5 DEF Phase
<1>8. QED
  BY <1>1, <1>4, <1>5, <1>6, <1>7, LeavesReading

LEMMA ReadInv == ASSUME IInv, Read PROVE IInv'
<1>1. PICK size \in 1 .. BufferSize :
         /\ test.read + size <= Len(console)
         /\ LET lines == Lines(test.buf \o SubSeq(console, test.read + 1, test.read + size))
            IN  ReadOn(size, lines) \/ Reply(size, lines) \/ Succeed(size, lines)
  BY DEF Read
<1> DEFINE lines == Lines(test.buf \o SubSeq(console, test.read + 1, test.read + size))
<1>2. test.pc = "reading" /\ UNCHANGED <<console, timer>>
  BY DEF Read
<1>3. PICK p \in Nat :
         /\ BufferAt(console, test.from, test.read, p)
         /\ test.buf \o SubSeq(console, test.read + 1, test.read + size) =
               SubSeq(console, p + 1, test.read + size)
  BY <1>1, <1>2, ChunkFacts
<1>4. size \in Nat /\ test.read + size \in Nat /\ test.read <= test.read + size
  <2>1. test.read \in Nat
    BY Numbers DEF IInv
  <2>2. QED
    BY <2>1
<1>5. Searched(p, test.read + size, lines)
  BY <1>1, <1>3, <1>4 DEF Searched
<1>6. ReadOn(size, lines) \/ Reply(size, lines) \/ Succeed(size, lines)
  BY <1>1
<1> HIDE DEF lines
<1>7. QED
  BY <1>2, <1>4, <1>5, <1>6, ReadOnInv, ReplyInv, SucceedInv
-----------------------------------------------------------------------------
(***************************************************************************)
(* The invariant.                                                          *)
(***************************************************************************)
LEMMA InitInv == ASSUME Init PROVE IInv
<1>1. /\ console = <<>> /\ Len(console) = 0 /\ console \in Seq(Token)
      /\ machine.ends = <<>> /\ machine.got = 0 /\ machine.typed = 0
      /\ machine \in MachineSet /\ past \in PastSet /\ timer = "armed"
  BY DEF Init, MachineSet, PastSet
<1>2. /\ test.pc = "reading" /\ test.at = 1 /\ test.buf = <<>> /\ test.read = 0
      /\ test.from = 0 /\ test.success = FALSE /\ test.status = 1 /\ test \in TestSet
  <2>1. 1 \in 1 .. Prompts /\ <<>> \in Seq(Token)
    BY DialogAssumption
  <2>2. QED
    BY <2>1 DEF Init, TestSet
<1>3. group \in [alive : SUBSET {"leader", "child"}, reaped : BOOLEAN]
  BY DEF Init
<1>4. Typed
  BY <1>1, <1>2, <1>3 DEF Typed
<1>5. Phase
  BY <1>1, <1>2 DEF Phase
<1>6. DialogOK
  <2>1. Dialog(console, 0, 0)
    <3>1. \E at : at \in [1 .. 0 -> Nat]
      <4>1. [k \in 1 .. 0 |-> 0] \in [1 .. 0 -> Nat]
        OBVIOUS
      <4>2. QED
        BY <4>1
    <3>2. PICK at : at \in [1 .. 0 -> Nat]
      BY <3>1
    <3>3. /\ \A k \in 1 .. 0 : MarkerAt(console, k, at[k]) /\ at[k] < 0
          /\ \A k \in 2 .. 0 : at[k - 1] < at[k]
      <4>1. (\A k \in 1 .. 0 : FALSE) /\ (\A k \in 2 .. 0 : FALSE)
        OBVIOUS
      <4>2. QED
        BY <4>1
    <3>4. QED
      BY <3>2, <3>3 DEF Dialog
  <2>2. test.at - 1 = 0
    BY <1>2
  <2>3. QED
    BY <1>2, <2>1, <2>2 DEF DialogOK
<1>7. BufferOK
  <2>1. SubSeq(console, 1, 0) = <<>>
    BY SubSeqEmpty
  <2>2. BufferAt(console, 0, 0, 0)
    BY DEF BufferAt, Between
  <2>3. QED
    BY <1>2, <2>1, <2>2 DEF BufferOK
<1>8. SearchOK
  BY <1>2 DEF SearchOK, Blamed
<1>9. MachineOK /\ RepliesOK
  BY <1>1, <1>2, DialogAssumption DEF MachineOK, RepliesOK, Asked
<1>10. QED
  BY <1>4, <1>5, <1>6, <1>7, <1>8, <1>9 DEF IInv

LEMMA NextInv == ASSUME IInv, [Next]_vars PROVE IInv'
<1>1. CASE Next
  <2>1. CASE Ended
    BY <2>1 DEF Ended, vars, IInv, Typed, Phase, DialogOK, BufferOK, SearchOK, MachineOK,
       RepliesOK, Asked
  <2>2. QED
    BY <1>1, <2>1, PromptInv, TakeReplyInv, SayInv, ProcessesInv, ReadInv, ReadEofInv,
       CommunicateInv, FailTimeoutInv DEF Next
<1>2. CASE UNCHANGED vars
  BY <1>2 DEF vars, IInv, Typed, Phase, DialogOK, BufferOK, SearchOK, MachineOK, RepliesOK, Asked
<1>3. QED
  BY <1>1, <1>2

(* What the modules' variables hold: the reader is never behind what it    *)
(* has answered nor ahead of what was printed.                             *)
THEOREM IInvariance == Spec => []IInv
<1>1. Init => IInv
  BY InitInv
<1>2. IInv /\ [Next]_vars => IInv'
  BY NextInv
<1>3. QED
  BY <1>1, <1>2, PTL DEF Spec
-----------------------------------------------------------------------------
(* A status of 0 means the whole dialog, however the console was cut into  *)
(* chunks: main's result (184-190) and await_line (115-131).               *)
THEOREM DialogShown == Spec => []ZeroMeansDialog
<1>1. ASSUME IInv PROVE ZeroMeansDialog
  <2>1. ASSUME test.success PROVE Shown
    <3>1. PICK at \in [1 .. Prompts -> Nat] :
             /\ \A k \in 1 .. Prompts : MarkerAt(console, k, at[k])
             /\ \A k \in 2 .. Prompts : at[k - 1] < at[k]
      BY <1>1, <2>1 DEF IInv, DialogOK, Dialog
    <3>2. console \in Seq(Token) /\ DOMAIN console = 1 .. Len(console) /\ Len(console) \in Nat
      BY <1>1, TypedFacts, LenProperties DEF IInv
    <3>3. ASSUME NEW k \in 1 .. Prompts
          PROVE  at[k] \in DOMAIN console /\ at[k] \in Starts(k, console)
      <4>1. k \in Nat /\ MarkerAt(console, k, at[k])
        BY <3>1
      <4>2. at[k] \in 1 .. Len(console) - 1
        BY <4>1 DEF MarkerAt
      <4>3. at[k] \in Starts(k, console)
        BY <3>2, <4>1, StartsAt
      <4>4. QED
        BY <3>2, <4>2, <4>3
    <3>4. at \in [1 .. Prompts -> DOMAIN console]
      BY <3>3
    <3>5. QED
      BY <3>1, <3>3, <3>4 DEF Shown
  <2>2. QED
    BY <1>1, <2>1 DEF IInv, Phase, ZeroMeansDialog
<1>2. QED
  BY <1>1, IInvariance, PTL

(* A bad line of the console is one of the lines that Unreadable names.    *)
LEMMA BlamedIsUnreadable ==
    ASSUME Typed, test.read = Len(console), NEW a \in Nat, NEW b \in Nat,
           BadLine(console, test.at, test.from, test.read, a, b)
    PROVE  Unreadable
<1> DEFINE from == test.from
           r    == Len(console)
           text == SubSeq(console, from + 1, r)
           c    == a - from
           d    == b - from
<1>1. /\ console \in Seq(Token) /\ r \in Nat /\ from \in Nat /\ from <= r /\ r <= Len(console)
  BY TypedFacts
<1>2. /\ a \in from .. r /\ b \in a + 1 .. r + 1
      /\ a = from \/ console[a] = Newline
      /\ b = r + 1 \/ console[b] = Newline
      /\ Between(console, a, b)
      /\ Starts(test.at, SubSeq(console, a + 1, b - 1)) # {}
      /\ ~ Decodable(SubSeq(console, a + 1, b - 1))
  BY DEF BadLine
<1> HIDE DEF from, r
<1>3. /\ text \in Seq(Token) /\ Len(text) = r - from
      /\ \A i \in 1 .. r - from : text[i] = console[from + i]
  BY <1>1, PartOf
<1>4. /\ c \in Nat /\ d \in Nat /\ c < d /\ d <= (r - from) + 1 /\ from + c = a /\ from + d = b
      /\ d - 1 \in Nat /\ c <= d - 1 /\ d - 1 <= r - from /\ from + (d - 1) = b - 1
  BY <1>1, <1>2
<1>5. SubSeq(text, c + 1, d - 1) = SubSeq(console, from + c + 1, from + (d - 1))
  <2> HIDE DEF c, d
  <2>1. QED
    BY <1>1, <1>4, PartOfPart
<1>6. SubSeq(text, c + 1, d - 1) = SubSeq(console, a + 1, b - 1)
  BY <1>4, <1>5
<1> HIDE DEF text, c, d
<1>7. c \in DOMAIN Lines(text)
  <2>1. DOMAIN Lines(text) = {0} \cup Newlines(text)
    BY <1>3, LinesStart
  <2>2. CASE a = from
    BY <1>1, <1>4, <2>1, <2>2
  <2>3. CASE a # from
    <3>1. c \in 1 .. r - from
      BY <1>1, <1>2, <1>4, <2>3
    <3>2. text[c] = Newline
      BY <1>2, <1>3, <1>4, <2>3, <3>1
    <3>3. c \in DOMAIN text
      BY <1>3, <3>1, LenProperties
    <3>4. QED
      BY <2>1, <3>2, <3>3 DEF Newlines
  <2>4. QED
    BY <2>2, <2>3
<1>8. Line(text, c, d)
  <2>1. EndsAt(text, d)
    <3>1. CASE b = r + 1
      BY <1>1, <1>3, <1>4, <3>1 DEF EndsAt
    <3>2. CASE b # r + 1
      <4>1. d \in 1 .. r - from
        BY <1>1, <1>2, <1>4, <3>2
      <4>2. QED
        BY <1>2, <1>3, <1>4, <3>2, <4>1 DEF EndsAt
    <3>3. QED
      BY <3>1, <3>2
  <2>2. Between(text, c, d)
    <3>1. SUFFICES ASSUME NEW i \in c + 1 .. d - 1 PROVE text[i] # Newline
      BY DEF Between
    <3>2. i \in 1 .. r - from /\ from + i \in a + 1 .. b - 1
      BY <1>1, <1>2, <1>4
    <3>3. QED
      BY <1>2, <1>3, <3>2 DEF Between
  <2>3. QED
    BY <1>3, <1>4, <2>1, <2>2 DEF Line
<1>9. Lines(text)[c] = SubSeq(text, c + 1, d - 1)
  BY <1>3, <1>4, <1>7, <1>8, LineIs
<1>10. Starts(test.at, Lines(text)[c]) # {} /\ ~ Decodable(Lines(text)[c])
  BY <1>2, <1>6, <1>9
<1>11. QED
  BY <1>7, <1>10 DEF Unreadable, text, from, r

(* The task waits for a machine that waits for it in the named cases only. *)
THEOREM NoOtherWait == Spec => []WaitsOnlyWhereKnown
<1>1. ASSUME IInv PROVE WaitsOnlyWhereKnown
  <2>1. SUFFICES ASSUME test.pc = "reading", test.read = Len(console), Quiet, Asked > 0,
                        ~ past.flushed, ~ past.dropped
                 PROVE  Unreadable
    BY DEF WaitsOnlyWhereKnown
  <2>2. /\ Typed /\ console \in Seq(Token) /\ Len(console) \in Nat /\ Asked \in Nat
        /\ test.at \in 1 .. Prompts /\ test.from \in Nat /\ machine.got \in Nat
        /\ machine.typed \in Nat /\ Prompts \in Nat
    BY <1>1, TypedFacts DEF IInv
  <2>3. test.at <= Asked
    BY <1>1, <2>1, <2>2 DEF IInv, RepliesOK, Quiet
  <2> DEFINE i == machine.ends[test.at] - 1
  <2>4. MarkerAt(console, test.at, i) /\ test.from < i
    BY <1>1, <2>1, <2>2, <2>3 DEF IInv, MachineOK, RepliesOK
  <2>5. i \in test.from + 1 .. test.read - 1
    BY <2>1, <2>2, <2>4 DEF MarkerAt
  <2>6. PICK a \in Nat, b \in Nat : BadLine(console, test.at, test.from, test.read, a, b)
    BY <1>1, <2>1, <2>4, <2>5 DEF IInv, SearchOK, Blamed
  <2>7. QED
    BY <2>1, <2>2, <2>6, BlamedIsUnreadable
<1>2. QED
  BY <1>1, IInvariance, PTL
=============================================================================
