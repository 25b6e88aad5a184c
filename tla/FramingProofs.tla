---------------------------- MODULE FramingProofs ----------------------------
(***************************************************************************)
(* What Framing guarantees for any bytes, any messages, any separators and *)
(* any way the stream falls into pieces.                                   *)
(***************************************************************************)
EXTENDS Framing, WellFoundedInduction, TLAPS

(* First really is the smallest of some places.                            *)
LEMMA FirstIsFirst ==
  ASSUME NEW places, places \subseteq Nat, places # {}
  PROVE  First(places) \in places /\ \A q \in places : First(places) <= q
<1> DEFINE R == {ss \in Nat \X Nat : ss[1] < ss[2]}
<1>1. IsWellFoundedOn(R, Nat)
  BY NatLessThanWellFounded DEF OpToRel
<1>2. PICK p \in places : \A q \in places : ~(<<q, p>> \in R)
  <2> HIDE DEF R
  <2> QED  BY <1>1, WFMin, Zenon
<1>3. \A q \in places : ~(q < p)
  BY <1>2
<1>4. \A q \in places : p <= q
  BY <1>3
<1> QED  BY <1>4 DEF First

(* A message cut off the buffer lies behind what was erased before and     *)
(* within what was received, and is more than one byte long.               *)
LEMMA ExtractedWithin ==
  ASSUME TypeOK, Begins # {}, Complete
  PROVE  /\ Start \in Nat /\ First(Ends) \in Nat
         /\ lo < Start /\ Start < First(Ends) /\ First(Ends) <= hi
<1>1. lo \in Nat /\ hi \in Nat
  BY DEF TypeOK
<1>2. Len(BeginString) = 2 /\ Len(CheckSum) = 3
      /\ BeginString[1] = "8" /\ CheckSum[1] = "1"
      /\ \A sep : Len(<<sep>>) = 1
  BY DEF BeginString, CheckSum
<1>3. /\ Start \in Nat /\ lo + 1 <= Start /\ wire[Start] = "8"
  <2>1. \A p \in Begins : p \in Nat /\ lo + 1 <= p /\ wire[p] = "8"
    BY <1>1, <1>2 DEF Begins, Places
  <2>2. Start \in Begins
    BY <2>1, FirstIsFirst DEF Start
  <2> QED  BY <2>1, <2>2
<1>4. /\ First(CheckSums) \in Nat /\ Start < First(CheckSums)
  <2>1. \A p \in CheckSums : p \in Nat /\ Start <= p /\ wire[p] = "1"
    BY <1>1, <1>2, <1>3 DEF CheckSums, Places
  <2>2. First(CheckSums) \in CheckSums
    BY <2>1, FirstIsFirst DEF Complete
  <2>3. "8" # "1"
    OBVIOUS
  <2> QED  BY <1>3, <2>1, <2>2, <2>3
<1>5. First(Ends) \in Nat /\ First(CheckSums) <= First(Ends) /\ First(Ends) <= hi
  <2>1. \A p \in Ends : p \in Nat /\ First(CheckSums) <= p /\ p <= hi
    BY <1>1, <1>2, <1>4 DEF Ends, Places
  <2>2. First(Ends) \in Ends
    BY <2>1, FirstIsFirst DEF Complete
  <2> QED  BY <2>1, <2>2
<1> QED  BY <1>1, <1>3, <1>4, <1>5

(* What is erased in front of an incomplete message was in the buffer.     *)
LEMMA AlignedWithin ==
  ASSUME TypeOK, Begins # {}
  PROVE  Start - 1 \in lo..hi
<1>1. lo \in Nat /\ hi \in Nat
  BY DEF TypeOK
<1>2. Len(BeginString) = 2
  BY DEF BeginString
<1>3. \A p \in Begins : p \in Nat /\ lo + 1 <= p /\ p <= hi
  BY <1>1, <1>2 DEF Begins, Places
<1>4. Start \in Begins
  BY <1>3, FirstIsFirst DEF Start
<1> QED  BY <1>1, <1>3, <1>4

(* Types, and that the buffer is a stretch of the stream.                  *)
(* (runner.cpp:185-209)                                                    *)
THEOREM TypeCorrect == Spec => []TypeOK
<1> USE FramingAssumption
<1>1. Init => TypeOK
  <2>1. /\ <<>> \in Seq(Byte) /\ Len(<<>>) = 0
        /\ <<>> \in Seq([from : Nat, to : Nat, cut : BOOLEAN])
        /\ <<>> \in Seq([from : Nat, to : Nat])
    OBVIOUS
  <2>2. 1 \in 0..Len(Separators)
    OBVIOUS
  <2> QED  BY <2>1, <2>2 DEF Init, TypeOK
<1>2. TypeOK /\ [Next]_vars => TypeOK'
  <2> SUFFICES ASSUME TypeOK, [Next]_vars PROVE TypeOK'
    OBVIOUS
  <2>0. /\ lo \in Nat /\ hi \in Nat /\ lo <= hi /\ hi <= Len(wire)
        /\ wire \in Seq(Byte) /\ Len(wire) \in Nat
        /\ try \in Nat /\ Len(Separators) \in Nat /\ 1 \in 0..Len(Separators)
    BY DEF TypeOK
  <2>1. TryNext => try' \in 0..Len(Separators)
    BY <2>0 DEF TryNext
  <2>2. CASE Clear
    BY <2>0, <2>1, <2>2 DEF Clear, TypeOK
  <2>3. CASE Align
    <3>1. lo' \in 0..hi'
      BY <2>0, <2>3, AlignedWithin DEF Align
    <3> QED  BY <2>1, <2>3, <3>1 DEF Align, TypeOK
  <2>4. CASE Extract
    <3>1. lo' \in 0..hi' /\ [from |-> Start, to |-> First(Ends)] \in [from : Nat, to : Nat]
      BY <2>0, <2>4, ExtractedWithin DEF Extract
    <3>2. framed' \in Seq([from : Nat, to : Nat])
      <4>1. framed \in Seq([from : Nat, to : Nat])
        BY DEF TypeOK
      <4>2. framed' = Append(framed, [from |-> Start, to |-> First(Ends)])
        BY <2>4 DEF Extract
      <4> QED  BY <3>1, <4>1, <4>2
    <3> QED  BY <2>0, <2>4, <3>1, <3>2 DEF Extract, TypeOK
  <2>5. CASE Receive
    <3>1. split' \subseteq Nat
      <4>1. DOMAIN sent \subseteq Nat /\ split \subseteq Nat
        BY DEF TypeOK
      <4> QED  BY <2>5, <4>1 DEF Receive
    <3>2. lo' \in 0..hi' /\ hi' \in 0..Len(wire')
      BY <2>0, <2>5 DEF Receive
    <3> QED  BY <2>0, <2>5, <3>1, <3>2 DEF Receive, TypeOK
  <2>6. ASSUME NEW m \in Messages, PeerSends(m) PROVE TypeOK'
    <3>1. m \in Seq(Byte) /\ Len(m) \in Nat
      OBVIOUS
    <3>2. wire' \in Seq(Byte) /\ Len(wire') = Len(wire) + Len(m)
      BY <2>0, <2>6, <3>1 DEF PeerSends
    <3>3. sent' \in Seq([from : Nat, to : Nat, cut : BOOLEAN])
      <4> DEFINE r == [from |-> Len(wire) + 1, to |-> Len(wire) + Len(m), cut |-> FALSE]
      <4>1. r \in [from : Nat, to : Nat, cut : BOOLEAN]
        BY <2>0, <3>1
      <4>2. sent \in Seq([from : Nat, to : Nat, cut : BOOLEAN])
        BY DEF TypeOK
      <4>3. sent' = Append(sent, r)
        BY <2>6 DEF PeerSends
      <4> HIDE DEF r
      <4> QED  BY <4>1, <4>2, <4>3
    <3>4. hi' \in 0..Len(wire')
      BY <2>0, <2>6, <3>1, <3>2 DEF PeerSends
    <3> QED  BY <2>6, <3>2, <3>3, <3>4 DEF PeerSends, TypeOK
  <2>7. CASE Reconnect
    <3>1. wire' \in Seq(Byte) /\ Len(wire') = hi
      <4>1. wire' = SubSeq(wire, 1, hi) /\ UNCHANGED hi
        BY <2>7 DEF Reconnect
      <4> QED  BY <2>0, <4>1
    <3>2. sent' \in Seq([from : Nat, to : Nat, cut : BOOLEAN])
      <4> DEFINE S == [from : Nat, to : Nat, cut : BOOLEAN]
                 cutoff(i) == [sent[i] EXCEPT !.to = IF @ > hi THEN hi ELSE @,
                                              !.cut = @ \/ sent[i].to > hi]
      <4>1. \A i \in 1..Len(sent) : sent[i] \in S
        <5>1. sent \in Seq(S)
          BY DEF TypeOK
        <5> HIDE DEF S
        <5> QED  BY <5>1
      <4>2. \A i \in 1..Len(sent) : cutoff(i) \in S
        BY <2>0, <4>1
      <4>3. Len(sent) \in Nat
        BY DEF TypeOK
      <4>4. PICK k \in 0..Len(sent) : sent' = [i \in 1..k |-> cutoff(i)]
        BY <2>7 DEF Reconnect
      <4> HIDE DEF S, cutoff
      <4>5. sent' \in Seq(S)
        BY <4>2, <4>3, <4>4
      <4> QED  BY <4>5 DEF S
    <3>3. hi' \in 0..Len(wire') /\ lo' \in 0..hi'
      <4>1. UNCHANGED <<lo, hi>>
        BY <2>7 DEF Reconnect
      <4> QED  BY <2>0, <3>1, <4>1
    <3> QED  BY <2>7, <3>1, <3>2, <3>3 DEF Reconnect, TypeOK
  <2>8. CASE UNCHANGED vars
    BY <2>8 DEF vars, TypeOK
  <2> QED
    BY <2>2, <2>3, <2>4, <2>5, <2>6, <2>7, <2>8 DEF Next
<1> QED  BY <1>1, <1>2, PTL DEF Spec

(* No byte is part of two extracted messages, and each lies within what    *)
(* was received, for every stream and every way it falls into pieces.      *)
(* (runner.cpp:203-206)                                                    *)
THEOREM ExtractedApartHolds == Spec => []ExtractedApart
<1>1. Init => ExtractedApart
  BY DEF Init, ExtractedApart
<1>2. TypeOK /\ ExtractedApart /\ [Next]_vars => ExtractedApart'
  <2> SUFFICES ASSUME TypeOK, ExtractedApart, [Next]_vars PROVE ExtractedApart'
    OBVIOUS
  <2>0. /\ lo \in Nat /\ hi \in Nat /\ lo <= hi
        /\ framed \in Seq([from : Nat, to : Nat]) /\ Len(framed) \in Nat
    BY DEF TypeOK
  <2>1. \A j \in 1..Len(framed) : framed[j].from \in Nat /\ framed[j].to \in Nat
    <3> DEFINE S == [from : Nat, to : Nat]
    <3>1. framed \in Seq(S)
      BY <2>0
    <3>2. \A j \in 1..Len(framed) : framed[j] \in S
      <4> HIDE DEF S
      <4> QED  BY <3>1
    <3> QED  BY <3>2
  <2>2. ASSUME UNCHANGED framed, lo' \in Nat, lo <= lo' PROVE ExtractedApart'
    <3>1. lo \in Nat /\ lo' \in Nat /\ lo <= lo'
      BY <2>0, <2>2
    <3>2. \A n \in Nat : n <= lo => n <= lo'
      BY <3>1
    <3>3. DOMAIN framed = 1..Len(framed)
      BY <2>0
    <3>4. \A j \in DOMAIN framed : framed[j].to <= lo'
      BY <2>1, <3>2, <3>3 DEF ExtractedApart
    <3> QED  BY <2>2, <3>4 DEF ExtractedApart
  <2>3. CASE Extract
    <3>0. lo \in Nat /\ Len(framed) \in Nat /\ DOMAIN framed = 1..Len(framed)
      BY <2>0
    <3>1. /\ Start \in Nat /\ First(Ends) \in Nat
          /\ lo < Start /\ Start < First(Ends)
      BY <2>3, ExtractedWithin DEF Extract
    <3> DEFINE last == [from |-> Start, to |-> First(Ends)]
    <3>2. framed' = Append(framed, last) /\ lo' = First(Ends)
      BY <2>3 DEF Extract
    <3>3. last.from = Start /\ last.to = First(Ends)
      OBVIOUS
    <3> HIDE DEF last
    <3>4. /\ DOMAIN framed' = 1..(Len(framed) + 1)
          /\ \A j \in 1..Len(framed) : framed'[j] = framed[j]
          /\ framed'[Len(framed) + 1] = last
      BY <2>0, <3>2
    <3>5. \A j \in 1..Len(framed) :
            /\ framed[j].from < framed[j].to /\ framed[j].to <= lo
            /\ \A k \in 1..(j - 1) : framed[k].to < framed[j].from
      BY <3>0 DEF ExtractedApart
    <3>6. ASSUME NEW j \in DOMAIN framed'
          PROVE  /\ framed'[j].from < framed'[j].to /\ framed'[j].to <= lo'
                 /\ \A k \in 1..(j - 1) : framed'[k].to < framed'[j].from
      <4>1. CASE j \in 1..Len(framed)
        <5>1. framed'[j] = framed[j] /\ framed[j].to \in Nat /\ framed[j].to <= lo
          BY <2>1, <3>4, <3>5, <4>1
        <5>2. framed[j].to <= lo'
          BY <3>0, <3>1, <3>2, <5>1
        <5>3. \A k \in 1..(j - 1) : framed'[k] = framed[k]
          BY <3>0, <3>4, <4>1
        <5> QED  BY <3>5, <4>1, <5>1, <5>2, <5>3
      <4>2. CASE j = Len(framed) + 1
        <5>1. /\ framed'[j].from = Start /\ framed'[j].to = First(Ends)
              /\ lo' = First(Ends) /\ j - 1 = Len(framed)
          BY <3>0, <3>2, <3>3, <3>4, <4>2
        <5>2. \A k \in 1..(j - 1) :
                framed'[k] = framed[k] /\ framed[k].to \in Nat /\ framed[k].to <= lo
          BY <2>1, <3>4, <3>5, <5>1
        <5> QED  BY <3>0, <3>1, <5>1, <5>2
      <4> QED  BY <3>0, <3>4, <4>1, <4>2
    <3> QED  BY <3>6 DEF ExtractedApart
  <2>4. CASE Clear
    BY <2>0, <2>2, <2>4 DEF Clear
  <2>5. CASE Align
    BY <2>0, <2>2, <2>5, AlignedWithin DEF Align
  <2>6. CASE UNCHANGED <<framed, lo>>
    BY <2>0, <2>2, <2>6
  <2> QED
    BY <2>3, <2>4, <2>5, <2>6 DEF Next, Receive, PeerSends, Reconnect, vars
<1> QED  BY <1>1, <1>2, TypeCorrect, PTL DEF Spec

-----------------------------------------------------------------------------
(* The searches, in terms of the bytes of the stream                       *)

At8(p) == wire[p] = "8" /\ wire[p + 1] = "="
At10(p) == wire[p] = "1" /\ wire[p + 1] = "0" /\ wire[p + 2] = "="

LEMMA PlacesMeant ==
  ASSUME NEW a \in Int, NEW b \in Int
  PROVE  /\ \A p : p \in Places(BeginString, a, b) <=> p \in a..(b - 1) /\ At8(p)
         /\ \A p : p \in Places(CheckSum, a, b) <=> p \in a..(b - 2) /\ At10(p)
         /\ \A s, p : p \in Places(<<s>>, a, b) <=> p \in a..b /\ wire[p] = s
<1>1. /\ Len(BeginString) = 2 /\ BeginString[1] = "8" /\ BeginString[2] = "="
      /\ Len(CheckSum) = 3 /\ CheckSum[1] = "1" /\ CheckSum[2] = "0" /\ CheckSum[3] = "="
  BY DEF BeginString, CheckSum
<1>2. \A p : p \in Places(BeginString, a, b) <=> p \in a..(b - 1) /\ At8(p)
  <2>1. ASSUME NEW p \in a..(b - 1)
        PROVE  (\A i \in 1..2 : wire[p + i - 1] = BeginString[i]) <=> At8(p)
    <3>1. p + 1 - 1 = p /\ p + 2 - 1 = p + 1
      OBVIOUS
    <3>2. \A i : i \in 1..2 <=> i = 1 \/ i = 2
      OBVIOUS
    <3> QED  BY <1>1, <3>1, <3>2 DEF At8
  <2>2. b + 1 - 2 = b - 1
    OBVIOUS
  <2> QED  BY <1>1, <2>1, <2>2 DEF Places
<1>3. \A p : p \in Places(CheckSum, a, b) <=> p \in a..(b - 2) /\ At10(p)
  <2>1. ASSUME NEW p \in a..(b - 2)
        PROVE  (\A i \in 1..3 : wire[p + i - 1] = CheckSum[i]) <=> At10(p)
    <3>1. p + 1 - 1 = p /\ p + 2 - 1 = p + 1 /\ p + 3 - 1 = p + 2
      OBVIOUS
    <3>2. \A i : i \in 1..3 <=> i = 1 \/ i = 2 \/ i = 3
      OBVIOUS
    <3> QED  BY <1>1, <3>1, <3>2 DEF At10
  <2>2. b + 1 - 3 = b - 2
    OBVIOUS
  <2> QED  BY <1>1, <2>1, <2>2 DEF Places
<1>4. ASSUME NEW s, NEW p  PROVE p \in Places(<<s>>, a, b) <=> p \in a..b /\ wire[p] = s
  <2>1. Len(<<s>>) = 1 /\ <<s>>[1] = s /\ b + 1 - 1 = b /\ \A i : i \in 1..1 <=> i = 1
    OBVIOUS
  <2>2. \A q \in a..b : q + 1 - 1 = q
    OBVIOUS
  <2> QED  BY <2>1, <2>2 DEF Places
<1> QED  BY <1>2, <1>3, <1>4

LEMMA StartMeant ==
  ASSUME TypeOK, Begins # {}
  PROVE  /\ Start \in Nat /\ lo < Start /\ Start < hi /\ At8(Start)
         /\ \A b \in Nat : lo < b /\ b < hi /\ At8(b) => Start <= b
<1>1. lo \in Nat /\ hi \in Nat
  BY DEF TypeOK
<1>2. \A b : b \in Begins <=> b \in (lo + 1)..(hi - 1) /\ At8(b)
  BY <1>1, PlacesMeant DEF Begins
<1>3. Begins \subseteq Nat
  BY <1>1, <1>2
<1>4. Start \in Begins /\ \A q \in Begins : Start <= q
  BY <1>3, FirstIsFirst DEF Start
<1> QED  BY <1>1, <1>2, <1>4

LEMMA CheckSumsMeant ==
  ASSUME TypeOK, Begins # {}
  PROVE  /\ \A c : c \in CheckSums <=> c \in Start..(hi - 2) /\ At10(c)
         /\ CheckSums # {} =>
              /\ First(CheckSums) \in CheckSums
              /\ \A q \in CheckSums : First(CheckSums) <= q
<1>1. hi \in Nat /\ Start \in Nat
  BY StartMeant DEF TypeOK
<1>2. \A c : c \in CheckSums <=> c \in Start..(hi - 2) /\ At10(c)
  BY <1>1, PlacesMeant DEF CheckSums
<1>3. CheckSums \subseteq Nat
  BY <1>1, <1>2
<1> QED  BY <1>2, <1>3, FirstIsFirst

(* What is cut off: up to the first separator behind the first "10=".      *)
LEMMA CutMeant ==
  ASSUME TypeOK, Begins # {}, Complete
  PROVE  \E c \in Nat :
           /\ Start < c /\ c + 2 <= hi /\ At10(c)
           /\ \A q \in Nat : Start <= q /\ q + 2 <= hi /\ At10(q) => c <= q
           /\ First(Ends) \in c..hi /\ wire[First(Ends)] = Separators[try]
           /\ \A q \in c..hi : wire[q] = Separators[try] => First(Ends) <= q
<1> DEFINE c == First(CheckSums)
<1>1. hi \in Nat /\ Start \in Nat /\ At8(Start)
  BY StartMeant DEF TypeOK
<1>2. /\ c \in Start..(hi - 2) /\ At10(c)
      /\ \A q \in Nat : Start <= q /\ q + 2 <= hi /\ At10(q) => c <= q
  BY <1>1, CheckSumsMeant DEF Complete
<1>3. c \in Nat /\ c # Start
  BY <1>1, <1>2 DEF At8, At10
<1>4. \A e : e \in Ends <=> e \in c..hi /\ wire[e] = Separators[try]
  BY <1>1, <1>3, PlacesMeant DEF Ends
<1>5. Ends \subseteq Nat /\ Ends # {}
  BY <1>1, <1>3, <1>4 DEF Complete
<1>6. First(Ends) \in Ends /\ \A q \in Ends : First(Ends) <= q
  BY <1>5, FirstIsFirst
<1> HIDE DEF c
<1> QED  BY <1>1, <1>2, <1>3, <1>4, <1>6

(* There is no complete message in the buffer for the first separator.     *)
NoneComplete ==
  \A b, c, e \in Nat :
    lo < b /\ At8(b) /\ b <= c /\ At10(c) /\ c <= e /\ e <= hi => wire[e] # Separators[1]

LEMMA NoneFound ==
  ASSUME TypeOK, try = 1, Begins = {} \/ ~Complete
  PROVE  NoneComplete
<1> SUFFICES ASSUME NEW b \in Nat, NEW c \in Nat, NEW e \in Nat,
                    lo < b, At8(b), b <= c, At10(c), c <= e, e <= hi,
                    wire[e] = Separators[1]
             PROVE  FALSE
  BY DEF NoneComplete
<1>1. lo \in Nat /\ hi \in Nat
  BY DEF TypeOK
<1>2. Separators[1] \notin {"1", "0", "="}
  BY FramingAssumption
<1>3. e # c /\ e # c + 1 /\ e # c + 2
  BY <1>2 DEF At10
<1>4. c + 2 < e
  BY <1>3
<1>5. Begins # {}
  <2>1. b \in (lo + 1)..(hi - 1)
    BY <1>1, <1>4
  <2>2. lo + 1 \in Int /\ hi \in Int
    BY <1>1
  <2>3. b \in Places(BeginString, lo + 1, hi)
    BY <2>1, <2>2, PlacesMeant
  <2> QED  BY <2>3 DEF Begins
<1>6. Start \in Nat /\ Start <= b
  BY <1>1, <1>4, <1>5, StartMeant
<1>7. c \in CheckSums
  BY <1>1, <1>4, <1>5, <1>6, CheckSumsMeant
<1>8. First(CheckSums) \in Nat /\ First(CheckSums) <= c
  BY <1>1, <1>5, <1>6, <1>7, CheckSumsMeant
<1>9. e \in Ends
  BY <1>1, <1>8, PlacesMeant DEF Ends
<1> QED  BY <1>5, <1>7, <1>9 DEF Complete

-----------------------------------------------------------------------------
(* Where messages lie in the stream                                        *)

Count == Len(sent)
From(i) == sent[i].from
To(i) == sent[i].to

(* Message i is there from its first byte to its last.                     *)
Whole(i) ==
  \E m \in Messages :
    To(i) = From(i) + Len(m) - 1 /\ \A x \in 1..Len(m) : wire[From(i) + x - 1] = m[x]

(* Messages follow each other without gaps and make up the stream; a       *)
(* message that began with a byte received on its own is in split.         *)
LaidOut ==
  /\ \A i \in 1..Count : From(i) <= To(i) /\ To(i) <= Len(wire)
  /\ \A i, j \in 1..Count : i < j => To(i) < From(j)
  /\ \A i \in 1..Count : IF i = 1 THEN From(i) = 1 ELSE From(i) = To(i - 1) + 1
  /\ Len(wire) = IF Count = 0 THEN 0 ELSE To(Count)
  /\ \A x \in 1..Len(wire) : \E i \in 1..Count : From(i) <= x /\ x <= To(i)
  /\ \A i \in 1..Count : sent[i].cut \/ Whole(i)
  /\ \A i \in 1..Count : From(i) = hi => i \in split

FramedOnce(i) == \E j \in DOMAIN framed : framed[j] = Extracted(i)

(* A message that nothing can harm waits behind what was erased, or has    *)
(* been extracted.                                                         *)
NotHarmed ==
  \A i \in 1..Count :
    ~sent[i].cut /\ ~MayBeLost(i) => lo < From(i) \/ FramedOnce(i)

FramingInv ==
  /\ LaidOut
  /\ try # 1 => NoneComplete
  /\ NotHarmed
  /\ NothingInvented

LEMMA MessagesTyped ==
  ASSUME TypeOK
  PROVE  /\ Count \in Nat /\ DOMAIN sent = 1..Count
         /\ \A i \in 1..Count : From(i) \in Nat /\ To(i) \in Nat /\ sent[i].cut \in BOOLEAN
         /\ lo \in Nat /\ hi \in Nat /\ Len(wire) \in Nat /\ lo <= hi /\ hi <= Len(wire)
<1> DEFINE S == [from : Nat, to : Nat, cut : BOOLEAN]
<1>1. sent \in Seq(S) /\ wire \in Seq(Byte)
  BY DEF TypeOK
<1>2. Len(wire) \in Nat /\ lo \in Nat /\ hi \in Nat /\ lo <= hi /\ hi <= Len(wire)
  BY <1>1 DEF TypeOK
<1> HIDE DEF S
<1>3. Len(sent) \in Nat /\ DOMAIN sent = 1..Len(sent) /\ \A i \in 1..Len(sent) : sent[i] \in S
  BY <1>1
<1> QED  BY <1>2, <1>3 DEF S, Count, From, To

LEMMA FramesTyped ==
  ASSUME TypeOK
  PROVE  /\ Len(framed) \in Nat /\ DOMAIN framed = 1..Len(framed)
         /\ \A j \in DOMAIN framed : framed[j].from \in Nat /\ framed[j].to \in Nat
<1> DEFINE S == [from : Nat, to : Nat]
<1>1. framed \in Seq(S)
  BY DEF TypeOK
<1> HIDE DEF S
<1>2. Len(framed) \in Nat /\ DOMAIN framed = 1..Len(framed) /\ \A j \in DOMAIN framed : framed[j] \in S
  BY <1>1
<1> QED  BY <1>2 DEF S

LEMMA TwoSums ==
  ASSUME TypeOK, NEW i \in 1..Count
  PROVE  EndsEarly(i) <=>
           \E p, q \in From(i)..(To(i) - 2) : p # q /\ At10(p) /\ At10(q)
<1>1. From(i) \in Int /\ To(i) \in Int
  BY MessagesTyped
<1>2. EndsEarly(i) <=> \E p, q \in Places(CheckSum, From(i), To(i)) : p # q
  BY DEF EndsEarly, From, To
<1>3. \A p : p \in Places(CheckSum, From(i), To(i)) <=> p \in From(i)..(To(i) - 2) /\ At10(p)
  BY <1>1, PlacesMeant
<1> QED  BY <1>2, <1>3

(* A whole message begins with "8="; its checksum field has no separator   *)
(* but the last byte, and no "8=" begins in it.                            *)
LEMMA WholeMeans ==
  ASSUME TypeOK, \A m \in Messages : WellFormed(m), NEW i \in 1..Count, Whole(i)
  PROVE  /\ At8(From(i))
         /\ wire[To(i)] = Separators[1]
         /\ \E p \in Nat :
              /\ From(i) <= p /\ p + 3 <= To(i) /\ At10(p)
              /\ \A q \in p..(To(i) - 1), s \in DOMAIN Separators : wire[q] # Separators[s]
              /\ \A q \in p..To(i) : wire[q] = "8" => q + 1 <= To(i) /\ wire[q + 1] # "="
<1> USE FramingAssumption
<1>1. PICK m \in Messages :
        To(i) = From(i) + Len(m) - 1 /\ \A x \in 1..Len(m) : wire[From(i) + x - 1] = m[x]
  BY DEF Whole
<1>2. From(i) \in Nat /\ To(i) \in Nat
  BY MessagesTyped
<1>3. m \in Seq(Byte) /\ Len(m) \in Nat /\ WellFormed(m)
  OBVIOUS
<1> DEFINE n == Len(m)
           f == From(i)
           l == To(i)
<1>4. PICK p \in 1..(n - 3) :
        /\ m[p] = "1" /\ m[p + 1] = "0" /\ m[p + 2] = "="
        /\ \A q \in (p + 3)..(n - 1) : m[q] # "=" /\ \A s \in DOMAIN Separators : m[q] # Separators[s]
  BY <1>3 DEF WellFormed
<1>5. m[1] = "8" /\ m[2] = "=" /\ m[n] = Separators[1]
  BY <1>3 DEF WellFormed
<1>6. n \in Nat /\ f \in Nat /\ l \in Nat /\ l = f + n - 1 /\ p \in Nat /\ 1 <= p /\ p + 3 <= n
      /\ \A x \in 1..n : wire[f + x - 1] = m[x]
  BY <1>1, <1>2, <1>3, <1>4
<1> HIDE DEF n, f, l
<1>7. wire[f] = "8" /\ wire[f + 1] = "="
  <2>1. 1 \in 1..n /\ 2 \in 1..n /\ f + 1 - 1 = f /\ f + 2 - 1 = f + 1
    BY <1>6
  <2> QED  BY <1>5, <1>6, <2>1
<1>8. wire[l] = Separators[1]
  <2>1. n \in 1..n
    BY <1>6
  <2> QED  BY <1>5, <1>6, <2>1
<1>9. PICK c \in Nat : c = f + p - 1
  BY <1>6
<1>10. f <= c /\ c + 3 <= l
  BY <1>6, <1>9
<1>11. wire[c] = "1" /\ wire[c + 1] = "0" /\ wire[c + 2] = "="
  <2>1. p \in 1..n /\ p + 1 \in 1..n /\ p + 2 \in 1..n
        /\ f + p - 1 = c /\ f + (p + 1) - 1 = c + 1 /\ f + (p + 2) - 1 = c + 2
    BY <1>6, <1>9
  <2> QED  BY <1>4, <1>6, <2>1
<1>12. ASSUME NEW q \in (c + 3)..(l - 1)
       PROVE  wire[q] # "=" /\ \A s \in DOMAIN Separators : wire[q] # Separators[s]
  <2>1. PICK x \in Nat : x = q - f + 1
    BY <1>6, <1>9, <1>10
  <2>2. x \in 1..n /\ x \in (p + 3)..(n - 1) /\ f + x - 1 = q
    BY <1>6, <1>9, <1>10, <2>1
  <2> QED  BY <1>4, <1>6, <2>2 DEF n
<1>13. \A s \in DOMAIN Separators :
         Separators[s] \notin {"8", "1", "0", "="}
  OBVIOUS
<1>14. Separators[1] \notin {"8", "="}
  <2>1. 1 \in DOMAIN Separators
    OBVIOUS
  <2> QED  BY <1>13, <2>1
<1>15. ASSUME NEW q \in c..(l - 1), NEW s \in DOMAIN Separators
       PROVE  wire[q] # Separators[s]
  <2>1. q = c \/ q = c + 1 \/ q = c + 2 \/ q \in (c + 3)..(l - 1)
    BY <1>6, <1>10
  <2> QED  BY <1>11, <1>12, <1>13, <2>1
<1>16. ASSUME NEW q \in c..l, wire[q] = "8"
       PROVE  q + 1 <= l /\ wire[q + 1] # "="
  <2>1. q # c /\ q # c + 1 /\ q # c + 2 /\ q # l
    BY <1>8, <1>11, <1>14, <1>16
  <2>2. q + 1 = l \/ q + 1 \in (c + 3)..(l - 1)
    BY <1>6, <1>10, <2>1
  <2> QED  BY <1>6, <1>8, <1>12, <1>14, <2>2
<1> QED  BY <1>6, <1>7, <1>8, <1>10, <1>11, <1>15, <1>16 DEF At8, At10, f, l

(* What is extracted while a message that nothing can harm waits: that     *)
(* message, or something before it.                                        *)
LEMMA ExtractSpares ==
  ASSUME TypeOK, FramingInv, \A m \in Messages : WellFormed(m),
         Begins # {}, Complete, try > 0,
         NEW i \in 1..Count, ~sent[i].cut, ~MayBeLost(i), lo < From(i)
  PROVE  \/ First(Ends) < From(i)
         \/ Start = From(i) /\ First(Ends) = To(i)
<1> USE FramingAssumption
<1>0. /\ lo \in Nat /\ hi \in Nat /\ hi <= Len(wire) /\ Len(wire) \in Nat /\ Count \in Nat
      /\ From(i) \in Nat /\ To(i) \in Nat /\ From(i) <= To(i)
      /\ try \in Nat /\ try \in DOMAIN Separators /\ 1 \in DOMAIN Separators
  <2>1. From(i) <= To(i)
    BY DEF FramingInv, LaidOut
  <2>2. try \in DOMAIN Separators /\ try \in Nat /\ 1 \in DOMAIN Separators
    BY DEF TypeOK
  <2> QED  BY <2>1, <2>2, MessagesTyped
<1>1. /\ Start \in Nat /\ lo < Start /\ Start < hi /\ At8(Start)
      /\ \A b \in Nat : lo < b /\ b < hi /\ At8(b) => Start <= b
  BY StartMeant
<1>2. PICK c \in Nat :
        /\ Start < c /\ c + 2 <= hi /\ At10(c)
        /\ \A q \in Nat : Start <= q /\ q + 2 <= hi /\ At10(q) => c <= q
        /\ First(Ends) \in c..hi /\ wire[First(Ends)] = Separators[try]
        /\ \A q \in c..hi : wire[q] = Separators[try] => First(Ends) <= q
  BY CutMeant
<1> DEFINE e == First(Ends)
<1>3. e \in Nat /\ c <= e /\ e <= hi
  BY <1>0, <1>2
<1>4. SUFFICES ASSUME From(i) <= e  PROVE Start = From(i) /\ e = To(i)
  BY <1>0, <1>3
<1>5. From(i) < hi
  <2>1. From(i) <= hi
    BY <1>0, <1>3, <1>4
  <2>2. From(i) # hi
    BY DEF FramingInv, LaidOut, MayBeLost
  <2> QED  BY <1>0, <2>1, <2>2
<1>6. Whole(i)
  BY DEF FramingInv, LaidOut
<1>7. At8(From(i))
  BY <1>6, WholeMeans
<1>8. Start <= From(i)
  BY <1>0, <1>1, <1>5, <1>7
(* The message before is whole: what begins in it or before it ends in it. *)
<1>9. Start = From(i)
  <2> SUFFICES ASSUME Start < From(i)  PROVE FALSE
    BY <1>0, <1>1, <1>8
  <2>1. i # 1
    BY <1>0, <1>1 DEF FramingInv, LaidOut
  <2> DEFINE h == i - 1
  <2>2. h \in 1..Count /\ i > 1 /\ h \in Nat
    BY <1>0, <2>1
  <2>3. ~sent[h].cut
    BY <2>2 DEF MayBeLost, AfterCut
  <2>4. From(i) = To(h) + 1 /\ Whole(h)
    BY <2>1, <2>2, <2>3 DEF FramingInv, LaidOut
  <2>5. From(h) \in Nat /\ To(h) \in Nat
    BY <2>2, MessagesTyped
  <2> HIDE DEF h
  <2>6. PICK p \in Nat :
          /\ From(h) <= p /\ p + 3 <= To(h) /\ At10(p)
          /\ \A q \in p..To(h) : wire[q] = "8" => q + 1 <= To(h) /\ wire[q + 1] # "="
    BY <2>2, <2>4, WholeMeans
  <2>7. wire[To(h)] = Separators[1]
    BY <2>2, <2>4, WholeMeans
  <2>8. To(h) < hi /\ Start <= To(h)
    BY <1>0, <1>1, <1>5, <2>4, <2>5
  <2>9. Start <= p
    <3>1. ~(Start \in p..To(h))
      BY <1>1, <2>6 DEF At8
    <3> QED  BY <1>1, <2>5, <2>8, <3>1
  <2>10. c <= p
    BY <1>0, <1>2, <2>5, <2>6, <2>8, <2>9
  <2>11. CASE try = 1
    <3>1. To(h) \in c..hi
      BY <1>0, <2>5, <2>6, <2>8, <2>10
    <3>2. e <= To(h)
      BY <1>2, <2>7, <2>11, <3>1
    <3> QED  BY <1>3, <1>4, <2>4, <2>5, <3>2
  <2>12. CASE try # 1
    <3>1. NoneComplete
      BY <2>12 DEF FramingInv
    <3>2. c <= To(h) /\ To(h) <= hi
      BY <1>0, <2>5, <2>6, <2>8, <2>10
    <3>3. wire[To(h)] # Separators[1]
      BY <1>1, <1>2, <2>5, <3>1, <3>2 DEF NoneComplete
    <3> QED  BY <2>7, <3>3
  <2> QED  BY <2>11, <2>12
(* It is the message itself, up to its only separator behind "10=".        *)
<1>10. PICK p \in Nat :
         /\ From(i) <= p /\ p + 3 <= To(i) /\ At10(p)
         /\ \A q \in p..(To(i) - 1), s \in DOMAIN Separators : wire[q] # Separators[s]
  BY <1>6, WholeMeans
<1>11. wire[To(i)] = Separators[1]
  BY <1>6, WholeMeans
<1>12. c = p
  <2>1. CASE c + 2 <= To(i)
    <3>1. c \in From(i)..(To(i) - 2) /\ p \in From(i)..(To(i) - 2)
      BY <1>0, <1>2, <1>9, <1>10, <2>1
    <3>2. ~EndsEarly(i)
      BY DEF MayBeLost
    <3>3. ~(\E x, y \in From(i)..(To(i) - 2) : x # y /\ At10(x) /\ At10(y))
      BY <3>2, TwoSums
    <3>4. At10(c) /\ At10(p)
      BY <1>2, <1>10
    <3> QED  BY <3>1, <3>3, <3>4
  <2>2. CASE To(i) < c + 2
    <3>1. p + 2 <= hi /\ Start <= p /\ p < c
      BY <1>0, <1>2, <1>9, <1>10, <2>2
    <3> QED  BY <1>2, <1>10, <3>1
  <2> QED  BY <1>0, <1>2, <2>1, <2>2
<1>13. ~(e \in p..(To(i) - 1))
  BY <1>0, <1>2, <1>10
<1>14. To(i) <= e
  BY <1>0, <1>3, <1>12, <1>13
<1>15. CASE try = 1
  <2>1. To(i) \in c..hi
    BY <1>0, <1>3, <1>10, <1>12, <1>14
  <2>2. e <= To(i)
    BY <1>2, <1>11, <1>15, <2>1
  <2> QED  BY <1>0, <1>3, <1>9, <1>14, <2>2
<1>16. CASE try # 1
  <2>1. NoneComplete
    BY <1>16 DEF FramingInv
  <2>2. c <= To(i) /\ To(i) <= hi
    BY <1>0, <1>3, <1>10, <1>12, <1>14
  <2>3. wire[To(i)] # Separators[1]
    BY <1>0, <1>1, <1>2, <2>1, <2>2 DEF NoneComplete
  <2> QED  BY <1>11, <2>3
<1> QED  BY <1>15, <1>16

(* ... so a message that nothing can harm keeps waiting, or is extracted.  *)
LEMMA ExtractHarmsNone ==
  ASSUME TypeOK, ExtractedApart, FramingInv, \A m \in Messages : WellFormed(m), Extract
  PROVE  FramingInv'
<1>1. /\ framed' = Append(framed, [from |-> Start, to |-> First(Ends)])
      /\ lo' = First(Ends) /\ try' = 1 /\ try > 0 /\ Begins # {} /\ Complete
      /\ UNCHANGED <<wire, sent, hi, split>>
  BY DEF Extract
<1> DEFINE last == [from |-> Start, to |-> First(Ends)]
<1>2. last.from = Start /\ last.to = First(Ends)
  OBVIOUS
<1>3. /\ DOMAIN framed = 1..Len(framed) /\ Len(framed) \in Nat
      /\ DOMAIN framed' = 1..(Len(framed) + 1)
      /\ \A j \in DOMAIN framed : framed'[j] = framed[j]
      /\ framed'[Len(framed) + 1] = last
  <2> DEFINE S == [from : Nat, to : Nat]
  <2>1. framed \in Seq(S) /\ framed' = Append(framed, last)
    BY <1>1 DEF TypeOK
  <2> HIDE DEF S, last
  <2> QED  BY <2>1
<1> HIDE DEF last
<1>4. /\ \A i : From(i)' = From(i) /\ To(i)' = To(i) /\ Extracted(i)' = Extracted(i)
      /\ \A i : Whole(i)' <=> Whole(i)
      /\ \A i : MayBeLost(i)' <=> MayBeLost(i)
      /\ Count' = Count
  BY <1>1 DEF From, To, Whole, Extracted, MayBeLost, EndsEarly, Places, AfterCut, Count
<1>5. \A i : FramedOnce(i) => FramedOnce(i)'
  BY <1>3, <1>4 DEF FramedOnce
<1>6. LaidOut'
  BY <1>1, <1>4 DEF FramingInv, LaidOut
<1>7. NotHarmed'
  <2>1. ASSUME NEW i \in 1..Count, ~sent[i].cut, ~MayBeLost(i)
        PROVE  First(Ends) < From(i) \/ FramedOnce(i)'
    <3>1. CASE FramedOnce(i)
      BY <1>5, <3>1
    <3>2. CASE ~FramedOnce(i)
      <4>1. lo < From(i)
        BY <2>1, <3>2 DEF FramingInv, NotHarmed
      <4>2. First(Ends) < From(i) \/ (Start = From(i) /\ First(Ends) = To(i))
        BY <1>1, <2>1, <4>1, ExtractSpares
      <4>3. ASSUME Start = From(i), First(Ends) = To(i)  PROVE FramedOnce(i)'
        <5>1. last = Extracted(i)
          BY <4>3 DEF last, Extracted, From, To
        <5>2. Len(framed) + 1 \in DOMAIN framed'
          BY <1>3
        <5> QED  BY <1>3, <1>4, <5>1, <5>2 DEF FramedOnce
      <4> QED  BY <4>2, <4>3
    <3> QED  BY <3>1, <3>2
  <2> QED  BY <1>1, <1>4, <2>1 DEF NotHarmed
<1>8. NothingInvented'
  <2>1. ASSUME NEW j \in DOMAIN framed'
        PROVE  \E i \in 1..Count :
                 /\ From(i) <= framed'[j].from /\ framed'[j].from <= To(i)
                 /\ framed'[j] = Extracted(i) \/ MayBeLost(i) \/ sent[i].cut
    <3>1. CASE j \in DOMAIN framed
      <4>1. framed'[j] = framed[j]
        BY <1>3, <3>1
      <4> QED  BY <3>1, <4>1, MessagesTyped DEF FramingInv, NothingInvented, From, To
    <3>2. CASE j = Len(framed) + 1
      <4>1. framed'[j].from = Start /\ framed'[j] = last
        BY <1>2, <1>3, <3>2
      <4>2. Start \in Nat /\ lo < Start /\ Start < hi /\ lo \in Nat /\ hi \in Nat
            /\ hi <= Len(wire) /\ Len(wire) \in Nat
        BY <1>1, StartMeant, MessagesTyped
      <4>3. Start \in 1..Len(wire)
        BY <4>2
      <4>4. PICK i \in 1..Count : From(i) <= Start /\ Start <= To(i)
        BY <4>3 DEF FramingInv, LaidOut
      <4>5. From(i) \in Nat /\ To(i) \in Nat /\ First(Ends) \in Nat /\ Start < First(Ends)
        BY <1>1, MessagesTyped, ExtractedWithin
      <4>6. ASSUME ~MayBeLost(i), ~sent[i].cut  PROVE last = Extracted(i)
        <5>1. lo < From(i)
          <6> SUFFICES ASSUME ~(lo < From(i))  PROVE FALSE
            OBVIOUS
          <6>1. PICK k \in DOMAIN framed : framed[k] = Extracted(i)
            BY <4>6 DEF FramingInv, NotHarmed, FramedOnce
          <6>2. Extracted(i).to = To(i)
            BY DEF Extracted, To
          <6>3. To(i) <= lo
            BY <6>1, <6>2 DEF ExtractedApart
          <6> QED  BY <4>2, <4>4, <4>5, <6>3
        <5>2. First(Ends) < From(i) \/ (Start = From(i) /\ First(Ends) = To(i))
          BY <1>1, <4>6, <5>1, ExtractSpares
        <5>3. Start = From(i) /\ First(Ends) = To(i)
          BY <4>2, <4>4, <4>5, <5>2
        <5> QED  BY <5>3 DEF last, Extracted, From, To
      <4> QED  BY <4>1, <4>4, <4>6
    <3> QED  BY <1>3, <3>1, <3>2
  <2>2. DOMAIN sent' = 1..Count
    BY <1>1, MessagesTyped
  <2> QED  BY <1>1, <1>4, <2>1, <2>2 DEF NothingInvented, From, To
<1> QED  BY <1>1, <1>6, <1>7, <1>8 DEF FramingInv

(* Erasing in front of an incomplete message, or all of a buffer without a *)
(* beginning, spares every message.                                        *)
LEMMA EraseHarmsNone ==
  ASSUME TypeOK, FramingInv, \A m \in Messages : WellFormed(m), Clear \/ Align
  PROVE  FramingInv'
<1>1. /\ UNCHANGED <<wire, sent, hi, framed, split>> /\ try > 0
      /\ \/ Begins = {} /\ lo' = hi
         \/ Begins # {} /\ ~Complete /\ lo' = Start - 1
  BY DEF Clear, Align
<1>2. /\ lo \in Nat /\ hi \in Nat /\ lo' \in Nat /\ lo <= lo' /\ Count \in Nat
  <2>1. Begins # {} => Start - 1 \in lo..hi
    BY AlignedWithin
  <2> QED  BY <1>1, <2>1, MessagesTyped
<1>3. /\ \A i : From(i)' = From(i) /\ To(i)' = To(i) /\ Extracted(i)' = Extracted(i)
      /\ \A i : Whole(i)' <=> Whole(i)
      /\ \A i : MayBeLost(i)' <=> MayBeLost(i)
      /\ \A i : FramedOnce(i)' <=> FramedOnce(i)
      /\ Count' = Count
  BY <1>1 DEF From, To, Whole, Extracted, MayBeLost, EndsEarly, Places, AfterCut, Count, FramedOnce
<1>4. LaidOut'
  BY <1>1, <1>3 DEF FramingInv, LaidOut
<1>5. NothingInvented'
  BY <1>1, <1>3 DEF FramingInv, NothingInvented, From, To
<1>6. NoneComplete'
  <2>1. NoneComplete
    <3>1. try = 1 => NoneComplete
      BY <1>1, NoneFound
    <3> QED  BY <3>1 DEF FramingInv
  <2>2. \A b \in Nat : lo' < b => lo < b
    BY <1>2
  <2>3. \A b : (At8(b)' <=> At8(b)) /\ (At10(b)' <=> At10(b))
    BY <1>1 DEF At8, At10
  <2> QED  BY <1>1, <2>1, <2>2, <2>3 DEF NoneComplete
<1>7. NotHarmed'
  <2>1. ASSUME NEW i \in 1..Count, ~sent[i].cut, ~MayBeLost(i), lo < From(i)
        PROVE  lo' < From(i)
    <3>1. From(i) \in Nat /\ From(i) # hi /\ Whole(i)
      BY <2>1, MessagesTyped DEF FramingInv, LaidOut, MayBeLost
    <3>2. CASE From(i) < hi
      <4>1. At8(From(i))
        BY <3>1, WholeMeans
      <4>2. Begins # {}
        <5>1. From(i) \in (lo + 1)..(hi - 1) /\ lo + 1 \in Int
          BY <1>2, <2>1, <3>1, <3>2
        <5>2. From(i) \in Places(BeginString, lo + 1, hi)
          BY <1>2, <4>1, <5>1, PlacesMeant
        <5> QED  BY <5>2 DEF Begins
      <4>3. Start \in Nat /\ Start <= From(i)
        BY <2>1, <3>1, <3>2, <4>1, <4>2, StartMeant
      <4> QED  BY <1>1, <3>1, <4>2, <4>3
    <3>3. CASE hi < From(i)
      <4>1. lo' <= hi
        <5>1. Begins # {} => Start - 1 \in lo..hi
          BY AlignedWithin
        <5> QED  BY <1>1, <1>2, <5>1
      <4> QED  BY <1>2, <3>1, <3>3, <4>1
    <3> QED  BY <1>2, <3>1, <3>2, <3>3
  <2> QED  BY <1>1, <1>3, <2>1 DEF FramingInv, NotHarmed
<1> QED  BY <1>4, <1>5, <1>6, <1>7 DEF FramingInv

LEMMA ReceiveHarmsNone ==
  ASSUME TypeOK, FramingInv, Receive
  PROVE  FramingInv'
<1>1. /\ UNCHANGED <<wire, sent, lo, framed>> /\ try' = 1
      /\ split' = split \cup {i \in DOMAIN sent : sent[i].from = hi'}
  BY DEF Receive
<1>2. DOMAIN sent = 1..Count
  BY MessagesTyped
<1>3. /\ \A i : From(i)' = From(i) /\ To(i)' = To(i) /\ Extracted(i)' = Extracted(i)
      /\ \A i : Whole(i)' <=> Whole(i)
      /\ \A i : MayBeLost(i) => MayBeLost(i)'
      /\ \A i : FramedOnce(i)' <=> FramedOnce(i)
      /\ Count' = Count
  BY <1>1 DEF From, To, Whole, Extracted, MayBeLost, EndsEarly, Places, AfterCut, Count, FramedOnce
<1>4. \A i \in 1..Count : From(i) = hi' => i \in split'
  BY <1>1, <1>2 DEF From
<1>5. LaidOut'
  BY <1>1, <1>3, <1>4 DEF FramingInv, LaidOut
<1>6. NotHarmed'
  BY <1>1, <1>3 DEF FramingInv, NotHarmed
<1>7. NothingInvented'
  BY <1>1, <1>3 DEF FramingInv, NothingInvented, From, To
<1> QED  BY <1>1, <1>5, <1>6, <1>7 DEF FramingInv

(* What the peer does to the stream: bytes already received stay.          *)
LEMMA ReceivedStays ==
  ASSUME TypeOK, UNCHANGED <<lo, hi>>, \A x \in 1..hi : wire'[x] = wire[x]
  PROVE  NoneComplete => NoneComplete'
<1> SUFFICES ASSUME NoneComplete, NEW b \in Nat, NEW c \in Nat, NEW e \in Nat,
                    lo < b, At8(b)', b <= c, At10(c)', c <= e, e <= hi,
                    wire'[e] = Separators[1]
             PROVE  FALSE
  BY DEF NoneComplete
<1>1. lo \in Nat /\ hi \in Nat
  BY MessagesTyped
<1>2. Separators[1] \notin {"1", "0", "="}
  BY FramingAssumption
<1>3. wire'[c] = "1" /\ wire'[c + 1] = "0" /\ wire'[c + 2] = "="
      /\ wire'[b] = "8" /\ wire'[b + 1] = "="
  BY DEF At8, At10
<1>4. e # c /\ e # c + 1 /\ e # c + 2
  BY <1>2, <1>3
<1>5. c + 2 < e /\ 1 <= b
  BY <1>1, <1>4
<1>6. b \in 1..hi /\ b + 1 \in 1..hi /\ c \in 1..hi /\ c + 1 \in 1..hi /\ c + 2 \in 1..hi
      /\ e \in 1..hi
  BY <1>1, <1>5
<1>7. At8(b) /\ At10(c) /\ wire[e] = Separators[1]
  BY <1>3, <1>6 DEF At8, At10
<1> QED  BY <1>7 DEF NoneComplete

(* A message is the same as long as its bytes are.                         *)
LEMMA SameMessage ==
  ASSUME TypeOK, NEW i \in 1..Count, From(i)' = From(i), To(i)' = To(i),
         \A x \in From(i)..To(i) : wire'[x] = wire[x]
  PROVE  (Whole(i)' <=> Whole(i)) /\ (EndsEarly(i)' <=> EndsEarly(i))
<1> USE FramingAssumption
<1>1. PICK f \in Nat, l \in Nat : f = From(i) /\ l = To(i)
  BY MessagesTyped
<1>2. f = From(i)' /\ l = To(i)'
  BY <1>1
<1>3. \A x \in f..l : wire'[x] = wire[x]
  BY <1>1
<1>4. ASSUME NEW d \in Messages, l = f + Len(d) - 1, NEW x \in 1..Len(d)
      PROVE  wire'[f + x - 1] = wire[f + x - 1]
  <2>1. Len(d) \in Nat
    OBVIOUS
  <2>2. f + x - 1 \in f..l
    BY <1>4, <2>1
  <2> QED  BY <1>3, <2>2
<1>5. Whole(i)' <=> Whole(i)
  BY <1>1, <1>2, <1>4 DEF Whole
<1>6. Places(CheckSum, f, l)' = Places(CheckSum, f, l)
  <2>1. Len(CheckSum) = 3
    BY DEF CheckSum
  <2>2. \A p \in f..(l + 1 - 3), k \in 1..3 : wire'[p + k - 1] = wire[p + k - 1]
    <3>1. \A p \in f..(l + 1 - 3), k \in 1..3 : p + k - 1 \in f..l
      OBVIOUS
    <3> QED  BY <1>3, <3>1
  <2> QED  BY <2>1, <2>2 DEF Places
<1>7. EndsEarly(i)' <=> EndsEarly(i)
  <2>1. EndsEarly(i) <=> \E p, q \in Places(CheckSum, f, l) : p # q
    BY <1>1 DEF EndsEarly, From, To
  <2>2. EndsEarly(i)' <=> \E p, q \in Places(CheckSum, f, l)' : p # q
    BY <1>2 DEF EndsEarly, From, To
  <2> QED  BY <1>6, <2>1, <2>2
<1> QED  BY <1>5, <1>7

LEMMA InTheStream ==
  ASSUME TypeOK, LaidOut, NEW i \in 1..Count
  PROVE  1 <= From(i)
<1>1. Count \in Nat /\ From(i) \in Nat
  BY MessagesTyped
<1>2. CASE i = 1
  BY <1>1, <1>2 DEF LaidOut
<1>3. CASE i # 1
  <2>1. i - 1 \in 1..Count
    BY <1>1, <1>3
  <2>2. To(i - 1) \in Nat /\ From(i) = To(i - 1) + 1
    BY <1>3, <2>1, MessagesTyped DEF LaidOut
  <2> QED  BY <2>2
<1> QED  BY <1>2, <1>3

LEMMA PeerHarmsNone ==
  ASSUME TypeOK, FramingInv, NEW m \in Messages, PeerSends(m)
  PROVE  FramingInv'
<1> USE FramingAssumption
<1>0. PICK n \in Nat, W \in Nat : n = Count + 1 /\ W = Len(wire)
  BY MessagesTyped
<1> DEFINE new == [from |-> W + 1, to |-> W + Len(m), cut |-> FALSE]
<1>1. /\ wire' = wire \o m /\ sent' = Append(sent, new)
      /\ UNCHANGED <<lo, hi, try, framed, split>>
  BY <1>0 DEF PeerSends
<1>2. /\ m \in Seq(Byte) /\ Len(m) \in Nat /\ Len(m) > 0
      /\ wire \in Seq(Byte) /\ W \in Nat /\ hi \in Nat /\ lo \in Nat /\ hi <= W /\ lo <= hi
      /\ Count \in Nat /\ DOMAIN sent = 1..Count
      /\ \A i \in 1..Count : From(i) \in Nat /\ To(i) \in Nat /\ sent[i].cut \in BOOLEAN
  <2>1. m \in Seq(Byte) /\ m # <<>> /\ wire \in Seq(Byte)
    BY DEF TypeOK
  <2>2. Len(m) \in Nat /\ Len(m) > 0
    BY <2>1
  <2> QED  BY <1>0, <2>1, <2>2, MessagesTyped
<1>3. /\ Len(wire') = W + Len(m)
      /\ \A x \in 1..W : wire'[x] = wire[x]
      /\ \A x \in 1..Len(m) : wire'[W + x] = m[x]
  BY <1>0, <1>1, <1>2
<1>4. new.from = W + 1 /\ new.to = W + Len(m) /\ new.cut = FALSE
  OBVIOUS
<1>5. /\ Count' = n /\ DOMAIN sent' = 1..n
      /\ \A i \in 1..Count : sent'[i] = sent[i]
      /\ sent'[n] = new
  <2> DEFINE S == [from : Nat, to : Nat, cut : BOOLEAN]
  <2>1. sent \in Seq(S)
    BY DEF TypeOK
  <2> HIDE DEF S, new
  <2> QED  BY <1>0, <1>1, <2>1 DEF Count
<1> HIDE DEF new
<1>6. /\ \A i \in 1..Count : From(i)' = From(i) /\ To(i)' = To(i)
      /\ \A i \in 1..Count : Extracted(i)' = Extracted(i) /\ AfterCut(i)' = AfterCut(i)
      /\ From(n)' = W + 1 /\ To(n)' = W + Len(m) /\ ~sent'[n].cut
  <2>1. \A i \in 1..Count : i > 1 => i - 1 \in 1..Count
    BY <1>2
  <2> QED  BY <1>4, <1>5, <2>1 DEF From, To, Extracted, AfterCut
<1>7. n \in 1..n /\ \A i \in 1..n : i \in 1..Count \/ i = n
  BY <1>0, <1>2
<1>8. \A i \in 1..Count : From(i) <= To(i) /\ To(i) <= W /\ 1 <= From(i)
  <2>1. \A i \in 1..Count : 1 <= From(i)
    BY InTheStream DEF FramingInv
  <2> QED  BY <1>0, <2>1 DEF FramingInv, LaidOut
<1>9. \A i \in 1..Count : \A x \in From(i)..To(i) : wire'[x] = wire[x]
  <2>1. ASSUME NEW i \in 1..Count, NEW x \in From(i)..To(i)  PROVE x \in 1..W
    BY <1>2, <1>8
  <2> QED  BY <1>3, <2>1
<1>10. \A i \in 1..Count : (Whole(i)' <=> Whole(i)) /\ (EndsEarly(i)' <=> EndsEarly(i))
  BY <1>6, <1>9, SameMessage
<1>11. \A i \in 1..Count : MayBeLost(i)' <=> MayBeLost(i)
  BY <1>1, <1>6, <1>10 DEF MayBeLost
<1>12. \A i \in 1..Count : FramedOnce(i)' <=> FramedOnce(i)
  BY <1>1, <1>6 DEF FramedOnce
<1>13. Whole(n)'
  <2>1. \A x \in 1..Len(m) : wire'[(W + 1) + x - 1] = m[x]
    <3>1. \A x \in 1..Len(m) : (W + 1) + x - 1 = W + x
      BY <1>2
    <3> QED  BY <1>3, <3>1
  <2>2. W + Len(m) = (W + 1) + Len(m) - 1
    BY <1>2
  <2>3. \E d \in Messages :
          /\ W + Len(m) = (W + 1) + Len(d) - 1
          /\ \A x \in 1..Len(d) : wire'[(W + 1) + x - 1] = d[x]
    BY <2>1, <2>2
  <2> QED  BY <1>6, <2>3 DEF Whole
<1>14. LaidOut'
  <2>1. \A i \in 1..n : From(i)' <= To(i)' /\ To(i)' <= Len(wire')
    <3>1. \A i \in 1..Count : From(i)' <= To(i)' /\ To(i)' <= W
      BY <1>6, <1>8
    <3>2. \A i \in 1..Count : To(i)' \in Nat
      BY <1>6, <1>2, MessagesTyped
    <3>3. \A i \in 1..Count : From(i)' <= To(i)' /\ To(i)' <= Len(wire')
      BY <1>2, <1>3, <3>1, <3>2
    <3>4. W + 1 <= W + Len(m) /\ Len(wire') = W + Len(m)
      BY <1>2, <1>3
    <3> QED  BY <1>6, <1>7, <3>3, <3>4
  <2>2. ASSUME NEW i \in 1..n, NEW j \in 1..n, i < j  PROVE To(i)' < From(j)'
    <3>1. i \in 1..Count
      BY <1>0, <1>2, <1>7, <2>2
    <3>2. CASE j \in 1..Count
      BY <1>6, <2>2, <3>1, <3>2 DEF FramingInv, LaidOut
    <3>3. CASE j = n
      BY <1>2, <1>6, <1>8, <3>1, <3>3
    <3> QED  BY <1>7, <3>2, <3>3
  <2>3. ASSUME NEW i \in 1..n
        PROVE  IF i = 1 THEN From(i)' = 1 ELSE From(i)' = To(i - 1)' + 1
    <3>1. CASE i \in 1..Count
      <4>1. i # 1 => i - 1 \in 1..Count
        BY <1>2, <3>1
      <4>2. i # 1 => From(i) = To(i - 1) + 1 /\ To(i - 1)' = To(i - 1)
        BY <1>6, <3>1, <4>1 DEF FramingInv, LaidOut
      <4>3. i = 1 => From(i) = 1
        BY <3>1 DEF FramingInv, LaidOut
      <4> QED  BY <1>6, <3>1, <4>2, <4>3
    <3>2. CASE i = n /\ Count = 0
      BY <1>0, <1>6, <3>2 DEF FramingInv, LaidOut
    <3>3. CASE i = n /\ Count # 0
      <4>1. i # 1 /\ i - 1 = Count /\ Count \in 1..Count
        BY <1>0, <1>2, <3>3
      <4>2. To(Count) = W /\ To(i - 1)' = To(Count)
        <5>1. To(Count) = W
          BY <1>0, <3>3 DEF FramingInv, LaidOut
        <5>2. \A k \in 1..Count : i - 1 = k => To(i - 1)' = To(k)
          BY <1>6
        <5> QED  BY <4>1, <5>1, <5>2
      <4> QED  BY <1>6, <3>3, <4>1, <4>2
    <3> QED  BY <1>7, <3>1, <3>2, <3>3
  <2>4. Len(wire') = To(n)'
    BY <1>3, <1>6
  <2>5. ASSUME NEW x \in 1..Len(wire')
        PROVE  \E i \in 1..n : From(i)' <= x /\ x <= To(i)'
    <3>1. CASE x \in 1..W
      <4>1. PICK i \in 1..Count : From(i) <= x /\ x <= To(i)
        BY <1>0, <3>1 DEF FramingInv, LaidOut
      <4>2. i \in 1..n
        BY <1>0, <1>2
      <4> QED  BY <1>6, <4>1, <4>2
    <3>2. CASE x \notin 1..W
      <4>1. n \in 1..n /\ W + 1 <= x /\ x <= W + Len(m)
        BY <1>2, <1>3, <1>7, <3>2
      <4> QED  BY <1>6, <4>1
    <3> QED  BY <3>1, <3>2
  <2>6. \A i \in 1..n : sent'[i].cut \/ Whole(i)'
    BY <1>5, <1>7, <1>10, <1>13 DEF FramingInv, LaidOut
  <2>7. \A i \in 1..n : From(i)' = hi => i \in split
    <3>1. From(n)' # hi
      BY <1>2, <1>6
    <3>2. \A i \in 1..Count : From(i)' = hi => i \in split
      BY <1>6 DEF FramingInv, LaidOut
    <3> QED  BY <1>7, <3>1, <3>2
  <2>8. n # 0
    BY <1>0, <1>2
  <2> QED  BY <1>1, <1>5, <2>1, <2>2, <2>3, <2>4, <2>5, <2>6, <2>7, <2>8 DEF LaidOut
<1>15. NotHarmed'
  <2>1. lo < From(n)'
    BY <1>2, <1>6
  <2> QED  BY <1>1, <1>5, <1>6, <1>7, <1>11, <1>12, <2>1 DEF FramingInv, NotHarmed
<1>16. NothingInvented'
  <2>1. \A i \in 1..Count : i \in DOMAIN sent' /\ i \in DOMAIN sent
    BY <1>0, <1>2, <1>5
  <2>2. \A j \in DOMAIN framed : \E i \in 1..Count :
          /\ From(i) <= framed[j].from /\ framed[j].from <= To(i)
          /\ framed[j] = Extracted(i) \/ MayBeLost(i) \/ sent[i].cut
    BY <1>2 DEF FramingInv, NothingInvented, From, To
  <2>3. \A j \in DOMAIN framed : \E i \in 1..Count :
          /\ From(i)' <= framed[j].from /\ framed[j].from <= To(i)'
          /\ framed[j] = Extracted(i)' \/ MayBeLost(i)' \/ sent'[i].cut
    BY <1>5, <1>6, <1>11, <2>2
  <2> QED  BY <1>1, <2>1, <2>3 DEF NothingInvented, From, To
<1>17. try' # 1 => NoneComplete'
  <2>1. \A x \in 1..hi : wire'[x] = wire[x]
    <3>1. \A x \in 1..hi : x \in 1..W
      BY <1>2
    <3> QED  BY <1>3, <3>1
  <2> QED  BY <1>1, <2>1, ReceivedStays DEF FramingInv
<1> QED  BY <1>14, <1>15, <1>16, <1>17 DEF FramingInv

(* A lost connection takes the end of the stream with it: messages that    *)
(* were all there, or not at all, are not affected.                        *)
LEMMA ReconnectHarmsNone ==
  ASSUME TypeOK, ExtractedApart, FramingInv, Reconnect
  PROVE  FramingInv'
<1>0. PICK n \in Nat, W \in Nat, h \in Nat : n = Count /\ W = Len(wire) /\ h = hi
  BY MessagesTyped
<1>1. /\ UNCHANGED <<lo, hi, try, framed, split>>
      /\ wire' = SubSeq(wire, 1, h) /\ h < W
  BY <1>0 DEF Reconnect
<1> DEFINE kept(i) == [sent[i] EXCEPT !.to = IF @ > hi THEN hi ELSE @,
                                      !.cut = @ \/ sent[i].to > hi]
<1>2. PICK k \in 0..n :
        /\ \A i \in 1..n : i <= k <=> From(i) <= h
        /\ sent' = [i \in 1..k |-> kept(i)]
  <2>1. DOMAIN sent = 1..n
    BY <1>0, MessagesTyped
  <2> QED  BY <1>0, <2>1 DEF Reconnect, Count, From
<1>3. /\ lo \in Nat /\ lo <= h /\ wire \in Seq(Byte)
      /\ DOMAIN sent = 1..n
      /\ \A i \in 1..n : From(i) \in Nat /\ To(i) \in Nat /\ sent[i].cut \in BOOLEAN
  BY <1>0, MessagesTyped DEF TypeOK
<1>4. \A i \in 1..k : i \in 1..n /\ From(i) <= h
  <2>1. \A i \in 1..k : i \in 1..n /\ i <= k
    OBVIOUS
  <2> HIDE DEF kept
  <2> QED  BY <1>2, <2>1
<1>5. /\ \A i \in 1..n : From(i) <= To(i) /\ To(i) <= W /\ 1 <= From(i)
      /\ \A i, j \in 1..n : i < j => To(i) < From(j)
      /\ \A i \in 1..n : IF i = 1 THEN From(i) = 1 ELSE From(i) = To(i - 1) + 1
      /\ \A x \in 1..W : \E i \in 1..n : From(i) <= x /\ x <= To(i)
  BY <1>0, InTheStream DEF FramingInv, LaidOut
<1>6. Len(wire') = h /\ \A x \in 1..h : wire'[x] = wire[x]
  BY <1>0, <1>1, <1>3
<1>7. Count' = k /\ DOMAIN sent' = 1..k /\ \A i \in 1..k : sent'[i] = kept(i)
  <2> HIDE DEF kept
  <2> QED  BY <1>2 DEF Count
<1>8. \A i \in 1..k :
        /\ From(i)' = From(i)
        /\ To(i)' = IF To(i) > h THEN h ELSE To(i)
        /\ sent'[i].cut = (sent[i].cut \/ To(i) > h)
  <2>1. \A i \in 1..k : sent[i] \in [from : Nat, to : Nat, cut : BOOLEAN]
    <3> DEFINE S == [from : Nat, to : Nat, cut : BOOLEAN]
    <3>1. sent \in Seq(S) /\ Len(sent) = n
      BY <1>0 DEF TypeOK, Count
    <3>2. \A i \in 1..k : i \in 1..n
      BY <1>4
    <3> HIDE DEF S, kept
    <3>3. \A i \in 1..n : sent[i] \in S
      BY <3>1
    <3>4. \A i \in 1..k : sent[i] \in S
      BY <3>2, <3>3
    <3> QED  BY <3>4 DEF S
  <2> QED  BY <1>0, <1>7, <2>1 DEF From, To
<1> HIDE DEF kept
<1>9. \A i \in 1..k : i > 1 => i - 1 \in 1..k /\ i - 1 \in 1..n /\ To(i - 1) < h
  <2>1. ASSUME NEW i \in 1..k, i > 1  PROVE i - 1 \in 1..k /\ i - 1 \in 1..n /\ To(i - 1) < h
    <3>1. i - 1 \in 1..k /\ i - 1 \in 1..n /\ i - 1 < i
      BY <1>2, <2>1
    <3>2. To(i - 1) < From(i) /\ From(i) <= h
      BY <1>4, <1>5, <3>1
    <3> QED  BY <1>3, <1>4, <3>1, <3>2
  <2> QED  BY <2>1
(* Messages that all of the bytes of were received. *)
<1>10. ASSUME NEW i \in 1..k, To(i) <= h
       PROVE  /\ To(i)' = To(i) /\ Extracted(i)' = Extracted(i)
              /\ sent'[i].cut = sent[i].cut
              /\ Whole(i)' <=> Whole(i)
              /\ MayBeLost(i)' <=> MayBeLost(i)
              /\ FramedOnce(i)' <=> FramedOnce(i)
  <2>1. /\ To(i)' = To(i) /\ From(i)' = From(i) /\ i \in 1..n
        /\ From(i) \in Nat /\ To(i) \in Nat /\ sent[i].cut \in BOOLEAN
    <3>1. i \in 1..n /\ From(i)' = From(i) /\ To(i)' = IF To(i) > h THEN h ELSE To(i)
      BY <1>4, <1>8
    <3>2. From(i) \in Nat /\ To(i) \in Nat /\ sent[i].cut \in BOOLEAN
      BY <1>3, <3>1
    <3> QED  BY <1>10, <3>1, <3>2
  <2>2. sent'[i].cut = sent[i].cut
    BY <1>8, <1>10, <2>1
  <2>3. Extracted(i)' = Extracted(i)
    BY <2>1 DEF Extracted, From, To
  <2>4. \A x \in From(i)..To(i) : wire'[x] = wire[x]
    <3>1. \A x \in From(i)..To(i) : x \in 1..h
      BY <1>5, <1>10, <2>1
    <3> QED  BY <1>6, <3>1
  <2>5. (Whole(i)' <=> Whole(i)) /\ (EndsEarly(i)' <=> EndsEarly(i))
    BY <1>0, <2>1, <2>4, SameMessage
  <2>6. AfterCut(i)' <=> AfterCut(i)
    <3>1. ASSUME i > 1  PROVE sent'[i - 1].cut = sent[i - 1].cut
      <4>1. i - 1 \in 1..k /\ i - 1 \in 1..n /\ To(i - 1) < h
        BY <1>9, <3>1
      <4>2. To(i - 1) \in Nat /\ sent[i - 1].cut \in BOOLEAN
        BY <1>3, <4>1
      <4>3. ~(To(i - 1) > h)
        BY <4>1, <4>2
      <4>4. sent'[i - 1].cut = (sent[i - 1].cut \/ To(i - 1) > h)
        BY <1>8, <4>1
      <4> QED  BY <4>2, <4>3, <4>4
    <3> QED  BY <3>1 DEF AfterCut
  <2>7. MayBeLost(i)' <=> MayBeLost(i)
    BY <1>1, <2>5, <2>6 DEF MayBeLost
  <2>8. FramedOnce(i)' <=> FramedOnce(i)
    BY <1>1, <2>3 DEF FramedOnce
  <2> QED  BY <2>1, <2>2, <2>3, <2>5, <2>7, <2>8
<1>11. LaidOut'
  <2>1. ASSUME NEW i \in 1..k  PROVE From(i)' <= To(i)' /\ To(i)' <= h
    <3>1. i \in 1..n /\ From(i) <= h /\ From(i)' = From(i)
          /\ To(i)' = IF To(i) > h THEN h ELSE To(i)
      BY <1>4, <1>8
    <3>2. From(i) \in Nat /\ To(i) \in Nat /\ From(i) <= To(i)
      BY <1>3, <1>5, <3>1
    <3> QED  BY <3>1, <3>2
  <2>2. ASSUME NEW i \in 1..k, NEW j \in 1..k, i < j  PROVE To(i)' < From(j)'
    <3>1. To(i) < From(j) /\ From(j)' = From(j) /\ To(i)' = IF To(i) > h THEN h ELSE To(i)
      BY <1>4, <1>5, <1>8, <2>2
    <3>2. To(i) \in Nat /\ From(j) \in Nat /\ From(j) <= h
      BY <1>3, <1>4
    <3> QED  BY <3>1, <3>2
  <2>3. ASSUME NEW i \in 1..k
        PROVE  IF i = 1 THEN From(i)' = 1 ELSE From(i)' = To(i - 1)' + 1
    <3>1. From(i)' = From(i) /\ i \in 1..n
      BY <1>4, <1>8
    <3>2. ASSUME i # 1  PROVE To(i - 1)' = To(i - 1)
      <4>1. i - 1 \in 1..k /\ i - 1 \in 1..n /\ To(i - 1) < h
        BY <1>9, <3>2
      <4>2. To(i - 1) \in Nat /\ To(i - 1)' = IF To(i - 1) > h THEN h ELSE To(i - 1)
        BY <1>3, <1>8, <4>1
      <4> QED  BY <4>1, <4>2
    <3> QED  BY <1>5, <3>1, <3>2
  <2>4. h = IF k = 0 THEN 0 ELSE To(k)'
    <3>1. CASE h = 0
      <4>1. k = 0
        <5> SUFFICES ASSUME k # 0  PROVE FALSE
          OBVIOUS
        <5>1. 1 \in 1..k /\ 1 \in 1..n
          BY <1>2
        <5> QED  BY <1>3, <1>4, <1>5, <3>1, <5>1
      <4> QED  BY <3>1, <4>1
    <3>2. CASE h # 0
      <4>1. h \in 1..W
        BY <1>1, <3>2
      <4>2. PICK i \in 1..n : From(i) <= h /\ h <= To(i)
        BY <1>5, <4>1
      <4>3. i <= k /\ k \in 1..k /\ k \in 1..n /\ k # 0
        BY <1>2, <4>2
      <4>4. h <= To(k)
        <5>1. i = k \/ To(i) < From(k)
          BY <1>5, <4>3
        <5> QED  BY <1>3, <1>4, <4>2, <4>3, <5>1
      <4>5. To(k)' = IF To(k) > h THEN h ELSE To(k)
        BY <1>8, <4>3
      <4> QED  BY <1>3, <4>3, <4>4, <4>5
    <3> QED  BY <3>1, <3>2
  <2>5. ASSUME NEW x \in 1..h
        PROVE  \E i \in 1..k : From(i)' <= x /\ x <= To(i)'
    <3>1. x \in 1..W
      BY <1>1
    <3>2. PICK i \in 1..n : From(i) <= x /\ x <= To(i)
      BY <1>5, <3>1
    <3>3. From(i) \in Nat /\ To(i) \in Nat
      BY <1>3
    <3>4. i \in 1..k
      BY <1>2, <3>2, <3>3
    <3>5. From(i)' = From(i) /\ To(i)' = IF To(i) > h THEN h ELSE To(i)
      BY <1>8, <3>4
    <3> QED  BY <3>2, <3>3, <3>4, <3>5
  <2>6. ASSUME NEW i \in 1..k  PROVE sent'[i].cut \/ Whole(i)'
    <3>1. To(i) \in Nat /\ (sent[i].cut \/ Whole(i))
      BY <1>0, <1>3, <1>4 DEF FramingInv, LaidOut
    <3>2. CASE To(i) > h
      BY <1>8, <3>2
    <3>3. CASE To(i) <= h
      BY <1>10, <3>1, <3>3
    <3> QED  BY <3>1, <3>2, <3>3
  <2>7. \A i \in 1..k : From(i)' = h => i \in split
    BY <1>0, <1>4, <1>8 DEF FramingInv, LaidOut
  <2> QED  BY <1>0, <1>1, <1>6, <1>7, <2>1, <2>2, <2>3, <2>4, <2>5, <2>6, <2>7 DEF LaidOut
<1>12. NotHarmed'
  <2>1. ASSUME NEW i \in 1..k, ~sent'[i].cut, ~MayBeLost(i)'
        PROVE  lo < From(i)' \/ FramedOnce(i)'
    <3>1. i \in 1..n /\ From(i)' = From(i) /\ To(i) \in Nat /\ sent[i].cut \in BOOLEAN
      BY <1>3, <1>4, <1>8
    <3>2. ~(To(i) > h)
      BY <1>8, <2>1, <3>1
    <3>3. To(i) <= h
      BY <3>1, <3>2
    <3>4. ~sent[i].cut /\ ~MayBeLost(i) /\ (FramedOnce(i)' <=> FramedOnce(i))
      BY <1>10, <2>1, <3>3
    <3> QED  BY <1>0, <3>1, <3>4 DEF FramingInv, NotHarmed
  <2> QED  BY <1>1, <1>7, <2>1 DEF NotHarmed
<1>13. NothingInvented'
  <2>1. ASSUME NEW j \in DOMAIN framed
        PROVE  \E i \in 1..k :
                 /\ From(i)' <= framed[j].from /\ framed[j].from <= To(i)'
                 /\ framed[j] = Extracted(i)' \/ MayBeLost(i)' \/ sent'[i].cut
    <3>1. PICK i \in 1..n :
            /\ From(i) <= framed[j].from /\ framed[j].from <= To(i)
            /\ framed[j] = Extracted(i) \/ MayBeLost(i) \/ sent[i].cut
      BY <1>3 DEF FramingInv, NothingInvented, From, To
    <3>2. PICK f \in Nat : f = framed[j].from
      BY FramesTyped
    <3>3. f <= h
      <4>1. PICK t \in Nat : t = framed[j].to
        BY FramesTyped
      <4>2. f < t /\ t <= lo
        BY <3>2, <4>1 DEF ExtractedApart
      <4> QED  BY <1>3, <4>1, <4>2
    <3>4. From(i) \in Nat /\ To(i) \in Nat /\ sent[i].cut \in BOOLEAN
      BY <1>3
    <3>5. i \in 1..k
      BY <1>2, <3>1, <3>2, <3>3, <3>4
    <3>6. /\ From(i)' = From(i) /\ To(i)' = IF To(i) > h THEN h ELSE To(i)
          /\ sent'[i].cut = (sent[i].cut \/ To(i) > h)
      BY <1>8, <3>5
    <3>7. From(i)' <= f /\ f <= To(i)'
      BY <3>1, <3>2, <3>3, <3>4, <3>6
    <3>8. CASE To(i) > h
      BY <3>2, <3>5, <3>6, <3>7, <3>8
    <3>9. CASE To(i) <= h
      BY <1>10, <3>1, <3>2, <3>5, <3>7, <3>9
    <3> QED  BY <3>4, <3>8, <3>9
  <2> QED  BY <1>1, <1>7, <2>1 DEF NothingInvented, From, To
<1>14. try' # 1 => NoneComplete'
  BY <1>0, <1>1, <1>6, ReceivedStays DEF FramingInv
<1> QED  BY <1>11, <1>12, <1>13, <1>14 DEF FramingInv

LEMMA FramingStep ==
  ASSUME TypeOK, ExtractedApart, FramingInv, \A m \in Messages : WellFormed(m), [Next]_vars
  PROVE  FramingInv'
<1>1. CASE Clear \/ Align
  BY <1>1, EraseHarmsNone
<1>2. CASE Extract
  BY <1>2, ExtractHarmsNone
<1>3. CASE Receive
  BY <1>3, ReceiveHarmsNone
<1>4. CASE \E m \in Messages : PeerSends(m)
  BY <1>4, PeerHarmsNone
<1>5. CASE Reconnect
  BY <1>5, ReconnectHarmsNone
<1>6. CASE UNCHANGED vars
  <2>1. UNCHANGED <<wire, sent, lo, hi, try, framed, split>>
    BY <1>6 DEF vars
  <2>2. /\ Count' = Count
        /\ \A i : From(i)' = From(i) /\ To(i)' = To(i) /\ Extracted(i)' = Extracted(i)
        /\ \A i : Whole(i)' <=> Whole(i)
        /\ \A i : MayBeLost(i)' <=> MayBeLost(i)
        /\ \A i : FramedOnce(i)' <=> FramedOnce(i)
    BY <2>1 DEF Count, From, To, Whole, FramedOnce, Extracted, MayBeLost, EndsEarly, AfterCut, Places
  <2>3. LaidOut'
    BY <2>1, <2>2 DEF FramingInv, LaidOut
  <2>4. NotHarmed' /\ NothingInvented'
    BY <2>1, <2>2 DEF FramingInv, NotHarmed, NothingInvented, From, To
  <2>5. NoneComplete => NoneComplete'
    BY <2>1 DEF NoneComplete, At8, At10
  <2> QED  BY <2>1, <2>3, <2>4, <2>5 DEF FramingInv
<1> QED  BY <1>1, <1>2, <1>3, <1>4, <1>5, <1>6 DEF Next

LEMMA FramingStarts == Init => FramingInv
<1> SUFFICES ASSUME Init  PROVE FramingInv
  OBVIOUS
<1>1. Count = 0 /\ Len(wire) = 0 /\ DOMAIN framed = {} /\ try = 1
  BY DEF Init, Count
<1> QED  BY <1>1 DEF FramingInv, LaidOut, NotHarmed, NothingInvented

(* When there is nothing to extract, what waits is not all there yet.      *)
LEMMA NoneLost ==
  ASSUME TypeOK, FramingInv, \A m \in Messages : WellFormed(m)
  PROVE  LostOnlyToFraming
<1> SUFFICES ASSUME try = 0, NEW i \in DOMAIN sent, sent[i].to <= hi, ~sent[i].cut,
                    ~MayBeLost(i)
             PROVE  FramedOnce(i)
  BY DEF LostOnlyToFraming, FramedOnce
<1>1. i \in 1..Count /\ From(i) \in Nat /\ To(i) \in Nat /\ To(i) <= hi
  BY MessagesTyped DEF To
<1>2. Whole(i)
  BY <1>1 DEF FramingInv, LaidOut
<1>3. ~(lo < From(i))
  <2>1. At8(From(i)) /\ wire[To(i)] = Separators[1]
    BY <1>1, <1>2, WholeMeans
  <2>2. PICK p \in Nat : From(i) <= p /\ p + 3 <= To(i) /\ At10(p)
    BY <1>1, <1>2, WholeMeans
  <2>3. p <= To(i)
    BY <1>1, <2>2
  <2> QED  BY <1>1, <2>1, <2>2, <2>3 DEF FramingInv, NoneComplete
<1> QED  BY <1>1, <1>3 DEF FramingInv, NotHarmed

(* However the stream falls into pieces, whatever is sent and whenever the *)
(* connection is lost: a message as serialize_message makes them is        *)
(* extracted, whole, as soon as it is all there, unless MayBeLost says     *)
(* why.  (runner.cpp:185-209, 285-294, proxy.cpp:22-46)                    *)
THEOREM LostOnlyToFramingHolds ==
  ASSUME \A m \in Messages : WellFormed(m)
  PROVE  Spec => []LostOnlyToFraming
<1>1. TypeOK /\ ExtractedApart /\ FramingInv /\ [Next]_vars => FramingInv'
  BY FramingStep
<1>2. TypeOK /\ FramingInv => LostOnlyToFraming
  BY NoneLost
<1> QED  BY <1>1, <1>2, FramingStarts, TypeCorrect, ExtractedApartHolds, PTL DEF Spec

(* What is extracted was sent, or begins within a message that may be      *)
(* lost, under the same conditions.  (runner.cpp:186-207)                  *)
THEOREM NothingInventedHolds ==
  ASSUME \A m \in Messages : WellFormed(m)
  PROVE  Spec => []NothingInvented
<1>1. TypeOK /\ ExtractedApart /\ FramingInv /\ [Next]_vars => FramingInv'
  BY FramingStep
<1>2. FramingInv => NothingInvented
  BY DEF FramingInv
<1> QED  BY <1>1, <1>2, FramingStarts, TypeCorrect, ExtractedApartHolds, PTL DEF Spec
=============================================================================
