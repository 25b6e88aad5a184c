------------------------------- MODULE FixCodec -------------------------------
(***************************************************************************)
(* FIX messages as bytes (include/fixure/parser.hpp, src/parser.cpp):      *)
(* FixMessage::parse and its accessors, and serialize_message.  Nothing    *)
(* here has a state; the operators take and return values.                 *)
(*                                                                         *)
(* A byte is its code, a text a sequence of bytes, a Field a tag and a     *)
(* text.  What parse returns also says where each field begins and ends.   *)
(***************************************************************************)
EXTENDS Integers, SequencesExt

CONSTANTS
  MAX_FIELDS,     \* fields a message can have: 256 in the code
  MAX_INSTANCES,  \* instances a GroupView can have: 64 in the code
  Placeholder,    \* digits set aside for the body length: 5 in the code
  MaxInt          \* the largest value of a C++ int

(* As much as the proofs need: a byte's worth of int, room for an instance,*)
(* and no placeholder longer than the trailer that comes after it.         *)
ASSUME CodecAssumption ==
  /\ MAX_FIELDS \in Nat
  /\ MAX_INSTANCES \in Nat \ {0}
  /\ Placeholder \in 0..8
  /\ MaxInt \in Nat /\ MaxInt >= 255

Byte == 0..255

SOH == 1
LineFeed == 10
CarriageReturn == 13
Space == 32
Minus == 45
Equals == 61
Pipe == 124
Digit(d) == 48 + d
Digits == {Digit(d) : d \in 0..9}

(* Where b is first found in text from a position on; past its end if it   *)
(* is not (npos).                                                          *)
Find(text, b, from) ==
  LET at == {p \in from..Len(text) : text[p] = b}
  IN IF at = {} THEN Len(text) + 1 ELSE Min(at)

(* The number that digits stand for; one too large for an int grows no     *)
(* further.                                                                *)
Magnitudes(digits) ==
  LET number[n \in 0..Len(digits)] ==
        IF n = 0 THEN 0
        ELSE IF number[n - 1] > MaxInt THEN number[n - 1]
        ELSE 10 * number[n - 1] + digits[n] - Digit(0)
  IN number
Magnitude(digits) == Magnitudes(digits)[Len(digits)]

(* std::from_chars for an int: an optional minus and the longest run of    *)
(* digits, whatever follows.  No digits, or a number that is no int, is an *)
(* error; length says how much was read.                                   *)
FromChars(text) ==
  LET first == IF text # <<>> /\ text[1] = Minus THEN 2 ELSE 1
      last == Min({p \in first..Len(text) : text[p] \notin Digits}
                    \cup {Len(text) + 1}) - 1
      value == (IF first = 2 THEN -1 ELSE 1) * Magnitude(SubSeq(text, first, last))
  IN IF last < first \/ value \notin (-MaxInt - 1)..MaxInt
     THEN [ok |-> FALSE]
     ELSE [ok |-> TRUE, value |-> value, length |-> last]

(* std::to_chars for an int.                                               *)
Decimal[n \in Nat] ==
  IF n < 10 THEN <<Digit(n)>> ELSE Append(Decimal[n \div 10], Digit(n % 10))
ToChars(n) == IF n < 0 THEN <<Minus>> \o Decimal[-n] ELSE Decimal[n]

Sums(numbers) ==
  LET sum[n \in 0..Len(numbers)] == IF n = 0 THEN 0 ELSE sum[n - 1] + numbers[n]
  IN sum
Total(numbers) == Sums(numbers)[Len(numbers)]
SumOf(text) == Total(text) % 256

(* The fields whose tag is none of those, in their order.                  *)
Without(fields, tags) ==
  FlattenSeq([i \in DOMAIN fields |->
                IF fields[i].tag \in tags THEN <<>> ELSE <<fields[i]>>])

-----------------------------------------------------------------------------
(* FixMessage::parse                                                       *)

Error(why) == [error |-> why, fields |-> <<>>]

(* What may follow the last field.                                         *)
Trailing(text, from, separator) ==
  \A p \in from..Len(text) :
     text[p] \in {separator, CarriageReturn, LineFeed, Space}

(* Mutant: the array has room for one more.                                *)
Overfull(fields) == Len(fields) = MAX_FIELDS + 1

Full(fields) == Len(fields) = MAX_FIELDS

(* The field that begins at pos: the first '=' at or after pos ends the    *)
(* tag, the first separator after that the value.                          *)
TagEnd(raw, pos) == Find(raw, Equals, pos)
ValueEnd(raw, separator, pos) == Find(raw, separator, TagEnd(raw, pos))
TagAt(raw, pos) == FromChars(SubSeq(raw, pos, TagEnd(raw, pos) - 1))

FieldAt(raw, separator, pos) ==
  LET eq == TagEnd(raw, pos)
      end == ValueEnd(raw, separator, pos)
  IN [tag |-> TagAt(raw, pos).value, value |-> SubSeq(raw, eq + 1, end - 1),
      from |-> pos, next |-> end + 1]

(* Every byte up to '=' is part of the number.                             *)
IsTagAt(raw, pos) ==
  TagAt(raw, pos).ok /\ TagAt(raw, pos).length = TagEnd(raw, pos) - pos

(* One turn of the loop over the fields; error is "None" as long as the    *)
(* loop goes on.                                                           *)
NextField(raw, separator, turn) ==
  LET pos == turn.pos
      fields == turn.fields
      tag == TagAt(raw, pos).value
      End(error) == [turn EXCEPT !.error = error]
  IN IF turn.error # "None" THEN turn
     ELSE IF pos > Len(raw) THEN End("Ok")
     ELSE IF Full(fields) THEN End("TooManyFields")
     ELSE IF TagEnd(raw, pos) > Len(raw) /\ Trailing(raw, pos, separator) THEN End("Ok")
     ELSE IF ValueEnd(raw, separator, pos) > Len(raw) \/ ~IsTagAt(raw, pos)
          THEN End("InvalidFormat")
     ELSE IF fields = <<>> /\ tag # 8 THEN End("InvalidBeginString")
     ELSE IF Len(fields) = 1 /\ tag # 9 THEN End("MissingBodyLength")
     ELSE [turn EXCEPT !.pos = ValueEnd(raw, separator, pos) + 1,
                       !.fields = Append(fields, FieldAt(raw, separator, pos))]

(* The loop: a turn that does not end it is over at least one byte.        *)
Turns(raw, separator) ==
  LET turn[n \in 0..(Len(raw) + 1)] ==
        IF n = 0 THEN [error |-> "None", pos |-> 1, fields |-> <<>>]
        ELSE NextField(raw, separator, turn[n - 1])
  IN turn
LastTurn(raw, separator) == Turns(raw, separator)[Len(raw) + 1]

(* Mutant: the checksum is that of the body.                               *)
CheckedBody(raw, fields) == SubSeq(raw, fields[2].next, Last(fields).from - 1)

(* The part of a message its checksum is about.                            *)
Checked(raw, fields) == SubSeq(raw, 1, Last(fields).from - 1)

Positions(fields, tag) == {i \in DOMAIN fields : fields[i].tag = tag}

(* get_field: the first field of that tag.                                 *)
Has(fields, tag) == Positions(fields, tag) # {}
Get(fields, tag) == fields[Min(Positions(fields, tag))].value

(* get_int: the number the value begins with.                              *)
HasInt(fields, tag) == Has(fields, tag) /\ FromChars(Get(fields, tag)).ok
GetInt(fields, tag) == FromChars(Get(fields, tag)).value

BodyLength(fields) == Last(fields).from - fields[2].next

parse(raw, separator) ==
  LET scan == LastTurn(raw, separator)
      fields == scan.fields
      checksum == FromChars(Last(fields).value)
  IN IF raw = <<>> THEN Error("EmptyBuffer")
     ELSE IF scan.error # "Ok" THEN Error(scan.error)
     ELSE IF Len(fields) < 3 THEN Error("InvalidFormat")
     ELSE IF Last(fields).tag # 10 THEN Error("MissingChecksum")
     ELSE IF ~HasInt(fields, 9) THEN Error("InvalidBodyLength")
     ELSE IF GetInt(fields, 9) # BodyLength(fields) THEN Error("BodyLengthMismatch")
     ELSE IF ~checksum.ok \/ checksum.value \notin 0..255 THEN Error("InvalidChecksum")
     ELSE IF checksum.value # SumOf(Checked(raw, fields)) THEN Error("ChecksumMismatch")
     ELSE [error |-> "Ok", fields |-> fields]

-----------------------------------------------------------------------------
(* get_group                                                               *)

(* Mutant: a group goes on to the end of the message.                      *)
NothingEndsGroup(tag) == FALSE

(* Header and trailer end a group.                                         *)
EndsGroup(tag) == tag \in {8, 9, 10}

(* The fields after the count up to at - 1 have been looked at; start is   *)
(* where the open instance begins, 0 if none is open.                      *)
Close(fields, at, group) ==
  IF group.start = 0 THEN group.found
  ELSE Append(group.found, SubSeq(fields, group.start, at - 1))

(* One turn of the loop: over when there are as many instances as were     *)
(* wanted or have room, or the group ends.                                 *)
NextInstance(fields, delim, wanted, at, group) ==
  IF group.over \/ Len(group.found) \in {wanted, MAX_INSTANCES} THEN [group EXCEPT !.over = TRUE]
  ELSE IF fields[at].tag = delim
       THEN [group EXCEPT !.start = at, !.found = Close(fields, at, group)]
  ELSE IF EndsGroup(fields[at].tag)
       THEN [group EXCEPT !.over = TRUE, !.found = Close(fields, at, group)]
  ELSE group

Instances(fields, delim, wanted, count) ==
  LET group[at \in count..Len(fields)] ==
        IF at = count THEN [over |-> FALSE, start |-> 0, found |-> <<>>]
        ELSE NextInstance(fields, delim, wanted, at, group[at - 1])
      last == group[Len(fields)]
  IN IF last.over \/ Len(last.found) \in {wanted, MAX_INSTANCES} THEN last.found
     ELSE Close(fields, Len(fields) + 1, last)

get_group(fields, group, delim) ==
  IF HasInt(fields, group) /\ GetInt(fields, group) > 0
  THEN Instances(fields, delim, GetInt(fields, group), Min(Positions(fields, group)))
  ELSE <<>>

(* What get_group is to return.  How many elements of B are below i, and   *)
(* the one that has k - 1 below it, end being above them all.              *)
Rank(B, i) == Cardinality({b \in B : b < i})
BeginOf(B, end, k) == CHOOSE i \in B \cup {end} : Rank(B, i) = k - 1

(* The first m stretches between those of B.                               *)
UpTo(fields, B, end, m) ==
  [k \in 1..m |-> SubSeq(fields, BeginOf(B, end, k), BeginOf(B, end, k + 1) - 1)]

(* B are the places where an instance begins: after the count, and before  *)
(* the header or trailer field that ends the group.                        *)
AsWritten(fields, group, delim) ==
  LET count == Min(Positions(fields, group))
      end == Min({i \in (count + 1)..Len(fields) : fields[i].tag \in {8, 9, 10}})
      B == {i \in Positions(fields, delim) : count < i /\ i < end}
      n == Max({0, Min({GetInt(fields, group), Cardinality(B), MAX_INSTANCES})})
  IN get_group(fields, group, delim) = UpTo(fields, B, end, n)

-----------------------------------------------------------------------------
(* serialize_message                                                       *)

Written(tag, value, separator) ==
  ToChars(tag) \o <<Equals>> \o value \o <<separator>>

WrittenAll(fields, separator) ==
  FlattenSeq([i \in DOMAIN fields |-> Written(fields[i].tag, fields[i].value, separator)])

Generated == {8, 9, 10}

(* Mutant: a length, once written, is as wide as its placeholder.          *)
PatchedInPlace(draft, at, digits) ==
  SubSeq(draft, 1, at) \o digits \o SubSeq(draft, at + Len(digits) + 1, Len(draft))

(* The digits take the place of the placeholder that begins after at; what *)
(* follows is moved.                                                       *)
Patched(draft, at, digits) ==
  SubSeq(draft, 1, at) \o digits \o SubSeq(draft, at + Placeholder + 1, Len(draft))

ThreeDigits(n) == <<Digit(n \div 100), Digit((n \div 10) % 10), Digit(n % 10)>>

(* Mutant: the trailer is not counted.                                     *)
DraftFits(draft, whole, capacity) == Len(draft) <= capacity

(* Every write is checked against what is left of the buffer.              *)
Fits(draft, whole, capacity) == Len(draft) <= capacity /\ Len(whole) <= capacity

(* Tag 8, a placeholder for the body length, the other fields in their     *)
(* order, then the length in the place of the placeholder and the trailer. *)
serialize_message(fields, capacity, separator) ==
  LET begin == Written(8, fields[1].value, separator)
      body == WrittenAll(Without(Tail(fields), Generated), separator)
      nine == <<Digit(9), Equals>>
      draft == begin \o nine \o [i \in 1..Placeholder |-> Digit(0)] \o <<separator>> \o body
      patched == Patched(draft, Len(begin) + 2, ToChars(Len(body)))
      whole == patched \o Written(10, ThreeDigits(SumOf(patched)), separator)
  IN IF fields = <<>> \/ fields[1].tag # 8 THEN [error |-> "invalid_argument", bytes |-> <<>>]
     ELSE IF ~Fits(draft, whole, capacity) THEN [error |-> "no_buffer_space", bytes |-> <<>>]
     ELSE [error |-> "Ok", bytes |-> whole]
=============================================================================
