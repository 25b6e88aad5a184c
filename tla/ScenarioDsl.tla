----------------------------- MODULE ScenarioDsl -----------------------------
(***************************************************************************)
(* Scenario::parse_dsl (src/scenario.cpp:84-166): the steps that a script, *)
(* a text of one command a line, describes.  A step keeps copies of the    *)
(* texts it was read from, so values are all there is to it.               *)
(***************************************************************************)
EXTENDS FixCodec

CONSTANTS
  Keyword  \* the text of each ActionType, a function on their names

Tab == 9
Hash == 35
Blanks == {Space, Tab, CarriageReturn, LineFeed}

trim(text) ==
  LET kept == {p \in DOMAIN text : text[p] \notin Blanks}
  IN IF kept = {} THEN <<>> ELSE SubSeq(text, Min(kept), Max(kept))

(* The pieces of a text, split at the places cuts.                         *)
Pieces(text, cuts) ==
  LET bounds == cuts \cup {0, Len(text) + 1}
      Cut(k) == CHOOSE p \in bounds : Cardinality({q \in bounds : q < p}) = k
  IN [k \in 1..(Cardinality(bounds) - 1) |-> SubSeq(text, Cut(k - 1) + 1, Cut(k) - 1)]

(* Mutant: SOH is tried before '|'.                                        *)
SohFirst(args) ==
  {p \in DOMAIN args :
     \/ args[p] = SOH
     \/ args[p] = Pipe /\ \A q \in p..Len(args) : args[q] # SOH}

(* Where fields end: at the next '|', and at SOH only when none is left.   *)
FieldEnds(args) ==
  {p \in DOMAIN args :
     \/ args[p] = Pipe
     \/ args[p] = SOH /\ \A q \in p..Len(args) : args[q] # Pipe}

(* tag=value; a tag is a number, whatever follows it.                      *)
TagText(token) == trim(SubSeq(token, 1, Find(token, Equals, 1) - 1))
Value(token) == trim(SubSeq(token, Find(token, Equals, 1) + 1, Len(token)))

FieldIn(token) == Find(token, Equals, 1) <= Len(token) /\ FromChars(TagText(token)).ok
FieldOf(token) == [tag |-> FromChars(TagText(token)).value, value |-> Value(token)]

(* The texts that are of use, in their order.                              *)
Kept(texts, Useful(_)) ==
  FlattenSeq([i \in DOMAIN texts |-> IF Useful(texts[i]) THEN <<texts[i]>> ELSE <<>>])

Trimmed(texts) == [i \in DOMAIN texts |-> trim(texts[i])]

Tokens(args) ==
  Kept(Trimmed(Pieces(args, FieldEnds(args))), LAMBDA token : token # <<>>)

Command(line) ==
  SubSeq(line, 1, Min({p \in DOMAIN line : line[p] \in {Space, Tab}} \cup {Len(line) + 1}) - 1)

Arguments(line) == trim(SubSeq(line, Len(Command(line)) + 1, Len(line)))

StepIn(line) ==
  /\ \E type \in DOMAIN Keyword : Keyword[type] = Command(line)
  /\ \A i \in DOMAIN Tokens(Arguments(line)) : FieldIn(Tokens(Arguments(line))[i])

StepOf(line) ==
  LET tokens == Tokens(Arguments(line))
  IN [type |-> CHOOSE type \in DOMAIN Keyword : Keyword[type] = Command(line),
      fields |-> [i \in DOMAIN tokens |-> FieldOf(tokens[i])]]

(* The lines that are neither blank nor a comment.                         *)
Lines(dsl) ==
  Kept(Trimmed(Pieces(dsl, {p \in DOMAIN dsl : dsl[p] = LineFeed})),
       LAMBDA line : line # <<>> /\ line[1] # Hash)

(* One bad line, and there is no scenario.                                 *)
parse_dsl(dsl) ==
  IF \A i \in DOMAIN Lines(dsl) : StepIn(Lines(dsl)[i])
  THEN [ok |-> TRUE, steps |-> [i \in DOMAIN Lines(dsl) |-> StepOf(Lines(dsl)[i])]]
  ELSE [ok |-> FALSE, steps |-> <<>>]
=============================================================================
