---------------------------- MODULE MCMessagePath ----------------------------
(* Small instances of MessagePath: scripts as strings, dictionaries as      *)
(* sequences of sections.                                                   *)
EXTENDS MessagePath

(* In a string, ^ stands for SOH and ~ for the end of a line.               *)
Printable == "-./0123456789:;<=>?@ABCDEFGHIJKLMNOPQRSTUVWXYZ"
Code(c) ==
  CASE c = "^" -> SOH [] c = "~" -> LineFeed [] c = " " -> Space
    [] c = "#" -> Hash [] c = "|" -> Pipe [] c = "x" -> 120
    [] OTHER -> 44 + CHOOSE i \in 1..Len(Printable) : SubSeq(Printable, i, i) = c
Bytes(s) == [i \in 1..Len(s) |-> Code(SubSeq(s, i, i))]

MCKeyword ==
  [type \in {"Connect", "Send", "Expect", "Mock", "Disconnect"} |->
     CASE type = "Connect" -> Bytes("CONNECT") [] type = "Send" -> Bytes("SEND")
       [] type = "Expect" -> Bytes("EXPECT") [] type = "Mock" -> Bytes("MOCK")
       [] type = "Disconnect" -> Bytes("DISCONNECT")]

MCBegin == Bytes("FIX.4.2")
MCSender == Bytes("ME")
MCTarget == Bytes("SUT")
MCTime == Bytes("9:30")
MCTypeOf == [type \in {"A", "D"} |-> Bytes(type)]
MCDamagedBytes == {SOH, Pipe, Equals, Minus, Digit(0)}

(* Commands of all kinds; overridden headers, a type that is not first,     *)
(* repeated and generated tags; SOH as separator and within a value;        *)
(* numbers with a tail; groups with fewer and more instances than were      *)
(* announced; the most fields a message can have, and one more; sizes       *)
(* around that of the buffer; a checksum of 000; scripts with errors.       *)
MCScripts == {Bytes(s) : s \in {
  "# LOGON~CONNECT~SEND   35=A | 98=0 | 108=30 ~~EXPECT 35=A~SEND 35=D|11=X|~DISCONNECT",
  "SEND 35=D|49=YOU|11=X", "SEND 35=D|34=7", "SEND 49=ME|35=D|58=", "SEND 35=D|55=A|55=B",
  "SEND 35=D|9=1|10=2|8=FIX",
  "SEND 35=D^11=X", "SEND 35=D|58=A^11=X|55=A", "SEND 35x=D|11=X=Y",
  "SEND 35=D|78=2|79=A|80=1|79=B|80=2|58=N", "SEND 35=D|78=1|79=A|79=B|79=C",
  "SEND 35=D|78=3|79=A|80=1|79=B|79=C|55=A", "SEND 35=D|78=2x|80=1|79=B", "SEND 35=D|78=0|79=B",
  "SEND 35=D|1=1|2=2|3=3|4=4|5=5|6=6|7=7",
  "SEND 35=D|58=AAAAAAAAAAAAAAAAAAAAAAAAAAAAAAAAAAAAAAAAAAAAAAAAAAAA|1=XXXXXXXXX",
  "SEND 35=D|58=AAAAAAAAAAAAAAAAAAAAAAAAAAAAAAAAAAAAAAAAAAAAAAAAAAAA|1=XXXXXXXXXX",
  "SEND 35=D|11=D",
  "SEND", "BUY 35=D", "SEND 35", "SEND =D", "SEND 99999=D"}}

(* Dictionaries.                                                            *)
Tag_(element, opens) ==
  [element |-> element, opens |-> opens, number |-> Absent, name |-> Absent,
   msgtype |-> Absent, required |-> FALSE]
Around(element, tags) == <<Tag_(element, TRUE)>> \o tags \o <<Tag_(element, FALSE)>>
Define(name, number) == [Tag_("field", TRUE) EXCEPT !.name = name, !.number = number]
Field(name, required) == [Tag_("field", TRUE) EXCEPT !.name = name, !.required = required]
Message(name, type) == [Tag_("message", TRUE) EXCEPT !.name = name, !.msgtype = type]
EndOf(element) == Tag_(element, FALSE)

FieldsSection ==
  Around("fields", <<Define("MsgType", 35), Define("ClOrdID", 11), Define("Symbol", 55)>>)
Header == Around("header", <<Field("MsgType", TRUE)>>)
Order(fields) == <<Message("Order", "D")>> \o fields \o <<EndOf("message")>>
Logon == <<Message("Logon", "A"), Field("Text", TRUE), EndOf("message")>>

MessageSections ==
  {Around("messages", m) : m \in
     {Logon \o Order(<<Field("ClOrdID", TRUE), Field("Symbol", FALSE)>>),
      Order(<<Field("ClOrdID", FALSE)>> \o Around("group", <<Field("Symbol", TRUE)>>)),
      Order(<<Field("ClOrdID", TRUE)>>) \o Order(<<Field("Symbol", TRUE)>>),
      (* A message without an end, one without a type.                      *)
      <<Message("Order", "D"), Field("ClOrdID", TRUE), Tag_("message", TRUE),
        Field("Symbol", TRUE)>>}}

MCFile(tags) == [exists |-> TRUE, truncated |-> FALSE, tags |-> tags]
MCFiles ==
  {MCFile(FieldsSection \o m \o Header) : m \in MessageSections}
    \cup {MCFile(m \o FieldsSection) : m \in MessageSections}
    \cup {MCFile(Around("fields", <<Define("Symbol", 11)>>) \o m \o FieldsSection) :
            m \in MessageSections}
    \cup {[MCFile(FieldsSection) EXCEPT !.truncated = TRUE],
          [MCFile(<<>>) EXCEPT !.exists = FALSE]}

(* The order of the files that QuickFIX comes with, and one order to check. *)
StandardFiles ==
  {MCFile(Header \o Around("messages", Order(<<Field("ClOrdID", TRUE)>>)) \o FieldsSection)}
OneScript == {Bytes("SEND 35=D|55=A"), Bytes("SEND 35=D|11=X")}
MCNames == {"MsgType", "ClOrdID", "Symbol", "Text", "Order", "Logon"}
=============================================================================
