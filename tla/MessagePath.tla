------------------------------ MODULE MessagePath ------------------------------
(***************************************************************************)
(* The way of a message: a script is read (Scenario::parse_dsl), the       *)
(* runner composes the message of each SEND from the session's header and  *)
(* the step's fields (src/runner.cpp:234-272, src/session.cpp:33-69) and   *)
(* serializes it; on the wire one byte may be damaged; and it is read by   *)
(* another fixure: a runner whose scenario has an EXPECT where this one    *)
(* has the SEND, a proxy in between, or `fixure validate` on a file the    *)
(* message was saved in (app/main.cpp:31-91), with or without a            *)
(* dictionary.                                                             *)
(***************************************************************************)
EXTENDS ScenarioDsl, Dictionary

CONSTANTS
  Scripts,       \* texts of scripts
  BeginString, SenderCompID, TargetCompID,  \* the SessionConfig, texts
  SendingTime,   \* what get_sending_time returns, a text
  Capacity,      \* size of serialize_buf: 4096 in the code
  TypeOf,        \* the text of each message type, a function on MsgTypes
  DamagedBytes   \* what a byte may turn into on the wire

(* A runner that is configured with a text with a '|' in it sends messages *)
(* that the proxy takes for something else; get_sending_time has none.     *)
ASSUME PathAssumption ==
  /\ Scripts \subseteq Seq(Byte)
  /\ {BeginString, SenderCompID, TargetCompID, SendingTime} \subseteq Seq(Byte \ {Pipe})
  /\ Capacity \in 0..MaxInt
  /\ DamagedBytes \subseteq Byte

VARIABLES
  phase,         \* "script", "step", "wire", "read", "validate" or "done"
  script,        \* the text of the scenario file
  steps,         \* m_steps, and
  step,          \* the one being run
  next_out_seq,  \* m_next_out_seq
  sent,          \* the bytes of the last SEND
  wire,          \* the same as they arrive
  reader,        \* who reads them
  received,      \* what parse made of them
  verdict        \* what the reader makes of that

run == <<script, steps, step, next_out_seq, sent>>
reading == <<reader, received>>
vars == <<dict, phase, run, wire, reading, verdict>>

Init ==
  /\ DictionaryInit
  /\ phase = "script"
  /\ script \in Scripts
  /\ steps = <<>> /\ step = 0 /\ next_out_seq = 1
  /\ sent = <<>> /\ wire = <<>>
  /\ reader = "none" /\ received = Error("none") /\ verdict = "none"

End(why) == phase' = "done" /\ verdict' = why

LoadScript ==
  /\ phase = "script"
  /\ steps' = parse_dsl(script).steps
  /\ IF parse_dsl(script).ok
     THEN phase' = "step" /\ step' = 1 /\ UNCHANGED verdict
     ELSE End("bad script") /\ UNCHANGED step
  /\ UNCHANGED <<dict, script, next_out_seq, sent, wire, reading>>

-----------------------------------------------------------------------------
(* SEND                                                                    *)

HeaderTags == {8, 35, 49, 56, 34, 52}

(* prepare_header when m_next_out_seq is seq; the type is that of the first*)
(* field, or "0".                                                          *)
prepare_header(fields, seq) ==
  <<[tag |-> 8, value |-> BeginString],
    [tag |-> 35, value |-> IF fields[1].tag = 35 THEN fields[1].value ELSE <<Digit(0)>>],
    [tag |-> 49, value |-> SenderCompID],
    [tag |-> 56, value |-> TargetCompID],
    [tag |-> 34, value |-> ToChars(seq)],
    [tag |-> 52, value |-> SendingTime]>>

(* The fields of the step that are not the header's follow it.             *)
Composed(fields, seq) ==
  prepare_header(fields, seq) \o Without(fields, HeaderTags)
Compose(fields) == Composed(fields, next_out_seq)

AtSend == phase = "step" /\ step <= Len(steps) /\ steps[step].type = "Send"

Send ==
  /\ AtSend /\ steps[step].fields # <<>>
  /\ LET message == serialize_message(Compose(steps[step].fields), Capacity, SOH)
     IN IF message.error = "Ok"
        THEN /\ sent' = message.bytes /\ wire' = message.bytes
             /\ next_out_seq' = next_out_seq + 1
             /\ phase' = "wire" /\ UNCHANGED verdict
        ELSE End("serialization failed") /\ UNCHANGED <<sent, wire, next_out_seq>>
  /\ UNCHANGED <<dict, script, steps, step, reading>>

(* A null read (see RunEmptySend of ScenarioRunner).                       *)
SendNothing ==
  /\ AtSend /\ steps[step].fields = <<>>
  /\ End("killed")
  /\ UNCHANGED <<dict, run, wire, reading>>

(* The other steps send nothing.                                           *)
OtherStep ==
  /\ phase = "step" /\ step <= Len(steps) /\ steps[step].type # "Send"
  /\ step' = step + 1
  /\ UNCHANGED <<dict, phase, script, steps, next_out_seq, sent, wire, reading, verdict>>

EndOfScript ==
  /\ phase = "step" /\ step > Len(steps)
  /\ End("success")
  /\ UNCHANGED <<dict, run, wire, reading>>

Damage ==
  /\ phase = "wire" /\ wire = sent
  /\ \E p \in DOMAIN sent : \E b \in DamagedBytes \ {sent[p]} :
       wire' = [sent EXCEPT ![p] = b]
  /\ UNCHANGED <<dict, phase, run, reading, verdict>>

-----------------------------------------------------------------------------
(* Reading                                                                 *)

ReadAs(who, text, separator) ==
  /\ phase = "wire"
  /\ reader' = who
  /\ received' = parse(text, separator)
  /\ phase' = "read"
  /\ UNCHANGED <<dict, run, wire, verdict>>

RunnerReads == ReadAs("runner", wire, SOH)

(* The proxy takes a message with a '|' in it for one separated by '|'.    *)
Separator == IF Contains(wire, Pipe) THEN Pipe ELSE SOH

ProxyReads == ReadAs("proxy", wire, Separator)

(* A file ends in a line feed, or not.                                     *)
CliReads == \E end \in {<<>>, <<LineFeed>>} : ReadAs("cli", wire \o end, SOH)

(* Mutant: of repeated fields any will do.                                 *)
AnyMatches(fields, expected) ==
  \A i \in DOMAIN expected : \E k \in DOMAIN fields :
    fields[k].tag = expected[i].tag /\ fields[k].value = expected[i].value

match_fields(fields, expected) ==
  \A i \in DOMAIN expected :
    Has(fields, expected[i].tag) /\ Get(fields, expected[i].tag) = expected[i].value

ReadBy(who) == phase = "read" /\ reader = who

NotParsed ==
  /\ phase = "read" /\ received.error # "Ok"
  /\ End(received.error)
  /\ UNCHANGED <<dict, run, wire, reading>>

RunnerMatches ==
  /\ ReadBy("runner") /\ received.error = "Ok"
  /\ IF match_fields(received.fields, steps[step].fields)
     THEN phase' = "step" /\ step' = step + 1 /\ verdict' = "matched"
     ELSE End("mismatch") /\ UNCHANGED step
  /\ UNCHANGED <<dict, script, steps, next_out_seq, sent, wire, reading>>

(* The proxy only looks on.                                                *)
ProxyAnalyzes ==
  /\ ReadBy("proxy") /\ received.error = "Ok"
  /\ End("analyzed")
  /\ UNCHANGED <<dict, run, wire, reading>>

CliPasses ==
  /\ ReadBy("cli") /\ received.error = "Ok"
  /\ End("parsed")
  /\ UNCHANGED <<dict, run, wire, reading>>

CliOpensDictionary ==
  /\ ReadBy("cli") /\ received.error = "Ok"
  /\ \E f \in Files : Load(f)
  /\ phase' = "validate"
  /\ UNCHANGED <<run, wire, reading, verdict>>

CliLoadsDictionary ==
  /\ phase = "validate"
  /\ parse_xml
  /\ UNCHANGED <<phase, run, wire, reading, verdict>>

Tags(fields) == {fields[i].tag : i \in DOMAIN fields}

(* The type as the dictionary knows it; Absent if it does not.             *)
ReceivedType ==
  IF \E type \in MsgTypes : TypeOf[type] = Get(received.fields, 35)
  THEN CHOOSE type \in MsgTypes : TypeOf[type] = Get(received.fields, 35)
  ELSE Absent

CliValidates ==
  /\ phase = "validate" /\ loading \in {"loaded", "failed"}
  /\ CASE loading = "failed" -> End("no dictionary")
       [] loading = "loaded" /\ ~Has(received.fields, 35) -> End("no type")
       [] OTHER -> End(validate_message(ReceivedType, Tags(received.fields)))
  /\ UNCHANGED <<dict, run, wire, reading>>

Next ==
  \/ LoadScript \/ Send \/ SendNothing \/ OtherStep \/ EndOfScript
  \/ Damage
  \/ RunnerReads \/ ProxyReads \/ CliReads
  \/ NotParsed \/ RunnerMatches \/ ProxyAnalyzes
  \/ CliPasses \/ CliOpensDictionary \/ CliLoadsDictionary \/ CliValidates

Spec == Init /\ [][Next]_vars

-----------------------------------------------------------------------------
TypeOK ==
  /\ DictionaryTypeOK
  /\ phase \in {"script", "step", "wire", "read", "validate", "done"}
  /\ step \in 0..(Len(steps) + 1)
  /\ \A i \in DOMAIN steps : steps[i].type \in DOMAIN Keyword
  /\ next_out_seq \in 1..(Len(steps) + 1)
  /\ Len(sent) <= Capacity /\ Len(wire) = Len(sent)
  /\ Len(received.fields) <= MAX_FIELDS
  /\ reader \in {"none", "runner", "proxy", "cli"}
  /\ phase = "validate" => reader = "cli"

Fields == steps[step].fields

Arrived == phase = "read" /\ wire = sent

Plain(fields) == [i \in DOMAIN fields |-> [tag |-> fields[i].tag, value |-> fields[i].value]]

WithoutGenerated(fields) == Without(Plain(fields), {9, 10})

(* No separator within a value, and no more fields than a message can      *)
(* have; what follows a message in a file takes the room of one more.      *)
Clean(fields) ==
  /\ \A i \in DOMAIN fields : ~Contains(fields[i].value, SOH)
  /\ Len(fields) + (IF reader = "cli" THEN 3 ELSE 2) <= MAX_FIELDS

(* What the last SEND composed.                                            *)
SentFields == WithoutGenerated(Composed(Fields, next_out_seq - 1))

(* A message that arrives undamaged parses, for whoever reads it, to the   *)
(* session's header with the next number and then the fields of the step   *)
(* in their order; what a step says of the header is not in it twice.      *)
(* (runner.cpp:234-260, parser.cpp:26-152, 257-387)                        *)
SentIsUnderstood ==
  Arrived /\ Clean(SentFields) =>
    /\ received.error = "Ok"
    /\ WithoutGenerated(received.fields) = SentFields

(* EXPECT with the words of a SEND is met by its message exactly if the    *)
(* words mean what was sent: of repeated fields the first counts, and over *)
(* the header a step has no say but for the type.  (runner.cpp:251-257,    *)
(* 347-355)                                                                *)
SendMatchesExpect ==
  Arrived /\ Clean(SentFields) /\ (\A i \in DOMAIN Fields : Fields[i].tag \notin {9, 10}) =>
    (match_fields(received.fields, Fields) <=>
       \A i \in DOMAIN Fields :
         Fields[i].value = Get(SentFields, Fields[i].tag))

(* The proxy, which guesses the separator, reads what was sent: no value   *)
(* of a script can have a '|' in it.  (proxy.cpp:224, scenario.cpp:126-137)*)
ProxyReadsTheSame == Arrived /\ reader = "proxy" => received = parse(sent, SOH)

(* No damage to one byte goes unnoticed, except where the checksum still   *)
(* reads as the same number, and nothing else is then changed.             *)
(* (parser.cpp:106-149)                                                    *)
DamageDetected ==
  phase = "read" /\ wire # sent /\ received.error = "Ok" =>
    Front(Plain(received.fields)) = Front(Plain(parse(sent, SOH).fields))

(* The bytes a message takes.                                              *)
Size(fields) ==
  LET Each(f) == Len(ToChars(f.tag)) + Len(f.value) + 2
      body == Total([i \in DOMAIN Tail(fields) |-> Each(Tail(fields)[i])])
  IN Each(fields[1]) + Len(ToChars(body)) + 3 + body + 7

(* A message is refused exactly if it is longer than the buffer, however   *)
(* many digits its length has.  (parser.cpp:278-385)                       *)
FitsExactly ==
  LET fields == Without(Compose(Fields), {9, 10})
  IN AtSend /\ Fields # <<>> =>
       (serialize_message(Compose(Fields), Capacity, SOH).error = "Ok"
          <=> Size(fields) <= Capacity)

(* The instances of a group are the stretches between the fields that      *)
(* begin one, as many as were announced, sent and have room; the last one  *)
(* keeps everything up to the trailer.  (parser.cpp:201-255)               *)
GroupsAsWritten ==
  \A group, delim \in Tags(received.fields) \ {8, 9, 10} :
    phase = "read" /\ group # delim /\ HasInt(received.fields, group) =>
      AsWritten(received.fields, group, delim)

(* `validate` passes a message only if it has every field that the         *)
(* dictionary requires of its type, outside of groups.                     *)
CompleteIfPassed ==
  phase = "done" /\ verdict = "valid" =>
    \A i, d \in DOMAIN file.tags : \A name \in Names : \A tag \in {file.tags[d].number} :
      Demands(i, ReceivedType, name) /\ Direct(i) /\ Defines(d, name, tag) =>
        Has(received.fields, tag)

(* It does for dictionaries in the order the loader expects.               *)
(* (dictionary.cpp:98-149, 198-216, main.cpp:70-90)                        *)
AcceptedMeansComplete == loading = "loaded" /\ Orderly => CompleteIfPassed

(* "Verifies schema conformance on the fly using standard QuickFIX XML     *)
(* data dictionaries": those have the fields section at the end.           *)
(* (README.md:90)                                                          *)
SchemaEnforced == CompleteIfPassed
=============================================================================
