------------------------------ MODULE Dictionary ------------------------------
(***************************************************************************)
(* class Dictionary (include/fixure/dictionary.hpp, src/dictionary.cpp):   *)
(* reads a QuickFIX XML file in one pass over its tags, and judges         *)
(* messages by the fields it requires.                                     *)
(*                                                                         *)
(* A file is a sequence of XML tags; comments, and text between tags, have *)
(* no effect and are left out.  An attribute the tag does not have, or has *)
(* empty, is Absent; a number is what from_chars makes of it, 0 if nothing.*)
(***************************************************************************)
EXTENDS Integers, Sequences

CONSTANTS
  Names,     \* names of fields and messages
  MsgTypes,  \* message types
  Absent,    \* no attribute; no message
  Files      \* what a program may be given to load

(* opens: a start tag (whether or not its element is empty), or an end tag.*)
XmlTag ==
  [element : STRING, opens : BOOLEAN, number : Int \cup {Absent},
   name : Names \cup {Absent}, msgtype : MsgTypes \cup {Absent}, required : BOOLEAN]

(* truncated: the text ends inside a tag or a comment.                     *)
File == [exists : BOOLEAN, truncated : BOOLEAN, tags : Seq(XmlTag)]

ASSUME DictionaryAssumption ==
  /\ Absent \notin Names \cup MsgTypes \cup Int
  /\ Files \subseteq File

VARIABLES
  loading,               \* "idle", "reading", "loaded" or "failed"
  file,                  \* what is read, and
  pos,                   \* how many of its tags have been
  in_fields_section,
  in_messages_section,
  current_message_type,  \* Absent when empty
  name_to_tag,           \* m_name_to_tag
  tag_to_name,           \* m_tag_to_name
  msg_name_to_type,      \* m_msg_name_to_type
  messages               \* m_messages: type -> tag -> required

scan == <<loading, file, pos, in_fields_section, in_messages_section, current_message_type>>
maps == <<name_to_tag, tag_to_name, msg_name_to_type, messages>>
dict == <<scan, maps>>

(* A C++ map: a function on some of the keys.                              *)
IsMap(map, Keys, Values) == DOMAIN map \subseteq Keys /\ map \in [DOMAIN map -> Values]

Nothing == [x \in {} |-> Absent]

(* map[key] = value                                                        *)
Put(map, key, value) ==
  [k \in DOMAIN map \cup {key} |-> IF k = key THEN value ELSE map[k]]

DictionaryTypeOK ==
  /\ loading \in {"idle", "reading", "loaded", "failed"}
  /\ loading # "idle" => file \in File /\ pos \in 0..Len(file.tags)
  /\ in_fields_section \in BOOLEAN /\ in_messages_section \in BOOLEAN
  /\ current_message_type \in MsgTypes \cup {Absent}
  /\ IsMap(name_to_tag, Names, Int)
  /\ IsMap(tag_to_name, Int, Names)
  /\ IsMap(msg_name_to_type, Names, MsgTypes)
  /\ DOMAIN messages \subseteq MsgTypes
  /\ \A type \in DOMAIN messages : IsMap(messages[type], Int, BOOLEAN)

DictionaryInit ==
  /\ loading = "idle" /\ file = Absent /\ pos = 0
  /\ in_fields_section = FALSE /\ in_messages_section = FALSE
  /\ current_message_type = Absent
  /\ name_to_tag = Nothing /\ tag_to_name = Nothing
  /\ msg_name_to_type = Nothing /\ messages = Nothing

-----------------------------------------------------------------------------
(* load_xml and parse_xml                                                  *)

Load(f) ==
  /\ loading = "idle"
  /\ loading' = IF f.exists THEN "reading" ELSE "failed"
  /\ file' = f
  /\ UNCHANGED <<pos, in_fields_section, in_messages_section, current_message_type, maps>>

EndOfFile ==
  /\ loading = "reading"
  /\ pos = Len(file.tags)
  /\ loading' = IF file.truncated THEN "failed" ELSE "loaded"
  /\ UNCHANGED <<file, pos, in_fields_section, in_messages_section, current_message_type, maps>>

Tag == file.tags[pos + 1]

Read(element, opens) ==
  /\ loading = "reading"
  /\ pos < Len(file.tags)
  /\ Tag.element = element /\ Tag.opens = opens
  /\ pos' = pos + 1
  /\ UNCHANGED <<loading, file>>

Section(opens) ==
  \/ /\ Read("fields", opens)
     /\ in_fields_section' = opens
     /\ UNCHANGED <<in_messages_section, current_message_type, maps>>
  \/ /\ Read("messages", opens)
     /\ in_messages_section' = opens
     /\ UNCHANGED <<in_fields_section, current_message_type, maps>>

(* <field> in the fields section: a name for a number.                     *)
DefineField ==
  /\ Read("field", TRUE)
  /\ in_fields_section
  /\ IF Tag.number # Absent /\ Tag.name # Absent
     THEN /\ name_to_tag' = Put(name_to_tag, Tag.name, Tag.number)
          /\ tag_to_name' = Put(tag_to_name, Tag.number, Tag.name)
     ELSE UNCHANGED <<name_to_tag, tag_to_name>>
  /\ UNCHANGED <<in_fields_section, in_messages_section, current_message_type,
                 msg_name_to_type, messages>>

(* Mutant: a message has but one field.                                    *)
ListOneField ==
  /\ Read("field", TRUE)
  /\ ~in_fields_section
  /\ messages' =
       IF current_message_type # Absent /\ Tag.name \in DOMAIN name_to_tag
       THEN Put(messages, current_message_type,
                Put(Nothing, name_to_tag[Tag.name], Tag.required))
       ELSE messages
  /\ UNCHANGED <<in_fields_section, in_messages_section, current_message_type,
                 name_to_tag, tag_to_name, msg_name_to_type>>

(* <field> elsewhere while a message is open, however deep: a field of the *)
(* message, if its name is already known.                                  *)
ListField ==
  /\ Read("field", TRUE)
  /\ ~in_fields_section
  /\ messages' =
       IF current_message_type # Absent /\ Tag.name \in DOMAIN name_to_tag
       THEN Put(messages, current_message_type,
                Put(messages[current_message_type], name_to_tag[Tag.name], Tag.required))
       ELSE messages
  /\ UNCHANGED <<in_fields_section, in_messages_section, current_message_type,
                 name_to_tag, tag_to_name, msg_name_to_type>>

BeginMessage ==
  /\ Read("message", TRUE)
  /\ IF in_messages_section /\ Tag.name # Absent /\ Tag.msgtype # Absent
     THEN /\ current_message_type' = Tag.msgtype
          /\ msg_name_to_type' = Put(msg_name_to_type, Tag.name, Tag.msgtype)
          /\ messages' = Put(messages, Tag.msgtype, Nothing)
     ELSE UNCHANGED <<current_message_type, msg_name_to_type, messages>>
  /\ UNCHANGED <<in_fields_section, in_messages_section, name_to_tag, tag_to_name>>

(* Mutant: the end of a message is not noticed.                            *)
EndNothing ==
  /\ Read("message", FALSE)
  /\ UNCHANGED <<in_fields_section, in_messages_section, current_message_type, maps>>

EndMessage ==
  /\ Read("message", FALSE)
  /\ current_message_type' = Absent
  /\ UNCHANGED <<in_fields_section, in_messages_section, maps>>

(* Every other tag: <group>, <component>, <header>, </field>, ...          *)
OtherTag ==
  /\ Read(Tag.element, Tag.opens)
  /\ Tag.element \notin {"fields", "messages", "message"}
  /\ Tag.element = "field" => ~Tag.opens
  /\ UNCHANGED <<in_fields_section, in_messages_section, current_message_type, maps>>

parse_xml ==
  \/ \E opens \in BOOLEAN : Section(opens)
  \/ DefineField \/ ListField \/ BeginMessage \/ EndMessage \/ OtherTag
  \/ EndOfFile

DictionaryNext == (\E f \in Files : Load(f)) \/ parse_xml

DictionarySpec == DictionaryInit /\ [][DictionaryNext]_dict

-----------------------------------------------------------------------------
(* Accessors and validate_message                                          *)

is_required(type, tag) ==
  type \in DOMAIN messages /\ tag \in DOMAIN messages[type] /\ messages[type][tag]

(* tags: those that the message carries.                                   *)
validate_message(type, tags) ==
  CASE type \notin DOMAIN messages -> "unknown type"
    [] \E tag \in DOMAIN messages[type] : messages[type][tag] /\ tag \notin tags ->
         "missing field"
    [] OTHER -> "valid"

-----------------------------------------------------------------------------
(* What a file says to a reader who may look ahead                         *)

IsTag(i, element, opens) == file.tags[i].element = element /\ file.tags[i].opens = opens

(* Tag i comes after the start tag m, and before its end tag.              *)
Inside(i, m) ==
  m < i /\ \A k \in (m + 1)..(i - 1) : ~IsTag(k, file.tags[m].element, FALSE)

(* Tag i gives name its number.                                            *)
Defines(i, name, number) ==
  /\ IsTag(i, "field", TRUE)
  /\ file.tags[i].name = name /\ file.tags[i].number = number
  /\ name # Absent /\ number # Absent
  /\ \E s \in DOMAIN file.tags : IsTag(s, "fields", TRUE) /\ Inside(i, s)

(* Tag i makes the field called name required in messages of that type.    *)
Demands(i, type, name) ==
  /\ IsTag(i, "field", TRUE)
  /\ file.tags[i].name = name /\ file.tags[i].required
  /\ \E m \in DOMAIN file.tags :
        IsTag(m, "message", TRUE) /\ file.tags[m].msgtype = type /\ Inside(i, m)

(* Not only as a part of a group.                                          *)
Direct(i) == \A g \in DOMAIN file.tags : IsTag(g, "group", TRUE) => ~Inside(i, g)

(* Tag i gives a name a number.                                            *)
Definition(i) == Defines(i, file.tags[i].name, file.tags[i].number)

(* The fields section comes, and ends, first, and nothing is said twice.   *)
Orderly ==
  \A i, j \in DOMAIN file.tags :
    /\ file.tags[i].element = "fields" /\ IsTag(j, "messages", TRUE) => i < j
    /\ IsTag(i, "fields", TRUE) /\ IsTag(j, "messages", TRUE) => ~Inside(j, i)
    /\ Definition(i) /\ Definition(j) /\ i # j
         => file.tags[i].name # file.tags[j].name /\ file.tags[i].number # file.tags[j].number
    /\ IsTag(i, "message", TRUE) /\ IsTag(j, "message", TRUE) /\ i # j
         => file.tags[i].msgtype # file.tags[j].msgtype /\ ~Inside(i, j)
    /\ IsTag(i, "field", TRUE) /\ IsTag(j, "field", TRUE) /\ i # j
         /\ file.tags[i].name = file.tags[j].name
         => \A m \in DOMAIN file.tags :
              IsTag(m, "message", TRUE) => ~(Inside(i, m) /\ Inside(j, m))

(* Whatever the file, and in whatever order: what a message is rejected    *)
(* for lacking, the file requires.  No field ends up with the number or    *)
(* the message of another.  (dictionary.cpp:98-149)                        *)
RequiredIsDemanded ==
  \A type \in DOMAIN messages : \A tag \in DOMAIN messages[type] :
    is_required(type, tag) =>
      \E i, d \in DOMAIN file.tags : \E name \in Names :
        Demands(i, type, name) /\ Defines(d, name, tag)
=============================================================================
