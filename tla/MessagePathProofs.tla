-------------------------- MODULE MessagePathProofs --------------------------
(***************************************************************************)
(* The invariants of MessagePath, and those of the Dictionary it consists  *)
(* of, for every script, configuration, buffer size, damage and            *)
(* dictionary file.                                                        *)
(***************************************************************************)
EXTENDS MessagePath, CodecProofs

-----------------------------------------------------------------------------
(* The dictionary: types, and where the entries of its maps come from      *)

(* The empty map is one of any kind.                                       *)
LEMMA NothingIsMap ==
  ASSUME NEW Keys, NEW Values
  PROVE  IsMap(Nothing, Keys, Values) /\ DOMAIN Nothing = {}
BY DEF IsMap, Nothing

(* A message that is open has its definition; nothing is read at first.    *)
Types ==
  /\ DictionaryTypeOK
  /\ current_message_type # Absent => current_message_type \in DOMAIN messages
  /\ loading = "idle" => pos = 0

(* The tag that is scanned next.                                           *)
LEMMA TagType ==
  ASSUME DictionaryTypeOK, loading = "reading", pos < Len(file.tags)
  PROVE  /\ Tag \in XmlTag
         /\ pos \in Nat /\ pos + 1 \in DOMAIN file.tags /\ pos + 1 \in 0..Len(file.tags)
         /\ file.tags \in Seq(XmlTag)
<1>1. file \in File /\ pos \in 0..Len(file.tags)
  BY DEF DictionaryTypeOK
<1>2. file.tags \in Seq(XmlTag)
  BY <1>1 DEF File
<1> HIDE DEF XmlTag
<1>3. Len(file.tags) \in Nat /\ DOMAIN file.tags = 1..Len(file.tags)
  BY <1>2
<1>4. pos + 1 \in 1..Len(file.tags)
  BY <1>1, <1>3
<1>5. file.tags[pos + 1] \in XmlTag
  BY <1>2, <1>4
<1> QED BY <1>1, <1>2, <1>3, <1>4, <1>5 DEF Tag

(* A step that reads a tag keeps what is said of file and position.        *)
LEMMA ReadType ==
  ASSUME DictionaryTypeOK, NEW element, NEW opens, Read(element, opens)
  PROVE  loading' = "reading" /\ file' \in File /\ pos' \in 0..Len(file'.tags)
<1>1. loading = "reading" /\ pos < Len(file.tags) /\ pos' = pos + 1
      /\ loading' = loading /\ file' = file
  BY DEF Read
<1>2. file \in File /\ pos + 1 \in 0..Len(file.tags)
  BY <1>1, TagType DEF DictionaryTypeOK
<1> QED BY <1>1, <1>2

(* Nothing is scanned at first.                                            *)
LEMMA InitTypes == DictionaryInit => Types
BY NothingIsMap DEF DictionaryInit, Types, DictionaryTypeOK, Nothing

(* Of the maps, a <field> of a message only changes the messages: the one  *)
(* that is open gets another field.                                        *)
LEMMA ListFieldTypes ==
  ASSUME Types, ListField
  PROVE  /\ DOMAIN messages' = DOMAIN messages
         /\ \A type \in DOMAIN messages' : IsMap(messages'[type], Int, BOOLEAN)
         /\ DOMAIN messages' \subseteq MsgTypes
<1> DEFINE current == current_message_type
<1>1. Tag \in XmlTag
  BY TagType DEF Types, ListField, Read
<1>2. /\ \A type \in DOMAIN messages : IsMap(messages[type], Int, BOOLEAN)
      /\ DOMAIN messages \subseteq MsgTypes
  BY DEF Types, DictionaryTypeOK
<1>3. CASE current # Absent /\ Tag.name \in DOMAIN name_to_tag
  <2>1. current \in DOMAIN messages
    BY <1>3 DEF Types
  <2>2. name_to_tag[Tag.name] \in Int
    BY <1>3 DEF Types, DictionaryTypeOK, IsMap
  <2>3. Tag.required \in BOOLEAN
    BY <1>1 DEF XmlTag
  <2> DEFINE fields == Put(messages[current], name_to_tag[Tag.name], Tag.required)
  <2>4. IsMap(fields, Int, BOOLEAN)
    BY <1>2, <2>1, <2>2, <2>3 DEF IsMap, Put
  <2>5. messages' = Put(messages, current, fields)
    BY <1>3 DEF ListField
  <2> QED BY <1>2, <2>1, <2>4, <2>5 DEF Put
<1>4. CASE ~(current # Absent /\ Tag.name \in DOMAIN name_to_tag)
  BY <1>2, <1>4 DEF ListField
<1> QED BY <1>3, <1>4

(* Each tag that is scanned keeps the types (dictionary.cpp:51-153).       *)
LEMMA NextTypes == Types /\ [DictionaryNext]_dict => Types'
<1> SUFFICES ASSUME Types, [DictionaryNext]_dict PROVE Types'
  OBVIOUS
<1> USE DictionaryAssumption
<1>0. /\ DictionaryTypeOK
      /\ current_message_type # Absent => current_message_type \in DOMAIN messages
      /\ loading = "idle" => pos = 0
  BY DEF Types
<1>1. ASSUME NEW f \in Files, Load(f) PROVE Types'
  <2>1. f \in File
    OBVIOUS
  <2>2. Len(f.tags) \in Nat
    BY <2>1 DEF File
  <2>3. pos = 0
    BY <1>0, <1>1 DEF Load
  <2> QED BY <1>0, <1>1, <2>1, <2>2, <2>3 DEF Load, maps, Types, DictionaryTypeOK
<1>2. ASSUME NEW opens \in BOOLEAN, Section(opens) PROVE Types'
  BY <1>0, <1>2, ReadType DEF Section, maps, Types, DictionaryTypeOK
<1>3. CASE DefineField
  <2>1. Tag \in XmlTag
    BY <1>0, <1>3, TagType DEF DefineField, Read
  <2>2. Tag.number # Absent => Tag.number \in Int
    BY <2>1 DEF XmlTag
  <2>3. Tag.name # Absent => Tag.name \in Names
    BY <2>1 DEF XmlTag
  <2>4. IsMap(name_to_tag', Names, Int) /\ IsMap(tag_to_name', Int, Names)
    BY <1>0, <1>3, <2>2, <2>3 DEF DefineField, DictionaryTypeOK, IsMap, Put
  <2> QED BY <1>0, <1>3, <2>4, ReadType DEF DefineField, Types, DictionaryTypeOK
<1>4. CASE ListField
  BY <1>0, <1>4, ListFieldTypes, ReadType DEF ListField, Types, DictionaryTypeOK
<1>5. CASE BeginMessage
  <2>1. Tag \in XmlTag
    BY <1>0, <1>5, TagType DEF BeginMessage, Read
  <2>2. Tag.msgtype # Absent => Tag.msgtype \in MsgTypes
    BY <2>1 DEF XmlTag
  <2>3. Tag.name # Absent => Tag.name \in Names
    BY <2>1 DEF XmlTag
  <2>4. CASE in_messages_section /\ Tag.name # Absent /\ Tag.msgtype # Absent
    <3>1. IsMap(msg_name_to_type', Names, MsgTypes)
      BY <1>0, <1>5, <2>2, <2>3, <2>4 DEF BeginMessage, DictionaryTypeOK, IsMap, Put
    <3>2. /\ DOMAIN messages' \subseteq MsgTypes /\ Tag.msgtype \in DOMAIN messages'
          /\ \A type \in DOMAIN messages' : IsMap(messages'[type], Int, BOOLEAN)
      BY <1>0, <1>5, <2>2, <2>4, NothingIsMap DEF BeginMessage, Put, DictionaryTypeOK
    <3> QED BY <1>0, <1>5, <2>2, <2>4, <3>1, <3>2, ReadType
             DEF BeginMessage, Types, DictionaryTypeOK
  <2>5. CASE ~(in_messages_section /\ Tag.name # Absent /\ Tag.msgtype # Absent)
    BY <1>0, <1>5, <2>5, ReadType DEF BeginMessage, Types, DictionaryTypeOK
  <2> QED BY <2>4, <2>5
<1>6. CASE EndMessage
  BY <1>0, <1>6, ReadType DEF EndMessage, maps, Types, DictionaryTypeOK
<1>7. CASE OtherTag
  BY <1>0, <1>7, ReadType DEF OtherTag, maps, Types, DictionaryTypeOK
<1>8. CASE EndOfFile
  BY <1>0, <1>8 DEF EndOfFile, maps, Types, DictionaryTypeOK
<1>9. CASE UNCHANGED dict
  BY <1>0, <1>9 DEF dict, scan, maps, Types, DictionaryTypeOK
<1> QED BY <1>1, <1>2, <1>3, <1>4, <1>5, <1>6, <1>7, <1>8, <1>9 DEF DictionaryNext, parse_xml

(* The state of the scan and the maps it builds keep their types.          *)
(* (dictionary.cpp:43-153)                                                 *)
THEOREM DictionaryTypeCorrect == DictionarySpec => []DictionaryTypeOK
<1>1. DictionarySpec => []Types
  BY InitTypes, NextTypes, PTL DEF DictionarySpec
<1>2. Types => DictionaryTypeOK
  BY DEF Types
<1> QED BY <1>1, <1>2, PTL

(* Where the state of the scan and the entries of the maps come from.      *)

(* An element that begins at s and is open where the scan stands.          *)
OpenTag(s, element) == s \in 1..pos /\ IsTag(s, element, TRUE) /\ Inside(pos + 1, s)
InFields == in_fields_section => \E s \in 1..pos : OpenTag(s, "fields")

InMessage ==
  current_message_type # Absent =>
    \E m \in 1..pos :
      OpenTag(m, "message") /\ file.tags[m].msgtype = current_message_type
NumbersDefined ==
  \A name \in DOMAIN name_to_tag : \E d \in 1..pos : Defines(d, name, name_to_tag[name])

RequiredSoFar ==
  \A type \in DOMAIN messages : \A tag \in DOMAIN messages[type] :
    messages[type][tag] =>
      \E i, d \in 1..pos : \E name \in Names : Demands(i, type, name) /\ Defines(d, name, tag)

AtFirst ==
  loading = "idle" =>
    /\ ~in_fields_section /\ current_message_type = Absent
    /\ DOMAIN name_to_tag = {} /\ DOMAIN messages = {}
Origins == InFields /\ InMessage /\ NumbersDefined /\ RequiredSoFar /\ AtFirst

(* What is said of a file stays said while it is read.                     *)
LEMMA SameFile ==
  ASSUME file' = file
  PROVE  /\ \A d, name, number : Defines(d, name, number)' <=> Defines(d, name, number)
         /\ \A i, type, name : Demands(i, type, name)' <=> Demands(i, type, name)
BY DEF Defines, Demands, IsTag, Inside

(* An element stays open until its end tag.                                *)
LEMMA OpenStays ==
  ASSUME Types, NEW element, NEW opens, Read(element, opens),
         NEW s, NEW e, OpenTag(s, e), ~(element = e /\ opens = FALSE)
  PROVE  s \in 1..pos' /\ OpenTag(s, e)' /\ file'.tags[s].msgtype = file.tags[s].msgtype
<1>1. pos \in Nat /\ pos' = pos + 1 /\ file' = file
      /\ file.tags[pos + 1].element = element /\ file.tags[pos + 1].opens = opens
  BY TagType DEF Types, Read, Tag
<1>2. s \in 1..pos /\ file.tags[s].element = e /\ file.tags[s].opens = TRUE
      /\ \A k \in (s + 1)..pos : ~(file.tags[k].element = e /\ file.tags[k].opens = FALSE)
  BY <1>1 DEF OpenTag, IsTag, Inside
<1>3. s \in 1..pos' /\ s < pos' + 1
  BY <1>1, <1>2
<1>4. ASSUME NEW k \in (s + 1)..pos'
      PROVE  ~(file.tags[k].element = e /\ file.tags[k].opens = FALSE)
  <2>1. k \in (s + 1)..pos \/ k = pos + 1
    BY <1>1, <1>2
  <2> QED BY <1>1, <1>2, <2>1
<1>5. pos' + 1 - 1 = pos'
  BY <1>1
<1> QED BY <1>1, <1>2, <1>3, <1>4, <1>5 DEF OpenTag, IsTag, Inside

(* A start tag opens an element.                                           *)
LEMMA OpenBegins ==
  ASSUME Types, NEW element, Read(element, TRUE)
  PROVE  \E s \in 1..pos' : OpenTag(s, element)' /\ file'.tags[s] = Tag
<1>1. pos \in Nat /\ pos' = pos + 1 /\ file' = file
      /\ file.tags[pos + 1].element = element /\ file.tags[pos + 1].opens = TRUE
  BY TagType DEF Types, Read, Tag
<1>2. pos + 1 < pos' + 1 /\ pos + 1 \in 1..pos' /\ ((pos + 1) + 1)..(pos' + 1 - 1) = {}
  BY <1>1
<1>3. PICK s \in 1..pos' : s = pos + 1
  BY <1>2
<1>4. OpenTag(s, element)'
  BY <1>1, <1>2, <1>3 DEF OpenTag, IsTag, Inside
<1> QED BY <1>1, <1>3, <1>4 DEF Tag

(* A tag that leaves a part of the state alone leaves its origin alone.    *)
LEMMA OriginsKept ==
  ASSUME Types, Origins, NEW element, NEW opens, Read(element, opens)
  PROVE  /\ in_fields_section' = in_fields_section /\ ~(element = "fields" /\ opens = FALSE)
              => InFields'
         /\ current_message_type' = current_message_type /\ ~(element = "message" /\ opens = FALSE)
              => InMessage'
         /\ name_to_tag' = name_to_tag => NumbersDefined'
         /\ messages' = messages => RequiredSoFar'
         /\ AtFirst'
         /\ pos \in Nat /\ pos' = pos + 1 /\ file' = file /\ pos + 1 \in DOMAIN file.tags
         /\ 1..pos \subseteq 1..pos' /\ 1..pos \subseteq DOMAIN file.tags
         /\ pos + 1 \in 1..pos'
<1>1. pos \in Nat /\ pos' = pos + 1 /\ file' = file /\ pos + 1 \in DOMAIN file.tags
      /\ loading = "reading" /\ loading' = "reading"
  BY TagType DEF Types, Read
<1>2. 1..pos \subseteq 1..pos' /\ pos + 1 \in 1..pos'
  BY <1>1
<1>3. Len(file.tags) \in Nat /\ DOMAIN file.tags = 1..Len(file.tags)
  <2> HIDE DEF XmlTag
  <2> QED BY <1>1, TagType DEF Types, Read
<1>4. 1..pos \subseteq DOMAIN file.tags
  BY <1>1, <1>3
<1>5. in_fields_section' = in_fields_section /\ ~(element = "fields" /\ opens = FALSE) => InFields'
  <2> SUFFICES ASSUME in_fields_section' = in_fields_section, in_fields_section',
                      ~(element = "fields" /\ opens = FALSE)
               PROVE  \E s \in 1..pos' : OpenTag(s, "fields")'
    BY DEF InFields
  <2>1. PICK s \in 1..pos : OpenTag(s, "fields")
    BY DEF Origins, InFields
  <2>2. s \in 1..pos' /\ OpenTag(s, "fields")' /\ file'.tags[s].msgtype = file.tags[s].msgtype
    BY <2>1, OpenStays
  <2> QED BY <2>2
<1>6. current_message_type' = current_message_type /\ ~(element = "message" /\ opens = FALSE)
        => InMessage'
  <2> SUFFICES ASSUME current_message_type' = current_message_type,
                      current_message_type' # Absent,
                      ~(element = "message" /\ opens = FALSE)
               PROVE  \E m \in 1..pos' :
                        OpenTag(m, "message")' /\ file'.tags[m].msgtype = current_message_type'
    BY DEF InMessage
  <2>1. PICK m \in 1..pos :
          OpenTag(m, "message") /\ file.tags[m].msgtype = current_message_type
    BY DEF Origins, InMessage
  <2>2. m \in 1..pos' /\ OpenTag(m, "message")' /\ file'.tags[m].msgtype = file.tags[m].msgtype
    BY <2>1, OpenStays
  <2> QED BY <2>1, <2>2
<1>7. name_to_tag' = name_to_tag => NumbersDefined'
  BY <1>1, <1>2, SameFile DEF Origins, NumbersDefined
<1>8. messages' = messages => RequiredSoFar'
  BY <1>1, <1>2, SameFile DEF Origins, RequiredSoFar
<1>9. AtFirst'
  BY <1>1 DEF AtFirst
<1> QED BY <1>1, <1>2, <1>4, <1>5, <1>6, <1>7, <1>8, <1>9

(* The field just read gets its number here.                               *)
LEMMA DefineFieldOrigins ==
  ASSUME Types, Origins, DefineField PROVE NumbersDefined'
<1> DEFINE here == pos + 1
<1>1. Read("field", TRUE) /\ in_fields_section
  BY DEF DefineField
<1>2. /\ pos \in Nat /\ pos' = pos + 1 /\ file' = file /\ here \in DOMAIN file.tags
      /\ 1..pos \subseteq 1..pos' /\ 1..pos \subseteq DOMAIN file.tags /\ here \in 1..pos'
  BY <1>1, OriginsKept
<1>3. CASE ~(Tag.number # Absent /\ Tag.name # Absent)
  BY <1>1, <1>3, OriginsKept DEF DefineField
<1>4. CASE Tag.number # Absent /\ Tag.name # Absent
  <2>1. PICK s \in 1..pos : OpenTag(s, "fields")
    BY <1>1 DEF Origins, InFields
  <2>2. s \in DOMAIN file.tags /\ IsTag(s, "fields", TRUE) /\ Inside(here, s)
    BY <1>2, <2>1 DEF OpenTag
  <2>3. IsTag(here, "field", TRUE) /\ file.tags[here] = Tag
    BY <1>1 DEF Read, IsTag, Tag
  <2>4. Defines(here, Tag.name, Tag.number)
    BY <1>4, <2>2, <2>3 DEF Defines
  <2>5. name_to_tag' = Put(name_to_tag, Tag.name, Tag.number)
    BY <1>4 DEF DefineField
  <2>6. ASSUME NEW name \in DOMAIN name_to_tag'
        PROVE  \E d \in 1..pos' : Defines(d, name, name_to_tag'[name])
    <3>1. CASE name = Tag.name
      <4>1. name_to_tag'[name] = Tag.number
        BY <2>5, <2>6, <3>1 DEF Put
      <4> QED BY <1>2, <2>4, <3>1, <4>1
    <3>2. CASE name # Tag.name
      <4>1. name \in DOMAIN name_to_tag /\ name_to_tag'[name] = name_to_tag[name]
        BY <2>5, <2>6, <3>2 DEF Put
      <4> QED BY <1>2, <4>1 DEF Origins, NumbersDefined
    <3> QED BY <3>1, <3>2
  <2> QED BY <1>2, <2>6, SameFile DEF NumbersDefined
<1> QED BY <1>3, <1>4

(* The field just read is demanded here, and its number has been defined.  *)
LEMMA ListFieldOrigins ==
  ASSUME Types, Origins, ListField PROVE RequiredSoFar'
<1> DEFINE here == pos + 1
           current == current_message_type
<1>1. Read("field", TRUE)
  BY DEF ListField
<1>2. /\ pos \in Nat /\ pos' = pos + 1 /\ file' = file /\ here \in DOMAIN file.tags
      /\ 1..pos \subseteq 1..pos' /\ 1..pos \subseteq DOMAIN file.tags /\ here \in 1..pos'
  BY <1>1, OriginsKept
<1>3. CASE ~(current # Absent /\ Tag.name \in DOMAIN name_to_tag)
  BY <1>1, <1>3, OriginsKept DEF ListField
<1>4. CASE current # Absent /\ Tag.name \in DOMAIN name_to_tag
  <2> DEFINE number == name_to_tag[Tag.name]
  <2>1. PICK m \in 1..pos : OpenTag(m, "message") /\ file.tags[m].msgtype = current
    BY <1>4 DEF Origins, InMessage
  <2>2. m \in DOMAIN file.tags /\ IsTag(m, "message", TRUE) /\ Inside(here, m)
    BY <1>2, <2>1 DEF OpenTag
  <2>3. IsTag(here, "field", TRUE) /\ file.tags[here] = Tag
    BY <1>1 DEF Read, IsTag, Tag
  <2>4. Tag.required => Demands(here, current, Tag.name)
    BY <2>1, <2>2, <2>3 DEF Demands
  <2>5. PICK d \in 1..pos : Defines(d, Tag.name, number)
    BY <1>4 DEF Origins, NumbersDefined
  <2>6. Tag.name \in Names
    BY <1>4 DEF Types, DictionaryTypeOK, IsMap
  <2>7. current \in DOMAIN messages
    BY <1>4 DEF Types
  <2>8. messages' = Put(messages, current, Put(messages[current], number, Tag.required))
    BY <1>4 DEF ListField
  <2>9. ASSUME NEW type \in DOMAIN messages', NEW tag \in DOMAIN messages'[type],
               messages'[type][tag]
        PROVE  \E i, k \in 1..pos' : \E name \in Names :
                 Demands(i, type, name) /\ Defines(k, name, tag)
    <3>1. CASE type = current /\ tag = number
      <4>1. Tag.required
        BY <2>8, <2>9, <3>1 DEF Put
      <4>2. d \in 1..pos'
        BY <1>2
      <4> QED BY <1>2, <2>4, <2>5, <2>6, <3>1, <4>1, <4>2
    <3>2. CASE ~(type = current /\ tag = number)
      <4>1. /\ type \in DOMAIN messages /\ tag \in DOMAIN messages[type]
            /\ messages[type][tag]
        BY <2>7, <2>8, <2>9, <3>2 DEF Put
      <4> QED BY <1>2, <4>1 DEF Origins, RequiredSoFar
    <3> QED BY <3>1, <3>2
  <2> QED BY <1>2, <2>9, SameFile DEF RequiredSoFar
<1> QED BY <1>3, <1>4

(* A message begins without any field, and is the one that is open.        *)
LEMMA BeginMessageOrigins ==
  ASSUME Types, Origins, BeginMessage PROVE InMessage' /\ RequiredSoFar'
<1>1. Read("message", TRUE)
  BY DEF BeginMessage
<1>2. file' = file /\ 1..pos \subseteq 1..pos'
  BY <1>1, OriginsKept
<1>3. CASE ~(in_messages_section /\ Tag.name # Absent /\ Tag.msgtype # Absent)
  BY <1>1, <1>3, OriginsKept DEF BeginMessage
<1>4. CASE in_messages_section /\ Tag.name # Absent /\ Tag.msgtype # Absent
  <2>1. current_message_type' = Tag.msgtype /\ messages' = Put(messages, Tag.msgtype, Nothing)
    BY <1>4 DEF BeginMessage
  <2>2. InMessage'
    <3>1. PICK s \in 1..pos' : OpenTag(s, "message")' /\ file'.tags[s] = Tag
      BY <1>1, OpenBegins
    <3> QED BY <2>1, <3>1 DEF InMessage
  <2>3. ASSUME NEW type \in DOMAIN messages', NEW tag \in DOMAIN messages'[type]
        PROVE  type \in DOMAIN messages /\ messages'[type] = messages[type]
    BY <2>1 DEF Put, Nothing
  <2> QED BY <1>2, <2>2, <2>3, SameFile DEF Origins, RequiredSoFar
<1> QED BY <1>3, <1>4

(* Nothing has been read at first.                                         *)
LEMMA InitOrigins == DictionaryInit => Origins
BY DEF DictionaryInit, Nothing, Origins, InFields, InMessage, NumbersDefined, RequiredSoFar, AtFirst

(* Each tag that is scanned keeps the origins (dictionary.cpp:51-153).     *)
LEMMA NextOrigins == Types /\ Origins /\ [DictionaryNext]_dict => Origins'
<1> SUFFICES ASSUME Types, Origins, [DictionaryNext]_dict PROVE Origins'
  OBVIOUS
<1>1. ASSUME NEW f \in Files, Load(f) PROVE Origins'
  BY <1>1 DEF Load, maps, Origins, InFields, InMessage, NumbersDefined, RequiredSoFar, AtFirst
<1>2. ASSUME NEW opens \in BOOLEAN, Section(opens) PROVE Origins'
  <2>1. CASE Read("fields", opens) /\ in_fields_section' = opens
               /\ UNCHANGED <<in_messages_section, current_message_type, maps>>
    <3>0. /\ Read("fields", opens)
          /\ UNCHANGED <<current_message_type, name_to_tag, messages>>
          /\ "fields" # "message"
      BY <2>1 DEF maps
    <3>1. InMessage' /\ NumbersDefined' /\ RequiredSoFar' /\ AtFirst'
      BY <3>0, OriginsKept
    <3>2. CASE opens = TRUE
      <4>1. Read("fields", TRUE)
        BY <2>1, <3>2
      <4>2. \E s \in 1..pos' : OpenTag(s, "fields")' /\ file'.tags[s] = Tag
        BY <4>1, OpenBegins
      <4> QED BY <3>1, <4>2 DEF Origins, InFields
    <3>3. CASE opens = FALSE
      BY <2>1, <3>1, <3>3 DEF Origins, InFields
    <3> QED BY <3>2, <3>3
  <2>2. CASE Read("messages", opens) /\ in_messages_section' = opens
               /\ UNCHANGED <<in_fields_section, current_message_type, maps>>
    <3>1. /\ Read("messages", opens)
          /\ UNCHANGED <<in_fields_section, current_message_type, name_to_tag, messages>>
          /\ "messages" # "fields" /\ "messages" # "message"
      BY <2>2 DEF maps
    <3>2. InFields' /\ InMessage' /\ NumbersDefined' /\ RequiredSoFar' /\ AtFirst'
      BY <3>1, OriginsKept
    <3> QED BY <3>2 DEF Origins
  <2> QED BY <1>2, <2>1, <2>2 DEF Section
<1>3. CASE DefineField
  <2>1. Read("field", TRUE) /\ UNCHANGED <<in_fields_section, current_message_type, messages>>
    BY <1>3 DEF DefineField
  <2>2. InFields' /\ InMessage' /\ RequiredSoFar' /\ AtFirst'
    BY <2>1, OriginsKept
  <2> QED BY <1>3, <2>2, DefineFieldOrigins DEF Origins
<1>4. CASE ListField
  <2>1. Read("field", TRUE) /\ UNCHANGED <<in_fields_section, current_message_type, name_to_tag>>
    BY <1>4 DEF ListField
  <2>2. InFields' /\ InMessage' /\ NumbersDefined' /\ AtFirst'
    BY <2>1, OriginsKept
  <2> QED BY <1>4, <2>2, ListFieldOrigins DEF Origins
<1>5. CASE BeginMessage
  <2>1. Read("message", TRUE) /\ UNCHANGED <<in_fields_section, name_to_tag>>
    BY <1>5 DEF BeginMessage
  <2>2. InFields' /\ NumbersDefined' /\ AtFirst'
    BY <2>1, OriginsKept
  <2> QED BY <1>5, <2>2, BeginMessageOrigins DEF Origins
<1>6. CASE EndMessage
  <2>1. Read("message", FALSE) /\ current_message_type' = Absent
        /\ UNCHANGED <<in_fields_section, name_to_tag, messages>>
        /\ "message" # "fields"
    BY <1>6 DEF EndMessage, maps
  <2>2. InFields' /\ NumbersDefined' /\ RequiredSoFar' /\ AtFirst'
    BY <2>1, OriginsKept
  <2> QED BY <2>1, <2>2 DEF Origins, InMessage
<1>7. CASE OtherTag
  <2>1. Read(Tag.element, Tag.opens) /\ Tag.element # "fields" /\ Tag.element # "message"
        /\ UNCHANGED <<in_fields_section, current_message_type, name_to_tag, messages>>
    BY <1>7 DEF OtherTag, maps
  <2>2. InFields' /\ InMessage' /\ NumbersDefined' /\ RequiredSoFar' /\ AtFirst'
    BY <2>1, OriginsKept
  <2> QED BY <2>2 DEF Origins
<1>8. CASE EndOfFile
  BY <1>8, SameFile DEF EndOfFile, maps, Origins, InFields, InMessage, NumbersDefined,
       RequiredSoFar, AtFirst, OpenTag, IsTag, Inside
<1>9. CASE UNCHANGED dict
  BY <1>9, SameFile DEF dict, scan, maps, Origins, InFields, InMessage, NumbersDefined,
       RequiredSoFar, AtFirst, OpenTag, IsTag, Inside
<1> QED BY <1>1, <1>2, <1>3, <1>4, <1>5, <1>6, <1>7, <1>8, <1>9 DEF DictionaryNext, parse_xml

(* What a message is rejected for lacking is what the file requires of it, *)
(* under the number the file gives it, whatever the file.                  *)
(* (dictionary.cpp:98-149, 205-213)                                        *)
THEOREM RequiredIsDemandedHolds == DictionarySpec => []RequiredIsDemanded
<1>1. DictionarySpec => [](Types /\ Origins)
  BY InitTypes, NextTypes, InitOrigins, NextOrigins, PTL DEF DictionarySpec
<1>2. Types /\ Origins => RequiredIsDemanded
  <2> SUFFICES ASSUME Types, Origins, NEW type \in DOMAIN messages,
                      NEW tag \in DOMAIN messages[type], is_required(type, tag)
               PROVE  \E i, d \in DOMAIN file.tags : \E name \in Names :
                        Demands(i, type, name) /\ Defines(d, name, tag)
    BY DEF RequiredIsDemanded
  <2>1. messages[type][tag]
    BY DEF is_required
  <2>2. \E i, d \in 1..pos : \E name \in Names : Demands(i, type, name) /\ Defines(d, name, tag)
    BY <2>1 DEF Origins, RequiredSoFar
  <2>3. loading # "idle"
    BY DEF Origins, AtFirst
  <2>4. file \in File /\ pos \in 0..Len(file.tags)
    BY <2>3 DEF Types, DictionaryTypeOK
  <2>5. file.tags \in Seq(XmlTag)
    BY <2>4 DEF File
  <2>6. DOMAIN file.tags = 1..Len(file.tags) /\ Len(file.tags) \in Nat
    <3> HIDE DEF XmlTag
    <3> QED BY <2>5
  <2>7. 1..pos \subseteq DOMAIN file.tags
    BY <2>4, <2>6
  <2> QED BY <2>2, <2>7
<1> QED BY <1>1, <1>2, PTL

(* In an orderly file, no field is required that the scan does not list.   *)

-----------------------------------------------------------------------------
(* The dictionary: an orderly file is complete                             *)

FieldsOpen == \A s \in 1..pos : OpenTag(s, "fields") => in_fields_section
MessagesSeen ==
  /\ loading = "idle" => ~in_messages_section
  /\ in_messages_section => \E j \in 1..pos : IsTag(j, "messages", TRUE)

TypesSeen ==
  \A type \in DOMAIN messages :
    \E j, m \in 1..pos :
      j < m /\ IsTag(j, "messages", TRUE) /\ IsTag(m, "message", TRUE) /\ file.tags[m].msgtype = type

NumbersKept ==
  \A d \in 1..pos :
    Definition(d) =>
      file.tags[d].name \in DOMAIN name_to_tag /\ name_to_tag[file.tags[d].name] = file.tags[d].number

CurrentIsOpen ==
  \A m \in 1..pos :
    OpenTag(m, "message") /\ file.tags[m].msgtype \in DOMAIN messages =>
      current_message_type = file.tags[m].msgtype

Listed ==
  \A i, d \in 1..pos : \A type \in DOMAIN messages :
    Demands(i, type, file.tags[i].name) /\ Definition(d) /\ file.tags[d].name = file.tags[i].name =>
      file.tags[d].number \in DOMAIN messages[type] /\ messages[type][file.tags[d].number]

(* FieldsOpen, MessagesSeen and TypesSeen hold of any file, the others of  *)
(* an orderly one.                                                         *)
Exact == FieldsOpen /\ MessagesSeen /\ TypesSeen
Entries == NumbersKept /\ CurrentIsOpen /\ Listed
Complete == Orderly => Entries

(* Whether a file is orderly does not change while it is read.             *)
LEMMA SameOrder ==
  ASSUME file' = file
  PROVE  /\ Orderly' <=> Orderly
         /\ \A d : Definition(d)' <=> Definition(d)
         /\ \A i, element, opens : IsTag(i, element, opens)' <=> IsTag(i, element, opens)
         /\ \A i, m : Inside(i, m)' <=> Inside(i, m)
BY DEF Orderly, Definition, Defines, IsTag, Inside

(* What reading a tag does to the position.                                *)
LEMMA ReadOne ==
  ASSUME Types, NEW element, NEW opens, Read(element, opens)
  PROVE  /\ pos \in Nat /\ pos' = pos + 1 /\ file' = file /\ loading' = loading /\ loading = "reading"
         /\ pos + 1 \in DOMAIN file.tags /\ 1..pos \subseteq DOMAIN file.tags
         /\ 1..pos' = (1..pos) \cup {pos + 1}
         /\ IsTag(pos + 1, element, opens) /\ file.tags[pos + 1] = Tag
<1>1. /\ pos \in Nat /\ pos' = pos + 1 /\ file' = file /\ pos + 1 \in DOMAIN file.tags
      /\ loading = "reading" /\ loading' = loading
  BY TagType DEF Types, Read
<1>2. 1..pos' = (1..pos) \cup {pos + 1}
  BY <1>1
<1>3. Len(file.tags) \in Nat /\ DOMAIN file.tags = 1..Len(file.tags)
  <2> HIDE DEF XmlTag
  <2> QED  BY <1>1, TagType DEF Types, Read
<1>4. 1..pos \subseteq DOMAIN file.tags
  BY <1>1, <1>3
<1>5. IsTag(pos + 1, element, opens) /\ file.tags[pos + 1] = Tag
  BY DEF Read, Tag, IsTag
<1> QED  BY <1>1, <1>2, <1>4, <1>5

(* What is open has been, unless it has just begun.                        *)
LEMMA OpenWas ==
  ASSUME Types, NEW element, NEW opens, Read(element, opens),
         NEW s, s \in 1..(pos + 1), NEW e, OpenTag(s, e)'
  PROVE  \/ s = pos + 1 /\ element = e /\ opens = TRUE
         \/ s \in 1..pos /\ OpenTag(s, e) /\ ~(element = e /\ opens = FALSE)
<1>1. /\ pos \in Nat /\ pos' = pos + 1 /\ file' = file /\ 1..pos' = (1..pos) \cup {pos + 1}
      /\ IsTag(pos + 1, element, opens)
  BY ReadOne
<1>2. /\ file.tags[s].element = e /\ file.tags[s].opens = TRUE
      /\ \A k \in (s + 1)..(pos' + 1 - 1) : ~(file.tags[k].element = e /\ file.tags[k].opens = FALSE)
  BY <1>1 DEF OpenTag, Inside, IsTag
<1>3. CASE s = pos + 1
  BY <1>1, <1>2, <1>3 DEF IsTag
<1>4. CASE s # pos + 1
  <2>1. s \in 1..pos /\ s < pos + 1 /\ pos + 1 \in (s + 1)..(pos' + 1 - 1)
    BY <1>1, <1>4
  <2>2. ~(element = e /\ opens = FALSE)
    BY <1>1, <1>2, <2>1 DEF IsTag
  <2>3. pos + 1 - 1 = pos /\ \A k \in (s + 1)..pos : k \in (s + 1)..(pos' + 1 - 1)
    BY <1>1, <2>1
  <2>4. \A k \in (s + 1)..pos : ~(file.tags[k].element = e /\ file.tags[k].opens = FALSE)
    BY <1>2, <2>3
  <2>6. OpenTag(s, e)
    BY <1>1, <1>2, <2>1, <2>3, <2>4 DEF OpenTag, IsTag, Inside
  <2> QED  BY <2>1, <2>2, <2>6
<1> QED  BY <1>3, <1>4

(* In an orderly file, no fields section is open behind the start of the   *)
(* messages.                                                               *)
LEMMA AfterMessages ==
  ASSUME Orderly, NEW j \in DOMAIN file.tags, NEW s \in DOMAIN file.tags, NEW i \in Nat,
         DOMAIN file.tags \subseteq Nat,
         IsTag(j, "messages", TRUE), IsTag(s, "fields", TRUE), j <= i, Inside(i, s)
  PROVE  FALSE
<1>1. s < j /\ ~Inside(j, s)
  BY DEF Orderly, IsTag
<1>2. j \in Nat /\ s \in Nat
  OBVIOUS
<1>3. \A k \in (s + 1)..(j - 1) : k \in (s + 1)..(i - 1)
  BY <1>2
<1>4. Inside(j, s)
  BY <1>1, <1>3 DEF Inside
<1> QED  BY <1>1, <1>4

(* In an orderly file, a definition comes before the messages.             *)
LEMMA DefinedBefore ==
  ASSUME Orderly, NEW j \in DOMAIN file.tags, NEW d \in DOMAIN file.tags,
         DOMAIN file.tags \subseteq Nat, IsTag(j, "messages", TRUE), Definition(d)
  PROVE  d < j
<1>1. PICK s \in DOMAIN file.tags : IsTag(s, "fields", TRUE) /\ Inside(d, s)
  BY DEF Definition, Defines
<1>2. ~(j <= d)
  BY <1>1, AfterMessages
<1>3. d \in Nat /\ j \in Nat
  OBVIOUS
<1> QED  BY <1>2, <1>3

(* A type has one message.                                                 *)
LEMMA OneMessage ==
  ASSUME Orderly, NEW m \in DOMAIN file.tags, NEW n \in DOMAIN file.tags,
         IsTag(m, "message", TRUE), IsTag(n, "message", TRUE), file.tags[m].msgtype = file.tags[n].msgtype
  PROVE  m = n
BY DEF Orderly

(* The tags of a file are counted from one.                                *)
LEMMA TagsAreCounted ==
  ASSUME Types, loading # "idle"
  PROVE  DOMAIN file.tags \subseteq Nat \ {0}
<1>1. file.tags \in Seq(XmlTag)
  BY DEF Types, DictionaryTypeOK, File
<1> HIDE DEF XmlTag
<1> QED  BY <1>1

(* FieldsOpen, MessagesSeen and TypesSeen hold of any file.                *)

(* A tag that does not touch a part of the scan's state keeps what is      *)
(* said of it.                                                             *)
LEMMA ExactKept ==
  ASSUME Types, Exact, NEW element, NEW opens, Read(element, opens)
  PROVE  /\ in_fields_section' = in_fields_section /\ element # "fields" => FieldsOpen'
         /\ in_messages_section' = in_messages_section => MessagesSeen'
         /\ DOMAIN messages' = DOMAIN messages => TypesSeen'
<1>1. /\ pos \in Nat /\ pos' = pos + 1 /\ file' = file /\ 1..pos' = (1..pos) \cup {pos + 1}
      /\ loading' = "reading"
  BY ReadOne
<1>2. ASSUME in_fields_section' = in_fields_section, element # "fields"  PROVE FieldsOpen'
  <2> SUFFICES ASSUME NEW s, s \in 1..(pos + 1), OpenTag(s, "fields")'  PROVE in_fields_section'
    BY <1>1 DEF FieldsOpen
  <2>1. s \in 1..pos /\ OpenTag(s, "fields")
    BY <1>2, OpenWas
  <2> QED  BY <1>2, <2>1 DEF Exact, FieldsOpen
<1>3. ASSUME in_messages_section' = in_messages_section  PROVE MessagesSeen'
  BY <1>1, <1>3, SameOrder DEF Exact, MessagesSeen
<1>4. ASSUME DOMAIN messages' = DOMAIN messages  PROVE TypesSeen'
  <2> SUFFICES ASSUME NEW type \in DOMAIN messages
               PROVE  \E j, m \in 1..pos' :
                        j < m /\ IsTag(j, "messages", TRUE)' /\ IsTag(m, "message", TRUE)'
                        /\ file'.tags[m].msgtype = type
    BY <1>4 DEF TypesSeen
  <2>1. PICK j \in 1..pos, m \in 1..pos :
          j < m /\ IsTag(j, "messages", TRUE) /\ IsTag(m, "message", TRUE) /\ file.tags[m].msgtype = type
    BY DEF Exact, TypesSeen
  <2>2. j \in 1..pos' /\ m \in 1..pos'
    BY <1>1
  <2> QED  BY <1>1, <2>1, <2>2, SameOrder
<1> QED  BY <1>2, <1>3, <1>4

(* Each tag that is scanned keeps these.                                   *)
LEMMA NextExact == Types /\ Origins /\ Exact /\ [DictionaryNext]_dict => Exact'
<1> SUFFICES ASSUME Types, Origins, Exact, [DictionaryNext]_dict  PROVE Exact'
  OBVIOUS
<1>1. ASSUME NEW f \in Files, Load(f)  PROVE Exact'
  <2>1. /\ pos' = 0 /\ loading = "idle" /\ loading' # "idle"
        /\ UNCHANGED <<in_messages_section, messages>>
    BY <1>1 DEF Load, maps, Types
  <2>2. DOMAIN messages = {} /\ ~in_messages_section
    BY <2>1 DEF Origins, AtFirst, Exact, MessagesSeen
  <2> QED  BY <2>1, <2>2 DEF Exact, FieldsOpen, MessagesSeen, TypesSeen
<1>2. ASSUME NEW opens \in BOOLEAN, Section(opens)  PROVE Exact'
  <2>1. CASE Read("fields", opens) /\ in_fields_section' = opens
               /\ UNCHANGED <<in_messages_section, current_message_type, maps>>
    <3>1. Read("fields", opens) /\ in_fields_section' = opens
          /\ UNCHANGED <<in_messages_section, messages>>
      BY <2>1 DEF maps
    <3>2. MessagesSeen' /\ TypesSeen'
      BY <3>1, ExactKept
    <3>3. FieldsOpen'
      <4>0. pos \in Nat /\ pos' = pos + 1
        BY <3>1, ReadOne
      <4> SUFFICES ASSUME NEW s, s \in 1..(pos + 1), OpenTag(s, "fields")'  PROVE in_fields_section'
        BY <4>0 DEF FieldsOpen
      <4>1. opens # FALSE
        BY <3>1, OpenWas
      <4> QED  BY <3>1, <4>1
    <3> QED  BY <3>2, <3>3 DEF Exact
  <2>2. CASE Read("messages", opens) /\ in_messages_section' = opens
               /\ UNCHANGED <<in_fields_section, current_message_type, maps>>
    <3>1. /\ Read("messages", opens) /\ in_messages_section' = opens
          /\ UNCHANGED <<in_fields_section, messages>> /\ "messages" # "fields"
      BY <2>2 DEF maps
    <3>2. FieldsOpen' /\ TypesSeen'
      BY <3>1, ExactKept
    <3>3. MessagesSeen'
      <4>1. pos + 1 \in 1..pos' /\ file' = file /\ IsTag(pos + 1, "messages", opens) /\ loading' = "reading"
        BY <3>1, ReadOne
      <4>2. file'.tags[pos + 1].element = "messages" /\ file'.tags[pos + 1].opens = opens
        BY <4>1 DEF IsTag
      <4>3. ASSUME opens  PROVE \E j \in 1..pos' : file'.tags[j].element = "messages" /\ file'.tags[j].opens = TRUE
        BY <4>1, <4>2, <4>3
      <4> QED  BY <3>1, <4>1, <4>3 DEF MessagesSeen, IsTag
    <3> QED  BY <3>2, <3>3 DEF Exact
  <2> QED  BY <1>2, <2>1, <2>2 DEF Section
<1>3. CASE DefineField
  <2>1. Read("field", TRUE) /\ UNCHANGED <<in_fields_section, in_messages_section, messages>>
        /\ "field" # "fields"
    BY <1>3 DEF DefineField
  <2> QED  BY <2>1, ExactKept DEF Exact
<1>4. CASE ListField
  <2>1. Read("field", TRUE) /\ UNCHANGED <<in_fields_section, in_messages_section>> /\ "field" # "fields"
    BY <1>4 DEF ListField
  <2>2. DOMAIN messages' = DOMAIN messages
    BY <1>4, ListFieldTypes
  <2> QED  BY <2>1, <2>2, ExactKept DEF Exact
<1>5. CASE BeginMessage
  <2>1. Read("message", TRUE) /\ UNCHANGED <<in_fields_section, in_messages_section>> /\ "message" # "fields"
    BY <1>5 DEF BeginMessage
  <2>2. FieldsOpen' /\ MessagesSeen'
    BY <2>1, ExactKept
  <2>3. TypesSeen'
    <3>1. CASE ~(in_messages_section /\ Tag.name # Absent /\ Tag.msgtype # Absent)
      BY <1>5, <2>1, <3>1, ExactKept DEF BeginMessage
    <3>2. CASE in_messages_section /\ Tag.name # Absent /\ Tag.msgtype # Absent
      <4> SUFFICES ASSUME NEW type \in DOMAIN messages'
                   PROVE  \E j, m \in 1..pos' :
                            j < m /\ IsTag(j, "messages", TRUE)' /\ IsTag(m, "message", TRUE)'
                            /\ file'.tags[m].msgtype = type
        BY DEF TypesSeen
      <4>1. /\ pos \in Nat /\ file' = file /\ 1..pos' = (1..pos) \cup {pos + 1}
            /\ IsTag(pos + 1, "message", TRUE) /\ file.tags[pos + 1] = Tag
        BY <2>1, ReadOne
      <4>2. CASE type = Tag.msgtype
        <5>1. PICK j \in 1..pos : IsTag(j, "messages", TRUE)
          BY <3>2 DEF Exact, MessagesSeen
        <5>2. j \in 1..pos' /\ pos + 1 \in 1..pos' /\ j < pos + 1
          BY <4>1
        <5> QED  BY <4>1, <4>2, <5>1, <5>2, SameOrder
      <4>3. CASE type # Tag.msgtype
        <5>1. type \in DOMAIN messages
          BY <1>5, <3>2, <4>3 DEF BeginMessage, Put
        <5>2. PICK j \in 1..pos, m \in 1..pos :
                j < m /\ IsTag(j, "messages", TRUE) /\ IsTag(m, "message", TRUE) /\ file.tags[m].msgtype = type
          BY <5>1 DEF Exact, TypesSeen
        <5>3. j \in 1..pos' /\ m \in 1..pos'
          BY <4>1
        <5> QED  BY <4>1, <5>2, <5>3, SameOrder
      <4> QED  BY <4>2, <4>3
    <3> QED  BY <3>1, <3>2
  <2> QED  BY <2>2, <2>3 DEF Exact
<1>6. CASE EndMessage
  <2>1. Read("message", FALSE) /\ UNCHANGED <<in_fields_section, in_messages_section, messages>>
        /\ "message" # "fields"
    BY <1>6 DEF EndMessage, maps
  <2> QED  BY <2>1, ExactKept DEF Exact
<1>7. CASE OtherTag
  <2>1. Read(Tag.element, Tag.opens) /\ UNCHANGED <<in_fields_section, in_messages_section, messages>>
        /\ Tag.element # "fields"
    BY <1>7 DEF OtherTag, maps
  <2> QED  BY <2>1, ExactKept DEF Exact
<1>8. CASE EndOfFile
  <2>1. UNCHANGED <<file, pos, in_fields_section, in_messages_section, messages>> /\ loading' # "idle"
    BY <1>8 DEF EndOfFile, maps
  <2> QED  BY <2>1, SameOrder DEF Exact, FieldsOpen, MessagesSeen, TypesSeen, OpenTag, IsTag, Inside
<1>9. CASE UNCHANGED dict
  <2>1. UNCHANGED <<loading, file, pos, in_fields_section, in_messages_section, messages>>
    BY <1>9 DEF dict, scan, maps
  <2> QED  BY <2>1, SameOrder DEF Exact, FieldsOpen, MessagesSeen, TypesSeen, OpenTag, IsTag, Inside
<1> QED  BY <1>1, <1>2, <1>3, <1>4, <1>5, <1>6, <1>7, <1>8, <1>9 DEF DictionaryNext, parse_xml

(* NumbersKept, CurrentIsOpen and Listed hold of an orderly one.           *)

(* Only a <field> defines or demands one.                                  *)
LEMMA OnlyFields ==
  ASSUME Types, NEW element, NEW opens, Read(element, opens), ~(element = "field" /\ opens = TRUE)
  PROVE  ~Definition(pos + 1) /\ \A type, name : ~Demands(pos + 1, type, name)
<1>1. IsTag(pos + 1, element, opens)
  BY ReadOne
<1> QED  BY <1>1 DEF Definition, Defines, Demands, IsTag

(* A definition is in the fields section.                                  *)
LEMMA OnlyInSection ==
  ASSUME Types, Exact, NEW element, NEW opens, Read(element, opens), ~in_fields_section
  PROVE  ~Definition(pos + 1)
<1>1. SUFFICES ASSUME Definition(pos + 1)  PROVE FALSE
  OBVIOUS
<1>2. pos \in Nat /\ DOMAIN file.tags \subseteq Nat \ {0}
  BY ReadOne, TagsAreCounted
<1>3. PICK s \in DOMAIN file.tags : IsTag(s, "fields", TRUE) /\ Inside(pos + 1, s)
  BY <1>1 DEF Definition, Defines
<1>4. s \in 1..pos
  BY <1>2, <1>3 DEF Inside
<1>5. OpenTag(s, "fields")
  BY <1>3, <1>4 DEF OpenTag
<1> QED  BY <1>4, <1>5 DEF Exact, FieldsOpen

(* A tag that defines no field keeps the numbers complete.                 *)
LEMMA NumbersStay ==
  ASSUME Types, NumbersKept, NEW element, NEW opens, Read(element, opens),
         name_to_tag' = name_to_tag, ~Definition(pos + 1)
  PROVE  NumbersKept'
<1>1. file' = file /\ 1..pos' = (1..pos) \cup {pos + 1}
  BY ReadOne
<1> QED  BY <1>1, SameOrder DEF NumbersKept

(* A definition adds its number, and no number is overwritten              *)
(* (dictionary.cpp:98-113).                                                *)
LEMMA DefineFieldNumbers ==
  ASSUME Types, Origins, Orderly, NumbersKept, DefineField
  PROVE  NumbersKept'
<1> DEFINE here == pos + 1
<1>1. Read("field", TRUE) /\ in_fields_section
  BY DEF DefineField
<1>2. /\ pos \in Nat /\ file' = file /\ 1..pos' = (1..pos) \cup {here} /\ here \in DOMAIN file.tags
      /\ 1..pos \subseteq DOMAIN file.tags /\ IsTag(here, "field", TRUE) /\ file.tags[here] = Tag
  BY <1>1, ReadOne
<1>3. CASE ~(Tag.number # Absent /\ Tag.name # Absent)
  <2>1. ~Definition(here) /\ name_to_tag' = name_to_tag
    BY <1>2, <1>3 DEF Definition, Defines, DefineField
  <2> QED  BY <1>1, <2>1, NumbersStay
<1>4. CASE Tag.number # Absent /\ Tag.name # Absent
  <2>1. PICK s \in 1..pos : OpenTag(s, "fields")
    BY <1>1 DEF Origins, InFields
  <2>2. s \in DOMAIN file.tags /\ IsTag(s, "fields", TRUE) /\ Inside(here, s)
    BY <1>2, <2>1 DEF OpenTag
  <2>3. Definition(here)
    BY <1>2, <1>4, <2>2 DEF Definition, Defines
  <2>4. name_to_tag' = Put(name_to_tag, Tag.name, Tag.number)
    BY <1>4 DEF DefineField
  <2> HIDE DEF here
  <2>5. ASSUME NEW d \in 1..pos, Definition(d)
        PROVE  /\ file.tags[d].name \in DOMAIN name_to_tag'
               /\ name_to_tag'[file.tags[d].name] = file.tags[d].number
    <3>1. d # here /\ d \in DOMAIN file.tags
      BY <1>2, <2>5 DEF here
    <3>2. file.tags[d].name # file.tags[here].name
      BY <1>2, <2>3, <2>5, <3>1 DEF Orderly
    <3>3. file.tags[d].name \in DOMAIN name_to_tag /\ name_to_tag[file.tags[d].name] = file.tags[d].number
      BY <2>5 DEF NumbersKept
    <3> QED  BY <1>2, <2>4, <3>2, <3>3 DEF Put
  <2>6. file.tags[here].name \in DOMAIN name_to_tag' /\ name_to_tag'[file.tags[here].name] = file.tags[here].number
    BY <1>2, <2>4 DEF Put
  <2> QED  BY <1>2, <2>5, <2>6, SameOrder DEF NumbersKept
<1> QED  BY <1>3, <1>4

(* A tag that begins no message keeps the open one.                        *)
LEMMA CurrentStays ==
  ASSUME Types, CurrentIsOpen, NEW element, NEW opens, Read(element, opens),
         DOMAIN messages' = DOMAIN messages,
         \/ element # "message" /\ current_message_type' = current_message_type
         \/ element = "message" /\ opens = FALSE
  PROVE  CurrentIsOpen'
<1>1. pos \in Nat /\ pos' = pos + 1 /\ file' = file
  BY ReadOne
<1> SUFFICES ASSUME NEW m, m \in 1..(pos + 1), OpenTag(m, "message")',
                    file.tags[m].msgtype \in DOMAIN messages
             PROVE  current_message_type' = file.tags[m].msgtype
  BY <1>1 DEF CurrentIsOpen
<1>2. \/ m = pos + 1 /\ element = "message" /\ opens = TRUE
      \/ m \in 1..pos /\ OpenTag(m, "message") /\ ~(element = "message" /\ opens = FALSE)
  BY OpenWas
<1>3. element # "message" /\ m \in 1..pos /\ OpenTag(m, "message")
  BY <1>2
<1> QED  BY <1>3 DEF CurrentIsOpen

(* The message that begins is the one that is open                         *)
(* (dictionary.cpp:133-149).                                               *)
LEMMA BeginMessageCurrent ==
  ASSUME Types, Exact, Orderly, BeginMessage
  PROVE  CurrentIsOpen'
<1> DEFINE here == pos + 1
<1>1. Read("message", TRUE)
  BY DEF BeginMessage
<1>2. /\ pos \in Nat /\ pos' = pos + 1 /\ file' = file /\ here \in DOMAIN file.tags
      /\ 1..pos \subseteq DOMAIN file.tags /\ IsTag(here, "message", TRUE) /\ file.tags[here] = Tag
  BY <1>1, ReadOne
<1> SUFFICES ASSUME NEW m, m \in 1..(pos + 1), OpenTag(m, "message")',
                    file.tags[m].msgtype \in DOMAIN messages'
             PROVE  current_message_type' = file.tags[m].msgtype
  BY <1>2 DEF CurrentIsOpen
<1>a. \/ m = pos + 1 /\ "message" = "message" /\ TRUE = TRUE
      \/ m \in 1..pos /\ OpenTag(m, "message") /\ ~("message" = "message" /\ TRUE = FALSE)
  BY <1>1, OpenWas
<1>3. m = here \/ (m \in 1..pos /\ OpenTag(m, "message"))
  BY <1>a
<1>4. ASSUME m \in 1..pos, OpenTag(m, "message")  PROVE FALSE
  <2>0. m # here /\ m \in DOMAIN file.tags
    BY <1>2, <1>4
  <2>1. IsTag(m, "message", TRUE) /\ Inside(here, m)
    BY <1>4 DEF OpenTag
  <2> HIDE DEF here
  <2> QED  BY <1>2, <2>0, <2>1 DEF Orderly
<1>5. CASE in_messages_section /\ Tag.name # Absent /\ Tag.msgtype # Absent
  BY <1>2, <1>3, <1>4, <1>5 DEF BeginMessage
<1>6. CASE ~(in_messages_section /\ Tag.name # Absent /\ Tag.msgtype # Absent)
  <2>1. m = here /\ file.tags[here].msgtype \in DOMAIN messages
    BY <1>3, <1>4, <1>6 DEF BeginMessage
  <2>2. PICK n \in 1..pos : IsTag(n, "message", TRUE) /\ file.tags[n].msgtype = file.tags[here].msgtype
    BY <2>1 DEF Exact, TypesSeen
  <2>3. n \in DOMAIN file.tags /\ n # here
    BY <1>2
  <2> HIDE DEF here
  <2>4. n = here
    BY <1>2, <2>2, <2>3, OneMessage
  <2> QED  BY <2>3, <2>4
<1> QED  BY <1>5, <1>6

(* A tag that demands nothing keeps the lists complete.                    *)
LEMMA ListedStays ==
  ASSUME Types, Listed, NEW element, NEW opens, Read(element, opens),
         ~(element = "field" /\ opens = TRUE), messages' = messages
  PROVE  Listed'
<1>1. file' = file /\ 1..pos' = (1..pos) \cup {pos + 1}
  BY ReadOne
<1>2. ~Definition(pos + 1) /\ \A type, name : ~Demands(pos + 1, type, name)
  BY OnlyFields
<1> QED  BY <1>1, <1>2, SameOrder, SameFile DEF Listed

(* While fields are defined, no message has begun.                         *)
LEMMA DefineFieldListed ==
  ASSUME Types, Origins, Exact, Orderly, DefineField
  PROVE  Listed'
<1> DEFINE here == pos + 1
<1>1. Read("field", TRUE) /\ in_fields_section /\ messages' = messages
  BY DEF DefineField
<1>2. /\ pos \in Nat /\ 1..pos \subseteq DOMAIN file.tags /\ DOMAIN file.tags \subseteq Nat
  BY <1>1, ReadOne, TagsAreCounted
<1>3. PICK s \in 1..pos : OpenTag(s, "fields")
  BY <1>1 DEF Origins, InFields
<1>a. s \in DOMAIN file.tags /\ here \in Nat
  BY <1>2
<1>b. IsTag(s, "fields", TRUE) /\ Inside(here, s)
  BY <1>3 DEF OpenTag
<1>4. s \in DOMAIN file.tags /\ IsTag(s, "fields", TRUE) /\ Inside(here, s) /\ here \in Nat
  BY <1>a, <1>b
<1>5. ASSUME NEW type \in DOMAIN messages  PROVE FALSE
  <2>1. PICK j \in 1..pos : IsTag(j, "messages", TRUE)
    BY DEF Exact, TypesSeen
  <2>2. j \in DOMAIN file.tags /\ j <= here
    BY <1>2
  <2> HIDE DEF here
  <2> QED  BY <1>2, <1>4, <2>1, <2>2, AfterMessages
<1> QED  BY <1>1, <1>5 DEF Listed

(* No list is lost when a message begins: no other has its type.           *)
LEMMA BeginMessageListed ==
  ASSUME Types, Orderly, Listed, BeginMessage
  PROVE  Listed'
<1> DEFINE here == pos + 1
<1>1. Read("message", TRUE)
  BY DEF BeginMessage
<1>2. /\ pos \in Nat /\ 1..pos' = (1..pos) \cup {here} /\ file' = file /\ here \in DOMAIN file.tags
      /\ 1..pos \subseteq DOMAIN file.tags /\ IsTag(here, "message", TRUE) /\ file.tags[here] = Tag
  BY <1>1, ReadOne
<1>3. CASE ~(in_messages_section /\ Tag.name # Absent /\ Tag.msgtype # Absent)
  BY <1>1, <1>3, ListedStays DEF BeginMessage
<1>4. CASE in_messages_section /\ Tag.name # Absent /\ Tag.msgtype # Absent
  <2>1. messages' = Put(messages, Tag.msgtype, Nothing)
    BY <1>4 DEF BeginMessage
  <2>2. ~Definition(here) /\ \A type, name : ~Demands(here, type, name)
    BY <1>1, OnlyFields
  <2>3. ASSUME NEW i \in 1..pos, NEW name, Demands(i, Tag.msgtype, name)  PROVE FALSE
    <3>1. PICK m \in DOMAIN file.tags :
            IsTag(m, "message", TRUE) /\ file.tags[m].msgtype = Tag.msgtype /\ Inside(i, m)
      BY <2>3 DEF Demands
    <3>2. m < i /\ i < here /\ i \in Nat
      BY <1>2, <3>1 DEF Inside
    <3>a. loading # "idle"
      BY <1>1, ReadOne
    <3>b. DOMAIN file.tags \subseteq Nat
      BY <3>a, TagsAreCounted
    <3>3. m # here
      BY <1>2, <3>2, <3>b
    <3> HIDE DEF here
    <3> QED  BY <1>2, <3>1, <3>3, OneMessage
  <2>4. ASSUME NEW type \in DOMAIN messages', type # Tag.msgtype
        PROVE  type \in DOMAIN messages /\ messages'[type] = messages[type]
    BY <2>1, <2>4 DEF Put
  <2> HIDE DEF here
  <2>5. ASSUME NEW i, NEW d, i \in 1..pos', d \in 1..pos', NEW type \in DOMAIN messages',
               Demands(i, type, file.tags[i].name), Definition(d), file.tags[d].name = file.tags[i].name
        PROVE  file.tags[d].number \in DOMAIN messages'[type] /\ messages'[type][file.tags[d].number]
    <3>1. i \in 1..pos /\ d \in 1..pos
      BY <1>2, <2>2, <2>5
    <3>2. type # Tag.msgtype
      BY <2>3, <2>5, <3>1
    <3>3. type \in DOMAIN messages /\ messages'[type] = messages[type]
      BY <2>4, <3>2
    <3> QED  BY <2>5, <3>1, <3>3 DEF Listed
  <2> QED  BY <1>2, <2>5, SameOrder, SameFile DEF Listed
<1> QED  BY <1>3, <1>4

(* A <field> of a message lists it, and no other entry is overwritten.     *)
LEMMA ListFieldListed ==
  ASSUME Types, Origins, Exact, Orderly, NumbersKept, CurrentIsOpen, Listed, ListField
  PROVE  Listed'
<1> DEFINE here == pos + 1
           current == current_message_type
<1>1. Read("field", TRUE) /\ ~in_fields_section
  BY DEF ListField
<1>a. loading # "idle"
  BY <1>1, ReadOne
<1>2. /\ pos \in Nat /\ 1..pos' = (1..pos) \cup {here} /\ file' = file /\ here \in DOMAIN file.tags
      /\ 1..pos \subseteq DOMAIN file.tags /\ IsTag(here, "field", TRUE) /\ file.tags[here] = Tag
  BY <1>1, ReadOne
<1>b. DOMAIN file.tags \subseteq Nat
  BY <1>a, TagsAreCounted
<1>3. ~Definition(here)
  BY <1>1, OnlyInSection
<1>4. DOMAIN messages' = DOMAIN messages
  BY ListFieldTypes
<1>c. \A m : OpenTag(m, "message") => IsTag(m, "message", TRUE) /\ Inside(here, m)
  BY DEF OpenTag
<1>d. \A m : m \in 1..pos /\ IsTag(m, "message", TRUE) /\ Inside(here, m) => OpenTag(m, "message")
  BY DEF OpenTag
<1>5. ASSUME NEW i, NEW d, i \in 1..pos', d \in 1..pos', NEW type \in DOMAIN messages,
             Demands(i, type, file.tags[i].name), Definition(d), file.tags[d].name = file.tags[i].name
      PROVE  file.tags[d].number \in DOMAIN messages'[type] /\ messages'[type][file.tags[d].number]
  <2> DEFINE number == file.tags[d].number
             name == file.tags[d].name
             effective == current # Absent /\ Tag.name \in DOMAIN name_to_tag
             put == name_to_tag[Tag.name]
  <2>1. PICK j \in 1..pos, m \in 1..pos :
          j < m /\ IsTag(j, "messages", TRUE) /\ IsTag(m, "message", TRUE) /\ file.tags[m].msgtype = type
    BY DEF Exact, TypesSeen
  <2>2. PICK n \in DOMAIN file.tags :
          IsTag(n, "message", TRUE) /\ file.tags[n].msgtype = type /\ Inside(i, n)
    BY <1>5 DEF Demands
  <2>3. IsTag(i, "field", TRUE) /\ file.tags[i].required
    BY <1>5 DEF Demands
  <2>m. m \in DOMAIN file.tags /\ j \in DOMAIN file.tags
    BY <1>2, <2>1
  <2>4. m = n
    BY <2>1, <2>2, <2>m, OneMessage
  <2>5. d \in 1..pos /\ d \in DOMAIN file.tags
    BY <1>2, <1>3, <1>5
  <2>6. name \in DOMAIN name_to_tag /\ name_to_tag[name] = number
    BY <1>5, <2>5 DEF NumbersKept
  <2>7. type # Absent
    BY DictionaryAssumption DEF Types, DictionaryTypeOK
  <2>8. effective =>
          /\ current \in DOMAIN messages
          /\ messages' = Put(messages, current, Put(messages[current], put, Tag.required))
    BY DEF ListField, Types
  <2>9. ~effective => messages' = messages
    BY DEF ListField
  <2>10. CASE i = here
    <3>1. OpenTag(m, "message")
      BY <1>d, <2>1, <2>2, <2>4, <2>10
    <3>2. current = type
      BY <2>1, <3>1 DEF CurrentIsOpen
    <3>3. Tag.name = name /\ Tag.required
      BY <1>2, <1>5, <2>3, <2>10
    <3>4. effective /\ put = number
      BY <2>6, <2>7, <3>2, <3>3
    <3> HIDE DEF effective, put, number, name, current, here
    <3> QED  BY <2>8, <3>2, <3>3, <3>4, ZenonT(30) DEF Put, number
  <2>11. CASE i # here
    <3>0. i \in 1..pos /\ i \in DOMAIN file.tags
      BY <1>2, <1>5, <2>11
    <3>1. number \in DOMAIN messages[type] /\ messages[type][number]
      BY <1>5, <2>5, <3>0 DEF Listed
    <3>2. ASSUME effective, current = type, put = number  PROVE FALSE
      <4>1. PICK e \in 1..pos : Defines(e, Tag.name, number)
        BY <3>2 DEF Origins, NumbersDefined
      <4>2. file.tags[e].name = Tag.name /\ file.tags[e].number = number /\ Definition(e)
        BY <4>1 DEF Defines, Definition
      <4>3. e \in DOMAIN file.tags
        BY <1>2
      <4>4. e = d
        BY <1>5, <2>5, <4>2, <4>3 DEF Orderly
      <4>5. PICK o \in 1..pos : OpenTag(o, "message") /\ file.tags[o].msgtype = current
        BY <3>2, <2>7 DEF Origins, InMessage
      <4>6. IsTag(o, "message", TRUE) /\ Inside(here, o)
        BY <1>c, <4>5
      <4>7. o \in DOMAIN file.tags
        BY <1>2
      <4>8. o = n
        BY <2>2, <3>2, <4>5, <4>6, <4>7, OneMessage
      <4>9. file.tags[here].name = file.tags[i].name
        BY <1>2, <1>5, <4>2, <4>4
      <4> HIDE DEF here
      <4> QED  BY <1>2, <2>2, <2>3, <2>11, <3>0, <4>6, <4>8, <4>9 DEF Orderly
    <3>3. effective /\ current # type => messages'[type] = messages[type]
      <4> HIDE DEF effective, put, current
      <4> QED  BY <2>8 DEF Put
    <3>4. effective /\ current = type /\ put # number =>
            number \in DOMAIN messages'[type] /\ messages'[type][number] = messages[type][number]
      <4> DEFINE fields == messages[type]
                 new == Put(fields, put, Tag.required)
      <4> SUFFICES ASSUME effective, current = type, put # number
                   PROVE  number \in DOMAIN messages'[type] /\ messages'[type][number] = messages[type][number]
        OBVIOUS
      <4>1. messages' = Put(messages, type, new)
        BY <2>8
      <4> HIDE DEF effective, put, current, number, new
      <4>2. messages'[type] = new
        BY <4>1 DEF Put
      <4> HIDE DEF fields
      <4>3. number \in DOMAIN new /\ new[number] = fields[number]
        BY <3>1 DEF Put, new, fields
      <4> QED  BY <4>2, <4>3 DEF fields
    <3> HIDE DEF effective, put, current
    <3> QED  BY <2>9, <3>1, <3>2, <3>3, <3>4
  <2> QED  BY <2>10, <2>11
<1> HIDE DEF here, current
<1> QED  BY <1>2, <1>4, <1>5, SameOrder, SameFile DEF Listed

(* Nothing is missing at first.                                            *)
LEMMA InitExact == DictionaryInit => Exact /\ Complete
BY DEF DictionaryInit, Exact, Complete, Entries, FieldsOpen, MessagesSeen, TypesSeen, NumbersKept, CurrentIsOpen, Listed, Nothing

(* Each tag of an orderly file that is scanned keeps the maps complete     *)
(* (dictionary.cpp:51-153).                                                *)
LEMMA NextComplete == Types /\ Origins /\ Exact /\ Complete /\ [DictionaryNext]_dict => Complete'
<1> SUFFICES ASSUME Types, Origins, Exact, Complete, [DictionaryNext]_dict, Orderly'
             PROVE  Entries'
  BY DEF Complete
<1>1. ASSUME NEW f \in Files, Load(f)  PROVE Entries'
  <2>1. pos' = 0
    BY <1>1 DEF Load, Types
  <2> QED  BY <2>1 DEF Entries, NumbersKept, CurrentIsOpen, Listed
<1>o. file' = file => Orderly /\ NumbersKept /\ CurrentIsOpen /\ Listed
  BY SameOrder DEF Complete, Entries
<1>2. ASSUME NEW element, NEW opens, Read(element, opens), element # "field" \/ opens = FALSE,
             element # "message", UNCHANGED <<current_message_type, name_to_tag, messages>>
      PROVE  Entries'
  <2>1. file' = file
    BY <1>2, ReadOne
  <2>2. ~(element = "field" /\ opens = TRUE)
    BY <1>2
  <2>3. ~Definition(pos + 1)
    BY <1>2, <2>2, OnlyFields
  <2>4. NumbersKept'
    BY <1>2, <1>o, <2>1, <2>3, NumbersStay
  <2>5. CurrentIsOpen'
    BY <1>2, <1>o, <2>1, CurrentStays
  <2>6. Listed'
    BY <1>2, <1>o, <2>1, <2>2, ListedStays
  <2> QED  BY <2>4, <2>5, <2>6 DEF Entries
<1>3. ASSUME NEW opens \in BOOLEAN, Section(opens)  PROVE Entries'
  <2>1. UNCHANGED <<current_message_type, name_to_tag, messages>>
        /\ (Read("fields", opens) \/ Read("messages", opens))
    BY <1>3 DEF Section, maps
  <2>2. "fields" # "field" /\ "messages" # "field" /\ "fields" # "message" /\ "messages" # "message"
    OBVIOUS
  <2>3. CASE Read("fields", opens)
    BY <1>2, <2>1, <2>2, <2>3
  <2>4. CASE Read("messages", opens)
    BY <1>2, <2>1, <2>2, <2>4
  <2> QED  BY <2>1, <2>3, <2>4
<1>4. CASE DefineField
  <2>1. Read("field", TRUE) /\ UNCHANGED <<current_message_type, messages>> /\ "field" # "message"
    BY <1>4 DEF DefineField
  <2>2. file' = file
    BY <2>1, ReadOne
  <2>3. Orderly /\ NumbersKept /\ CurrentIsOpen /\ DOMAIN messages' = DOMAIN messages
    BY <1>o, <2>1, <2>2
  <2>4. NumbersKept' /\ Listed'
    BY <1>4, <2>3, DefineFieldNumbers, DefineFieldListed
  <2>5. CurrentIsOpen'
    BY <2>1, <2>3, CurrentStays
  <2> QED  BY <2>4, <2>5 DEF Entries
<1>5. CASE ListField
  <2>1. /\ Read("field", TRUE) /\ UNCHANGED <<current_message_type, name_to_tag>> /\ "field" # "message"
        /\ ~in_fields_section
    BY <1>5 DEF ListField
  <2>2. file' = file
    BY <2>1, ReadOne
  <2>3. Orderly /\ NumbersKept /\ CurrentIsOpen /\ Listed
    BY <1>o, <2>2
  <2>4. DOMAIN messages' = DOMAIN messages
    BY <1>5, ListFieldTypes
  <2>5. ~Definition(pos + 1)
    BY <2>1, OnlyInSection
  <2>6. NumbersKept'
    BY <2>1, <2>3, <2>5, NumbersStay
  <2>7. CurrentIsOpen'
    BY <2>1, <2>3, <2>4, CurrentStays
  <2>8. Listed'
    BY <1>5, <2>3, ListFieldListed
  <2> QED  BY <2>6, <2>7, <2>8 DEF Entries
<1>6. CASE BeginMessage
  <2>1. Read("message", TRUE) /\ UNCHANGED <<name_to_tag>>
    BY <1>6 DEF BeginMessage
  <2>2. file' = file
    BY <2>1, ReadOne
  <2>3. Orderly /\ NumbersKept /\ Listed
    BY <1>o, <2>2
  <2>4. ~("message" = "field" /\ TRUE = TRUE)
    OBVIOUS
  <2>5. ~Definition(pos + 1)
    BY <2>1, <2>4, OnlyFields
  <2>6. NumbersKept'
    BY <2>1, <2>3, <2>5, NumbersStay
  <2>7. CurrentIsOpen' /\ Listed'
    BY <1>6, <2>3, BeginMessageCurrent, BeginMessageListed
  <2> QED  BY <2>6, <2>7 DEF Entries
<1>7. CASE EndMessage
  <2>1. Read("message", FALSE) /\ UNCHANGED <<name_to_tag, messages>>
    BY <1>7 DEF EndMessage, maps
  <2>2. file' = file
    BY <2>1, ReadOne
  <2>3. Orderly /\ NumbersKept /\ CurrentIsOpen /\ Listed /\ DOMAIN messages' = DOMAIN messages
    BY <1>o, <2>1, <2>2
  <2>4. ~("message" = "field" /\ FALSE = TRUE)
    OBVIOUS
  <2>5. ~Definition(pos + 1)
    BY <2>1, <2>4, OnlyFields
  <2>6. NumbersKept'
    BY <2>1, <2>3, <2>5, NumbersStay
  <2>7. CurrentIsOpen'
    BY <2>1, <2>3, CurrentStays
  <2>8. Listed'
    BY <2>1, <2>3, <2>4, ListedStays
  <2> QED  BY <2>6, <2>7, <2>8 DEF Entries
<1>8. CASE OtherTag
  <2>1. /\ Read(Tag.element, Tag.opens) /\ Tag.element # "message"
        /\ (Tag.element = "field" => ~Tag.opens)
        /\ UNCHANGED <<current_message_type, name_to_tag, messages>>
    BY <1>8 DEF OtherTag, maps
  <2>2. Tag.opens \in BOOLEAN
    <3>1. Tag \in XmlTag
      BY <2>1, TagType DEF Read, Types
    <3> QED  BY <3>1 DEF XmlTag
  <2>3. Tag.element # "field" \/ Tag.opens = FALSE
    BY <2>1, <2>2
  <2>4. PICK element, opens : element = Tag.element /\ opens = Tag.opens
    OBVIOUS
  <2> QED  BY <1>2, <2>1, <2>3, <2>4
<1>9. CASE EndOfFile \/ UNCHANGED dict
  <2>1. UNCHANGED <<file, pos, current_message_type, name_to_tag, messages>>
    BY <1>9 DEF EndOfFile, maps, dict, scan
  <2>2. NumbersKept /\ CurrentIsOpen /\ Listed
    BY <1>o, <2>1
  <2>3. NumbersKept'
    BY <2>1, <2>2, SameOrder DEF NumbersKept
  <2>4. CurrentIsOpen'
    BY <2>1, <2>2 DEF CurrentIsOpen, OpenTag, IsTag, Inside
  <2>5. Listed'
    BY <2>1, <2>2, SameOrder, SameFile DEF Listed
  <2> QED  BY <2>3, <2>4, <2>5 DEF Entries
<1> QED  BY <1>1, <1>3, <1>4, <1>5, <1>6, <1>7, <1>8, <1>9 DEF DictionaryNext, parse_xml

(* What has been loaded has been read to its end.                          *)
AtTheEnd == loading = "loaded" => pos = Len(file.tags)

(* The scan ends behind the last tag only (dictionary.cpp:51-153).         *)
LEMMA NextAtTheEnd == AtTheEnd /\ [DictionaryNext]_dict => AtTheEnd'
BY DEF AtTheEnd, DictionaryNext, parse_xml, Load, Section, DefineField, ListField, BeginMessage,
       EndMessage, OtherTag, EndOfFile, Read, dict, scan, maps

-----------------------------------------------------------------------------
(* The state of the path                                                   *)

(* The header of a session has six fields, BeginString first               *)
(* (session.cpp:33-69).                                                    *)
LEMMA HeaderType ==
  ASSUME NEW fields \in Seq(Pairs(Text)), fields # <<>>, NEW seq \in Nat
  PROVE  /\ prepare_header(fields, seq) \in Seq(Pairs(Text))
         /\ Len(prepare_header(fields, seq)) = 6
         /\ prepare_header(fields, seq)[1] = [tag |-> 8, value |-> BeginString]
<1> DEFINE type == IF fields[1].tag = 35 THEN fields[1].value ELSE <<Digit(0)>>
           number == ToChars(seq)
           P == Pairs(Text)
<1>1. Digits \subseteq Text /\ Digit(0) \in Text
  BY TextFacts DEF Alphabet, CharsOfInt, Digits
<1>2. type \in Seq(Text)
  <2>1. fields[1] \in Pairs(Text)
    BY EmptySeq
  <2>2. fields[1].value \in Seq(Text)
    BY <2>1 DEF Pairs
  <2> HIDE DEF Text, Digit
  <2>3. <<Digit(0)>> \in Seq(Text)
    BY <1>1
  <2> QED  BY <2>2, <2>3
<1>3. number \in Seq(Text)
  <2> HIDE DEF Digits, Text
  <2>1. number \in Seq(Digits)
    BY ToCharsOfNat
  <2> QED  BY <1>1, <2>1, SeqMonotonic
<1>4. /\ BeginString \in Seq(Text) /\ SenderCompID \in Seq(Text) /\ TargetCompID \in Seq(Text)
      /\ SendingTime \in Seq(Text)
  BY PathAssumption DEF Text
<1>5. {8, 35, 49, 56, 34, 52} \subseteq Ints
  BY CodecAssumption DEF Ints
<1>6. prepare_header(fields, seq) =
        <<[tag |-> 8, value |-> BeginString], [tag |-> 35, value |-> type],
          [tag |-> 49, value |-> SenderCompID], [tag |-> 56, value |-> TargetCompID],
          [tag |-> 34, value |-> number], [tag |-> 52, value |-> SendingTime]>>
  BY DEF prepare_header
<1> HIDE DEF type, number, Text
<1>7. ASSUME NEW t \in Ints, NEW v \in Seq(Text)  PROVE [tag |-> t, value |-> v] \in P
  BY DEF Pairs
<1>8. /\ [tag |-> 8, value |-> BeginString] \in P /\ [tag |-> 35, value |-> type] \in P
      /\ [tag |-> 49, value |-> SenderCompID] \in P /\ [tag |-> 56, value |-> TargetCompID] \in P
      /\ [tag |-> 34, value |-> number] \in P /\ [tag |-> 52, value |-> SendingTime] \in P
  BY <1>2, <1>3, <1>4, <1>5, <1>7
<1> HIDE DEF P
<1>9. ASSUME NEW a \in P, NEW b \in P, NEW c \in P, NEW d \in P, NEW e \in P, NEW f \in P
      PROVE  <<a, b, c, d, e, f>> \in Seq(P) /\ Len(<<a, b, c, d, e, f>>) = 6 /\ <<a, b, c, d, e, f>>[1] = a
  OBVIOUS
<1>10. prepare_header(fields, seq) \in Seq(P) /\ Len(prepare_header(fields, seq)) = 6
       /\ prepare_header(fields, seq)[1] = [tag |-> 8, value |-> BeginString]
  BY <1>6, <1>8, <1>9
<1> QED  BY <1>10 DEF P

(* The message of a step has the header in front (runner.cpp:234-260).     *)
LEMMA ComposedType ==
  ASSUME NEW fields \in Seq(Pairs(Text)), fields # <<>>, NEW seq \in Nat
  PROVE  /\ Composed(fields, seq) \in Seq(Pairs(Text))
         /\ Composed(fields, seq) # <<>>
         /\ Composed(fields, seq)[1] = [tag |-> 8, value |-> BeginString]
         /\ Composed(fields, seq)[1].tag = 8
<1> DEFINE h == prepare_header(fields, seq)
           w == Without(fields, HeaderTags)
<1>1. h \in Seq(Pairs(Text)) /\ Len(h) = 6 /\ h[1] = [tag |-> 8, value |-> BeginString]
  BY HeaderType
<1>2. w \in Seq(Pairs(Text))
  BY WithoutType
<1> HIDE DEF h, w
<1>3. h \o w \in Seq(Pairs(Text)) /\ (h \o w)[1] = h[1] /\ h \o w # <<>>
  <2> DEFINE P == Pairs(Text)
  <2> HIDE DEF P
  <2>1. h \in Seq(P) /\ w \in Seq(P) /\ Len(h) = 6
    BY <1>1, <1>2 DEF P
  <2>2. h \o w \in Seq(P) /\ Len(h \o w) = 6 + Len(w) /\ Len(w) \in Nat
    BY <2>1, ConcatType
  <2>3. (h \o w)[1] = h[1]
    <3>1. \A i \in 1..Len(h) : (h \o w)[i] = h[i]
      BY <2>1, ConcatItems, ZenonT(30)
    <3>2. 1 \in 1..Len(h)
      BY <2>1
    <3> DEFINE c == h \o w
    <3>3. \A i \in 1..Len(h) : c[i] = h[i]
      BY <3>1
    <3> HIDE DEF c
    <3>4. c[1] = h[1]
      BY <3>2, <3>3
    <3> QED  BY <3>4 DEF c
  <2>4. h \o w # <<>>
    BY <2>2
  <2> QED  BY <2>2, <2>3, <2>4 DEF P
<1>4. h \o w # <<>>
  BY <1>3
<1>5. Composed(fields, seq) = h \o w
  BY DEF Composed, h, w
<1> QED  BY <1>1, <1>3, <1>4, <1>5

(* What serialize_message makes of a step's message.                       *)
Message(fields, seq) == serialize_message(Composed(fields, seq), Capacity, SOH)

(* The message of a step, serialized: it fails only for its size           *)
(* (runner.cpp:259-264).                                                   *)
LEMMA MessageIs ==
  ASSUME NEW fields \in Seq(Pairs(Text)), fields # <<>>, NEW seq \in Nat
  PROVE  /\ (Message(fields, seq).error = "Ok" <=> Len(Whole(Composed(fields, seq), SOH)) <= Capacity)
         /\ Message(fields, seq).error = "Ok" =>
              /\ Message(fields, seq).bytes = Whole(Composed(fields, seq), SOH)
              /\ Message(fields, seq).bytes \in Seq(Text)
              /\ Len(Message(fields, seq).bytes) <= Capacity
<1> DEFINE c == Composed(fields, seq)
           w == Whole(c, SOH)
<1>1. c \in Seq(Pairs(Text)) /\ c # <<>> /\ c[1].tag = 8
  BY ComposedType
<1>2. Capacity \in Int
  BY PathAssumption
<1>3. Text \subseteq Int /\ Alphabet(Text, SOH)
  BY TextFacts
<1> HIDE DEF c, Text
<1>4. w \in Seq(Text)
  BY <1>1, <1>3, PartsType
<1>5. serialize_message(c, Capacity, SOH)
        = IF Len(w) <= Capacity THEN [error |-> "Ok", bytes |-> w]
          ELSE [error |-> "no_buffer_space", bytes |-> <<>>]
  BY <1>1, <1>2, <1>3, SerializeIs
<1>6. Message(fields, seq) = serialize_message(c, Capacity, SOH)
  BY DEF Message, c
<1> HIDE DEF w
<1>7. CASE Len(w) <= Capacity
  <2>1. Message(fields, seq) = [error |-> "Ok", bytes |-> w]
    BY <1>5, <1>6, <1>7
  <2> QED  BY <1>4, <1>7, <2>1 DEF w, c
<1>8. CASE ~(Len(w) <= Capacity)
  <2>1. Message(fields, seq) = [error |-> "no_buffer_space", bytes |-> <<>>]
    BY <1>5, <1>6, <1>8
  <2>2. Message(fields, seq).error # "Ok"
    BY <2>1
  <2> QED  BY <1>8, <2>2 DEF w, c
<1> QED  BY <1>7, <1>8

(* The phases of the path, and what parse answers or the reader starts     *)
(* from.                                                                   *)
Phases == {"script", "step", "wire", "read", "validate", "done"}

(* What is read is what the last SEND sent, or one byte of it is another.  *)
Damaged ==
  wire # sent =>
    \E p \in DOMAIN sent : \E b \in DamagedBytes \ {sent[p]} : wire = [sent EXCEPT ![p] = b]
Answers == ParseErrors \cup {"Ok", "none"}

(* The state of the path but for the dictionary.                           *)
Course ==
  /\ phase \in Phases /\ reader \in {"none", "runner", "proxy", "cli"}
  /\ script \in Seq(Byte) /\ steps \in Seq(StepSet(Byte))
  /\ step \in 0..(Len(steps) + 1) /\ next_out_seq \in 1..(Len(steps) + 1)
  /\ phase = "script" => steps = <<>> /\ step = 0 /\ next_out_seq = 1
  /\ phase = "step" => step # 0 /\ next_out_seq <= step
  /\ phase \in {"wire", "read", "validate"} =>
       /\ step \in DOMAIN steps /\ steps[step].type = "Send" /\ steps[step].fields # <<>>
       /\ next_out_seq \in 2..(step + 1)
       /\ Message(steps[step].fields, next_out_seq - 1).error = "Ok"
       /\ sent = Message(steps[step].fields, next_out_seq - 1).bytes
  /\ sent \in Seq(Text) /\ wire \in Seq(Byte)
  /\ Len(wire) = Len(sent) /\ Len(sent) <= Capacity
  /\ Damaged
  /\ received.error \in Answers /\ received.fields \in Seq(ReadFields)
  /\ Len(received.fields) <= MAX_FIELDS
  /\ phase = "validate" => reader = "cli"
  /\ phase = "read" =>
       \/ reader = "runner" /\ received = parse(wire, SOH)
       \/ reader = "proxy" /\ received = parse(wire, Separator)
       \/ reader = "cli" /\ \E end \in {<<>>, <<LineFeed>>} : received = parse(wire \o end, SOH)

(* Whatever happens to a message, the dictionary only takes its own steps. *)
LEMMA DictionarySteps == [Next]_vars => [DictionaryNext]_dict
<1> SUFFICES ASSUME [Next]_vars  PROVE [DictionaryNext]_dict
  OBVIOUS
<1>1. CASE CliOpensDictionary
  BY <1>1 DEF CliOpensDictionary, DictionaryNext
<1>2. CASE CliLoadsDictionary
  BY <1>2 DEF CliLoadsDictionary, DictionaryNext
<1>3. CASE LoadScript \/ Send \/ SendNothing \/ OtherStep \/ EndOfScript \/ Damage
  BY <1>3 DEF LoadScript, Send, SendNothing, OtherStep, EndOfScript, Damage
<1>4. CASE RunnerReads \/ ProxyReads \/ CliReads
  BY <1>4 DEF RunnerReads, ProxyReads, CliReads, ReadAs
<1>5. CASE NotParsed \/ RunnerMatches \/ ProxyAnalyzes \/ CliPasses \/ CliValidates
  BY <1>5 DEF NotParsed, RunnerMatches, ProxyAnalyzes, CliPasses, CliValidates
<1>6. CASE UNCHANGED vars
  BY <1>6 DEF vars
<1> QED  BY <1>1, <1>2, <1>3, <1>4, <1>5, <1>6 DEF Next

(* Course holds at first.                                                  *)
LEMMA InitCourse == Init => Course
<1> SUFFICES ASSUME Init  PROVE Course
  OBVIOUS
<1>1. script \in Seq(Byte) /\ Capacity \in Nat
  <2>1. MaxInt \in Nat
    BY CodecAssumption
  <2> QED  BY <2>1, PathAssumption DEF Init
<1>2. <<>> \in Seq(StepSet(Byte)) /\ <<>> \in Seq(Text) /\ <<>> \in Seq(Byte) /\ <<>> \in Seq(ReadFields)
      /\ Len(<<>>) = 0
  OBVIOUS
<1>3. received.error \in Answers /\ received.fields = <<>>
  BY DEF Init, Error, Answers
<1>4. MAX_FIELDS \in Nat
  BY CodecAssumption
<1>5. /\ phase = "script" /\ steps = <<>> /\ step = 0 /\ next_out_seq = 1
      /\ sent = <<>> /\ wire = <<>> /\ reader = "none"
  BY DEF Init
<1>6. step \in 0..(Len(steps) + 1) /\ next_out_seq \in 1..(Len(steps) + 1)
  BY <1>2, <1>5
<1> QED  BY <1>1, <1>2, <1>3, <1>4, <1>5, <1>6 DEF Course, Phases, Damaged

(* The step that is on.                                                    *)
LEMMA StepType ==
  ASSUME Course, step \in DOMAIN steps
  PROVE  /\ steps[step].type \in DOMAIN Keyword /\ steps[step].fields \in Seq(Pairs(Text))
         /\ step \in 1..Len(steps) /\ Len(steps) \in Nat
<1>1. steps \in Seq(StepSet(Byte))
  BY DEF Course
<1>2. steps[step] \in StepSet(Byte) /\ step \in 1..Len(steps) /\ Len(steps) \in Nat
  BY <1>1
<1> QED  BY <1>2 DEF StepSet, Text

(* SEND keeps Course (runner.cpp:234-272).                                 *)
LEMMA SendCourse == ASSUME Course, Send  PROVE Course'
<1> DEFINE fields == steps[step].fields
           m == Message(fields, next_out_seq)
<1>0. phase = "step" /\ step <= Len(steps) /\ steps[step].type = "Send" /\ fields # <<>>
      /\ UNCHANGED <<script, steps, step, reader, received>>
  BY DEF Send, AtSend, reading
<1>1. step \in DOMAIN steps /\ step \in 1..Len(steps) /\ next_out_seq <= step /\ next_out_seq \in Nat \ {0}
  <2>1. Len(steps) \in Nat /\ DOMAIN steps = 1..Len(steps)
    BY DEF Course
  <2> QED  BY <1>0, <2>1 DEF Course
<1>2. fields \in Seq(Pairs(Text))
  BY <1>1, StepType
<1>3. m.error = "Ok" =>
        m.bytes \in Seq(Text) /\ Len(m.bytes) <= Capacity
  <2> HIDE DEF fields
  <2>1. next_out_seq \in Nat /\ fields # <<>>
    BY <1>0, <1>1
  <2> QED  BY <1>2, <2>1, MessageIs
<1>4. m = serialize_message(Compose(fields), Capacity, SOH)
  BY DEF Message, Compose
<1> HIDE DEF m
<1>5. CASE m.error = "Ok"
  <2>1. sent' = m.bytes /\ wire' = m.bytes /\ next_out_seq' = next_out_seq + 1 /\ phase' = "wire"
    BY <1>4, <1>5 DEF Send
  <2>2. next_out_seq' \in 2..(step + 1) /\ next_out_seq' - 1 = next_out_seq /\ step \in Nat
        /\ next_out_seq' \in 1..(Len(steps) + 1)
    <3>1. Len(steps) \in Nat
      BY DEF Course
    <3> QED  BY <1>1, <2>1, <3>1
  <2>3. m.bytes \in Seq(Byte)
    BY <1>3, <1>5, TextFacts, SeqMonotonic
  <2>4. m = Message(steps'[step'].fields, next_out_seq' - 1)
    BY <1>0, <2>2 DEF m
  <2>5. steps'[step'].fields # <<>> /\ steps'[step'].type = "Send" /\ step' \in DOMAIN steps'
    BY <1>0, <1>1
  <2>6. next_out_seq' \in 2..(step' + 1)
    BY <1>0, <2>2
  <2>7. Damaged'
    BY <2>1 DEF Damaged
  <2>8. step' \in 0..(Len(steps') + 1) /\ next_out_seq' \in 1..(Len(steps') + 1)
    BY <1>0, <2>2 DEF Course
  <2> HIDE DEF fields
  <2> QED  BY <1>0, <1>3, <1>5, <2>1, <2>3, <2>4, <2>5, <2>6, <2>7, <2>8 DEF Course, Phases
<1>6. CASE m.error # "Ok"
  <2>1. phase' = "done" /\ UNCHANGED <<sent, wire, next_out_seq>>
    BY <1>4, <1>6 DEF Send, End
  <2> HIDE DEF fields
  <2> QED  BY <1>0, <2>1 DEF Course, Phases, Damaged
<1> QED  BY <1>5, <1>6

(* Reading a script keeps Course (scenario.cpp:84-166).                    *)
LEMMA LoadScriptCourse == ASSUME Course, LoadScript  PROVE Course'
<1>0. /\ phase = "script" /\ steps' = parse_dsl(script).steps
      /\ UNCHANGED <<script, next_out_seq, sent, wire, reader, received>>
      /\ next_out_seq = 1 /\ step = 0
  BY DEF LoadScript, reading, Course
<1>1. steps' \in Seq(StepSet(Byte))
  <2>1. script \in Seq(Byte)
    BY DEF Course
  <2> QED  BY <1>0, <2>1, TextFacts, ParseDslType
<1>2. \/ phase' = "step" /\ step' = 1
      \/ phase' = "done" /\ step' = step
  BY DEF LoadScript, End
<1>3. Len(steps') \in Nat
  BY <1>1
<1>4. step' \in 0..(Len(steps') + 1) /\ next_out_seq' \in 1..(Len(steps') + 1)
  BY <1>0, <1>2, <1>3
<1>5. phase' = "step" => step' # 0 /\ next_out_seq' <= step'
  BY <1>0, <1>2
<1>6. Damaged'
  BY <1>0 DEF Course, Damaged
<1> QED  BY <1>0, <1>1, <1>2, <1>4, <1>5, <1>6 DEF Course, Phases

(* Damage on the wire keeps Course.                                        *)
LEMMA DamageCourse == ASSUME Course, Damage  PROVE Course'
<1>0. PICK p \in DOMAIN sent : \E b \in DamagedBytes \ {sent[p]} : wire' = [sent EXCEPT ![p] = b]
  BY DEF Damage
<1>1. PICK b \in DamagedBytes \ {sent[p]} : wire' = [sent EXCEPT ![p] = b]
  BY <1>0
<1>2. phase = "wire" /\ UNCHANGED <<phase, script, steps, step, next_out_seq, sent, reader, received>>
  BY DEF Damage, run, reading
<1>3. wire' \in Seq(Byte) /\ Len(wire') = Len(sent)
  <2>1. sent \in Seq(Byte)
    BY TextFacts, SeqMonotonic DEF Course
  <2>2. b \in Byte
    BY PathAssumption
  <2> HIDE DEF Byte
  <2> QED  BY <1>1, <2>1, <2>2
<1>4. Damaged'
  BY <1>1, <1>2 DEF Damaged
<1> QED  BY <1>2, <1>3, <1>4 DEF Course, Phases

(* Whoever reads a message keeps Course (runner.cpp:296-301,               *)
(* proxy.cpp:224, main.cpp:31-91).                                         *)
LEMMA ReadAsCourse ==
  ASSUME Course, NEW who \in {"runner", "proxy", "cli"}, NEW text \in Seq(Int), NEW separator, ReadAs(who, text, separator),
         \/ who = "runner" /\ text = wire /\ separator = SOH
         \/ who = "proxy" /\ text = wire /\ separator = Separator
         \/ who = "cli" /\ separator = SOH /\ \E end \in {<<>>, <<LineFeed>>} : text = wire \o end
  PROVE  Course'
<1>1. phase = "wire" /\ phase' = "read" /\ reader' = who /\ received' = parse(text, separator)
      /\ UNCHANGED <<script, steps, step, next_out_seq, sent, wire>>
  BY DEF ReadAs, run
<1>2. received'.error \in Answers /\ received'.fields \in Seq(ReadFields) /\ Len(received'.fields) <= MAX_FIELDS
  BY <1>1, ParseType DEF Answers
<1>3. Separator' = Separator
  BY <1>1 DEF Separator
<1>4. \/ reader' = "runner" /\ received' = parse(wire', SOH)
      \/ reader' = "proxy" /\ received' = parse(wire', Separator')
      \/ reader' = "cli" /\ \E end \in {<<>>, <<LineFeed>>} : received' = parse(wire' \o end, SOH)
  BY <1>1, <1>3
<1>5. Damaged'
  BY <1>1 DEF Course, Damaged
<1> QED  BY <1>1, <1>2, <1>4, <1>5 DEF Course, Phases

(* The wire, with or without the line feed that ends a file, is a text.    *)
LEMMA WireWithEnd ==
  ASSUME Course, NEW end \in {<<>>, <<LineFeed>>}
  PROVE  wire \in Seq(Int) /\ wire \o end \in Seq(Int) /\ end \in Seq(Int)
<1>1. wire \in Seq(Int)
  BY TextFacts, SeqMonotonic DEF Course
<1>2. <<>> \in Seq(Int) /\ <<10>> \in Seq(Int)
  OBVIOUS
<1>3. end \in Seq(Int)
  BY <1>2 DEF LineFeed
<1> QED  BY <1>1, <1>3, ConcatType

(* Every step keeps Course.                                                *)
LEMMA NextCourse == Course /\ [Next]_vars => Course'
<1> SUFFICES ASSUME Course, [Next]_vars  PROVE Course'
  OBVIOUS
<1>0. Len(steps) \in Nat /\ step \in Int
  BY DEF Course
<1>1. CASE LoadScript
  BY <1>1, LoadScriptCourse
<1>2. CASE Send
  BY <1>2, SendCourse
<1>3. CASE SendNothing \/ EndOfScript
  <2>1. phase' = "done" /\ UNCHANGED <<script, steps, step, next_out_seq, sent, wire, reader, received>>
    BY <1>3 DEF SendNothing, EndOfScript, End, run, reading
  <2> QED  BY <2>1 DEF Course, Phases, Damaged
<1>4. CASE OtherStep
  <2>1. /\ phase = "step" /\ step <= Len(steps) /\ step' = step + 1
        /\ UNCHANGED <<phase, script, steps, next_out_seq, sent, wire, reader, received>>
    BY <1>4 DEF OtherStep, reading
  <2>2. step' \in 0..(Len(steps) + 1) /\ step' # 0 /\ next_out_seq <= step'
    BY <1>0, <2>1 DEF Course
  <2>3. Damaged'
    BY <2>1 DEF Course, Damaged
  <2> QED  BY <2>1, <2>2, <2>3 DEF Course, Phases
<1>5. CASE Damage
  BY <1>5, DamageCourse
<1>6. CASE RunnerReads
  <2>1. wire \in Seq(Int)
    BY WireWithEnd
  <2> QED  BY <1>6, <2>1, ReadAsCourse DEF RunnerReads
<1>7. CASE ProxyReads
  <2>1. wire \in Seq(Int)
    BY WireWithEnd
  <2> QED  BY <1>7, <2>1, ReadAsCourse DEF ProxyReads
<1>8. CASE CliReads
  <2>1. PICK end \in {<<>>, <<LineFeed>>} : ReadAs("cli", wire \o end, SOH)
    BY <1>8 DEF CliReads
  <2>2. wire \o end \in Seq(Int)
    BY WireWithEnd
  <2> DEFINE text == wire \o end
  <2>3. \E e \in {<<>>, <<LineFeed>>} : text = wire \o e
    OBVIOUS
  <2> HIDE DEF text
  <2> QED  BY <2>1, <2>2, <2>3, ReadAsCourse DEF text
<1>9. CASE NotParsed \/ ProxyAnalyzes \/ CliPasses
  <2>1. phase' = "done" /\ UNCHANGED <<script, steps, step, next_out_seq, sent, wire, reader, received>>
    BY <1>9 DEF NotParsed, ProxyAnalyzes, CliPasses, End, run, reading
  <2> QED  BY <2>1 DEF Course, Phases, Damaged
<1>10. CASE RunnerMatches
  <2>1. /\ phase = "read" /\ UNCHANGED <<script, steps, next_out_seq, sent, wire, reader, received>>
        /\ \/ phase' = "step" /\ step' = step + 1
           \/ phase' = "done" /\ step' = step
    BY <1>10 DEF RunnerMatches, ReadBy, End, reading
  <2>2. step \in 1..Len(steps) /\ next_out_seq <= step + 1
    BY <1>0, <2>1 DEF Course
  <2>3. step' \in 0..(Len(steps) + 1) /\ (phase' = "step" => step' # 0 /\ next_out_seq <= step')
    BY <1>0, <2>1, <2>2
  <2>4. Damaged'
    BY <2>1 DEF Course, Damaged
  <2> QED  BY <2>1, <2>3, <2>4 DEF Course, Phases
<1>11. CASE CliOpensDictionary
  <2>1. /\ phase = "read" /\ phase' = "validate" /\ reader = "cli"
        /\ UNCHANGED <<script, steps, step, next_out_seq, sent, wire, reader, received>>
    BY <1>11 DEF CliOpensDictionary, ReadBy, run, reading
  <2> QED  BY <2>1 DEF Course, Phases, Damaged
<1>12. CASE CliLoadsDictionary
  <2>1. UNCHANGED <<phase, script, steps, step, next_out_seq, sent, wire, reader, received>> /\ phase = "validate"
    BY <1>12 DEF CliLoadsDictionary, run, reading
  <2> QED  BY <2>1 DEF Course, Phases, Damaged
<1>13. CASE CliValidates
  <2>1. phase' = "done" /\ UNCHANGED <<script, steps, step, next_out_seq, sent, wire, reader, received>>
    BY <1>13 DEF CliValidates, End, run, reading
  <2> QED  BY <2>1 DEF Course, Phases, Damaged
<1>14. CASE UNCHANGED vars
  <2>1. UNCHANGED <<phase, script, steps, step, next_out_seq, sent, wire, reader, received>>
    BY <1>14 DEF vars, run, reading
  <2> QED  BY <2>1 DEF Course, Phases, Damaged, Separator
<1> QED  BY <1>1, <1>2, <1>3, <1>4, <1>5, <1>6, <1>7, <1>8, <1>9, <1>10, <1>11, <1>12, <1>13, <1>14 DEF Next

(* So Course always holds, and the dictionary's types with it.             *)
LEMMA CourseAlways == Spec => [](Course /\ Types)
<1>1. Init => DictionaryInit
  BY DEF Init
<1> QED  BY <1>1, InitCourse, NextCourse, DictionarySteps, InitTypes, NextTypes, PTL DEF Spec

(* The state of the path stays within its types, whatever is read and      *)
(* however it was damaged: steps have int tags and values without a '|',   *)
(* parse answers with one of its errors or with at most MAX_FIELDS         *)
(* fields. (parser.cpp:26-152, scenario.cpp:84-166)                        *)
THEOREM TypeCorrect == Spec => []TypeOK
<1>1. Course /\ Types => TypeOK
  <2> SUFFICES ASSUME Course, Types  PROVE TypeOK
    OBVIOUS
  <2>1. \A i \in DOMAIN steps : steps[i].type \in DOMAIN Keyword
    <3> TAKE i \in DOMAIN steps
    <3>1. steps[i] \in StepSet(Byte)
      BY DEF Course
    <3> QED  BY <3>1 DEF StepSet
  <2> QED  BY <2>1 DEF Course, Types, TypeOK, Phases
<1> QED  BY <1>1, CourseAlways, PTL

-----------------------------------------------------------------------------
(* The size of a message                                                   *)

(* What follows the first field of a message, as it is written.            *)
Rest(fields, seq) == Without(Tail(Composed(fields, seq)), Generated)

(* BeginString is only the first field of a composed message               *)
(* (runner.cpp:244-257).                                                   *)
LEMMA NoOtherBegin ==
  ASSUME NEW fields \in Seq(Pairs(Text)), fields # <<>>, NEW seq \in Nat,
         NEW i \in DOMAIN Composed(fields, seq), i # 1
  PROVE  Composed(fields, seq)[i].tag # 8
<1> DEFINE h == prepare_header(fields, seq)
           w == Without(fields, HeaderTags)
           c == h \o w
<1>1. c = Composed(fields, seq)
  BY DEF Composed
<1>2. h \in Seq(Pairs(Text)) /\ Len(h) = 6
  BY HeaderType
<1>3. w \in Seq(Pairs(Text)) /\ \A k \in 1..Len(w) : w[k].tag \notin HeaderTags
  BY WithoutType, WithoutTags
<1>4. /\ h[2].tag = 35 /\ h[3].tag = 49 /\ h[4].tag = 56 /\ h[5].tag = 34 /\ h[6].tag = 52
  BY DEF prepare_header
<1> DEFINE P == Pairs(Text)
<1> HIDE DEF h, w, P
<1>5. c \in Seq(P) /\ Len(c) = 6 + Len(w) /\ Len(w) \in Nat
  <2>1. h \in Seq(P) /\ w \in Seq(P)
    BY <1>2, <1>3 DEF P
  <2> QED  BY <1>2, <2>1, ConcatType
<1>6. (\A k \in 1..Len(h) : c[k] = h[k]) /\ (\A k \in 1..Len(w) : c[Len(h) + k] = w[k])
  <2>1. h \in Seq(P) /\ w \in Seq(P)
    BY <1>2, <1>3 DEF P
  <2> QED  BY <2>1, ConcatItems
<1> HIDE DEF c
<1>7. i \in 1..(6 + Len(w))
  <2>1. DOMAIN c = 1..Len(c)
    BY <1>5
  <2>2. i \in DOMAIN c
    BY <1>1
  <2> QED  BY <1>5, <2>1, <2>2
<1>8. CASE i <= 6
  <2>1. i \in {2, 3, 4, 5, 6} /\ i \in 1..Len(h)
    BY <1>2, <1>5, <1>7, <1>8
  <2>2. h[i].tag # 8
    BY <1>4, <2>1
  <2> QED  BY <1>1, <1>6, <2>1, <2>2
<1>9. CASE i > 6
  <2>1. i - 6 \in 1..Len(w) /\ 6 + (i - 6) = i
    BY <1>5, <1>7, <1>9
  <2>2. c[i] = w[i - 6]
    <3>1. c[Len(h) + (i - 6)] = w[i - 6]
      BY <1>6, <2>1
    <3> QED  BY <1>2, <2>1, <3>1
  <2>3. w[i - 6].tag \notin HeaderTags
    BY <1>3, <2>1
  <2> QED  BY <1>1, <2>2, <2>3 DEF HeaderTags
<1> QED  BY <1>7, <1>8, <1>9

(* Without length and checksum, the message is its first field and the rest.*)
LEMMA ComposedParts ==
  ASSUME NEW fields \in Seq(Pairs(Text)), fields # <<>>, NEW seq \in Nat
  PROVE  /\ Without(Composed(fields, seq), {9, 10}) = <<Composed(fields, seq)[1]>> \o Rest(fields, seq)
         /\ Rest(fields, seq) \in Seq(Pairs(Text)) /\ Composed(fields, seq)[1] \in Pairs(Text)
         /\ Tail(Composed(fields, seq)) \in Seq(Pairs(Text))
<1> DEFINE c == Composed(fields, seq)
           o == <<c[1]>>
           t == Tail(c)
           P == Pairs(Text)
<1>1. c \in Seq(P) /\ c # <<>> /\ c[1].tag = 8
  BY ComposedType
<1>2. c = o \o t /\ c[1] \in P /\ t \in Seq(P) /\ \A i \in DOMAIN t : i + 1 \in DOMAIN c /\ t[i] = c[i + 1]
  <2> HIDE DEF P, c
  <2> QED  BY <1>1, HeadAndTail
<1>3. \A i \in DOMAIN t : t[i].tag # 8
  <2> TAKE i \in DOMAIN t
  <2>1. i + 1 \in DOMAIN c /\ t[i] = c[i + 1] /\ i \in Nat \ {0}
    BY <1>2
  <2>2. i + 1 # 1
    BY <2>1
  <2>3. c[i + 1].tag # 8
    BY <2>1, <2>2, NoOtherBegin
  <2> QED  BY <2>1, <2>3
<1>4. \A i \in DOMAIN t : t[i].tag \in {9, 10} <=> t[i].tag \in Generated
  BY <1>3 DEF Generated
<1> HIDE DEF c, P
<1>5. o \in Seq(P)
  BY <1>2
<1>6. Without(o, {9, 10}) = o
  <2>1. c[1].tag \notin {9, 10}
    BY <1>1
  <2> QED  BY <1>2, <2>1, WithoutOne
<1> HIDE DEF o, t
<1>7. Without(t, {9, 10}) = Without(t, Generated)
  BY <1>4, WithoutSame
<1>8. Without(o \o t, {9, 10}) = Without(o, {9, 10}) \o Without(t, {9, 10})
  BY <1>2, <1>5, WithoutConcat
<1>9. Without(t, Generated) \in Seq(P)
  BY <1>2, WithoutType
<1>10. Without(t, Generated) = Rest(fields, seq)
  BY DEF Rest, t, c
<1>11. Without(c, {9, 10}) = o \o Rest(fields, seq)
  BY <1>2, <1>6, <1>7, <1>8, <1>10
<1> QED  BY <1>2, <1>9, <1>10, <1>11 DEF P, o, t, c

(* The bytes of a message are those of its fields.                         *)
LEMMA WholeSize ==
  ASSUME NEW fields \in Seq(Pairs(Text)), fields # <<>>, NEW seq \in Nat
  PROVE  Len(Whole(Composed(fields, seq), SOH)) = Size(Without(Composed(fields, seq), {9, 10}))
<1> DEFINE c == Composed(fields, seq)
           P == Pairs(Text)
           x == c[1]
           rest == Rest(fields, seq)
           b == Begun(c, SOH)
           n == Sized(c, SOH)
           body == Body(c, SOH)
           tr == Trailer(c, SOH)
           p == Summed(c, SOH)
           l == Len(body)
           w == Without(c, {9, 10})
<1>0. Text \subseteq Int /\ Alphabet(Text, SOH)
  BY TextFacts
<1>1. c \in Seq(P) /\ c # <<>> /\ x.tag = 8 /\ x \in P /\ rest \in Seq(P) /\ w = <<x>> \o rest
  BY ComposedType, ComposedParts
<1>2. body = WrittenAll(rest, SOH)
  BY DEF Body, Rest
<1> HIDE DEF c, rest, w
<1>3. /\ b \in Seq(Text) /\ n \in Seq(Text) /\ body \in Seq(Text) /\ p \in Seq(Text) /\ tr \in Seq(Text)
      /\ Len(b) = Len(x.value) + 3 /\ Len(n) = Len(ToChars(l)) + 3 /\ Len(tr) = 7
      /\ x.value \in Seq(Text)
  <2> HIDE DEF Text
  <2>1. c \in Seq(Pairs(Text)) /\ c # <<>>
    BY <1>1 DEF P
  <2>2. Begun(c, SOH) \in Seq(Text) /\ Body(c, SOH) \in Seq(Text) /\ c[1].value \in Seq(Text)
    BY <1>0, <2>1, PartsType
  <2>3. Sized(c, SOH) \in Seq(Text) /\ Summed(c, SOH) \in Seq(Text) /\ Trailer(c, SOH) \in Seq(Text)
    BY <1>0, <2>1, PartsType
  <2>4. Len(Begun(c, SOH)) = Len(c[1].value) + 3
    <3> DEFINE v == c[1].value
    <3>1. v \in Seq(Text)
      BY <2>2
    <3>2. Begun(c, SOH) = Written(8, v, SOH)
      BY DEF Begun
    <3> HIDE DEF v
    <3>3. Len(Written(8, v, SOH)) = Len(v) + 3
      BY <1>0, <3>1, WrittenSmall
    <3>4. Len(Begun(c, SOH)) = Len(v) + 3
      BY <3>2, <3>3
    <3> QED  BY <3>4 DEF v
  <2>6. Len(Trailer(c, SOH)) = 7
    BY <1>0, <2>1, PartsType, Zenon
  <2>5. Len(Sized(c, SOH)) = Len(ToChars(Len(Body(c, SOH)))) + 3
    BY <1>0, <2>1, PartsType
  <2> QED  BY <2>2, <2>3, <2>4, <2>5, <2>6
<1>4. l = Total(EachOf(rest))
  <2> HIDE DEF Text
  <2> QED  BY <1>0, <1>1, <1>2, TotalOfWritten DEF P
<1>5. Tail(w) = rest /\ w[1] = x
  <2> HIDE DEF P, x
  <2> QED  BY <1>1, TailOfOne
<1>6. Size(w) = Each(x) + Len(ToChars(l)) + 3 + l + 7
  <2>1. Size(w) = Each(w[1]) + Len(ToChars(Total(EachOf(Tail(w))))) + 3 + Total(EachOf(Tail(w))) + 7
    BY DEF Size, Each, EachOf
  <2> HIDE DEF x, body
  <2> QED  BY <1>4, <1>5, <2>1
<1>7. Each(x) = Len(x.value) + 3
  <2>1. Len(ToChars(8)) = 1 /\ Len(x.value) \in Nat
    BY <1>3, SmallTags
  <2>2. Each(x) = Len(ToChars(8)) + Len(x.value) + 2
    BY <1>1 DEF Each
  <2> DEFINE v == Len(x.value)
  <2> HIDE DEF v
  <2>3. v \in Nat
    BY <2>1 DEF v
  <2>4. 1 + v + 2 = v + 3
    BY <2>3
  <2> QED  BY <2>1, <2>2, <2>4 DEF v
<1> HIDE DEF b, n, body, tr, p, l, x, Text
<1>8. Len(Whole(c, SOH)) = Len(b) + Len(n) + Len(body) + 7
  <2> DEFINE bn == b \o n
  <2>1. bn \in Seq(Text) /\ Len(bn) = Len(b) + Len(n)
    BY <1>3, ConcatType
  <2>2. p = bn \o body
    BY DEF p, Summed, b, n, body
  <2> HIDE DEF bn
  <2>3. Len(p) = Len(b) + Len(n) + Len(body)
    <3>1. Len(p) = Len(bn) + Len(body)
      BY <1>3, <2>1, <2>2, ConcatType
    <3> QED  BY <2>1, <3>1
  <2>4. Whole(c, SOH) = p \o tr
    BY DEF Whole, p, tr
  <2>5. Len(Whole(c, SOH)) = Len(p) + Len(tr)
    BY <1>3, <2>4, ConcatType
  <2> QED  BY <1>3, <2>3, <2>5
<1>9. Len(body) = l /\ l \in Nat /\ Len(ToChars(l)) \in Nat /\ Len(x.value) \in Nat
  <2>1. l = Len(body) /\ Len(body) \in Nat
    BY <1>3 DEF l
  <2>2. Len(ToChars(l)) \in Nat
    BY <2>1, ToCharsOfNat
  <2> QED  BY <1>3, <2>1, <2>2
<1>10. Len(Whole(c, SOH)) = (Len(x.value) + 3) + (Len(ToChars(l)) + 3) + l + 7
  BY <1>3, <1>8, <1>9
<1>11. Size(w) = (Len(x.value) + 3) + Len(ToChars(l)) + 3 + l + 7
  BY <1>6, <1>7
<1>12. Len(Whole(c, SOH)) = Size(w)
  <2> DEFINE i == Len(x.value)
             j == Len(ToChars(l))
  <2> HIDE DEF i, j
  <2>1. i \in Nat /\ j \in Nat
    BY <1>9 DEF i, j
  <2>2. (i + 3) + (j + 3) + l + 7 = (i + 3) + j + 3 + l + 7
    BY <1>9, <2>1
  <2> QED  BY <1>10, <1>11, <2>2 DEF i, j
<1> QED  BY <1>12 DEF w, c

(* A message is refused exactly if it is longer than the buffer, whatever  *)
(* the buffer's size and however many digits the length has.               *)
(* (parser.cpp:278-385)                                                    *)
THEOREM FitsExactlyHolds == Spec => []FitsExactly
<1>1. Course => FitsExactly
  <2> SUFFICES ASSUME Course, AtSend, Fields # <<>>
               PROVE  serialize_message(Compose(Fields), Capacity, SOH).error = "Ok"
                        <=> Size(Without(Compose(Fields), {9, 10})) <= Capacity
    BY DEF FitsExactly
  <2>1. step \in DOMAIN steps /\ next_out_seq \in Nat
    BY DEF AtSend, Course
  <2>2. Fields \in Seq(Pairs(Text))
    BY <2>1, StepType DEF Fields
  <2>3. serialize_message(Compose(Fields), Capacity, SOH) = Message(Fields, next_out_seq)
    BY DEF Message, Compose
  <2>4. Compose(Fields) = Composed(Fields, next_out_seq)
    BY DEF Compose
  <2> DEFINE f == Fields
  <2>5. f \in Seq(Pairs(Text)) /\ f # <<>>
    BY <2>2
  <2> HIDE DEF f
  <2>6. Message(f, next_out_seq).error = "Ok" <=> Len(Whole(Composed(f, next_out_seq), SOH)) <= Capacity
    BY <2>1, <2>5, MessageIs
  <2>7. Len(Whole(Composed(f, next_out_seq), SOH)) = Size(Without(Composed(f, next_out_seq), {9, 10}))
    BY <2>1, <2>5, WholeSize
  <2> QED  BY <2>3, <2>4, <2>6, <2>7 DEF f
<1> QED  BY <1>1, CourseAlways, PTL

-----------------------------------------------------------------------------
(* What `validate` passes                                                  *)

(* Only a complete message has been passed.                                *)
Judged ==
  phase = "done" /\ verdict = "valid" =>
    loading = "loaded" /\ validate_message(ReceivedType, Tags(received.fields)) = "valid"

(* None of the other verdicts is that of a complete message.               *)
LEMMA OtherVerdicts ==
  ASSUME NEW why \in Answers \cup {"bad script", "serialization failed", "killed", "success", "mismatch",
                                   "analyzed", "parsed", "no dictionary", "no type", "matched"}
  PROVE  why # "valid"
BY DEF Answers, ParseErrors, ScanErrors

(* Only `validate` passes a message, after it has looked for every         *)
(* required field (main.cpp:60-91).                                        *)
LEMMA NextJudged == Course /\ Judged /\ [Next]_vars => Judged'
<1> SUFFICES ASSUME Course, Judged, [Next]_vars, phase' = "done", verdict' = "valid"
             PROVE  loading' = "loaded" /\ validate_message(ReceivedType, Tags(received.fields))' = "valid"
  BY DEF Judged
<1>1. CASE LoadScript \/ Send \/ SendNothing \/ EndOfScript
  <2>1. phase # "done" /\ verdict' \in {"bad script", "serialization failed", "killed", "success"}
    BY <1>1 DEF LoadScript, Send, AtSend, SendNothing, EndOfScript, End
  <2> QED  BY <2>1, OtherVerdicts
<1>2. CASE NotParsed
  <2>1. verdict' = received.error /\ received.error \in Answers
    BY <1>2 DEF NotParsed, End, Course
  <2> QED  BY <2>1, OtherVerdicts
<1>3. CASE RunnerMatches \/ ProxyAnalyzes \/ CliPasses
  <2>1. verdict' \in {"mismatch", "matched", "analyzed", "parsed"}
    BY <1>3 DEF RunnerMatches, ProxyAnalyzes, CliPasses, End
  <2> QED  BY <2>1, OtherVerdicts
<1>4. CASE OtherStep \/ Damage \/ RunnerReads \/ ProxyReads \/ CliReads \/ CliOpensDictionary
           \/ CliLoadsDictionary
  BY <1>4 DEF OtherStep, Damage, RunnerReads, ProxyReads, CliReads, ReadAs, CliOpensDictionary,
              CliLoadsDictionary, Course
<1>5. CASE CliValidates
  <2>1. UNCHANGED <<loading, messages, received>>
    BY <1>5 DEF CliValidates, dict, scan, maps, reading
  <2>2. loading = "loaded" /\ validate_message(ReceivedType, Tags(received.fields)) = "valid"
    <3>1. loading \in {"loaded", "failed"}
      BY <1>5 DEF CliValidates
    <3>2. \/ verdict' = "no dictionary"
          \/ verdict' = "no type"
          \/ loading # "failed" /\ verdict' = validate_message(ReceivedType, Tags(received.fields))
      BY <1>5 DEF CliValidates, End
    <3>3. verdict' # "no dictionary" /\ verdict' # "no type"
      BY OtherVerdicts
    <3> QED  BY <3>1, <3>2, <3>3
  <2> QED  BY <2>1, <2>2 DEF validate_message, ReceivedType, Tags
<1>6. CASE UNCHANGED vars
  BY <1>6 DEF vars, dict, scan, maps, reading, Judged, validate_message, ReceivedType, Tags
<1> QED  BY <1>1, <1>2, <1>3, <1>4, <1>5, <1>6 DEF Next

(* What always holds of a dictionary.                                      *)
DictionaryFacts == Types /\ Origins /\ Exact /\ Complete /\ AtTheEnd

(* The dictionary's invariants hold on the path of a message too.          *)
LEMMA DictionaryAlways == Spec => []DictionaryFacts
<1>1. Init => DictionaryFacts
  <2>1. Init => DictionaryInit
    BY DEF Init
  <2>2. DictionaryInit => AtTheEnd
    BY DEF DictionaryInit, AtTheEnd
  <2> QED  BY <2>1, <2>2, InitTypes, InitOrigins, InitExact DEF DictionaryFacts
<1>2. DictionaryFacts /\ [Next]_vars => DictionaryFacts'
  BY DictionarySteps, NextTypes, NextOrigins, NextExact, NextComplete, NextAtTheEnd DEF DictionaryFacts
<1> QED  BY <1>1, <1>2, PTL DEF Spec

(* `validate` passes only messages that have what their type requires, for *)
(* every dictionary in the order the loader expects.                       *)
(* (dictionary.cpp:98-149, 198-216, main.cpp:70-90)                        *)
THEOREM AcceptedMeansCompleteHolds == Spec => []AcceptedMeansComplete
<1>1. Init => Judged
  BY DEF Init, Judged
<1>2. Spec => []Judged
  BY <1>1, NextJudged, CourseAlways, PTL DEF Spec
<1>3. DictionaryFacts /\ Judged => AcceptedMeansComplete
  <2> SUFFICES ASSUME DictionaryFacts, Judged, loading = "loaded", Orderly, phase = "done", verdict = "valid",
                      NEW i \in DOMAIN file.tags, NEW d \in DOMAIN file.tags, NEW name \in Names,
                      NEW tag \in {file.tags[d].number},
                      Demands(i, ReceivedType, name), Defines(d, name, tag)
               PROVE  Has(received.fields, tag)
    BY DEF AcceptedMeansComplete, CompleteIfPassed
  <2>1. validate_message(ReceivedType, Tags(received.fields)) = "valid"
    BY DEF Judged
  <2> DEFINE type == ReceivedType
             tags == Tags(received.fields)
  <2>2. type \in DOMAIN messages
        /\ \A t \in DOMAIN messages[type] : messages[type][t] => t \in tags
    <3> HIDE DEF type, tags
    <3> QED  BY <2>1 DEF validate_message, type, tags
  <2>3. i \in 1..pos /\ d \in 1..pos
    <3>1. file.tags \in Seq(XmlTag)
      BY DEF DictionaryFacts, Types, DictionaryTypeOK, File
    <3>2. DOMAIN file.tags = 1..Len(file.tags)
      <4> HIDE DEF XmlTag
      <4> QED  BY <3>1
    <3>3. pos = Len(file.tags)
      BY DEF DictionaryFacts, AtTheEnd
    <3> QED  BY <3>2, <3>3
  <2>4. file.tags[i].name = name
    BY DEF Demands
  <2>5. Definition(d) /\ file.tags[d].name = name /\ file.tags[d].number = tag
    BY DEF Defines, Definition
  <2> HIDE DEF type
  <2>6. Listed
    BY DEF DictionaryFacts, Complete, Entries
  <2>7. tag \in DOMAIN messages[type] /\ messages[type][tag]
    BY <2>2, <2>3, <2>4, <2>5, <2>6 DEF Listed, type
  <2>8. tag \in tags
    BY <2>2, <2>7
  <2> QED  BY <2>8 DEF Has, Positions, Tags
<1> QED  BY <1>2, <1>3, DictionaryAlways, PTL

(* What a message is rejected for lacking is what the file requires of it, *)
(* under the number the file gives it, whatever the file.                  *)
(* (dictionary.cpp:98-149, 205-213)                                        *)
THEOREM RequiredIsDemandedAlways == Spec => []RequiredIsDemanded
<1>1. Init => DictionaryInit
  BY DEF Init
<1>2. [Next]_vars => [DictionaryNext]_dict
  BY DictionarySteps
<1>3. Spec => DictionarySpec
  BY <1>1, <1>2, PTL DEF Spec, DictionarySpec
<1> QED  BY <1>3, RequiredIsDemandedHolds, PTL

(* The proxy, which guesses the separator, guesses right.                  *)
(* (proxy.cpp:224, scenario.cpp:126-137)                                   *)
THEOREM ProxyReadsTheSameHolds == Spec => []ProxyReadsTheSame
<1>1. Course => ProxyReadsTheSame
  <2> SUFFICES ASSUME Course, phase = "read", wire = sent, reader = "proxy"
               PROVE  received = parse(sent, SOH)
    BY DEF ProxyReadsTheSame, Arrived
  <2>1. received = parse(wire, Separator)
    BY DEF Course
  <2>2. sent \in Seq(Text)
    BY DEF Course
  <2>3. ~Contains(wire, Pipe)
    <3>1. \A i \in DOMAIN sent : sent[i] \in Text
      <4> HIDE DEF Text
      <4> QED  BY <2>2
    <3> QED  BY <3>1 DEF Contains, Text
  <2> QED  BY <2>1, <2>3 DEF Separator
<1> QED  BY <1>1, CourseAlways, PTL

(* What is written is read.                                                *)

-----------------------------------------------------------------------------
(* What arrives undamaged                                                  *)

(* What was serialized and arrives undamaged parses to the fields that     *)
(* were written, with the length and the checksum in their places.         *)
LEMMA ArrivedIsRead ==
  ASSUME NEW S, Alphabet(S, SOH), S \subseteq Int, NEW fields \in Seq(Pairs(S)), fields # <<>>,
         fields[1].tag = 8, NEW raw, ArrivesAs(raw, fields, SOH), Arriving(fields, SOH, raw)
  PROVE  /\ parse(raw, SOH).error = "Ok"
         /\ Plain(parse(raw, SOH).fields) = Everything(fields, SOH)
<1>1. PICK s \in Seq(Pairs(S)) : s = Everything(fields, SOH)
  BY EverythingIs
<1>2. Readable(s, SOH) /\ Ends(raw, s)
  BY <1>1, EverythingReadable, EverythingEnds
<1>3. Sealed(raw, s)
  BY <1>1, EverythingSealed DEF Arriving
<1>4. raw \in Seq(Int) /\ AllPlaced(raw, s, SOH)
  <2>1. LineFeed \in Int
    BY DEF LineFeed
  <2> QED  BY <1>1, <2>1, SummedPlaced
<1>5. SOH # Equals
  BY DEF SOH, Equals
<1>6. PICK fs : fs = parse(raw, SOH).fields
  OBVIOUS
<1>7. /\ parse(raw, SOH).error = "Ok" /\ Len(fs) = Len(s) /\ \A i \in 1..Len(s) : fs[i] = PieceOf(s, i)
  <2>1. ParsedAs(parse(raw, SOH), s)
    BY <1>2, <1>3, <1>4, <1>5, ParsesWritten
  <2> QED  BY <1>6, <2>1 DEF ParsedAs
<1>8. fs \in Seq(ReadFields)
  BY <1>4, <1>6, ParseType
<1>9. \A i \in 1..Len(s) : fs[i].tag = s[i].tag /\ fs[i].value = s[i].value
                           /\ s[i] = [tag |-> s[i].tag, value |-> s[i].value]
  <2> SUFFICES ASSUME NEW i \in 1..Len(s)
               PROVE  /\ fs[i].tag = s[i].tag /\ fs[i].value = s[i].value
                      /\ s[i] = [tag |-> s[i].tag, value |-> s[i].value]
    OBVIOUS
  <2>1. fs[i] = [tag |-> s[i].tag, value |-> s[i].value, from |-> Reached(s, i - 1), next |-> Reached(s, i)]
    BY <1>7 DEF PieceOf
  <2>2. s[i] \in Pairs(S)
    BY EachOfType
  <2> QED  BY <2>1, <2>2 DEF Pairs
<1>10. DOMAIN fs = 1..Len(s) /\ DOMAIN s = 1..Len(s)
  BY <1>7, <1>8
<1>11. Plain(fs) = [i \in 1..Len(s) |-> s[i]]
  BY <1>9, <1>10 DEF Plain
<1>12. s = [i \in 1..Len(s) |-> s[i]]
  OBVIOUS
<1> QED  BY <1>1, <1>6, <1>7, <1>11, <1>12

(* Fields of a tag and a value are plain.                                  *)
LEMMA PlainIs ==
  ASSUME NEW S, NEW s \in Seq(Pairs(S))
  PROVE  Plain(s) = s
<1>1. \A i \in 1..Len(s) : s[i] = [tag |-> s[i].tag, value |-> s[i].value]
  <2> TAKE i \in 1..Len(s)
  <2>1. s[i] \in Pairs(S)
    BY EachOfType
  <2> QED  BY <2>1 DEF Pairs
<1>2. DOMAIN s = 1..Len(s) /\ s = [i \in 1..Len(s) |-> s[i]]
  OBVIOUS
<1>3. Plain(s) = [i \in 1..Len(s) |-> s[i]]
  BY <1>1, <1>2 DEF Plain
<1> QED  BY <1>2, <1>3

(* What is on the wire, undamaged.                                         *)
LEMMA SentIs ==
  ASSUME Course, phase = "read"
  PROVE  \E fields, seq, c :
           /\ fields = Fields /\ fields \in Seq(Pairs(Text)) /\ fields # <<>>
           /\ seq = next_out_seq - 1 /\ seq \in Nat
           /\ c = Composed(fields, seq) /\ c \in Seq(Pairs(Text)) /\ c # <<>> /\ c[1].tag = 8
           /\ sent = Whole(c, SOH) /\ sent \in Seq(Text)
           /\ Len(Whole(c, SOH)) <= MaxInt
           /\ KeptOf(c) \in Seq(Pairs(Text)) /\ c[1] \in Pairs(Text)
           /\ SentFields = <<c[1]>> \o KeptOf(c)
           /\ SentFields = Without(c, {9, 10})
<1>1. /\ step \in DOMAIN steps /\ steps[step].fields # <<>> /\ next_out_seq \in 2..(step + 1)
      /\ step \in 0..(Len(steps) + 1)
      /\ Message(steps[step].fields, next_out_seq - 1).error = "Ok"
      /\ sent = Message(steps[step].fields, next_out_seq - 1).bytes
      /\ sent \in Seq(Text)
  BY DEF Course
<1>2. PICK fields, seq : fields = Fields /\ seq = next_out_seq - 1
  OBVIOUS
<1>3. fields \in Seq(Pairs(Text)) /\ fields # <<>> /\ fields = steps[step].fields
  BY <1>1, <1>2, StepType DEF Fields
<1>4. seq \in Nat
  BY <1>1, <1>2
<1>5. PICK c : c = Composed(fields, seq)
  OBVIOUS
<1>6. c \in Seq(Pairs(Text)) /\ c # <<>> /\ c[1].tag = 8
  BY <1>3, <1>4, <1>5, ComposedType
<1>7. Message(fields, seq).error = "Ok" /\ sent = Message(fields, seq).bytes
  BY <1>1, <1>2, <1>3
<1>8. sent = Whole(c, SOH) /\ Len(Whole(c, SOH)) <= Capacity
  BY <1>3, <1>4, <1>5, <1>7, MessageIs
<1>9. Len(Whole(c, SOH)) <= MaxInt
  <2>1. Len(Whole(c, SOH)) \in Nat
    BY <1>1, <1>8
  <2> QED  BY <1>8, <2>1, PathAssumption, CodecAssumption
<1>10. /\ Without(c, {9, 10}) = <<c[1]>> \o KeptOf(c)
       /\ KeptOf(c) \in Seq(Pairs(Text)) /\ c[1] \in Pairs(Text)
  BY <1>3, <1>4, <1>5, ComposedParts DEF Rest, KeptOf
<1>11. SentFields = Without(c, {9, 10})
  <2>1. SentFields = Without(Plain(c), {9, 10})
    BY <1>2, <1>5 DEF SentFields, WithoutGenerated
  <2> QED  BY <1>6, <2>1, PlainIs
<1> QED  BY <1>1, <1>2, <1>3, <1>4, <1>5, <1>6, <1>8, <1>9, <1>10, <1>11

(* What is read, undamaged.                                                *)
LEMMA ArrivedIs ==
  ASSUME Course, Arrived
  PROVE  \E raw : /\ received = parse(raw, SOH)
                  /\ raw \in {sent, Cat(sent, <<LineFeed>>)}
                  /\ reader # "cli" => raw = sent
<1>1. phase = "read" /\ wire = sent /\ sent \in Seq(Text)
  BY DEF Arrived, Course
<1>2. \/ reader = "runner" /\ received = parse(wire, SOH)
      \/ reader = "proxy" /\ received = parse(wire, Separator)
      \/ reader = "cli" /\ \E end \in {<<>>, <<LineFeed>>} : received = parse(wire \o end, SOH)
  BY <1>1 DEF Course
<1>3. CASE reader = "runner" /\ received = parse(wire, SOH)
  BY <1>1, <1>3
<1>4. CASE reader = "proxy" /\ received = parse(wire, Separator)
  <2>1. ~Contains(wire, Pipe)
    <3>1. \A i \in DOMAIN sent : sent[i] \in Text
      <4> HIDE DEF Text
      <4> QED  BY <1>1
    <3> QED  BY <1>1, <3>1 DEF Contains, Text
  <2> QED  BY <1>1, <1>4, <2>1 DEF Separator
<1>5. CASE reader = "cli" /\ \E end \in {<<>>, <<LineFeed>>} : received = parse(wire \o end, SOH)
  <2>1. sent \o <<>> = sent
    BY <1>1
  <2> QED  BY <1>1, <1>5, <2>1 DEF Cat
<1> QED  BY <1>2, <1>3, <1>4, <1>5

(* What was composed, and the length and the checksum, are understood.     *)
LEMMA CleanIsRead ==
  ASSUME Course, Arrived, Clean(SentFields)
  PROVE  \E c : /\ c \in Seq(Pairs(Text)) /\ c # <<>> /\ c[1].tag = 8
                /\ SentFields = <<c[1]>> \o KeptOf(c)
                /\ received.error = "Ok"
                /\ Plain(received.fields) = Everything(c, SOH)
<1>1. PICK c : /\ c \in Seq(Pairs(Text)) /\ c # <<>> /\ c[1].tag = 8
               /\ sent = Whole(c, SOH)
               /\ Len(Whole(c, SOH)) <= MaxInt
               /\ KeptOf(c) \in Seq(Pairs(Text)) /\ c[1] \in Pairs(Text)
               /\ SentFields = <<c[1]>> \o KeptOf(c)
  BY SentIs DEF Arrived
<1>2. PICK raw : /\ received = parse(raw, SOH) /\ raw \in {sent, Cat(sent, <<LineFeed>>)}
                 /\ reader # "cli" => raw = sent
  BY ArrivedIs
<1>3. PICK r, g : r = KeptOf(c) /\ g = <<c[1]>> \o r
  OBVIOUS
<1>4. SentFields = g /\ r \in Seq(Pairs(Text))
  BY <1>1, <1>3
<1>5. Len(g) = Len(r) + 1 /\ g[1] = c[1] /\ Len(r) \in Nat /\ \A i \in 1..Len(r) : g[i + 1] = r[i]
  <2>1. PICK T, x : T = Pairs(Text) /\ x = c[1] /\ x \in T
    BY <1>1
  <2>2. r \in Seq(T) /\ g = <<x>> \o r
    BY <1>3, <1>4, <2>1
  <2>3. Len(g) = Len(r) + 1 /\ g[1] = x /\ Len(r) \in Nat /\ \A i \in 1..Len(r) : g[i + 1] = r[i]
    BY <2>2
  <2> QED  BY <2>1, <2>3
<1>6. DOMAIN g = 1..(Len(r) + 1)
  <2>1. g \in Seq(Pairs(Text))
    BY <1>1, <1>3, <1>4
  <2> QED  BY <1>5, <2>1
<1>7. (\A i \in 1..(Len(r) + 1) : Lacks(g[i].value, SOH)) /\ Len(g) + (IF reader = "cli" THEN 3 ELSE 2) <= MAX_FIELDS
  BY <1>4, <1>6, LacksIs DEF Clean
<1>8. Lacks(c[1].value, SOH)
  <2>1. 1 \in 1..(Len(r) + 1)
    BY <1>5
  <2> QED  BY <1>5, <1>7, <2>1
<1>9. \A i \in 1..Len(r) : Lacks(r[i].value, SOH)
  <2> TAKE i \in 1..Len(r)
  <2>1. i + 1 \in 1..(Len(r) + 1)
    BY <1>5
  <2> QED  BY <1>5, <1>7, <2>1
<1>10. Len(r) + 3 <= MAX_FIELDS /\ (raw # sent => Len(r) + 4 <= MAX_FIELDS)
  BY <1>2, <1>5, <1>7, CodecAssumption
<1>11. Arriving(c, SOH, raw)
  BY <1>1, <1>3, <1>8, <1>9, <1>10 DEF Arriving
<1>12. ArrivesAs(raw, c, SOH)
  BY <1>1, <1>2 DEF ArrivesAs
<1>13. Alphabet(Text, SOH) /\ Text \subseteq Int
  BY TextFacts
<1>14. parse(raw, SOH).error = "Ok" /\ Plain(parse(raw, SOH).fields) = Everything(c, SOH)
  BY <1>1, <1>11, <1>12, <1>13, ArrivedIsRead
<1> QED  BY <1>1, <1>2, <1>14

(* A message that arrives undamaged parses, for whoever reads it, to the   *)
(* session's header with the next number and then the fields of the step   *)
(* in their order; what a step says of the header is not in it twice:      *)
(* whatever the script, the configuration and the size of the buffer.      *)
(* (runner.cpp:234-260, parser.cpp:26-152, 257-387)                        *)
THEOREM SentIsUnderstoodHolds == Spec => []SentIsUnderstood
<1>1. Course => SentIsUnderstood
  <2> SUFFICES ASSUME Course, Arrived, Clean(SentFields)
               PROVE  received.error = "Ok" /\ WithoutGenerated(received.fields) = SentFields
    BY DEF SentIsUnderstood
  <2>1. PICK c : /\ c \in Seq(Pairs(Text)) /\ c # <<>> /\ c[1].tag = 8
                 /\ SentFields = <<c[1]>> \o KeptOf(c)
                 /\ received.error = "Ok"
                 /\ Plain(received.fields) = Everything(c, SOH)
    BY CleanIsRead
  <2>2. Without(Everything(c, SOH), {9, 10}) = <<c[1]>> \o KeptOf(c)
    BY <2>1, EverythingWithout
  <2> QED  BY <2>1, <2>2 DEF WithoutGenerated
<1> QED  BY <1>1, CourseAlways, PTL

(* Every field of a step is in its message, but perhaps with another value.*)
LEMMA ComposedHas ==
  ASSUME NEW fields \in Seq(Pairs(Text)), fields # <<>>, NEW seq \in Nat, NEW i \in DOMAIN fields
  PROVE  Has(Composed(fields, seq), fields[i].tag)
<1>1. PICK t : t = fields[i].tag
  OBVIOUS
<1>2. PICK h, w : h = prepare_header(fields, seq) /\ w = Without(fields, HeaderTags)
  OBVIOUS
<1>3. h \in Seq(Pairs(Text)) /\ w \in Seq(Pairs(Text)) /\ Len(h) = 6
  BY <1>2, HeaderType, WithoutType
<1>4. Composed(fields, seq) = Cat(h, w)
  BY <1>2 DEF Composed, Cat
<1>5. CASE t \in HeaderTags
  <2>1. /\ h[1].tag = 8 /\ h[2].tag = 35 /\ h[3].tag = 49 /\ h[4].tag = 56 /\ h[5].tag = 34 /\ h[6].tag = 52
    BY <1>2 DEF prepare_header
  <2>2. DOMAIN h = 1..6
    BY <1>3
  <2>3. \E k \in 1..6 : h[k].tag = t
    BY <1>5, <2>1 DEF HeaderTags
  <2>4. Has(h, t)
    BY <2>2, <2>3 DEF Has, Positions
  <2> QED  BY <1>1, <1>3, <1>4, <2>4, HasConcat
<1>6. CASE t \notin HeaderTags
  <2>1. SameGet(fields, w, t)
    BY <1>2, <1>6, GetWithout
  <2>2. Has(fields, t)
    BY <1>1 DEF Has, Positions
  <2>3. Has(w, t)
    BY <2>1, <2>2 DEF SameGet
  <2> QED  BY <1>1, <1>3, <1>4, <2>3, HasConcat
<1> QED  BY <1>5, <1>6

(* get_field does not look at where the fields are.                        *)
LEMMA GetPlain ==
  ASSUME NEW fs \in Seq(ReadFields), NEW t
  PROVE  SameGet(fs, Plain(fs), t)
<1>1. DOMAIN Plain(fs) = DOMAIN fs /\ \A i \in DOMAIN fs : Plain(fs)[i].tag = fs[i].tag /\ Plain(fs)[i].value = fs[i].value
  BY DEF Plain
<1>2. PICK P : P = Positions(fs, t)
  OBVIOUS
<1>3. Positions(Plain(fs), t) = P
  BY <1>1, <1>2 DEF Positions
<1>4. P # {} => Min(P) \in DOMAIN fs
  <2> SUFFICES ASSUME P # {}  PROVE Min(P) \in DOMAIN fs
    OBVIOUS
  <2>1. P \subseteq DOMAIN fs
    BY <1>2 DEF Positions
  <2>2. P \subseteq Nat
    BY <2>1
  <2>3. Min(P) \in P
    BY <2>2, MinIsSmallest
  <2> QED  BY <2>1, <2>3
<1> QED  BY <1>1, <1>2, <1>3, <1>4 DEF SameGet, Has, Get

(* EXPECT with the words of a SEND is met by its message exactly if every  *)
(* field of the step is what counts in the message: of repeated fields     *)
(* the first does, and over the header a step has no say but for the       *)
(* type. (runner.cpp:251-257, 347-355)                                     *)
THEOREM SendMatchesExpectHolds == Spec => []SendMatchesExpect
<1>1. Course => SendMatchesExpect
  <2> SUFFICES ASSUME Course, Arrived, Clean(SentFields), \A i \in DOMAIN Fields : Fields[i].tag \notin {9, 10}
               PROVE  match_fields(received.fields, Fields) <=>
                        \A i \in DOMAIN Fields : Fields[i].value = Get(SentFields, Fields[i].tag)
    BY DEF SendMatchesExpect
  <2>1. PICK c : /\ c \in Seq(Pairs(Text)) /\ c # <<>> /\ c[1].tag = 8
                 /\ SentFields = <<c[1]>> \o KeptOf(c)
                 /\ received.error = "Ok"
                 /\ Plain(received.fields) = Everything(c, SOH)
    BY CleanIsRead
  <2>2. PICK fs, e, g : fs = received.fields /\ e = Everything(c, SOH) /\ g = SentFields
    OBVIOUS
  <2>3. Plain(fs) = e /\ Without(e, {9, 10}) = g
    BY <2>1, <2>2, EverythingWithout
  <2>4. fs \in Seq(ReadFields)
    BY <2>2 DEF Course
  <2>5. e \in Seq(Pairs(Text))
    BY <2>1, <2>2, EverythingIs, TextFacts
  <2>6. PICK fields, seq : /\ fields = Fields /\ fields \in Seq(Pairs(Text)) /\ fields # <<>> /\ seq \in Nat
                           /\ Composed(fields, seq) \in Seq(Pairs(Text))
                           /\ g = Without(Composed(fields, seq), {9, 10})
    BY <2>2, SentIs DEF Arrived
  <2>7. ASSUME NEW i \in DOMAIN fields
        PROVE  Has(fs, fields[i].tag) /\ Get(fs, fields[i].tag) = Get(g, fields[i].tag)
    <3>1. PICK t, T : t = fields[i].tag /\ T = {9, 10} /\ t \notin T
      BY <2>6
    <3>2. PICK m \in Seq(Pairs(Text)) : m = Composed(fields, seq)
      BY <2>6
    <3>3. Has(m, t)
      BY <2>6, <3>1, <3>2, ComposedHas
    <3>4. SameGet(m, g, t)
      BY <2>6, <3>1, <3>2, GetWithout
    <3>5. SameGet(e, g, t)
      BY <2>3, <2>5, <3>1, GetWithout
    <3>6. SameGet(fs, e, t)
      BY <2>3, <2>4, GetPlain
    <3> QED  BY <3>1, <3>3, <3>4, <3>5, <3>6 DEF SameGet
  <2>8. match_fields(fs, fields) <=> \A i \in DOMAIN fields : fields[i].value = Get(g, fields[i].tag)
    BY <2>7 DEF match_fields
  <2> QED  BY <2>2, <2>6, <2>8
<1> QED  BY <1>1, CourseAlways, PTL

-----------------------------------------------------------------------------
(* What arrives damaged                                                    *)

(* Without their last field, the fields are those before it.               *)
LEMMA FrontPlain ==
  ASSUME NEW x \in Seq(ReadFields), NEW f \in ReadFields
  PROVE  Front(Plain(Append(x, f))) = Plain(x)
<1>1. PICK y, n, pl, px : y = Append(x, f) /\ n = Len(x) /\ pl = Plain(y) /\ px = Plain(x)
  OBVIOUS
<1>2. y \in Seq(ReadFields) /\ Len(y) = n + 1 /\ n \in Nat /\ \A i \in 1..n : y[i] = x[i]
  BY <1>1, AppendItems
<1>3. DOMAIN y = 1..(n + 1) /\ DOMAIN x = 1..n
  BY <1>1, <1>2
<1>4. /\ pl = [i \in 1..(n + 1) |-> [tag |-> y[i].tag, value |-> y[i].value]]
      /\ px = [i \in 1..n |-> [tag |-> x[i].tag, value |-> x[i].value]]
  BY <1>1, <1>3 DEF Plain
<1> DEFINE S == {[tag |-> y[i].tag, value |-> y[i].value] : i \in 1..(n + 1)}
<1>5. \A i \in 1..(n + 1) : [tag |-> y[i].tag, value |-> y[i].value] \in S
  OBVIOUS
<1>6. \A i \in 1..n : i \in 1..(n + 1) /\ [tag |-> x[i].tag, value |-> x[i].value] = [tag |-> y[i].tag, value |-> y[i].value]
  BY <1>2
<1> HIDE DEF S
<1>7. pl \in Seq(S) /\ Len(pl) = n + 1
  BY <1>2, <1>4, <1>5
<1>8. px \in Seq(S) /\ Len(px) = n
  BY <1>2, <1>4, <1>5, <1>6
<1>9. \A i \in 1..n : pl[i] = px[i]
  BY <1>4, <1>6
<1>10. SubSeq(pl, 1, n) = px
  <2>1. PICK one \in Nat \ {0} : one = 1
    OBVIOUS
  <2>2. one + Len(px) - 1 <= Len(pl) /\ n = one + Len(px) - 1
    BY <1>2, <1>7, <1>8, <2>1
  <2>3. \A i \in 1..Len(px) : pl[one + i - 1] = px[i]
    <3> SUFFICES ASSUME NEW i \in 1..Len(px)  PROVE pl[one + i - 1] = px[i]
      OBVIOUS
    <3>1. i \in 1..n /\ one + i - 1 = i
      BY <1>2, <1>8, <2>1
    <3> QED  BY <1>9, <3>1
  <2>4. Placed(pl, one, px)
    BY <2>2, <2>3 DEF Placed
  <2>5. SubSeq(pl, one, n) = px
    BY <1>7, <1>8, <2>2, <2>4, SubSeqIs
  <2> QED  BY <2>1, <2>5
<1>11. Len(pl) - 1 = n
  BY <1>2, <1>7
<1>12. Front(pl) = SubSeq(pl, 1, n)
  BY <1>11 DEF Front
<1> QED  BY <1>1, <1>10, <1>12

(* There is always a body: the type of the message at least.               *)
LEMMA BodyIsThere ==
  ASSUME NEW fields \in Seq(Pairs(Text)), fields # <<>>, NEW seq \in Nat, NEW c, c = Composed(fields, seq),
         KeptOf(c) \in Seq(Pairs(Text)), c[1] \in Pairs(Text), c[1].tag = 8,
         Without(c, {9, 10}) = <<c[1]>> \o KeptOf(c)
  PROVE  Len(Body(c, SOH)) > 0
<1>0. Text \subseteq Int /\ Alphabet(Text, SOH)
  BY TextFacts
<1>1. PICK h, o : h = prepare_header(fields, seq) /\ o = Without(fields, HeaderTags) /\ c = h \o o
  BY DEF Composed
<1>2. h \in Seq(Pairs(Text)) /\ o \in Seq(Pairs(Text)) /\ Len(h) = 6
  BY <1>1, HeaderType, WithoutType
<1>3. h[2].tag = 35
  BY <1>1 DEF prepare_header
<1>4. c[2] = h[2] /\ Len(c) >= 6 /\ c \in Seq(Pairs(Text))
  <2>1. c \in Seq(Pairs(Text)) /\ Len(c) = Len(h) + Len(o) /\ Len(o) \in Nat
    BY <1>1, <1>2, ConcatType
  <2>2. \A i \in 1..Len(h) : (h \o o)[i] = h[i]
    BY <1>2, ConcatItems, ZenonT(30)
  <2>3. 2 \in 1..Len(h)
    BY <1>2
  <2>4. c[2] = h[2]
    BY <1>1, <2>2, <2>3
  <2> QED  BY <1>2, <2>1, <2>4
<1>5. Has(c, 35)
  <2>1. 2 \in DOMAIN c
    <3>1. 2 \in 1..Len(c)
      BY <1>4
    <3> QED  BY <1>4, <3>1
  <2> QED  BY <1>3, <1>4, <2>1 DEF Has, Positions
<1>6. PICK k, T : k = KeptOf(c) /\ T = {9, 10}
  OBVIOUS
<1>7. Has(Without(c, T), 35)
  <2>1. 35 \notin T
    <3> HIDE DEF Pairs
    <3> QED  BY <1>6
  <2>2. SameGet(c, Without(c, T), 35)
    BY <1>4, <2>1, GetWithout
  <2> QED  BY <1>5, <2>2 DEF SameGet
<1>8. k # <<>>
  <2> SUFFICES ASSUME k = <<>>  PROVE FALSE
    OBVIOUS
  <2>1. PICK x \in Pairs(Text) : x = c[1]
    OBVIOUS
  <2>2. Without(c, T) = <<x>>
    <3>1. <<x>> \o <<>> = <<x>>
      <4> HIDE DEF Pairs
      <4> QED  OBVIOUS
    <3>2. Without(c, T) = <<x>> \o k
      BY <1>6, <2>1
    <3> QED  BY <3>1, <3>2
  <2>3. PICK i \in DOMAIN <<x>> : <<x>>[i].tag = 35
    BY <1>7, <2>2 DEF Has, Positions
  <2>4. i = 1
    OBVIOUS
  <2>5. x.tag = 35
    BY <2>3, <2>4
  <2> QED  BY <2>1, <2>5
<1>9. PICK s \in Seq(Pairs(Text)) : s = k
  BY <1>6
<1>10. s = <<s[1]>> \o Tail(s) /\ s[1] \in Pairs(Text) /\ Tail(s) \in Seq(Pairs(Text))
  BY <1>8, <1>9, HeadAndTail
<1>11. PICK x \in Pairs(Text), r \in Seq(Pairs(Text)) : x = s[1] /\ r = Tail(s)
  BY <1>10
<1>12. WrittenAll(s, SOH) = WrittenAll(<<x>>, SOH) \o WrittenAll(r, SOH)
  <2>1. <<x>> \in Seq(Pairs(Text))
    <3> HIDE DEF Pairs
    <3> QED  OBVIOUS
  <2>2. s = <<x>> \o r
    BY <1>10, <1>11
  <2>3. WrittenAll(<<x>> \o r, SOH) = WrittenAll(<<x>>, SOH) \o WrittenAll(r, SOH)
    BY <1>0, <2>1, WrittenAllConcat
  <2> QED  BY <2>2, <2>3
<1>13. PICK a, b : a = WrittenAll(<<x>>, SOH) /\ b = WrittenAll(r, SOH)
  OBVIOUS
<1>14. a \in Seq(Text) /\ Len(a) >= 2 /\ Len(a) \in Nat
  <2>1. a = Written(x.tag, x.value, SOH)
    BY <1>0, <1>13, WrittenAllOne
  <2>2. x.tag \in Ints /\ x.value \in Seq(Text)
    BY <1>0, WrittenLength
  <2>3. PICK t \in Ints, v \in Seq(Text) : t = x.tag /\ v = x.value
    BY <2>2
  <2>4. PICK n \in Nat, l \in Nat : n = Len(ToChars(t)) /\ l = Len(v)
    <3>1. Len(ToChars(t)) \in Nat
      BY ToCharsIsRead
    <3>2. Len(v) \in Nat
      <4> HIDE DEF Text
      <4> QED  OBVIOUS
    <3> QED  BY <3>1, <3>2
  <2>5. a = Written(t, v, SOH)
    BY <2>1, <2>3
  <2>6. a \in Seq(Text) /\ Len(a) = Len(ToChars(t)) + Len(v) + 2
    BY <1>0, <2>5, WrittenType
  <2> QED  BY <2>4, <2>6
<1>15. b \in Seq(Text)
  BY <1>0, <1>13, WrittenAllType
<1>16. Len(a \o b) = Len(a) + Len(b) /\ Len(b) \in Nat
  BY <1>14, <1>15, ConcatType
<1>17. Body(c, SOH) = a \o b
  BY <1>6, <1>9, <1>12, <1>13 DEF Body, KeptOf
<1> QED  BY <1>14, <1>16, <1>17

(* A damaged message as it is read: only the proxy could take another      *)
(* separator for it, and then makes nothing of it.                         *)
LEMMA DamagedIs ==
  ASSUME Course, phase = "read", wire # sent, received.error = "Ok"
  PROVE  \E raw, p : DamagedAs(raw, sent, p) /\ received = parse(raw, SOH)
<1>1. sent \in Seq(Text) /\ wire \in Seq(Byte) /\ Len(wire) = Len(sent) /\ Len(sent) \in Nat
  BY DEF Course
<1>2. PICK p \in DOMAIN sent : \E b \in DamagedBytes \ {sent[p]} : wire = [sent EXCEPT ![p] = b]
  BY DEF Course, Damaged
<1>3. p \in 1..Len(sent) /\ wire[p] # sent[p] /\ \A i \in 1..Len(sent) : i # p => wire[i] = sent[i]
  <2>1. PICK b \in DamagedBytes \ {sent[p]} : wire = [sent EXCEPT ![p] = b]
    BY <1>2
  <2>2. DOMAIN sent = 1..Len(sent)
    BY <1>1
  <2> QED  BY <2>1, <2>2
<1>4. DamagedAs(wire, sent, p)
  BY <1>1, <1>3 DEF DamagedAs
<1>5. \/ reader = "runner" /\ received = parse(wire, SOH)
      \/ reader = "proxy" /\ received = parse(wire, Separator)
      \/ reader = "cli" /\ \E end \in {<<>>, <<LineFeed>>} : received = parse(wire \o end, SOH)
  BY DEF Course
<1>6. CASE received = parse(wire, SOH)
  BY <1>4, <1>6
<1>7. CASE received = parse(wire, Separator) /\ Separator # SOH
  <2>1. Separator = Pipe /\ Pipe # Equals
    BY <1>7 DEF Separator, Pipe, Equals
  <2>2. \A i \in 1..Len(wire) : wire[i] = Pipe => i = p
    <3> SUFFICES ASSUME NEW i \in 1..Len(wire), i # p  PROVE wire[i] # Pipe
      OBVIOUS
    <3>1. wire[i] = sent[i] /\ i \in 1..Len(sent)
      BY <1>1, <1>3
    <3>2. sent[i] \in Text
      <4> HIDE DEF Text
      <4> QED  BY <1>1, <3>1
    <3> QED  BY <3>1, <3>2 DEF Text
  <2>3. \A i, j \in 1..Len(wire) : wire[i] = Pipe /\ wire[j] = Pipe => i = j
    BY <2>2
  <2>4. wire \in Seq(Int)
    <3>1. Byte \subseteq Int
      BY DEF Byte
    <3> QED  BY <1>1, <3>1, SeqMonotonic
  <2>5. parse(wire, Pipe).error # "Ok"
    BY <2>1, <2>3, <2>4, OnePipe
  <2> QED  BY <1>7, <2>1, <2>5
<1>8. CASE \E end \in {<<>>, <<LineFeed>>} : received = parse(wire \o end, SOH)
  <2>1. PICK end \in {<<>>, <<LineFeed>>} : received = parse(wire \o end, SOH)
    BY <1>8
  <2>2. CASE end = <<>>
    <3>1. wire \o <<>> = wire
      BY <1>1
    <3> QED  BY <1>4, <2>1, <2>2, <3>1
  <2>3. CASE end = <<LineFeed>>
    <3>1. PICK x \in Byte : x = LineFeed
      BY TextFacts
    <3>2. PICK raw : raw = wire \o <<x>>
      OBVIOUS
    <3>3. raw = Append(wire, x)
      BY <1>1, <3>2
    <3>4. raw \in Seq(Byte) /\ Len(raw) = Len(wire) + 1 /\ raw[Len(wire) + 1] = x
          /\ \A i \in 1..Len(wire) : raw[i] = wire[i]
      BY <1>1, <3>3, AppendItems
    <3>5. DamagedAs(raw, sent, p)
      BY <1>1, <1>3, <3>1, <3>4 DEF DamagedAs
    <3> QED  BY <2>1, <2>3, <3>1, <3>2, <3>5
  <2> QED  BY <2>1, <2>2, <2>3
<1> QED  BY <1>5, <1>6, <1>7, <1>8

(* Whichever byte of a message is damaged, and by whomever it is then read:*)
(* either it does not parse, or the damage is in the trailer and the       *)
(* fields before it are those that were sent.  A BeginString with a        *)
(* separator in it would make other fields of the head of the message.     *)
(* (parser.cpp:106-149, 257-387, proxy.cpp:224)                            *)
THEOREM DamageDetectedHolds ==
  ASSUME ~Contains(BeginString, SOH)
  PROVE  Spec => []DamageDetected
<1>1. Course => DamageDetected
  <2> SUFFICES ASSUME Course, phase = "read", wire # sent, received.error = "Ok"
               PROVE  Front(Plain(received.fields)) = Front(Plain(parse(sent, SOH).fields))
    BY DEF DamageDetected
  <2>1. PICK raw, p : DamagedAs(raw, sent, p) /\ received = parse(raw, SOH)
    BY DamagedIs
  <2>2. PICK fields, seq, c :
           /\ fields \in Seq(Pairs(Text)) /\ fields # <<>> /\ seq \in Nat
           /\ c = Composed(fields, seq) /\ c \in Seq(Pairs(Text)) /\ c # <<>> /\ c[1].tag = 8
           /\ sent = Whole(c, SOH) /\ Len(Whole(c, SOH)) <= MaxInt
           /\ KeptOf(c) \in Seq(Pairs(Text)) /\ c[1] \in Pairs(Text)
           /\ Without(c, {9, 10}) = <<c[1]>> \o KeptOf(c)
    BY SentIs
  <2>3. Lacks(c[1].value, SOH)
    <3>1. c[1] = [tag |-> 8, value |-> BeginString]
      BY <2>2, ComposedType
    <3> QED  BY <3>1, LacksIs
  <2>4. Len(Body(c, SOH)) > 0
    BY <2>2, BodyIsThere
  <2>5. DamagedAs(raw, Whole(c, SOH), p) /\ parse(raw, SOH).error = "Ok"
    BY <2>1, <2>2
  <2>6. ~(p < Len(Summed(c, SOH)))
    BY <2>2, <2>5, DamageBefore
  <2>7. p >= Len(Summed(c, SOH))
    <3>1. Len(Summed(c, SOH)) \in Nat
      <4>1. PICK w, sm, tr, q, sum : SummedIs(c, w, sm, tr, q, sum)
        BY <2>2, SummedEnds
      <4> QED  BY <4>1 DEF SummedIs
    <3>2. p \in 1..Len(Whole(c, SOH))
      BY <2>5 DEF DamagedAs
    <3> QED  BY <2>6, <3>1, <3>2
  <2>8. AlikeButLast(parse(raw, SOH).fields, parse(Whole(c, SOH), SOH).fields)
    BY <2>2, <2>3, <2>4, <2>5, <2>7, DamageBehindIs
  <2>9. PICK x \in Seq(ReadFields), f \in ReadFields, g \in ReadFields :
           received.fields = Append(x, f) /\ parse(sent, SOH).fields = Append(x, g)
    BY <2>1, <2>2, <2>8 DEF AlikeButLast
  <2> QED  BY <2>9, FrontPlain
<1> QED  BY <1>1, CourseAlways, PTL

-----------------------------------------------------------------------------
(* Groups                                                                  *)

(* What has been read ends with a trailer.                                 *)
LEMMA ReadIsTrailed ==
  ASSUME Course, phase = "read"
  PROVE  Trailed(received.fields)
<1>1. wire \in Seq(Int) /\ <<LineFeed>> \in Seq(Int)
  <2>1. Byte \subseteq Int /\ LineFeed \in Int
    BY DEF Byte, LineFeed
  <2>2. wire \in Seq(Byte)
    BY DEF Course
  <2>3. wire \in Seq(Int)
    BY <2>1, <2>2, SeqMonotonic
  <2> QED  BY <2>1, <2>3
<1>2. PICK raw, sep : raw \in Seq(Int) /\ received = parse(raw, sep)
  <2>1. \/ reader = "runner" /\ received = parse(wire, SOH)
        \/ reader = "proxy" /\ received = parse(wire, Separator)
        \/ reader = "cli" /\ \E end \in {<<>>, <<LineFeed>>} : received = parse(wire \o end, SOH)
    BY DEF Course
  <2>2. \A end \in {<<>>, <<LineFeed>>} : wire \o end \in Seq(Int)
    <3>1. <<>> \in Seq(Int)
      OBVIOUS
    <3> QED  BY <1>1, <3>1, ConcatType
  <2> QED  BY <1>1, <2>1, <2>2
<1>3. PICK fields : fields = received.fields
  OBVIOUS
<1>4. fields \in Seq(ReadFields) /\ Len(fields) \in Nat
  <2>1. fields \in Seq(ReadFields)
    BY <1>3 DEF Course
  <2> HIDE DEF ReadFields
  <2> QED  BY <2>1
<1>5. \/ fields = <<>>
      \/ Len(fields) >= 3 /\ Last(fields).tag = 10
  <2>1. \/ /\ WellFormed(raw, sep, LastTurn(raw, sep).fields)
           /\ parse(raw, sep) = [error |-> "Ok", fields |-> LastTurn(raw, sep).fields]
        \/ \E why \in ParseErrors : parse(raw, sep) = Error(why)
    BY <1>2, ParseIs
  <2>2. CASE \E why \in ParseErrors : parse(raw, sep) = Error(why)
    BY <1>2, <1>3, <2>2 DEF Error
  <2>3. CASE /\ WellFormed(raw, sep, LastTurn(raw, sep).fields)
             /\ parse(raw, sep) = [error |-> "Ok", fields |-> LastTurn(raw, sep).fields]
    <3>1. fields = LastTurn(raw, sep).fields
      BY <1>2, <1>3, <2>3
    <3>2. WellFormed(raw, sep, fields)
      BY <2>3, <3>1
    <3> QED  BY <3>2 DEF WellFormed
  <2> QED  BY <2>1, <2>2, <2>3
<1> QED  BY <1>3, <1>4, <1>5 DEF Trailed, Last

(* A group of such a message has an end.                                   *)
LEMMA GroupIs ==
  ASSUME NEW fields, Trailed(fields), NEW group \in Tags(fields) \ {8, 9, 10},
         NEW delim \in Tags(fields) \ {8, 9, 10}, NEW count, count = Min(Positions(fields, group)),
         NEW end, end = Min({i \in (count + 1)..Len(fields) : fields[i].tag \in {8, 9, 10}}),
         NEW B, B = {i \in Positions(fields, delim) : count < i /\ i < end}
  PROVE  GroupOf(fields, delim, count, end, B)
<1>1. fields \in Seq(ReadFields) /\ Len(fields) \in Nat /\ DOMAIN fields = 1..Len(fields)
  BY DEF Trailed
<1>2. PICK N \in Nat : N = Len(fields)
  BY <1>1
<1>3. count \in 1..N /\ fields[count].tag = group
  <2>1. Positions(fields, group) \subseteq Nat /\ Positions(fields, group) # {}
    BY <1>1 DEF Positions, Tags
  <2>2. count \in Positions(fields, group)
    BY <2>1, MinIsSmallest
  <2> QED  BY <1>1, <1>2, <2>2 DEF Positions
<1>4. count # N
  <2>1. N \in 1..N /\ fields # <<>>
    BY <1>1, <1>2, <1>3
  <2>2. fields[N].tag = 10
    BY <1>2, <2>1 DEF Trailed
  <2> QED  BY <1>3, <2>2
<1>5. PICK E : E = {i \in (count + 1)..N : fields[i].tag \in {8, 9, 10}}
  OBVIOUS
<1>6. end \in E /\ \A i \in E : end <= i
  <2>1. N \in (count + 1)..N /\ fields[N].tag = 10
    <3>1. fields # <<>>
      BY <1>1, <1>2, <1>3
    <3> QED  BY <1>2, <1>3, <1>4, <3>1 DEF Trailed
  <2>2. E \subseteq Nat /\ N \in E
    BY <1>3, <1>5, <2>1
  <2>3. end = Min(E)
    BY <1>2, <1>5
  <2> QED  BY <2>2, <2>3, MinIsSmallest
<1>7. end \in (count + 1)..N /\ fields[end].tag \in {8, 9, 10}
  BY <1>5, <1>6
<1>8. \A i \in (count + 1)..(end - 1) : fields[i].tag \notin {8, 9, 10}
  <2> SUFFICES ASSUME NEW i \in (count + 1)..(end - 1), fields[i].tag \in {8, 9, 10}  PROVE FALSE
    OBVIOUS
  <2>1. i \in (count + 1)..N /\ ~(end <= i)
    BY <1>3, <1>7
  <2> QED  BY <1>5, <1>6, <2>1
<1>9. B = {i \in (count + 1)..(end - 1) : fields[i].tag = delim}
  <2>1. \A i : i \in Positions(fields, delim) /\ count < i /\ i < end
               <=> i \in (count + 1)..(end - 1) /\ fields[i].tag = delim
    BY <1>1, <1>2, <1>3, <1>7 DEF Positions
  <2>2. \A i : i \in B <=> i \in Positions(fields, delim) /\ count < i /\ i < end
    OBVIOUS
  <2> QED  BY <2>1, <2>2
<1>10. B \in SUBSET Nat /\ IsFiniteSet(B)
  <2>1. PICK I : I = (count + 1)..(end - 1)
    OBVIOUS
  <2>2. B \subseteq I /\ I \subseteq Nat
    BY <1>3, <1>7, <1>9, <2>1
  <2>3. IsFiniteSet(I)
    <3>1. count + 1 \in Int /\ end - 1 \in Int
      BY <1>3, <1>7
    <3> QED  BY <2>1, <3>1, FS_Interval
  <2>4. IsFiniteSet(B)
    BY <2>2, <2>3, FS_Subset
  <2> QED  BY <2>2, <2>4
<1>11. delim \notin {8, 9, 10} /\ end \in (count + 1)..Len(fields) /\ count \in 1..Len(fields)
  BY <1>2, <1>3, <1>7
<1> QED  BY <1>1, <1>7, <1>8, <1>9, <1>10, <1>11 DEF GroupOf

(* Whatever is read, and whichever two of its tags are taken for the count *)
(* of a group and for its delimiter: get_group finds the stretches from    *)
(* one delimiter to the next, as many as were announced, begun and have    *)
(* room, and the last one ends before the header or trailer.               *)
(* (parser.cpp:201-255)                                                    *)
THEOREM GroupsAsWrittenHolds == Spec => []GroupsAsWritten
<1>1. Course => GroupsAsWritten
  <2> SUFFICES ASSUME Course, phase = "read",
                      NEW group \in Tags(received.fields) \ {8, 9, 10},
                      NEW delim \in Tags(received.fields) \ {8, 9, 10},
                      HasInt(received.fields, group)
               PROVE  AsWritten(received.fields, group, delim)
    BY DEF GroupsAsWritten
  <2> DEFINE fields == received.fields
             count == Min(Positions(fields, group))
             end == Min({i \in (count + 1)..Len(fields) : fields[i].tag \in {8, 9, 10}})
             B == {i \in Positions(fields, delim) : count < i /\ i < end}
             n == Max({0, Min({GetInt(fields, group), Cardinality(B), MAX_INSTANCES})})
  <2>a. get_group(fields, group, delim) = UpTo(fields, B, end, n) => AsWritten(fields, group, delim)
    BY DEF AsWritten
  <2>b. HasInt(fields, group) /\ count = Min(Positions(fields, group))
    OBVIOUS
  <2>1. Trailed(fields)
    BY ReadIsTrailed
  <2>2. GroupOf(fields, delim, count, end, B)
    BY <2>1, GroupIs
  <2> HIDE DEF end, B, count, fields
  <2>3. PICK a \in Int : a = GetInt(fields, group)
    <3>1. GetInt(fields, group) \in Ints
      BY FromCharsType DEF HasInt, GetInt, fields
    <3> QED  BY <3>1, CodecAssumption DEF Ints
  <2>4. PICK b \in Nat : b = Cardinality(B) /\ b = Rank(B, end)
    <3>1. B \in SUBSET Nat /\ IsFiniteSet(B) /\ \A x \in B : x < end
      BY <2>2 DEF GroupOf
    <3>a. {x \in B : x < end} = B
      BY <3>1
    <3>2. Cardinality(B) \in Nat
      BY <3>1, FS_CardinalityType
    <3> QED  BY <3>a, <3>2 DEF Rank
  <2>5. PICK c \in Nat \ {0} : c = MAX_INSTANCES
    BY CodecAssumption
  <2>6. ASSUME a > 0  PROVE get_group(fields, group, delim) = UpTo(fields, B, end, n)
    <3>1. PICK room : room = IF a <= c THEN a ELSE c
      OBVIOUS
    <3>2. Room(a, room)
      BY <2>5, <2>6, <3>1 DEF Room
    <3>3. n = IF b > room THEN room ELSE b
      BY <2>3, <2>4, <2>5, <2>6, <3>1, LeastOfThree
    <3>4. Instances(fields, delim, a, count) = UpTo(fields, B, end, n)
      <4>1. fields \in Seq(ReadFields)
        BY <2>1 DEF Trailed
      <4> QED  BY <2>2, <2>4, <3>2, <3>3, <4>1, InstancesAre
    <3> QED  BY <2>b, <2>3, <2>6, <3>4 DEF get_group
  <2>7. ASSUME ~(a > 0)  PROVE get_group(fields, group, delim) = UpTo(fields, B, end, n)
    <3>1. n = 0
      <4>1. PICK T : T = {a, b, c}
        OBVIOUS
      <4>2. n = Max({0, Min(T)})
        BY <2>3, <2>4, <2>5, <4>1
      <4>3. a <= b /\ a <= c
        BY <2>7
      <4>4. Min(T) = a
        <5>1. PICK x : x = CHOOSE y \in T : \A z \in T : y <= z
          OBVIOUS
        <5>2. a \in T /\ \A z \in T : a <= z
          BY <4>1, <4>3
        <5>3. x \in T /\ \A z \in T : x <= z
          BY <5>1, <5>2
        <5>4. x = a
          BY <4>1, <5>2, <5>3
        <5> QED  BY <5>1, <5>4 DEF Min
      <4>5. PICK x : x = CHOOSE y \in {0, a} : \A z \in {0, a} : y >= z
        OBVIOUS
      <4>6. 0 \in {0, a} /\ \A z \in {0, a} : 0 >= z
        BY <2>7
      <4>7. x \in {0, a} /\ \A z \in {0, a} : x >= z
        BY <4>5, <4>6
      <4>8. x = 0
        BY <2>7, <4>7
      <4> QED  BY <4>2, <4>4, <4>5, <4>8 DEF Max
    <3>2. get_group(fields, group, delim) = <<>>
      BY <2>b, <2>3, <2>7 DEF get_group
    <3>3. UpTo(fields, B, end, 0) = <<>>
      BY UpToNothing
    <3> QED  BY <3>1, <3>2, <3>3
  <2> HIDE DEF n
  <2>8. AsWritten(fields, group, delim)
    BY <2>a, <2>6, <2>7
  <2> QED  BY <2>8 DEF fields
<1> QED  BY <1>1, CourseAlways, PTL

=============================================================================
