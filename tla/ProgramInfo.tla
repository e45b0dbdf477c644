----------------------------- MODULE ProgramInfo -----------------------------
(***************************************************************************)
(* A program on the wire (RcvProgramInfo and MakeProgramInfo in            *)
(* cppmyth/src/proto/mythprotobase.cpp).  Every version of the protocol    *)
(* has its own order of fields, written out twice in the code: once to     *)
(* read a program and once to make one.  A field is a text or a number;    *)
(* of a number its digits are a name, its sign and the bits it needs       *)
(* decide what the conversions of cppmyth/src/private/builtin.c make of it.*)
(***************************************************************************)
EXTENDS Naturals, SequencesExt

Text(s) == [text |-> TRUE, val |-> s, neg |-> FALSE, bits |-> 0]
Number(digits, neg, bits) == [text |-> FALSE, val |-> digits, neg |-> neg, bits |-> bits]
Zero == Number("0", FALSE, 0)

----------------------------------------------------------------------------
(***************************************************************************)
(* The fields of struct Program, with its channel and its recording        *)
(***************************************************************************)
CType ==
  [title |-> "str", subTitle |-> "str", description |-> "str", season |-> "uint16",
   episode |-> "uint16", category |-> "str", catType |-> "str", hostName |-> "str",
   fileName |-> "str", fileSize |-> "int64", startTime |-> "int64", endTime |-> "int64",
   programFlags |-> "uint32", seriesId |-> "str", programId |-> "str", inetref |-> "str",
   lastModified |-> "int64", stars |-> "double", airdate |-> "str", audioProps |-> "uint16",
   videoProps |-> "uint16", subProps |-> "uint16", chanId |-> "uint32", chanNum |-> "str",
   callSign |-> "str", channelName |-> "str", chanFilters |-> "str", sourceId |-> "uint32",
   inputId |-> "uint32", recordId |-> "uint32", priority |-> "int32", status |-> "int8",
   recType |-> "uint8", dupInType |-> "uint8", dupMethod |-> "uint8", startTs |-> "int64",
   endTs |-> "int64", recGroup |-> "str", storageGroup |-> "str", playGroup |-> "str",
   recordedId |-> "uint32"]

\* new Program(): the constructors of Program, Channel and Recording.
NewProgram ==
  [f \in DOMAIN CType |->
     CASE CType[f] = "str" -> Text("")
       [] f = "dupInType" -> Number("InRecorded", FALSE, 1)
       [] f = "dupMethod" -> Number("CheckNone", FALSE, 1)
       [] OTHER -> Zero]

\* The magnitude a type can hold.
Width == [uint8 |-> 8, uint16 |-> 16, uint32 |-> 32, int8 |-> 7, int32 |-> 31, int64 |-> 63]
Fits(type, u) == u.bits <= Width[type] /\ ~(u.neg /\ type \in {"uint8", "uint16", "uint32"})

----------------------------------------------------------------------------
(***************************************************************************)
(* The table of category types: number and name, since version 79          *)
(***************************************************************************)
categoryType == {<<"0", "">>, <<"1", "movie">>, <<"2", "series">>, <<"3", "sports">>, <<"4", "tvshow">>}
CategoryTypeToString(digits) ==
  IF \E c \in categoryType : c[1] = digits
    THEN (CHOOSE c \in categoryType : c[1] = digits)[2] ELSE ""
CategoryTypeToNum(name) ==
  IF \E c \in categoryType : c[2] = name
    THEN (CHOOSE c \in categoryType : c[2] = name)[1] ELSE "0"

----------------------------------------------------------------------------
(***************************************************************************)
(* Reading                                                                 *)
(***************************************************************************)
\* string_to_*: nothing for what is not a number or out of range.  Without a
\* digit the integers read 0.
StringTo(type, u) ==
  CASE type = "str" -> {u}
    [] type = "double" -> {x \in {u} : ~x.text}
    [] OTHER -> IF u = Text("") THEN {Zero} ELSE {x \in {u} : ~x.text /\ Fits(type, x)}

Skipped ==
  {"findid", "cardid", "recpriority2", "parentid", "syndicatedEpisode", "totalEpisodes",
   "year", "partNumber", "partTotal", "inputName", "bookmarkUpdate"}

\* What field u is read as for f; nothing: it is refused.
ReadProgramField(f, u) ==
  CASE f \in Skipped -> {u}
    [] f = "catType" -> {Text(CategoryTypeToString(x.val)) : x \in StringTo("int64", u)}
    [] OTHER -> StringTo(CType[f], u)

RcvProgramInfo75 ==
  <<"title", "subTitle", "description", "season", "episode", "category", "chanId", "chanNum",
    "callSign", "channelName", "fileName", "fileSize", "startTime", "endTime", "findid",
    "hostName", "sourceId", "cardid", "inputId", "priority", "status", "recordId", "recType",
    "dupInType", "dupMethod", "startTs", "endTs", "programFlags", "recGroup", "chanFilters",
    "seriesId", "programId", "inetref", "lastModified", "stars", "airdate", "playGroup",
    "recpriority2", "parentid", "storageGroup", "audioProps", "videoProps">>
RcvProgramInfo76 ==
  InsertAt(RcvProgramInfo75, 6, "syndicatedEpisode")
    \o <<"subProps", "year", "partNumber", "partTotal">>
RcvProgramInfo79 == Append(InsertAt(RcvProgramInfo76, 6, "totalEpisodes"), "catType")
\* Mutant: the fields of release 0.28 are taken for those of 0.27.
RcvProgramInfo82Old == RcvProgramInfo79
RcvProgramInfo82 == Append(RcvProgramInfo79, "recordedId")
RcvProgramInfo86 == RcvProgramInfo82 \o <<"inputName", "bookmarkUpdate">>

RcvProgramInfo(version) ==
  CASE version >= 86 -> RcvProgramInfo86
    [] version \in 82..85 -> RcvProgramInfo82
    [] version \in 79..81 -> RcvProgramInfo79
    [] version \in 76..78 -> RcvProgramInfo76
    [] OTHER -> RcvProgramInfo75

----------------------------------------------------------------------------
(***************************************************************************)
(* Making                                                                  *)
(***************************************************************************)
Blank == {"syndicatedEpisode", "inputName", "bookmarkUpdate"}
MakeProgramField(program, f) ==
  CASE f \in Blank -> Text("")
    [] f \in Skipped \ Blank -> Zero
    [] f = "catType" ->
         LET digits == CategoryTypeToNum(program.catType.val)
         IN  IF digits = "0" THEN Zero ELSE Number(digits, FALSE, 3)
    [] OTHER -> program[f]

MakeProgramInfo75 ==
  <<"title", "subTitle", "description", "season", "episode", "category", "chanId", "chanNum",
    "callSign", "channelName", "fileName", "fileSize", "startTime", "endTime", "findid",
    "hostName", "sourceId", "cardid", "inputId", "priority", "status", "recordId", "recType",
    "dupInType", "dupMethod", "startTs", "endTs", "programFlags", "recGroup", "chanFilters",
    "seriesId", "programId", "inetref", "lastModified", "stars", "airdate", "playGroup",
    "recpriority2", "parentid", "storageGroup", "audioProps", "videoProps", "subProps", "year">>
MakeProgramInfo76 ==
  InsertAt(MakeProgramInfo75, 6, "syndicatedEpisode") \o <<"partNumber", "partTotal">>
MakeProgramInfo79 == Append(InsertAt(MakeProgramInfo76, 6, "totalEpisodes"), "catType")
MakeProgramInfo82 == Append(MakeProgramInfo79, "recordedId")
MakeProgramInfo86 == MakeProgramInfo82 \o <<"inputName", "bookmarkUpdate">>

MakeProgramLayout(version) ==
  CASE version >= 86 -> MakeProgramInfo86
    [] version \in 82..85 -> MakeProgramInfo82
    [] version \in 79..81 -> MakeProgramInfo79
    [] version \in 76..78 -> MakeProgramInfo76
    [] OTHER -> MakeProgramInfo75
MakeProgramInfo(version, program) ==
  LET fields == MakeProgramLayout(version)
  IN  [i \in DOMAIN fields |-> MakeProgramField(program, fields[i])]

=============================================================================
