----------------------------- MODULE ConfigText -----------------------------
(***************************************************************************)
(* CandidateIni.c and ConfigEdit.c: the text of Config.ini.  A user writes *)
(* any file the strict parser accepts; setup then replaces its three       *)
(* targets, line by line, with an editor that has its own idea of lines,   *)
(* sections and keys.  Or there is no file, and setup formats a new one.   *)
(* Either way the text is parsed again before it is published.             *)
(*                                                                         *)
(* A line is a section, a key with its value, or a note (a comment, a      *)
(* blank line).  Only descriptions of disks are spelled out: their spaces  *)
(* and quotes are what the two sides may disagree about.  So are carriage  *)
(* returns: the parser skips them anywhere, the editor only at the end of  *)
(* a line.  A line may have one before its first character or within the   *)
(* name of its section or key; elsewhere neither side looks at it.         *)
(***************************************************************************)
EXTENDS Integers, Sequences, FiniteSets, Functions

CONSTANTS
  Keys,       \* for each section, its keys
  Values,     \* for each key, the values the user may give it
  Addresses,  \* where displays and disk controllers may be
  Texts,      \* descriptions of disks, also ones no file can hold
  EditTexts,  \* those an edit chooses from
  MaxText,    \* NCV_CONFIG_TEXT_BYTES - 1
  MaxLines,   \* how long a file the user writes
  MaxOdd      \* how many lines of the user are notes or have a carriage return

None == "none"   \* no name, no value, no section yet

ASSUME TextAssumption ==
  /\ MaxText \in Nat
  /\ Texts \cup EditTexts \subseteq Seq(UNION {Range(t) : t \in Texts \cup EditTexts})
  /\ DOMAIN Values = UNION Range(Keys)
  /\ None \notin DOMAIN Keys /\ {"Video", "Boot", "Behavior", "Marker"} \subseteq DOMAIN Keys
  /\ "Probe" \in Keys["Behavior"] /\ "Enabled" \in Keys["Marker"]
  /\ \A s \in DOMAIN Keys : /\ "TargetPci" \in Keys[s] <=> s = "Video"
                            /\ "TargetControllerPci" \in Keys[s] <=> s = "Boot"
                            /\ "TargetBbsDescription" \in Keys[s] <=> s = "Boot"

VARIABLES
  stage,
  file,       \* the user's Config.ini
  description, \* of the chosen disk
  address,    \* of the chosen display, and of the controller of the disk
  position,   \* the next line to edit
  section,    \* Section: of the editor
  seen,       \* Seen: the targets already written
  output

textVars == <<stage, file, description, address, position, section, seen, output>>

Devices == {"TargetPci", "TargetControllerPci"}
Targets == Devices \cup {"TargetBbsDescription"}

Section(s)    == [kind |-> "section", name |-> s, value |-> None, cr |-> None]
Setting(k, v) == [kind |-> "key", name |-> k, value |-> v, cr |-> None]
Note          == [kind |-> "note", name |-> None, value |-> None, cr |-> None]

-----------------------------------------------------------------------------
(* Descriptions.                                                           *)

Blank     == " "
Quote     == "quote"
Backslash == "backslash"

NcvIniValueIsExactlyRepresentable(text) ==
  /\ Len(text) \in 1 .. MaxText
  /\ "=" \notin Range(text) /\ "control" \notin Range(text)
  /\ Range(text) # {Blank}

\* Each character, after a backslash where it needs one.
PutEscaped(out, char) ==
  IF char \in {Quote, Backslash} THEN out \o <<Backslash, char>> ELSE Append(out, char)

Putting(text) ==
  LET out[k \in 0 .. Len(text)] == IF k = 0 THEN << >> ELSE PutEscaped(out[k - 1], text[k])
  IN out

Escaped(text) == Putting(text)[Len(text)]

\* Mutant: a blank at the end needs no quotes.
EncodeLeadingOnly(text) ==
  IF text[1] \in {Blank, Quote} THEN <<Quote>> \o Escaped(text) \o <<Quote>> ELSE text

NcvEncodeDiskDescription(text) ==
  IF text[1] \in {Blank, Quote} \/ text[Len(text)] = Blank
  THEN <<Quote>> \o Escaped(text) \o <<Quote>> ELSE text

Solid(text) == {k \in DOMAIN text : text[k] # Blank}

Trim(text) ==
  IF Solid(text) = {} THEN << >>
  ELSE SubSeq(text, CHOOSE k \in Solid(text) : \A o \in Solid(text) : k <= o,
                    CHOOSE k \in Solid(text) : \A o \in Solid(text) : o <= k)

\* What has been read of a value in quotes, and whether its next character is
\* escaped.
ReadChar(read, char) ==
  IF char = Backslash /\ ~read.escaped THEN [text |-> read.text, escaped |-> TRUE]
  ELSE [text |-> Append(read.text, char), escaped |-> FALSE]

Reading(inner) ==
  LET read[k \in 0 .. Len(inner)] ==
        IF k = 0 THEN [text |-> << >>, escaped |-> FALSE] ELSE ReadChar(read[k - 1], inner[k])
  IN read

\* A backslash escapes a quote or a backslash, and a quote is escaped.
WellEscaped(inner) ==
  /\ \A k \in 1 .. Len(inner) :
       /\ Reading(inner)[k - 1].escaped => inner[k] \in {Quote, Backslash}
       /\ inner[k] = Quote => Reading(inner)[k - 1].escaped
  /\ ~Reading(inner)[Len(inner)].escaped

\* The description in a value: at most one, none when the value is malformed.
\* The first quote that is not escaped must be the last character.
CopyDiskDescription(value) ==
  LET n     == Len(value)
      inner == SubSeq(value, 2, n - 1)
  IN IF n = 0 THEN {}
     ELSE IF value[1] # Quote THEN {t \in {value} : n <= MaxText}
     ELSE {t \in {Reading(inner)[Len(inner)].text} :
             /\ n > 1 /\ value[n] = Quote /\ WellEscaped(inner)
             /\ NcvIniValueIsExactlyRepresentable(t)}

-----------------------------------------------------------------------------
(* The strict parser.                                                      *)

\* A value the parser accepts, as it is stored; none otherwise.
SetKeyValue(key, value) ==
  IF key = "TargetBbsDescription" THEN CopyDiskDescription(Trim(value)) ELSE {value}

SectionsTo(lines, k) == {j \in 1 .. k : lines[j].kind = "section"}

SectionAt(lines, k) ==
  IF SectionsTo(lines, k) = {} THEN None
  ELSE lines[CHOOSE j \in SectionsTo(lines, k) : \A o \in SectionsTo(lines, k) : o <= j].name

KeyLines(lines) == {k \in DOMAIN lines : lines[k].kind = "key"}

\* Every section known and opened once, every key in its section, once, and
\* with a value it accepts; wherever there are carriage returns.
LineIsGood(lines, k) ==
  /\ lines[k].kind = "section" => lines[k].name \in DOMAIN Keys
  /\ lines[k].kind = "key" =>
       /\ SectionAt(lines, k) # None /\ lines[k].name \in Keys[SectionAt(lines, k)]
       /\ SetKeyValue(lines[k].name, lines[k].value) # {}
  /\ lines[k].kind # "note" =>
       \A j \in 1 .. k - 1 : <<lines[j].kind, lines[j].name>> # <<lines[k].kind, lines[k].name>>

LinesAreGood(lines) == \A k \in DOMAIN lines : LineIsGood(lines, k)

\* With no key of the section, or with it off, nothing else is asked of it.
\* "0" stands for a number that is zero, and for a range that does not fit.
MarkerConfigIsValid(values) ==
  LET given == {set[1] : set \in values} \cap Keys["Marker"]
  IN \/ given = {}
     \/ <<"Enabled", "false">> \in values
     \/ /\ <<"Enabled", "true">> \in values /\ Keys["Marker"] \ {"Header"} \subseteq given
        /\ \A set \in values :
             set[1] \in {"Partition", "Signature", "Start", "Sectors"} => set[2] # "0"

\* One device as the display and as the controller, for a boot.
SameDevice(values) ==
  /\ <<"Probe", "false">> \in values
  /\ \E set, other \in values :
       set[1] = "TargetPci" /\ other[1] = "TargetControllerPci" /\ set[2] = other[2]

Stored(lines) ==
  UNION {{lines[k].name} \X SetKeyValue(lines[k].name, lines[k].value) : k \in KeyLines(lines)}

NcvParseConfigStrict(lines) ==
  [ok     |-> LinesAreGood(lines) /\ MarkerConfigIsValid(Stored(lines)) /\ ~SameDevice(Stored(lines)),
   values |-> Stored(lines)]

\* "Probe" stands for the mode and the endpoint policies a boot requires.
Has(p, key)   == \E set \in p.values : set[1] = key
BootReady(p)  == p.ok /\ <<"Probe", "false">> \in p.values /\ \A key \in Devices : Has(p, key)
Retained(p)   == {set \in p.values : set[1] \notin Targets}
Chosen        == {<<key, address[key]>> : key \in Devices} \cup {<<"TargetBbsDescription", description>>}

VerifyGeneratedBytes(lines) ==
  LET p == NcvParseConfigStrict(lines) IN BootReady(p) /\ Chosen \subseteq p.values

-----------------------------------------------------------------------------
(* The user.                                                               *)

TextInit ==
  /\ stage = "typing" /\ file = << >> /\ description = << >>
  /\ address = [key \in Devices |-> None]
  /\ position = 1 /\ section = None /\ seen = {} /\ output = << >>

Lines ==
  {Section(s) : s \in DOMAIN Keys} \cup {Note}
  \cup UNION {{Setting(k, v) : v \in Values[k]} : k \in DOMAIN Values}

Odd == {k \in DOMAIN file : file[k].kind = "note" \/ file[k].cr # None}

\* A file is good as far as it goes; the checks of the whole file come later.
TypeLine ==
  /\ stage = "typing" /\ Len(file) < MaxLines
  /\ \E line \in Lines, cr \in {None, "before", "within"} :
       /\ cr = "within" => line.kind # "note"
       /\ line.kind = "note" \/ cr # None => Cardinality(Odd) < MaxOdd
       /\ file' = Append(file, [line EXCEPT !.cr = cr])
       /\ LinesAreGood(file')
  /\ UNCHANGED <<stage, description, address, position, section, seen, output>>

-----------------------------------------------------------------------------
(* Setup.  Only a disk that a file can hold is eligible.                   *)

StartEdit ==
  /\ stage = "typing" /\ BootReady(NcvParseConfigStrict(file))
  /\ description' \in EditTexts /\ NcvIniValueIsExactlyRepresentable(description')
  /\ address' \in [Devices -> Addresses]
  /\ stage' = "edit"
  /\ UNCHANGED <<file, position, section, seen, output>>

Written(key) ==
  Setting(key, IF key = "TargetBbsDescription" THEN NcvEncodeDiskDescription(description) ELSE address[key])

AppendDescription(lines) == Append(lines, Written("TargetBbsDescription"))

EndsBoot == section = "Boot" /\ "TargetBbsDescription" \notin seen

\* The editor trims blanks at the start of a line, but not carriage returns;
\* one within the name makes it some other section, or some other key.
EditSection(line) ==
  /\ line.kind = "section" /\ line.cr # "before"
  /\ section' = (IF line.name \in {"Video", "Boot"} /\ line.cr = None THEN line.name ELSE None)
  /\ output' = Append(IF EndsBoot THEN AppendDescription(output) ELSE output, line)
  /\ seen' = (IF EndsBoot THEN seen \cup {"TargetBbsDescription"} ELSE seen)
  /\ UNCHANGED stage

IsTarget(line) ==
  /\ line.kind = "key" /\ line.cr = None
  /\ line.name \in IF section = "Video" THEN {"TargetPci"}
                   ELSE IF section = "Boot" THEN {"TargetControllerPci", "TargetBbsDescription"} ELSE {}

EditTarget(line) ==
  /\ IsTarget(line) /\ UNCHANGED section
  /\ IF line.name \in seen
     THEN stage' = "invalid" /\ UNCHANGED <<seen, output>>
     ELSE /\ seen' = seen \cup {line.name}
          /\ output' = Append(output, Written(line.name)) /\ UNCHANGED stage

\* Mutant: the two sections with targets are written anew.
DropNeighbours(line) ==
  /\ ~IsTarget(line) /\ (line.kind # "section" \/ line.cr = "before")
  /\ output' = (IF line.kind = "key" /\ section # None THEN output ELSE Append(output, line))
  /\ UNCHANGED <<stage, section, seen>>

CopyLine(line) ==
  /\ ~IsTarget(line) /\ (line.kind # "section" \/ line.cr = "before")
  /\ output' = Append(output, line) /\ UNCHANGED <<stage, section, seen>>

EditLine ==
  /\ stage = "edit" /\ position <= Len(file) /\ position' = position + 1
  /\ EditSection(file[position]) \/ EditTarget(file[position]) \/ CopyLine(file[position])
  /\ UNCHANGED <<file, description, address>>

\* Any line may be the one the buffer has no room for.
OutOfRoom ==
  /\ stage = "edit" /\ stage' = "capacity"
  /\ UNCHANGED <<file, description, address, position, section, seen, output>>

EditEnd ==
  /\ stage = "edit" /\ position > Len(file)
  /\ output' = (IF EndsBoot THEN AppendDescription(output) ELSE output)
  /\ seen' = (IF EndsBoot THEN seen \cup {"TargetBbsDescription"} ELSE seen)
  /\ stage' = (IF seen' = Targets THEN "verify" ELSE "invalid")
  /\ UNCHANGED <<file, description, address, position, section>>

\* A candidate is a few comments and its targets.  The targets of those that
\* are not selected are comments too, whatever is in their descriptions.
FormatDisplay(selected) == <<Note, IF selected THEN Written("TargetPci") ELSE Note>>
FormatStorage(selected) ==
  <<Note>> \o IF selected THEN <<Written("TargetControllerPci"), Written("TargetBbsDescription")>>
              ELSE <<Note, Note>>

SelectFresh ==
  /\ stage = "typing" /\ file = << >> /\ stage' = "format"
  /\ description' \in Texts /\ address' \in [Devices -> Addresses]
  /\ UNCHANGED <<file, position, section, seen, output>>

NcvFormatCandidateIni ==
  /\ stage = "format" /\ NcvIniValueIsExactlyRepresentable(description)
  /\ \E g, d \in 1 .. 2 :
       output' = <<Note, Section("Marker"), Setting("Enabled", "false"),
                   Section("Behavior"), Setting("Probe", "false"), Section("Video")>>
                 \o FormatDisplay(g = 1) \o FormatDisplay(g = 2) \o <<Section("Boot")>>
                 \o FormatStorage(d = 1) \o FormatStorage(d = 2)
  /\ stage' = "verify"
  /\ UNCHANGED <<file, description, address, position, section, seen>>

Verify ==
  /\ stage = "verify"
  /\ stage' = (IF VerifyGeneratedBytes(output) THEN "published" ELSE "unverified")
  /\ UNCHANGED <<file, description, address, position, section, seen, output>>

Done ==
  /\ \/ stage \in {"typing", "published", "unverified", "invalid", "capacity"}
     \/ stage = "format" /\ ~NcvIniValueIsExactlyRepresentable(description)
  /\ UNCHANGED textVars

TextNext ==
  TypeLine \/ StartEdit \/ EditLine \/ OutOfRoom \/ EditEnd
  \/ SelectFresh \/ NcvFormatCandidateIni \/ Verify \/ Done

TextSpec == TextInit /\ [][TextNext]_textVars

-----------------------------------------------------------------------------
(* Properties.                                                             *)

\* What is published selects the chosen targets, and every other setting of an
\* edited file keeps its value: VerifyGeneratedBytes looks at the targets only,
\* so the rest hangs on the editor.
EditExact ==
  stage = "published" =>
    LET new == NcvParseConfigStrict(output)
    IN /\ new.ok /\ Chosen \subseteq new.values
       /\ file # << >> => Retained(new) = Retained(NcvParseConfigStrict(file))

\* A carriage return where only the editor sees it: before a section, or in
\* the name of one with targets, or with the key of a target.
Strays ==
  {k \in DOMAIN file :
     \/ file[k].kind = "section" /\ file[k].cr = "before"
     \/ file[k].cr # None /\ file[k].name \in {"Video", "Boot"} \cup Targets}

\* A file the parser accepts is never refused by the editor for its contents,
\* and its own output never by the parser, whatever blanks, quotes and
\* backslashes the chosen description has, and wherever its notes and other
\* carriage returns are.  There are two exceptions: a carriage return that
\* hides a section or a target from the editor; and one device chosen as the
\* display and as the controller, which the parser does not take for a boot.
EditAccepts ==
  /\ stage = "invalid" => Strays # {}
  /\ stage = "unverified" => Strays # {} \/ address["TargetPci"] = address["TargetControllerPci"]

=============================================================================
