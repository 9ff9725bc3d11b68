------------------------- MODULE LogConfigurations --------------------------
(***************************************************************************)
(* el::Configurations: the list of <<level, type, value>> that a logger is *)
(* configured with, how it is filled, and how text is parsed into it.      *)
(*                                                                         *)
(* A list keeps the order in which its entries were first set; a value set *)
(* again stays where it is.  Setting the global level sets every level.    *)
(***************************************************************************)
EXTENDS Naturals, SequencesExt, Loops

CONSTANT LevelOrder  \* the levels below Global, in the order of forEachLevel()

Global == "Global"
Levels == Range(LevelOrder)

\* Types of configuration. PerformanceTracking and SubsecondPrecision exist for Global only.
GlobalTypes == {"SubsecondPrecision", "PerformanceTracking"}
LevelTypes == {"Enabled", "ToFile", "ToStandardOutput", "Format", "MaxLogFileSize",
               "LogFlushThreshold"}
Types == GlobalTypes \cup LevelTypes \cup {"Filename"}

Entry(l, t, v) == [level |-> l, type |-> t, value |-> v]

\* Where the list has an entry for the level and type: nowhere or once.
At(c, l, t) == {i \in DOMAIN c : c[i].level = l /\ c[i].type = t}

hasConfiguration(c, l, t) == At(c, l, t) # {}

Place(c, l, t) == CHOOSE i \in At(c, l, t) : TRUE

ValueAt(c, l, t) == c[Place(c, l, t)].value

\* An entry that the list has keeps its place.
SetOne(c, l, t, v) ==
  IF hasConfiguration(c, l, t)
  THEN [c EXCEPT ![Place(c, l, t)].value = v]
  ELSE Append(c, Entry(l, t, v))

\* The loop over all levels is not given Global.
unsafeSetGlobally(c, t, v) == Loop(LAMBDA d, l : SetOne(d, l, t, v), c, LevelOrder)

unsafeSet(c, l, t, v) ==
  IF l = Global THEN unsafeSetGlobally(SetOne(c, l, t, v), t, v) ELSE SetOne(c, l, t, v)

\* After unsafeSet() it spreads a global value once more, which changes nothing.
set(c, l, t, v) == unsafeSet(c, l, t, v)

setGlobally(c, t, v, includeGlobal) ==
  IF includeGlobal THEN set(c, Global, t, v) ELSE unsafeSetGlobally(c, t, v)

unsafeSetIfNotExist(c, l, t, v) ==
  IF hasConfiguration(c, l, t) THEN c ELSE unsafeSet(c, l, t, v)

\* A mutant: what the logger has stays.
setFromBaseIfNew(c, base) ==
  Loop(LAMBDA d, e : unsafeSetIfNotExist(d, e.level, e.type, e.value), c, base)

setFromBase(c, base) == Loop(LAMBDA d, e : set(d, e.level, e.type, e.value), c, base)

-----------------------------------------------------------------------------

\* What setToDefault() gives to setGlobally(), for Global too, and then to set().
Defaults ==
  << Entry(Global, "Enabled", TRUE), Entry(Global, "Filename", "default.log"),
     Entry(Global, "ToFile", TRUE), Entry(Global, "ToStandardOutput", TRUE),
     Entry(Global, "SubsecondPrecision", 3), Entry(Global, "PerformanceTracking", TRUE),
     Entry(Global, "MaxLogFileSize", 0), Entry(Global, "LogFlushThreshold", 0),
     Entry(Global, "Format", "plain") >>

Formats ==
  << Entry("Debug", "Format", "host func loc"), Entry("Error", "Format", "plain"),
     Entry("Fatal", "Format", "plain"), Entry("Verbose", "Format", "vlevel"),
     Entry("Trace", "Format", "func loc") >>

setToDefault(c) == setFromBase(setFromBase(c, Defaults), Formats)

\* ToFile and LogFlushThreshold are not among what setRemainingToDefault() sets.
setRemaining(c, e) ==
  IF e.type \in {"ToFile", "LogFlushThreshold"} THEN c
  ELSE unsafeSetIfNotExist(c, e.level, e.type, e.value)

setRemainingToDefault(c) == Loop(setRemaining, c, Defaults \o Formats)

-----------------------------------------------------------------------------
\* A line of text is [kind |-> "comment"], [kind |-> "level", level |-> ...],
\* [kind |-> "config", type |-> ..., value |-> ...] or of another kind; its layout, and the
\* case of its words, are left out.

Unknown == "Unknown"

stringToLevelMap ==
  [global |-> Global, debug |-> "Debug", info |-> "Info", warning |-> "Warning",
   error |-> "Error", fatal |-> "Fatal", verbose |-> "Verbose", trace |-> "Trace"]

\* One type has two names.
configStringToTypeMap ==
  [enabled |-> "Enabled", to_file |-> "ToFile", to_standard_output |-> "ToStandardOutput",
   format |-> "Format", filename |-> "Filename", subsecond_precision |-> "SubsecondPrecision",
   milliseconds_width |-> "SubsecondPrecision", performance_tracking |-> "PerformanceTracking",
   max_log_file_size |-> "MaxLogFileSize", log_flush_threshold |-> "LogFlushThreshold"]

convertFromString(map, word) == IF word \in DOMAIN map THEN map[word] ELSE Unknown

\* p holds the list, the level of the last level line and the result of the last line.
parseLine(p, line) ==
  LET type == IF line.kind = "config" THEN convertFromString(configStringToTypeMap, line.type)
              ELSE Unknown
  IN  CASE line.kind = "comment" -> [p EXCEPT !.ok = TRUE]
        [] line.kind = "level" ->
             [p EXCEPT !.ok = TRUE, !.level = convertFromString(stringToLevelMap, line.level)]
        [] p.level # Unknown /\ type # Unknown ->
             [p EXCEPT !.ok = TRUE, !.list = set(p.list, p.level, type, line.value)]
        [] OTHER -> [p EXCEPT !.ok = FALSE]

\* A line that cannot be parsed is reported and passed over; the last line decides the result.
parseFromText(c, lines) ==
  Loop(parseLine, [list |-> c, level |-> Unknown, ok |-> FALSE], lines)

=============================================================================
