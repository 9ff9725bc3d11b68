---------------------------- MODULE MCLogRegistry ---------------------------
(* LogRegistry for TLC: two loggers, two levels, three files of which one    *)
(* cannot be opened.                                                         *)
EXTENDS LogRegistry

TwoLevels == <<"Debug", "Info">>
TwoIds == {"default", "net"}
Files == [f \in {"default.log", "a.log", "b.log"} |-> IF f = "a.log" THEN 2 ELSE 0]
BadFiles == {"b.log"}

SomeSettings == { <<"Debug", "Filename", "a.log">>, <<"Global", "Filename", "a.log">>,
                  <<"Debug", "LogFlushThreshold", 2>>, <<"Info", "Filename", "b.log">>}

Config(t, v) == [kind |-> "config", type |-> t, value |-> v]
Level(l) == [kind |-> "level", level |-> l]

\* A file limit for all levels; a value without a level and a type there is not, both
\* refused, then a value with a level, and one by the other name of its type.
SomeTexts == { << Level("global"), Config("max_log_file_size", 2), Level("debug"), Config("to_file", FALSE) >>,
               << Config("enabled", FALSE), [kind |-> "comment"], Level("none"), Config("enabled", FALSE),
                  Level("info"), Config("colour", 1), Config("enabled", FALSE),
                  Config("milliseconds_width", 6) >> }

SomeGlobals == { << [id |-> "net", lines |-> << Level("global"), Config("log_flush_threshold", 3) >>],
                    [id |-> "default", lines |-> << Level("info"), Config("filename", "a.log") >>] >> }

InitText == << Level("global"), Config("format", "penduo"), Config("to_file", FALSE),
               Config("to_standard_output", TRUE), Config("subsecond_precision", 6) >>

=============================================================================
