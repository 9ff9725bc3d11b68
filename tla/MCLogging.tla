----------------------------- MODULE MCLogging ------------------------------
(* Logging for TLC: two threads and three loggers.                           *)
EXTENDS Logging

CONSTANTS t1, t2

TwoIds == {"default", "net", "spoilt"}
Levels == {"Debug", "Fatal", "Error", "Warning", "Verbose", "Info"}
\* Info is disabled for one of the loggers.
SomeLevels == [id \in {"default", "net", "lost", "spoilt"} |-> IF id = "net" THEN Levels \ {"Info"} ELSE Levels]

Line_(site, level, ids, parts, sys) ==
  [site |-> site, occasion |-> "always", n |-> 0, level |-> level, vlevel |-> 0, file |-> "",
   ids |-> ids, parts |-> parts, sys |-> sys, quote |-> <<>>]
Now_and_then(occasion, n) ==
  [Line_(occasion, "Error", <<"net">>, 0, TRUE) EXCEPT !.occasion = occasion, !.n = n]

Info == Line_("info", "Info", <<"default">>, 2, FALSE)
Sys == Line_("sys", "Error", <<"default">>, 1, TRUE)
\* Its message holds specifiers.
Quoting == [Line_("quoting", "Error", <<"net">>, 1, TRUE)
              EXCEPT !.quote = << Spec_("level"), Percent, Spec_("msg"), Spec_("thread") >>]
Both == Line_("both", "Info", <<"net", "default">>, 1, TRUE)
Three == Line_("three", "Error", <<"default", "net", "lost">>, 1, TRUE)
Die == Line_("die", "Fatal", <<"net">>, 1, FALSE)
Verbose == [Line_("verbose", "Verbose", <<"net">>, 1, TRUE)
              EXCEPT !.occasion = "verbose", !.vlevel = 2, !.file = "f"]
\* logger->error("%v %v", a, b); logger->verbose(2, a), whose file is that of Logger; and one with a value too many,
\* which leaves its logger locked: nothing else here uses that one.
Fmt(site, level, id, specs, args) ==
  [Line_(site, level, <<id>>, args + 1, TRUE) EXCEPT !.vlevel = 2, !.file = "f"]
    @@ [specs |-> specs, args |-> args]
Twice == Fmt("twice", "Error", "net", 2, 2)
Disabled == Fmt("disabled", "Info", "net", 1, 1)
Quiet == Fmt("quiet", "Verbose", "net", 0, 0)
Excess == Fmt("excess", "Error", "spoilt", 1, 2)

\* What thread 2 does to the site of Verbose.
Verbosity(op, to) == Line_(op, "Verbose", <<"net">>, 0, TRUE) @@ [op |-> op, to |-> to]
Raise == Verbosity("setVerboseLevel", 12)
Clear == Verbosity("clearVModules", 0)
Modules == Verbosity("setVModules", << [name |-> <<"f">>, level |-> 3], [name |-> <<"any">>, level |-> 1] >>)

Every == Now_and_then("every", 2)
After == Now_and_then("after", 1)
Times == Now_and_then("times", 1)

\* Eight times past the site whose counter goes up to KMax, then everything else.
TwoPrograms ==
  [t \in {t1, t2} |->
     IF t = t1 THEN { <<Every, Every, Every, Every>>, <<Info, Three, Times, After>>, <<Info, Verbose>>,
                     <<Twice, Quiet, Info, Excess>> }
     ELSE { <<Every, Every, Every, Every>>, <<Sys, Both, After, Times>>, <<Sys, Die>>,
            <<Quoting, Disabled>>, <<Modules, Clear, Raise>> }]

SomeArguments ==
  { << <<"--verbose">> >>, << <<"--v", 3>>, <<"--v", 0>> >>,
    << <<"-vmodule", << [name |-> <<"f">>, level |-> 1],
                        [name |-> <<"g">>, level |-> NoLevel],
                        [name |-> <<"f">>, level |-> 3] >> >> >>,
    << <<"-vmodule", << [name |-> <<"f">>, level |-> 2], [name |-> <<"any">>, level |-> 0] >> >> >> }

\* The format of penduo::Logger::Init(), and one with escapes; what some values may say.
Text(s) == <<s>>
TwoFormats ==
  LET penduo == << Spec_("datetime"), Spec_("level"), Text(" "), Spec_("fbase"), Text(":"),
                   Spec_("line"), Spec_("msg") >>
      escapes == << Percent, Spec_("msg"), Spec_("msg"), Percent, Spec_("level"), Spec_("logger"),
                    Spec_("thread"), Percent, Spec_("msg"), Spec_("own") >>
  IN  [id \in {"default", "net", "lost", "spoilt"} |-> IF id = "net" THEN escapes ELSE penduo]
SomeValues == [name \in Flagged |-> << Text(name) >>]
OneCustom == << <<"own", << Text("custom") >> >> >>

ASSUME TextsAreApart == TextsApart

SomeMatches == { <<"f", "f">>, <<"f", "any">> }

=============================================================================
