------------------------------ MODULE LogSites ------------------------------
(***************************************************************************)
(* What decides, before a line is written, whether it is: the counters of  *)
(* RegisteredHitCounters behind LOG_EVERY_N, LOG_AFTER_N and LOG_N_TIMES,  *)
(* and the verbose levels of VRegistry behind VLOG.                        *)
(*                                                                         *)
(* A pattern stands for a module's name with each of the file extensions   *)
(* that setModules() adds; a name of several parts is one that was never   *)
(* ended by a level, and matches nothing.                                  *)
(***************************************************************************)
EXTENDS Naturals, SequencesExt

CONSTANTS KMax,     \* kMaxLogPerCounter
          MaxLevel, \* kMaxVerboseLevel
          Matches,  \* <<file, name>>: wildCardMatch() of a file and the name of a module
          NoLevel   \* the level of a module that is given none

ASSUME SiteAssumption == KMax \in Nat \ {0} /\ MaxLevel \in Nat /\ NoLevel \notin Nat

\* A mutant: the counter starts at nothing.
validateFromZero(h, n) == 1 + IF h < KMax THEN h ELSE 0

\* A counter at its limit goes back to where its phase of n is the same.
validateHitCounts(h, n) == 1 + IF h < KMax THEN h ELSE IF n >= 1 THEN KMax % n ELSE 0

\* What each occasion makes of a counter, and whether the line is written.
Count(occasion, h, n) ==
  CASE occasion = "every" -> validateHitCounts(h, n)
    [] occasion = "after" -> IF h >= n THEN h ELSE h + 1
    [] occasion = "times" -> h + 1
    [] OTHER -> h

Hits(occasion, h, n) ==
  CASE occasion = "every" -> n >= 1 /\ validateHitCounts(h, n) % n = 0
    [] occasion = "after" -> h >= n
    [] occasion = "times" -> h + 1 <= n
    [] OTHER -> TRUE

-----------------------------------------------------------------------------
\* v is a VRegistry: [level, modules], modules a function from names to levels.

NoModules == [level |-> 0, modules |-> <<>>]

setLevel(v, level) == [v EXCEPT !.level = IF level > MaxLevel THEN MaxLevel ELSE level]

\* A name without a level is kept and becomes part of the next one, as a level without
\* a name becomes that of the next one. A module stays as first given.
setModules(v, entries) ==
  LET Read(s, e) ==
        LET name == s.name \o e.name
            level == IF e.level = NoLevel THEN s.level ELSE e.level
        IN  IF name = <<>> \/ level = NoLevel
            THEN [s EXCEPT !.name = name, !.level = level]
            ELSE [modules |-> s.modules @@ (name :> level), name |-> <<>>, level |-> NoLevel]
      start == [modules |-> v.modules, name |-> <<>>, level |-> NoLevel]
  IN  [v EXCEPT !.modules = FoldLeft(Read, start, entries).modules]

clearModules(v) == [v EXCEPT !.modules = <<>>]

\* The map has no order: of several names that match, any may be the one found.
AllowedBy(v, vlevel, file, flags) ==
  LET found == {m \in DOMAIN v.modules : Len(m) = 1 /\ <<file, m[1]>> \in Matches}
  IN  IF v.modules = <<>> THEN {vlevel <= v.level}
      ELSE IF found # {} THEN {vlevel <= v.modules[m] : m \in found}
      ELSE {"AllowVerboseIfModuleNotSpecified" \in flags}

-----------------------------------------------------------------------------
\* Arguments of a command line are <<name>> or <<name, value>>, from name=value.

\* Of the values of a name the first counts.
setArgs(argv) ==
  FoldLeft(LAMBDA a, x : IF Len(x) = 1 THEN [a EXCEPT !.params = @ \cup {x[1]}]
                         ELSE [a EXCEPT !.values = @ @@ (x[1] :> x[2])],
           [params |-> {}, values |-> <<>>], argv)

hasParamWithValue(args, name) == name \in DOMAIN args.values

\* The other spellings of these names are left out.
setFromArgs(v, args, flags) ==
  IF "--verbose" \in args.params THEN setLevel(v, MaxLevel)
  ELSE IF hasParamWithValue(args, "--v") THEN setLevel(v, args.values["--v"])
  ELSE IF hasParamWithValue(args, "-vmodule") /\ "DisableVModules" \notin flags
  THEN setModules(v, args.values["-vmodule"])
  ELSE v

=============================================================================
