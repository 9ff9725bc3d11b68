------------------------------ MODULE LogFormat -----------------------------
(***************************************************************************)
(* el::base::LogFormat and DefaultLogBuilder: how a format with specifiers *)
(* such as %level and %msg becomes a line.  Each specifier is searched for *)
(* in what the ones before it have left, and its first occurrence that is  *)
(* not escaped by a % is replaced.                                         *)
(*                                                                         *)
(* A text is a sequence of tokens: a specifier <<"%", name>>, the single   *)
(* character Percent, or anything else, which is nowhere searched for.     *)
(* The {...} of %datetime is left out, and so is that a specifier of one   *)
(* letter is overlooked right behind an escaped one.                       *)
(***************************************************************************)
EXTENDS Naturals, SequencesExt, Loops

Percent == <<"%">>
Spec_(name) == <<"%", name>>

\* A mutant: the message is replaced first.
BuiltMessageFirst ==
  << "msg", "app", "thread", "datetime", "func", "file", "fbase", "line", "loc", "vlevel" >>

\* The specifiers with a flag, in the order in which build() replaces those it does.
Built == << "app", "thread", "datetime", "func", "file", "fbase", "line", "loc", "vlevel", "msg" >>
Flagged == Range(Built) \cup {"level", "levshort", "logger", "user", "host"}

Occurrences(s, name) == {i \in DOMAIN s : s[i] = Spec_(name)}
Escaped(s, i) == i > 1 /\ s[i - 1] = Percent

\* Where s has the specifier unescaped first; behind its end if nowhere.
FirstPlain(s, name) ==
  Min({i \in Occurrences(s, name) : ~Escaped(s, i)} \cup {Len(s) + 1})

Has(s, name) == FirstPlain(s, name) <= Len(s)

\* What s ends with would not escape what follows it.
EndsPlain(s) == s = <<>> \/ s[Len(s)] # Percent

Indexes(s) == [i \in DOMAIN s |-> i]

\* s without the tokens at some places.
Without(s, places) ==
  Loop(LAMBDA r, i : IF i \in places THEN r ELSE Append(r, s[i]), <<>>, Indexes(s))

\* What is escaped in front of the first plain occurrence loses its escape.
replaceFirstWithEscape(s, name, value) ==
  LET p == FirstPlain(s, name)
      front == Without(SubSeq(s, 1, p - 1), {i - 1 : i \in {j \in Occurrences(s, name) : j < p}})
  IN  IF p > Len(s) THEN front ELSE front \o value \o SubSeq(s, p + 1, Len(s))

-----------------------------------------------------------------------------
\* A LogFormat is [format, flags]. v gives for every name of a specifier its value.

\* Level names are resolved for every level but Global, whether or not there is a flag.
updateFormatSpec(f, level, v) ==
  LET leveled == IF level = "Global" THEN f.format
                 ELSE replaceFirstWithEscape(
                        replaceFirstWithEscape(f.format, "level", v["level"]), "levshort", v["levshort"])
      Resolve(s, name) == IF name \in f.flags THEN replaceFirstWithEscape(s, name, v[name]) ELSE s
  IN  [f EXCEPT !.format = Resolve(Resolve(leveled, "user"), "host")]

\* What is escaped behind a plain occurrence loses its escape here, but not %datetime.
parseFromFormat(userFormat, level, v) ==
  LET flags == {name \in Flagged : Has(userFormat, name)}
      behind == UNION {{i \in Occurrences(userFormat, name) :
                          i > FirstPlain(userFormat, name) /\ Escaped(userFormat, i)} :
                       name \in flags \ {"datetime"}}
  IN  updateFormatSpec([format |-> Without(userFormat, {i - 1 : i \in behind}), flags |-> flags],
                       level, v)

resolveLoggerFormatSpec(f, id) ==
  [f EXCEPT !.format = replaceFirstWithEscape(@, "logger", id)]

\* What build() does for one of its specifiers.
buildOne(f, level, v, message, s, name) ==
  IF name \in f.flags /\ (name = "vlevel" => level = "Verbose")
  THEN replaceFirstWithEscape(s, name, IF name = "msg" THEN message ELSE v[name])
  ELSE s

buildOwn(f, level, v, message) ==
  Loop(LAMBDA s, name : buildOne(f, level, v, message, s, name), f.format, Built)

\* customs: <<name, value>> of the custom specifiers, which are searched for in the message too.
buildCustoms(line, customs) ==
  Loop(LAMBDA s, c : replaceFirstWithEscape(s, c[1], c[2]), line, customs)

build(f, level, v, message, customs) == buildCustoms(buildOwn(f, level, v, message), customs)

=============================================================================
