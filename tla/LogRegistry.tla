---------------------------- MODULE LogRegistry -----------------------------
(***************************************************************************)
(* el::base::RegisteredLoggers and el::Loggers: the loggers of a process,  *)
(* each with its list of configurations, the typed configurations built    *)
(* from it and its counts of lines not flushed; the files they share; and  *)
(* the program that fills a Configurations object and applies it.          *)
(*                                                                         *)
(* penduo never says ELPP_THREAD_SAFE, so nothing here is locked; these    *)
(* operations are taken one at a time.                                     *)
(***************************************************************************)
EXTENDS LogTyped, FiniteSetsExt

CONSTANTS Default,   \* kDefaultLoggerId
          Settings,  \* <<level, type, value>> that the program may set
          Texts,     \* texts that it may parse
          Globals,   \* files for configureFromGlobal(): sequences of [id, lines]
          PenduoText,\* the text of penduo::Logger::Init()
          MaxSteps,  \* bound: operations of a run
          MaxLines   \* bound: lines written

\* What can be set: a value that suits its type, for a level that has a name.
LevelNames == Levels \cup {Global} \cup Range(stringToLevelMap)

\* The formats of setToDefault() are strings like all, which the provers have to be told.
DefaultFormats == {"plain", "host func loc", "vlevel", "func loc"}

ValuesOf ==
  [t \in Types |->
     CASE t \in {"Enabled", "ToFile", "ToStandardOutput", "PerformanceTracking"} -> BOOLEAN
       [] t = "Format" -> STRING \cup DefaultFormats
       [] t = "Filename" -> DOMAIN OnDisk
       [] OTHER -> Nat]

IsEntry(l, t, v) == l \in LevelNames /\ t \in Types /\ v \in ValuesOf[t]

IsText(text) ==
  /\ Len(text) \in Nat
  /\ \A i \in 1..Len(text) :
       LET line == text[i] IN
       line.kind = "config" /\ line.type \in DOMAIN configStringToTypeMap
         => line.value \in ValuesOf[configStringToTypeMap[line.type]]

ASSUME RegistryAssumption ==
  /\ Default \in Ids /\ Left \notin Ids /\ IsFiniteSet(Ids)
  /\ MaxSteps \in Nat /\ MaxLines \in Nat
  /\ LevelOrder \in Seq(STRING) /\ Global \notin Levels
  /\ OnDisk \in [DOMAIN OnDisk -> Nat] /\ "default.log" \in DOMAIN OnDisk

ASSUME InputsAssumption ==
  /\ \A s \in Settings : IsEntry(s[1], s[2], s[3])
  /\ \A text \in Texts \cup {PenduoText} : IsText(text)
  /\ \A file \in Globals :
       /\ Len(file) \in Nat
       /\ \A i \in 1..Len(file) : file[i].id \in Ids /\ IsText(file[i].lines)

VARIABLES
  registry,  \* [loggers : id -> logger, streams, refs]: RegisteredLoggers
  defaults,  \* m_defaultConfigurations
  user,      \* a Configurations object of the program
  initiated, \* init_flag of penduo::Logger::Init()
  steps, lines

vars == <<registry, defaults, user, initiated, steps, lines>>

NoLines == [l \in Levels |-> 0]

\* typed is Empty until the first configure().
NewLogger == [confs |-> Empty, typed |-> Empty, unflushed |-> NoLines]

-----------------------------------------------------------------------------
\* Operators on r, a registry.

\* Logger::flush(level, fs); the file may be rolled at once.
FlushTo(r, id, l, n) ==
  IF n = Null THEN r
  ELSE LET flushed == [r.streams EXCEPT ![n] = FlushStream(@)]
       IN  [r EXCEPT !.streams = validateFileRolling(flushed, r.loggers[id].typed, l),
                     !.loggers[id].unflushed[l] = 0]

FlushLevel(r, id, l) ==
  LET typed == r.loggers[id].typed
  IN  IF toFile(typed, l) THEN FlushTo(r, id, l, fileStream(typed, l)) ELSE r

flush(r, id) == Loop(LAMBDA s, l : FlushLevel(s, id, l), r, LevelOrder)

\* The logger is given its new list, and typed configurations built from it.
Rebuild(r, id, confs) ==
  LET b == build(confs, r.streams, r.refs)
  IN  [loggers |-> [r.loggers EXCEPT ![id].confs = confs, ![id].typed = b.typed],
       streams |-> b.streams, refs |-> b.refs]

\* The counts begin anew. Alone it is a mutant: the streams keep their lines.
CountsFlushed(r, id) == [r EXCEPT !.loggers[id].unflushed = NoLines]

Flushed(r, id) ==
  LET s == CountsFlushed(r, id)
      logger == s.loggers[id]
  IN  IF logger.typed # Empty /\ hasConfiguration(logger.confs, Global, "Filename")
      THEN flush(s, id) ELSE s

configure(r, id, c) == Rebuild(Flushed(r, id), id, setFromBase(r.loggers[id].confs, c))

\* reconfigure() passes the logger its own list, which is not copied onto itself.
reconfigure(r, id) == Rebuild(Flushed(r, id), id, r.loggers[id].confs)

\* A mutant: the typed configurations stay those of the old list.
setAndKeep(r, id, l, t, v) == [r EXCEPT !.loggers[id].confs = set(@, l, t, v)]

setAndReconfigure(r, id, l, t, v) ==
  reconfigure([r EXCEPT !.loggers[id].confs = set(@, l, t, v)], id)

\* RegisteredLoggers::get(id), which creates the logger from the defaults c.
get(r, id, c) ==
  IF id \in DOMAIN r.loggers THEN r
  ELSE configure([r EXCEPT !.loggers = Insert(@, id, NewLogger)], id, c)

\* What its owner wrote and nobody flushed stays in the shared streams.
Disowned(f, id) ==
  [f EXCEPT !.pending = [f.pending EXCEPT ![Left] = @ + f.pending[id], ![id] = 0]]

unregister(r, id) ==
  [r EXCEPT !.loggers = Restrict(@, DOMAIN @ \ {id}),
            !.streams = [n \in DOMAIN r.streams |-> Disowned(r.streams[n], id)]]

\* An unordered_map is walked in some order, which makes no difference but for stream numbers.
InSomeOrder(r) == SetToSeq(DOMAIN r.loggers)

reconfigureAll(r, c) == Loop(LAMBDA s, id : configure(s, id, c), r, InSomeOrder(r))

reconfigureAllValue(r, l, t, v) ==
  Loop(LAMBDA s, id : setAndReconfigure(s, id, l, t, v), r, InSomeOrder(r))

\* A section for each logger, parsed into a list of its own.
configureFromGlobal(r, file, c) ==
  Loop(LAMBDA s, x : configure(get(s, x.id, c), x.id, parseFromText(Empty, x.lines).list),
       r, file)

\* One more line of level l of logger id in stream n.
Written(r, id, l, n) ==
  [r EXCEPT !.streams[n].pending[id] = @ + 1, !.loggers[id].unflushed[l] = @ + 1]

\* A line of a level that goes to a file is counted, and the count may call for a flush.
WriteLine(r, id, l) ==
  LET typed == r.loggers[id].typed
      n == fileStream(typed, l)
      written == Written(r, id, l, n)
      flushNeeded == written.loggers[id].unflushed[l]
                       >= Lookup(typed.maps["LogFlushThreshold"], l, 0)
  IN  IF ~Lookup(typed.maps["Enabled"], l, FALSE) \/ ~toFile(typed, l) \/ n = Null THEN r
      ELSE IF flushNeeded THEN FlushTo(written, id, l, n) ELSE written

-----------------------------------------------------------------------------

Init ==
  /\ defaults = setToDefault(Empty)
  /\ registry = get([loggers |-> Empty, streams |-> Empty, refs |-> Empty], Default, defaults)
  /\ user = Empty
  /\ initiated = FALSE
  /\ steps = 0 /\ lines = 0

Step == steps < MaxSteps /\ steps' = steps + 1 /\ UNCHANGED lines

\* The program changes its object.
Fill(c) == Step /\ user' = c /\ UNCHANGED <<registry, defaults, initiated>>

SetUser == \E s \in Settings : Fill(set(user, s[1], s[2], s[3]))
SetUserToDefault == Fill(setToDefault(user))
SetUserRemaining == Fill(setRemainingToDefault(user))
ParseText == \E text \in Texts : Fill(parseFromText(user, text).list)
ClearUser == user # Empty /\ Fill(Empty)

\* The program changes the registry.
Change(r) == Step /\ registry' = r /\ UNCHANGED <<defaults, user, initiated>>

GetLogger == \E id \in Ids \ DOMAIN registry.loggers : Change(get(registry, id, defaults))

\* The default logger is not removed.
Unregister == \E id \in DOMAIN registry.loggers \ {Default} : Change(unregister(registry, id))

ReconfigureLogger ==
  \E id \in Ids : Change(configure(get(registry, id, defaults), id, user))

ReconfigureLoggerValue ==
  \E id \in Ids, s \in Settings :
    Change(setAndReconfigure(get(registry, id, defaults), id, Global, s[2], s[3]))

ReconfigureAllLoggers == Change(reconfigureAll(registry, user))

ReconfigureAllLoggersValue ==
  \E s \in Settings : Change(reconfigureAllValue(registry, s[1], s[2], s[3]))

FlushAll ==
  Change([registry EXCEPT !.streams =
            [n \in DOMAIN registry.streams |-> FlushStream(registry.streams[n])]])

ConfigureFromGlobal ==
  \E file \in Globals : Change(configureFromGlobal(registry, file, defaults))

SetDefaultConfigurations ==
  /\ Step
  /\ defaults' = setFromBase(defaults, user)
  /\ \/ registry' = registry
     \/ registry' = reconfigureAll(registry, user)
  /\ UNCHANGED <<user, initiated>>

\* --default-log-file=...: a file for every level, but not for Global.
SetApplicationArguments ==
  /\ Step
  /\ \E s \in Settings :
       LET c == setGlobally(Empty, "Filename", s[3], FALSE) IN
       /\ s[2] = "Filename"
       /\ defaults' = setFromBase(defaults, c)
       /\ registry' = reconfigureAll(registry, c)
  /\ UNCHANGED <<user, initiated>>

\* penduo::Logger::Init(), by call_once().
PenduoInit ==
  /\ ~initiated
  /\ initiated' = TRUE
  /\ Step
  /\ registry' = reconfigureAll(registry, parseFromText(setToDefault(Empty), PenduoText).list)
  /\ UNCHANGED <<defaults, user>>

Write ==
  /\ lines < MaxLines /\ lines' = lines + 1
  /\ \E id \in DOMAIN registry.loggers, l \in Levels : registry' = WriteLine(registry, id, l)
  /\ UNCHANGED <<defaults, user, initiated, steps>>

UserOps == SetUser \/ SetUserToDefault \/ SetUserRemaining \/ ParseText \/ ClearUser

LoggersOps ==
  \/ GetLogger \/ Unregister \/ ReconfigureLogger \/ ReconfigureLoggerValue
  \/ ReconfigureAllLoggers \/ ReconfigureAllLoggersValue \/ FlushAll
  \/ ConfigureFromGlobal \/ SetDefaultConfigurations

Next == UserOps \/ LoggersOps \/ SetApplicationArguments \/ PenduoInit \/ Write

Spec == Init /\ [][Next]_vars

-----------------------------------------------------------------------------

\* What a list says of a level: its own entry, else that of Global.
Says(c, l, t) ==
  IF hasConfiguration(c, l, t) THEN ValueAt(c, l, t) ELSE ValueAt(c, Global, t)

\* Every logger looks up, for every level, what its list says: the maps that build()
\* makes, with Global standing for the levels that agree with it, forget nothing. Where
\* a file could not be opened ToFile may be off: for the level, or for all if it is Global's.
TypedAgree ==
  \A id \in DOMAIN registry.loggers, l \in Levels :
    LET logger == registry.loggers[id] IN
    /\ filename(logger.typed, l) = Says(logger.confs, l, "Filename")
    /\ \A t \in LevelTypes :
         \/ Lookup(logger.typed.maps[t], l, FALSE) = Says(logger.confs, l, t)
         \/ t = "ToFile" /\ Null \in {fileStream(logger.typed, l), fileStream(logger.typed, Global)}

\* However loggers and levels come to name the same file, they write it through one
\* stream, and no stream is another file's: two streams on a file would mix their lines.
OneStreamPerFile ==
  /\ \A id \in DOMAIN registry.loggers, l \in Levels :
       LET typed == registry.loggers[id].typed
           n == fileStream(typed, l)
       IN  /\ n = registry.refs[filename(typed, l)]
           /\ n # Null => registry.streams[n].file = filename(typed, l)
  /\ \A m, n \in DOMAIN registry.streams :
       registry.streams[m].file = registry.streams[n].file => m = n

\* Of what a registered logger wrote, a crash loses less than the thresholds of the
\* levels that share the stream add up to: counts and streams do not drift apart when a
\* logger is given another file, threshold or limit, or another one flushes the stream.
LossIsBounded ==
  \A id \in DOMAIN registry.loggers, n \in DOMAIN registry.streams :
    LET typed == registry.loggers[id].typed
        held == [l \in Levels |-> Max({Lookup(typed.maps["LogFlushThreshold"], l, 0), 1}) - 1]
    IN  registry.streams[n].pending[id]
          <= SumFunctionOnSet(held, {l \in Levels : fileStream(typed, l) = n})

\* When every logger is reconfigured with an object whose global entries come before
\* those of single levels, every logger says what the object says.
GlobalFirst(c) ==
  \A i, j \in DOMAIN c : c[i].type = c[j].type /\ c[j].level = Global => j <= i

ConfiguredAsAsked ==
  [][ReconfigureAllLoggers /\ GlobalFirst(user) =>
       \A id \in DOMAIN registry.loggers, i \in DOMAIN user :
         Says(registry'.loggers[id].confs, user[i].level, user[i].type) = user[i].value]_vars

=============================================================================
