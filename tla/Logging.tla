------------------------------ MODULE Logging -------------------------------
(***************************************************************************)
(* el::base::Writer and LogDispatcher as the threads of a program use      *)
(* them: LOG(level) << part << part; and logger->info("... %v", value);    *)
(* with the loggers they share, whose stream gathers the parts, the lock   *)
(* of each logger, held until the destructor of the Writer, the lock of    *)
(* Storage around the callbacks, and penduo::Logger::Init(), which         *)
(* replaces the typed configurations of the loggers.                       *)
(*                                                                         *)
(* ThreadSafe says whether ELPP_THREAD_SAFE is defined.  It is not in the  *)
(* build of penduo, and all locks are then NoMutex.                        *)
(***************************************************************************)
EXTENDS LogSites, LogFormat, FiniteSets

CONSTANTS Threads, NoThread,
          Ids,          \* loggers registered from the start
          Default,      \* kDefaultLoggerId
          Enabled,      \* logger -> levels that its configurations enable
          Programs,     \* thread -> the sequences of statements it may execute
          Arguments,    \* the command lines the program may be started with
          Format,       \* logger -> its format
          Values,       \* name of a specifier -> its value
          Customs,      \* <<name, value>> of the custom specifiers
          Callbacks,    \* the log dispatch callbacks that are installed and enabled
          Flags,        \* the logging flags that are set
          LoggingLevel, \* the level of hierarchical logging
          ThreadSafe

NoLogger == "none"

ASSUME LoggingAssumption ==
  NoThread \notin Threads /\ Default \in Ids /\ NoLogger \notin Ids /\ ThreadSafe \in BOOLEAN

\* The levels as castToInt() gives them.
castToInt(l) ==
  CHOOSE p \in { <<"Global", 1>>, <<"Trace", 2>>, <<"Debug", 4>>, <<"Fatal", 8>>, <<"Error", 16>>,
                 <<"Warning", 32>>, <<"Verbose", 64>>, <<"Info", 128>> } : p[1] = l

VARIABLES
  todo,        \* the statements each thread has still to execute
  writers,     \* the Writers each thread has constructed, the innermost last
  stream,      \* m_stream of every logger
  owner,       \* who holds the lock of a logger
  dispatcher,  \* who holds the lock of Storage
  registered,  \* the loggers there are
  vRegistry,
  counters,    \* m_hitCounts of every site
  visits, written, \* history: how often a site was reached, and how often it wrote
  init,        \* init_flag: "no", a thread that runs the function, or "done"
  pending,     \* the loggers that Init() has still to reconfigure
  replacing,   \* the one whose typed configurations are deleted and built again
  aborted

sites == <<vRegistry, counters, visits, written>>
initVars == <<init, pending, replacing>>
locks == <<owner, dispatcher>>
vars == <<todo, writers, stream, locks, registered, sites, initVars, aborted>>

AllStatements == UNION {UNION {Range(p) : p \in Programs[t]} : t \in Threads}
Sites == {s.site : s \in AllStatements}
AllIds == Ids \cup UNION {Range(s.ids) : s \in AllStatements}

\* Written by a member function of Logger.
Member(s) == "args" \in DOMAIN s

\* A site is a place in the program: it has one occasion and one n. The format of a member
\* function and what is left of it are its parts; when there are values too many the logger
\* stays locked, and the thread that did it logs no more.
ASSUME StatementsAssumption ==
  /\ {"no", "done"} \cap Threads = {} /\ NoLogger \notin AllIds
  /\ \A t \in Threads : Programs[t] \subseteq Seq(AllStatements)
  /\ \A s \in AllStatements :
       /\ s.ids \in Seq(AllIds) \ {<<>>}
       /\ s.sys \in BOOLEAN /\ s.n \in Nat /\ s.parts \in Nat
       /\ s.quote \in Seq(Range(s.quote))
       /\ Member(s) => s.specs \in Nat /\ s.args \in Nat /\ s.parts = s.args + 1
  /\ \A s, u \in AllStatements :
       s.site = u.site => s.occasion = u.occasion /\ s.n = u.n
  /\ \A t \in Threads : \A p \in Programs[t] : \A i \in DOMAIN p :
       Member(p[i]) /\ p[i].specs < p[i].args => i = Len(p)

\* Formats and values are texts, and a name of a logger has no % in it (isValidId).
ASSUME TextsAssumption ==
  /\ \A id \in AllIds : Format[id] \in Seq(Range(Format[id])) /\ <<id>> # Percent
  /\ \A name \in Flagged \ {"msg"} : Values[name] \in Seq(Range(Values[name]))
  /\ Customs \in Seq(Range(Customs)) /\ \A c \in Range(Customs) : c[2] \in Seq(Range(c[2]))

\* A Writer: its statement, where it is, which of its loggers it is at, and its members.
NewWriter(s, at) ==
  [stmt |-> s, at |-> at, k |-> 1, logger |-> NoLogger, proceed |-> FALSE, part |-> 0,
   message |-> <<>>, saved |-> <<>>, firstDispatched |-> FALSE, left |-> {}]

\* A message the library writes itself, to the default logger.
OwnMessage(level) ==
  NewWriter([site |-> "own", occasion |-> "always", n |-> 0, level |-> level, vlevel |-> 0,
             file |-> "", ids |-> <<Default>>, parts |-> 1, sys |-> TRUE, quote |-> <<>>],
            "construct")

\* Not a line but a call of setVerboseLevel(), setVModules() or clearVModules().
SetsVerbosity(s) == "op" \in DOMAIN s

Top(t) == writers[t][Len(writers[t])]
At(t, place) == ~aborted /\ writers[t] # <<>> /\ Top(t).at = place
SetTop(t, w) == [writers EXCEPT ![t][Len(writers[t])] = w]

Init ==
  /\ todo \in [Threads -> UNION {Programs[t] : t \in Threads}]
  /\ \A t \in Threads : todo[t] \in Programs[t]
  /\ writers = [t \in Threads |-> <<>>]
  /\ stream = [id \in AllIds |-> <<>>]
  /\ owner = [id \in AllIds |-> NoThread]
  /\ dispatcher = NoThread
  /\ registered = Ids
  /\ vRegistry \in {setFromArgs(NoModules, setArgs(argv), Flags) : argv \in Arguments}
  /\ counters = [s \in Sites |-> 0]
  /\ visits = [s \in Sites |-> 0] /\ written = [s \in Sites |-> 0]
  /\ init = "no" /\ pending = {} /\ replacing = NoLogger
  /\ aborted = FALSE

LockAnyway(t, id) == UNCHANGED owner  \* a mutant: needLock is false

\* The mutexes are recursive, but by StatementsAssumption no thread takes one that it holds.
Lock(t, id) == IF ThreadSafe THEN owner[id] = NoThread /\ owner' = [owner EXCEPT ![id] = t]
               ELSE UNCHANGED owner

Unlocked(id) == IF ThreadSafe THEN [owner EXCEPT ![id] = NoThread] ELSE owner

-----------------------------------------------------------------------------

Begin(t) ==
  /\ ~aborted /\ writers[t] = <<>> /\ todo[t] # <<>>
  /\ LET s == Head(todo[t]) IN
       writers' = [writers EXCEPT ![t] =
         << NewWriter(s, IF Member(s) THEN "acquire"
                         ELSE IF SetsVerbosity(s) THEN "verbosity" ELSE "init") >>]
  /\ todo' = [todo EXCEPT ![t] = Tail(@)]
  /\ UNCHANGED <<stream, locks, registered, sites, initVars, aborted>>

\* The program changes what its VLOG sites write, while other threads pass them. A module
\* that is given a level again keeps the one it has.
SetVerbosity(t) ==
  /\ At(t, "verbosity")
  /\ LET s == Top(t).stmt IN
       vRegistry' = CASE s.op = "setVerboseLevel" -> setLevel(vRegistry, s.to)
                      [] s.op = "clearVModules" -> clearModules(vRegistry)
                      [] s.op = "setVModules" -> IF "DisableVModules" \in Flags THEN vRegistry
                                                 ELSE setModules(vRegistry, s.to)
  /\ writers' = [writers EXCEPT ![t] = <<>>]
  /\ UNCHANGED <<todo, stream, locks, registered, counters, visits, written, initVars, aborted>>

\* LOG_* call Logger::Init() first and wait for the thread that runs it; LOG_SYS_* do not.
InitOnce(t) ==
  /\ At(t, "init")
  /\ \/ /\ Top(t).stmt.sys \/ init = "done"
        /\ writers' = SetTop(t, [Top(t) EXCEPT !.at = "site"])
        /\ UNCHANGED initVars
     \/ /\ ~Top(t).stmt.sys /\ init = "no"
        /\ init' = t /\ pending' = registered
        /\ UNCHANGED <<writers, replacing>>
  /\ UNCHANGED <<todo, stream, locks, registered, sites, aborted>>

\* A mutant: configure() does not take the lock.
BeginReconfigureUnlocked(t) ==
  /\ ~aborted /\ init = t /\ replacing = NoLogger
  /\ \E id \in pending : replacing' = id /\ pending' = pending \ {id}
  /\ UNCHANGED <<todo, writers, stream, owner, dispatcher, registered, sites, init, aborted>>

\* reconfigureAllLoggers(): configure() deletes the typed configurations of a logger, under its lock,
BeginReconfigure(t) ==
  /\ ~aborted /\ init = t /\ replacing = NoLogger
  /\ \E id \in pending : Lock(t, id) /\ replacing' = id /\ pending' = pending \ {id}
  /\ UNCHANGED <<todo, writers, stream, dispatcher, registered, sites, init, aborted>>

\* and builds them again.
EndReconfigure(t) ==
  /\ ~aborted /\ init = t /\ replacing # NoLogger
  /\ replacing' = NoLogger
  /\ owner' = Unlocked(replacing)
  /\ init' = IF pending = {} THEN "done" ELSE init
  /\ UNCHANGED <<todo, writers, stream, dispatcher, registered, sites, pending, aborted>>

Proceeds(id, level) ==
  IF "HierarchicalLogging" \in Flags /\ level # "Verbose"
  THEN castToInt(level)[2] >= castToInt(LoggingLevel)[2]
  ELSE level \in Enabled[id]

\* logger->info(format, values...) takes the lock before there is a Writer. specs counts
\* the %v of the format, args the values; what is left of the format is the last part.
Acquire(t) ==
  /\ At(t, "acquire")
  /\ LET id == Top(t).stmt.ids[1] IN
       Lock(t, id) /\ writers' = SetTop(t, [Top(t) EXCEPT !.logger = id, !.at = "arguments"])
  /\ UNCHANGED <<todo, stream, dispatcher, registered, sites, initVars, aborted>>

\* A value is written to the stream with the text in front of its %v, enabled or not.
Argument(t) ==
  /\ At(t, "arguments")
  /\ LET w == Top(t) IN
       /\ w.part < Min({w.stmt.specs, w.stmt.args})
       /\ stream' = [stream EXCEPT ![w.logger] = Append(@, <<t, w.part + 1>>) \o w.stmt.quote]
       /\ writers' = SetTop(t, [w EXCEPT !.part = @ + 1])
  /\ UNCHANGED <<todo, locks, registered, sites, initVars, aborted>>

\* More values than %v: when the format has been written to the stream the call is given
\* up, with the lock held.
TooManyArguments(t) ==
  /\ At(t, "arguments")
  /\ LET w == Top(t) IN
       /\ w.part = w.stmt.specs /\ w.part < w.stmt.args
       /\ stream' = [stream EXCEPT ![w.logger] = Append(@, <<t, w.part + 1>>) \o w.stmt.quote]
       /\ writers' = [writers EXCEPT ![t] = <<>>]
  /\ UNCHANGED <<todo, locks, registered, sites, initVars, aborted>>

\* What is left of the format goes to a Writer that does not lock again.
Rest(t) ==
  /\ At(t, "arguments")
  /\ Top(t).part = Top(t).stmt.args
  /\ LET w == Top(t)
         verbose == w.stmt.level = "Verbose"
     IN  \/ /\ verbose /\ FALSE \in AllowedBy(vRegistry, w.stmt.vlevel, w.stmt.file, Flags)
            /\ stream' = [stream EXCEPT ![w.logger] = <<>>]
            /\ owner' = Unlocked(w.logger)
            /\ writers' = [writers EXCEPT ![t] = <<>>]
         \/ /\ verbose => TRUE \in AllowedBy(vRegistry, w.stmt.vlevel, w.stmt.file, Flags)
            /\ writers' = SetTop(t, [w EXCEPT !.at = "stream",
                                              !.proceed = Proceeds(w.logger, w.stmt.level)])
            /\ UNCHANGED <<stream, owner>>
  /\ UNCHANGED <<todo, dispatcher, registered, sites, initVars, aborted>>

\* The condition of the macro, evaluated under the lock of the registry it asks.
MayWrite(s) ==
  IF s.occasion = "verbose" THEN AllowedBy(vRegistry, s.vlevel, s.file, Flags)
  ELSE {Hits(s.occasion, counters[s.site], s.n)}

Site(t) ==
  /\ At(t, "site")
  /\ LET s == Top(t).stmt IN
       /\ counters' = [counters EXCEPT ![s.site] = Count(s.occasion, @, s.n)]
       /\ visits' = [visits EXCEPT ![s.site] = @ + 1]
       /\ \E may \in MayWrite(s) :
            /\ written' = [written EXCEPT ![s.site] = IF may THEN @ + 1 ELSE @]
            /\ writers' = IF may THEN SetTop(t, [Top(t) EXCEPT !.at = "construct"])
                          ELSE [writers EXCEPT ![t] = <<>>]
  /\ UNCHANGED <<todo, stream, locks, registered, vRegistry, initVars, aborted>>

Known(id) == id \in registered \/ "CreateLoggerAutomatically" \in Flags

\* A Writer reads the parts of its statement for the first of its loggers only.
AfterConstruct(w) == IF w.k = 1 THEN "stream" ELSE "process"

\* initializeLogger(): the logger is found or created, and locked.
Construct(t) ==
  /\ At(t, "construct")
  /\ LET w == Top(t)
         id == w.stmt.ids[w.k]
     IN  /\ Known(id)
         /\ Lock(t, id)
         /\ registered' = registered \cup {id}
         /\ writers' = SetTop(t, [w EXCEPT !.logger = id, !.at = AfterConstruct(w),
                                           !.proceed = Proceeds(id, w.stmt.level)])
  /\ UNCHANGED <<todo, stream, dispatcher, sites, initVars, aborted>>

\* A logger that is not registered: the default logger is told, in a statement of its own.
ConstructUnknown(t) ==
  /\ At(t, "construct")
  /\ LET w == Top(t) IN
       /\ ~Known(w.stmt.ids[w.k])
       /\ writers' = [SetTop(t, [w EXCEPT !.logger = NoLogger, !.proceed = FALSE,
                                          !.at = AfterConstruct(w)])
                        EXCEPT ![t] = Append(@, OwnMessage("Debug"))]
  /\ UNCHANGED <<todo, stream, locks, registered, sites, initVars, aborted>>

\* One << of the statement.
Stream(t) ==
  /\ At(t, "stream")
  /\ LET w == Top(t) IN
       IF w.proceed /\ w.part < w.stmt.parts
       THEN /\ stream' = [stream EXCEPT ![w.logger] = Append(@, <<t, w.part + 1>>) \o w.stmt.quote]
            /\ writers' = SetTop(t, [w EXCEPT !.part = @ + 1])
       ELSE /\ writers' = SetTop(t, [w EXCEPT !.at = "process"])
            /\ UNCHANGED stream
  /\ UNCHANGED <<todo, locks, registered, sites, initVars, aborted>>

Many == "MultiLoggerSupport" \in Flags

\* processDispatch() up to the construction of the LogMessage, which copies the stream.
Process(t) ==
  /\ At(t, "process")
  /\ LET w == Top(t)
         text == IF w.firstDispatched THEN stream[w.logger] \o w.saved ELSE stream[w.logger]
     IN  \/ /\ w.proceed
            /\ stream' = [stream EXCEPT ![w.logger] = text]
            /\ writers' = SetTop(t, [w EXCEPT !.at = "dispatch", !.message = text,
                             !.firstDispatched = TRUE,
                             !.saved = IF w.firstDispatched THEN @ ELSE text])
         \/ /\ ~w.proceed
            /\ writers' = SetTop(t, [w EXCEPT !.at = "release"])
            /\ UNCHANGED stream
  /\ UNCHANGED <<todo, locks, registered, sites, initVars, aborted>>

\* LogDispatcher::dispatch() takes the lock of Storage,
Dispatch(t) ==
  /\ At(t, "dispatch")
  /\ IF ThreadSafe THEN dispatcher = NoThread /\ dispatcher' = t ELSE UNCHANGED dispatcher
  /\ writers' = SetTop(t, [Top(t) EXCEPT !.at = "callbacks", !.left = Callbacks])
  /\ UNCHANGED <<todo, stream, owner, registered, sites, initVars, aborted>>

\* calls every callback that is enabled, in the order of an unordered_map,
Callback(t) ==
  /\ At(t, "callbacks")
  /\ \E c \in Top(t).left : writers' = SetTop(t, [Top(t) EXCEPT !.left = @ \ {c}])
  /\ UNCHANGED <<todo, stream, locks, registered, sites, initVars, aborted>>

\* The line that the default callback writes.
Line(w, message) ==
  LET level == w.stmt.level
      f == parseFromFormat(Format[w.logger], level, Values)
  IN  build(resolveLoggerFormatSpec(f, << <<w.logger>> >>), level, Values, message, Customs)

\* and gives the lock back.
Dispatched(t) ==
  /\ At(t, "callbacks") /\ Top(t).left = {}
  /\ dispatcher' = IF ThreadSafe THEN NoThread ELSE dispatcher
  /\ writers' = SetTop(t, [Top(t) EXCEPT !.at = "release"])
  /\ UNCHANGED <<todo, stream, owner, registered, sites, initVars, aborted>>

Fatal(w) == w.proceed /\ w.stmt.level = "Fatal" /\ "DisableApplicationAbortOnFatalLog" \notin Flags

\* Every Writer that has found its logger empties the stream and unlocks, enabled or not.
GivesBackIfEnabled(w) == w.proceed  \* a mutant: only those that wrote
GivesBack(w) == w.logger # NoLogger

\* The stream is emptied and the logger unlocked; a fatal line says so and aborts.
Release(t) ==
  /\ At(t, "release")
  /\ LET w == Top(t)
         ended == [w EXCEPT !.at = IF Fatal(w) THEN "abort" ELSE "next", !.proceed = FALSE]
     IN  /\ IF GivesBack(w)
            THEN stream' = [stream EXCEPT ![w.logger] = <<>>] /\ owner' = Unlocked(w.logger)
            ELSE UNCHANGED <<stream, owner>>
         /\ writers' = IF Fatal(w)
                       THEN [SetTop(t, ended) EXCEPT ![t] = Append(@, OwnMessage("Warning"))]
                       ELSE SetTop(t, ended)
  /\ UNCHANGED <<todo, dispatcher, registered, sites, initVars, aborted>>

Abort(t) ==
  /\ At(t, "abort")
  /\ aborted' = TRUE
  /\ UNCHANGED <<todo, writers, stream, locks, registered, sites, initVars>>

\* The next of several loggers, if the flag is set; else the Writer is gone.
NextLogger(t) ==
  /\ At(t, "next")
  /\ LET w == Top(t) IN
       writers' = IF Many /\ w.k < Len(w.stmt.ids)
                  THEN SetTop(t, [w EXCEPT !.k = @ + 1, !.at = "construct"])
                  ELSE [writers EXCEPT ![t] = Front(@)]
  /\ UNCHANGED <<todo, stream, locks, registered, sites, initVars, aborted>>

Thread(t) ==
  \/ Begin(t) \/ SetVerbosity(t) \/ InitOnce(t) \/ BeginReconfigure(t) \/ EndReconfigure(t) \/ Site(t)
  \/ Acquire(t) \/ Argument(t) \/ TooManyArguments(t) \/ Rest(t)
  \/ Construct(t) \/ ConstructUnknown(t) \/ Stream(t) \/ Process(t)
  \/ Dispatch(t) \/ Callback(t) \/ Dispatched(t)
  \/ Release(t) \/ Abort(t) \/ NextLogger(t)

Finished == aborted \/ \A t \in Threads : todo[t] = <<>> /\ writers[t] = <<>>

Next == (\E t \in Threads : Thread(t)) \/ (Finished /\ UNCHANGED vars)

Spec == Init /\ [][Next]_vars

\* A thread that can go on is scheduled.
FairSpec == Spec /\ \A t \in Threads : WF_vars(Thread(t))

-----------------------------------------------------------------------------

\* What the first j parts of a statement of t make of an empty stream.
Said(t, s) ==
  LET said[j \in 0..s.parts] ==
        IF j = 0 THEN <<>> ELSE Append(said[j - 1], <<t, j>>) \o s.quote
  IN  said

\* Every message that is given to the callbacks is that of one statement, with all its
\* parts in their order and nothing of another thread's, though all statements of a
\* logger gather their parts in the same stream. The one exception: of several loggers
\* the first reads the parts, and if its level is disabled the others get nothing.
MessagesAreWhole ==
  \A t \in Threads :
    At(t, "callbacks") =>
      \/ Top(t).message = Said(t, Top(t).stmt)[Top(t).stmt.parts]
      \/ Top(t).message = <<>> /\ Top(t).k > 1

\* What may stand in a line besides its message.
LineTokens ==
  UNION ({Range(Format[id]) \cup { <<id>> } : id \in AllIds} \cup
         {Range(Values[name]) : name \in Flagged \ {"msg"}} \cup
         {Range(c[2]) : c \in Range(Customs)})

\* No value ends with a % that escapes what follows it in the format. A message may; but if
\* there are custom specifiers it may not, nor have one of them, as it is searched for them.
TextsApart ==
  /\ <<"mark">> \notin LineTokens
  /\ \A name \in Flagged \ {"msg"} : EndsPlain(Values[name])
  /\ Customs # <<>> => "%" \notin Threads /\ \A s \in AllStatements : EndsPlain(s.quote)
  /\ \A c \in Range(Customs) :
       EndsPlain(c[2]) /\ \A s \in AllStatements : Spec_(c[1]) \notin Range(s.quote)

\* Whatever a message says, specifiers of formats included, it stands in the line once and
\* as it is, where a line with another message has that one: the specifiers are searched
\* for in what earlier ones were replaced by, and the message is the last of them. (Only
\* the custom ones come after it: see TextsApart.)
MessageIsVerbatim ==
  LET Mark == <<"mark">> IN
  \A t \in Threads :
    At(t, "callbacks") =>
      LET w == Top(t)
          line == Line(w, <<Mark>>)
          p == SelectInSeq(line, LAMBDA x : x = Mark)
      IN  /\ Has(Format[w.logger], "msg") <=> p > 0
          /\ Line(w, w.message) =
               IF p = 0 THEN line
               ELSE SubSeq(line, 1, p - 1) \o w.message \o SubSeq(line, p + 1, Len(line))

\* The callbacks of two messages never run at the same time: "global lock is turned on by
\* default unless ELPP_NO_GLOBAL_LOCK is defined" (easylogging++.cc, LogDispatcher::dispatch).
DispatchIsExclusive ==
  \A t, u \in Threads : At(t, "callbacks") /\ At(u, "callbacks") => t = u

\* The typed configurations of a logger are not replaced while a Writer that has found
\* the logger goes on to read them, though LOG_SYS_* do not wait for Logger::Init().
ConfigurationsAreStable ==
  \A t \in Threads : \A i \in DOMAIN writers[t] :
    LET w == writers[t][i] IN
    w.proceed /\ w.at \in {"stream", "process", "dispatch", "callbacks", "release"}
      => w.logger # replacing

\* Whatever the threads that pass a site, and however often its counter starts anew: every
\* n-th line is written, or all after the first n, or the first n.
OccasionsKept ==
  \A s \in AllStatements :
    LET seen == visits[s.site] IN
    /\ s.occasion = "every" /\ s.n \in 1..KMax => written[s.site] = seen \div s.n
    /\ s.occasion = "after" => written[s.site] = IF seen > s.n THEN seen - s.n ELSE 0
    /\ s.occasion = "times" => written[s.site] = IF seen > s.n THEN s.n ELSE seen

\* Two locks for every line, one for a line about a missing logger, and Init() behind all:
\* every thread comes to the end of its statements, unless a fatal line ends the process.
StatementsEnd == <>Finished

=============================================================================
