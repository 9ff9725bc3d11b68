------------------------------ MODULE LogTyped ------------------------------
(***************************************************************************)
(* el::base::TypedConfigurations: what a logger looks up for every line,   *)
(* built from its list of configurations, and the file streams that all    *)
(* loggers share by file name.                                             *)
(*                                                                         *)
(* A typed map has an entry for Global and for the levels that differ.     *)
(***************************************************************************)
EXTENDS LogConfigurations, FiniteSets

CONSTANTS Ids,         \* identities of loggers
          Unopenable,  \* files that cannot be opened for writing
          OnDisk       \* file -> lines it holds when the process starts

Null == 0        \* a null file stream; the others are numbered from 1
Left == "left"   \* owner of the lines of loggers that were unregistered
Owners == Ids \cup {Left}

Empty == <<>>

\* The map m with m[k] = v.
With(m, k, v) == [x \in DOMAIN m \cup {k} |-> IF x = k THEN v ELSE m[x]]

\* std::unordered_map::insert: a key that is there keeps its value.
Insert(m, k, v) == IF k \in DOMAIN m THEN m ELSE With(m, k, v)

Lookup(m, l, default) ==
  IF l \in DOMAIN m THEN m[l] ELSE IF Global \in DOMAIN m THEN m[Global] ELSE default

setValue(m, l, v) ==
  IF m = Empty THEN With(m, Global, v)
  ELSE IF Global \in DOMAIN m /\ m[Global] = v THEN m
  ELSE With(m, l, v)

LevelOf(e) == IF e.type \in GlobalTypes THEN Global ELSE e.level

TypedMap(c, t) ==
  Loop(LAMBDA m, e : IF e.type = t THEN setValue(m, LevelOf(e), e.value) ELSE m, Empty, c)

-----------------------------------------------------------------------------
\* Streams: s.refs is logStreamsReference, s.streams the streams it has opened.

\* size counts what was flushed, pending what each owner wrote since.
NewStream(file) ==
  [file |-> file, size |-> OnDisk[file], pending |-> [o \in Owners |-> 0]]

Pending(f) == SumFunction(f.pending)

\* tellg() of a stream that appends: behind what the file holds and what the buffer does.
getSizeOfFile(f) == f.size + Pending(f)

FlushStream(f) ==
  IF Pending(f) = 0 THEN f
  ELSE [f EXCEPT !.size = @ + Pending(f), !.pending = [o \in Owners |-> 0]]

\* The file is closed, the callback told, and the file opened again, empty.
Truncated(f) == [f EXCEPT !.size = 0, !.pending = [o \in Owners |-> 0]]

toFile(typed, l) == Lookup(typed.maps["ToFile"], l, FALSE)
fileStream(typed, l) == Lookup(typed.stream, l, Null)
filename(typed, l) == Lookup(typed.name, l, "")

validateFileRolling(streams, typed, l) ==
  LET n == fileStream(typed, l)
      limit == Lookup(typed.maps["MaxLogFileSize"], l, 0)
  IN  IF n # Null /\ limit # 0 /\ getSizeOfFile(streams[n]) >= limit
      THEN [streams EXCEPT ![n] = Truncated(@)]
      ELSE streams

\* The streams opened so far, by file name.
HasStreamNever(refs, file) == FALSE  \* a mutant: every level opens the file
HasStream(refs, file) == file \in DOMAIN refs

\* b holds the typed maps under construction, the streams and their reference map.
\* A name that is known shares its stream, null or not.
insertFile(b, level, file) ==
  LET l == IF b.typed.name = Empty /\ b.typed.stream = Empty THEN Global ELSE level
      known == HasStream(b.refs, file)
      opened == ~known /\ file \notin Unopenable
      n == IF known THEN b.refs[file] ELSE IF opened THEN Len(b.streams) + 1 ELSE Null
      stream == Insert(b.typed.stream, l, n)
      maps == b.typed.maps
  IN  [typed |-> [name |-> Insert(b.typed.name, l, file),
                  stream |-> stream,
                  maps |-> IF n # Null THEN maps
                           ELSE [maps EXCEPT !["ToFile"] = setValue(@, l, FALSE)]],
       streams |-> IF opened THEN Append(b.streams, NewStream(file)) ELSE b.streams,
       refs |-> IF known THEN b.refs ELSE Insert(b.refs, file, stream[l])]

\* The maps of a TypedConfigurations by type, those of files still to be filled.
NewTyped(c) ==
  [name |-> Empty, stream |-> Empty,
   maps |-> [t \in LevelTypes \cup GlobalTypes |-> TypedMap(c, t)]]

insertFiles(c, b) ==
  Loop(LAMBDA x, e : IF e.type = "Filename" THEN insertFile(x, e.level, e.value) ELSE x, b, c)

validateLimits(c, typed, streams) ==
  Loop(LAMBDA s, e : IF e.type = "MaxLogFileSize" /\ e.value # 0
                         THEN validateFileRolling(s, typed, e.level) ELSE s, streams, c)

\* The loops of build(): values, then files, then the limits of the files.
build(c, streams, refs) ==
  LET b == insertFiles(c, [typed |-> NewTyped(c), streams |-> streams, refs |-> refs])
  IN  [b EXCEPT !.streams = validateLimits(c, b.typed, @)]

=============================================================================
