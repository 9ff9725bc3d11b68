------------------------- MODULE LogRegistryProofs --------------------------
(***************************************************************************)
(* Theorems about LogRegistry: what a logger looks up is what its list     *)
(* says, a file has one stream, a crash loses no more than the thresholds  *)
(* allow, and loggers are configured as asked.                             *)
(***************************************************************************)
EXTENDS LogRegistry, CommonLemmas

-----------------------------------------------------------------------------
(* The invariant.                                                          *)

Entries == UNION {[level : LevelNames, type : {t}, value : ValuesOf[t]] : t \in Types}

\* A list names a level and type once.
Lists ==
  {c \in Seq(Entries) :
     \A i, j \in DOMAIN c : c[i].level = c[j].level /\ c[i].type = c[j].type => i = j}

\* The first entry of a type is that of Global.
Leads(c, t) ==
  \E i \in DOMAIN c : /\ c[i].type = t /\ c[i].level = Global
                      /\ \A j \in DOMAIN c : c[j].type = t => i <= j

\* The lists that loggers have, and the defaults, start each type with Global.
FullLists == {c \in Lists : \A t \in Types : Leads(c, t)}

\* A value for some of the levels.
Maps(V) == UNION {[D -> V] : D \in SUBSET LevelNames}

Typeds ==
  [name : Maps(DOMAIN OnDisk), stream : Maps(Nat),
   maps : {m \in [LevelTypes \cup GlobalTypes -> UNION {Maps(ValuesOf[t]) : t \in Types}] :
             \A t \in DOMAIN m : m[t] \in Maps(ValuesOf[t])}]

Streams == [file : DOMAIN OnDisk, size : Nat, pending : [Owners -> Nat]]

Refs == UNION {[F -> Nat] : F \in SUBSET DOMAIN OnDisk}

\* Streams and references point at each other.
FilesFit(streams, refs) ==
  /\ streams \in Seq(Streams) /\ refs \in Refs
  /\ \A f \in DOMAIN refs :
       refs[f] = Null \/ (refs[f] \in DOMAIN streams /\ streams[refs[f]].file = f)
  /\ \A n \in DOMAIN streams : streams[n].file \in DOMAIN refs /\ refs[streams[n].file] = n

\* The streams of a logger are those of its files.
TypedFits(typed, refs) ==
  /\ DOMAIN typed.name = DOMAIN typed.stream /\ Global \in DOMAIN typed.name
  /\ \A l \in DOMAIN typed.name :
       typed.name[l] \in DOMAIN refs /\ typed.stream[l] = refs[typed.name[l]]

\* What TypedAgree says of one logger.
SaysTheSame(typed, confs) ==
  \A l \in Levels :
    /\ filename(typed, l) = Says(confs, l, "Filename")
    /\ \A t \in LevelTypes :
         \/ Lookup(typed.maps[t], l, FALSE) = Says(confs, l, t)
         \/ t = "ToFile" /\ Null \in {fileStream(typed, l), fileStream(typed, Global)}

Threshold(typed, l) == Lookup(typed.maps["LogFlushThreshold"], l, 0)

\* A logger counts the lines it has in a stream, up to the threshold of each level.
CountsFit(logger, id, streams) ==
  /\ \A l \in Levels : /\ logger.unflushed[l] < Threshold(logger.typed, l) \/ logger.unflushed[l] = 0
                       /\ logger.unflushed[l] # 0 => toFile(logger.typed, l)
  /\ \A n \in DOMAIN streams :
       streams[n].pending[id]
         <= SumFunctionOnSet(logger.unflushed, {l \in Levels : fileStream(logger.typed, l) = n})

Loggers == [confs : FullLists, typed : Typeds, unflushed : [Levels -> Nat]]

LoggerFits(logger, id, streams, refs) ==
  /\ TypedFits(logger.typed, refs)
  /\ SaysTheSame(logger.typed, logger.confs)
  /\ CountsFit(logger, id, streams)

RegistryType ==
  [loggers : UNION {[I -> Loggers] : I \in SUBSET Ids}, streams : Seq(Streams), refs : Refs]

Registries ==
  {r \in RegistryType :
     /\ FilesFit(r.streams, r.refs)
     /\ \A id \in DOMAIN r.loggers : LoggerFits(r.loggers[id], id, r.streams, r.refs)
     /\ \A id \in Ids \ DOMAIN r.loggers, n \in DOMAIN r.streams : r.streams[n].pending[id] = 0}

IInv == registry \in Registries /\ defaults \in FullLists /\ user \in Lists

-----------------------------------------------------------------------------
(* The loops of the model: each has the values of the rounds that its code *)
(* makes, when every round keeps a set X that it starts in.                *)

\* The loop over all levels.
LEMMA LevelsLoop ==
  ASSUME NEW X,
         NEW c,
         NEW t,
         NEW v,
         Len(LevelOrder) \in Nat,
         c \in X,
         \A d \in X, i \in 1..Len(LevelOrder) : SetOne(d, LevelOrder[i], t, v) \in X
  PROVE  unsafeSetGlobally(c, t, v) \in X
<1> DEFINE N == Len(LevelOrder)
           start == c
           Op(d, i) == SetOne(d, LevelOrder[i], t, v)
           Iterates(g) ==
             g = [i \in 0..N |-> IF i = 0 THEN start ELSE <<g[i - 1], Op(g[i - 1], i)>>[2]]
           f == CHOOSE g : Iterates(g)
           op == [i \in 1..N |-> [d \in X |-> Op(d, i)]]
<1>1. unsafeSetGlobally(c, t, v) = f[N]
  BY DEF unsafeSetGlobally, Loop
<1>2. N \in Nat /\ start \in X /\ \A d \in X, i \in 1..N : Op(d, i) \in X
  OBVIOUS
<1> HIDE DEF Op, N, start
<1>3. op \in [1..N -> [X -> X]] /\ \A i \in 1..N, d \in X : op[i][d] = Op(d, i)
  BY <1>2
<1> HIDE DEF op
<1>4. \E g : Iterates(g)
  <2>1. Iterable(X, start, op, N)
    BY <1>2, <1>3, LoopExists
  <2>2. PICK g \in [0..N -> X] : g[0] = start /\ \A i \in 1..N : g[i] = op[i][g[i - 1]]
    BY <2>1 DEF Iterable
  <2>3. \A i \in 1..N : i - 1 \in 0..N
    BY <1>2
  <2>4. \A i \in 1..N : g[i] = Op(g[i - 1], i)
    BY <1>3, <2>2, <2>3
  <2>5. \A i \in 0..N : i = 0 \/ i \in 1..N
    BY <1>2
  <2> QED
    BY <2>2, <2>4, <2>5
<1>5. Iterates(f)
  BY <1>4
<1> HIDE DEF f
<1>6. f[0] = start /\ \A i \in 1..N : f[i] = Op(f[i - 1], i)
  BY <1>2, <1>5
<1>7. \A i \in 0..N : f[i] \in X
  <2>1. \A i \in 1..N : f[i - 1] \in X => f[i] \in X
    BY <1>2, <1>6
  <2> QED
    BY <1>2, <1>6, <2>1, LoopKeeps
<1>8. f[N] \in X
  BY <1>2, <1>7
<1> QED
  BY <1>1, <1>8

\* f has what the loop has after each round.
BaseRounds(f, c, base) ==
  /\ f[0] = c /\ f[Len(base)] = setFromBase(c, base)
  /\ \A i \in 1..Len(base) : f[i] = set(f[i - 1], base[i].level, base[i].type, base[i].value)

\* The loop over the list that a list is set from.
LEMMA BaseLoop ==
  ASSUME NEW X,
         NEW c,
         NEW base,
         Len(base) \in Nat,
         c \in X,
         \A d \in X, i \in 1..Len(base) : set(d, base[i].level, base[i].type, base[i].value) \in X
  PROVE  /\ setFromBase(c, base) \in X
         /\ \E f \in [0..Len(base) -> X] : BaseRounds(f, c, base)
<1> DEFINE N == Len(base)
           start == c
           Op(d, i) == set(d, base[i].level, base[i].type, base[i].value)
           Iterates(g) ==
             g = [i \in 0..N |-> IF i = 0 THEN start ELSE <<g[i - 1], Op(g[i - 1], i)>>[2]]
           f == CHOOSE g : Iterates(g)
           op == [i \in 1..N |-> [d \in X |-> Op(d, i)]]
<1>1. setFromBase(c, base) = f[N]
  BY DEF setFromBase, Loop
<1>2. N \in Nat /\ start \in X /\ \A d \in X, i \in 1..N : Op(d, i) \in X
  OBVIOUS
<1> HIDE DEF Op, N, start
<1>3. op \in [1..N -> [X -> X]] /\ \A i \in 1..N, d \in X : op[i][d] = Op(d, i)
  BY <1>2
<1> HIDE DEF op
<1>4. \E g : Iterates(g)
  <2>1. Iterable(X, start, op, N)
    BY <1>2, <1>3, LoopExists
  <2>2. PICK g \in [0..N -> X] : g[0] = start /\ \A i \in 1..N : g[i] = op[i][g[i - 1]]
    BY <2>1 DEF Iterable
  <2>3. \A i \in 1..N : i - 1 \in 0..N
    BY <1>2
  <2>4. \A i \in 1..N : g[i] = Op(g[i - 1], i)
    BY <1>3, <2>2, <2>3
  <2>5. \A i \in 0..N : i = 0 \/ i \in 1..N
    BY <1>2
  <2> QED
    BY <2>2, <2>4, <2>5
<1>5. Iterates(f)
  BY <1>4
<1> HIDE DEF f
<1>6. f[0] = start /\ \A i \in 1..N : f[i] = Op(f[i - 1], i)
  BY <1>2, <1>5
<1>7. \A i \in 0..N : f[i] \in X
  <2>1. \A i \in 1..N : f[i - 1] \in X => f[i] \in X
    BY <1>2, <1>6
  <2> QED
    BY <1>2, <1>6, <2>1, LoopKeeps
<1>8. f[N] \in X
  BY <1>2, <1>7
<1>9. f \in [0..N -> X]
  BY <1>5, <1>7
<1> QED
  BY <1>1, <1>6, <1>8, <1>9 DEF N, Op, start, BaseRounds

\* The settings of setRemainingToDefault().
LEMMA RemainingLoop ==
  ASSUME NEW X,
         NEW c,
         Len(Defaults \o Formats) \in Nat,
         c \in X,
         \A d \in X, i \in 1..Len(Defaults \o Formats) : setRemaining(d, (Defaults \o Formats)[i]) \in X
  PROVE  setRemainingToDefault(c) \in X
<1> DEFINE N == Len(Defaults \o Formats)
           start == c
           Op(d, i) == setRemaining(d, (Defaults \o Formats)[i])
           Iterates(g) ==
             g = [i \in 0..N |-> IF i = 0 THEN start ELSE <<g[i - 1], Op(g[i - 1], i)>>[2]]
           f == CHOOSE g : Iterates(g)
           op == [i \in 1..N |-> [d \in X |-> Op(d, i)]]
<1>1. setRemainingToDefault(c) = f[N]
  BY DEF setRemainingToDefault, Loop
<1>2. N \in Nat /\ start \in X /\ \A d \in X, i \in 1..N : Op(d, i) \in X
  OBVIOUS
<1> HIDE DEF Op, N, start
<1>3. op \in [1..N -> [X -> X]] /\ \A i \in 1..N, d \in X : op[i][d] = Op(d, i)
  BY <1>2
<1> HIDE DEF op
<1>4. \E g : Iterates(g)
  <2>1. Iterable(X, start, op, N)
    BY <1>2, <1>3, LoopExists
  <2>2. PICK g \in [0..N -> X] : g[0] = start /\ \A i \in 1..N : g[i] = op[i][g[i - 1]]
    BY <2>1 DEF Iterable
  <2>3. \A i \in 1..N : i - 1 \in 0..N
    BY <1>2
  <2>4. \A i \in 1..N : g[i] = Op(g[i - 1], i)
    BY <1>3, <2>2, <2>3
  <2>5. \A i \in 0..N : i = 0 \/ i \in 1..N
    BY <1>2
  <2> QED
    BY <2>2, <2>4, <2>5
<1>5. Iterates(f)
  BY <1>4
<1> HIDE DEF f
<1>6. f[0] = start /\ \A i \in 1..N : f[i] = Op(f[i - 1], i)
  BY <1>2, <1>5
<1>7. \A i \in 0..N : f[i] \in X
  <2>1. \A i \in 1..N : f[i - 1] \in X => f[i] \in X
    BY <1>2, <1>6
  <2> QED
    BY <1>2, <1>6, <2>1, LoopKeeps
<1>8. f[N] \in X
  BY <1>2, <1>7
<1> QED
  BY <1>1, <1>8

\* The loop over the lines of a text.
LEMMA ParseLoop ==
  ASSUME NEW X,
         NEW c,
         NEW text,
         Len(text) \in Nat,
         [list |-> c, level |-> Unknown, ok |-> FALSE] \in X,
         \A d \in X, i \in 1..Len(text) : parseLine(d, text[i]) \in X
  PROVE  parseFromText(c, text) \in X
<1> DEFINE N == Len(text)
           start == [list |-> c, level |-> Unknown, ok |-> FALSE]
           Op(d, i) == parseLine(d, text[i])
           Iterates(g) ==
             g = [i \in 0..N |-> IF i = 0 THEN start ELSE <<g[i - 1], Op(g[i - 1], i)>>[2]]
           f == CHOOSE g : Iterates(g)
           op == [i \in 1..N |-> [d \in X |-> Op(d, i)]]
<1>1. parseFromText(c, text) = f[N]
  BY DEF parseFromText, Loop
<1>2. N \in Nat /\ start \in X /\ \A d \in X, i \in 1..N : Op(d, i) \in X
  OBVIOUS
<1> HIDE DEF Op, N, start
<1>3. op \in [1..N -> [X -> X]] /\ \A i \in 1..N, d \in X : op[i][d] = Op(d, i)
  BY <1>2
<1> HIDE DEF op
<1>4. \E g : Iterates(g)
  <2>1. Iterable(X, start, op, N)
    BY <1>2, <1>3, LoopExists
  <2>2. PICK g \in [0..N -> X] : g[0] = start /\ \A i \in 1..N : g[i] = op[i][g[i - 1]]
    BY <2>1 DEF Iterable
  <2>3. \A i \in 1..N : i - 1 \in 0..N
    BY <1>2
  <2>4. \A i \in 1..N : g[i] = Op(g[i - 1], i)
    BY <1>3, <2>2, <2>3
  <2>5. \A i \in 0..N : i = 0 \/ i \in 1..N
    BY <1>2
  <2> QED
    BY <2>2, <2>4, <2>5
<1>5. Iterates(f)
  BY <1>4
<1> HIDE DEF f
<1>6. f[0] = start /\ \A i \in 1..N : f[i] = Op(f[i - 1], i)
  BY <1>2, <1>5
<1>7. \A i \in 0..N : f[i] \in X
  <2>1. \A i \in 1..N : f[i - 1] \in X => f[i] \in X
    BY <1>2, <1>6
  <2> QED
    BY <1>2, <1>6, <2>1, LoopKeeps
<1>8. f[N] \in X
  BY <1>2, <1>7
<1> QED
  BY <1>1, <1>8

\* f has what the loop has after each round.
TypedRounds(f, c, t) ==
  /\ f[0] = Empty /\ f[Len(c)] = TypedMap(c, t)
  /\ \A i \in 1..Len(c) : f[i] = (IF c[i].type = t THEN setValue(f[i - 1], LevelOf(c[i]), c[i].value) ELSE f[i - 1])

\* The first loop of build(), for one map.
LEMMA TypedLoop ==
  ASSUME NEW X,
         NEW c,
         NEW t,
         Len(c) \in Nat,
         Empty \in X,
         \A d \in X, i \in 1..Len(c) : (IF c[i].type = t THEN setValue(d, LevelOf(c[i]), c[i].value) ELSE d) \in X
  PROVE  /\ TypedMap(c, t) \in X
         /\ \E f \in [0..Len(c) -> X] : TypedRounds(f, c, t)
<1> DEFINE N == Len(c)
           start == Empty
           Op(d, i) == (IF c[i].type = t THEN setValue(d, LevelOf(c[i]), c[i].value) ELSE d)
           Iterates(g) ==
             g = [i \in 0..N |-> IF i = 0 THEN start ELSE <<g[i - 1], Op(g[i - 1], i)>>[2]]
           f == CHOOSE g : Iterates(g)
           op == [i \in 1..N |-> [d \in X |-> Op(d, i)]]
<1>1. TypedMap(c, t) = f[N]
  BY DEF TypedMap, Loop
<1>2. N \in Nat /\ start \in X /\ \A d \in X, i \in 1..N : Op(d, i) \in X
  OBVIOUS
<1> HIDE DEF Op, N, start
<1>3. op \in [1..N -> [X -> X]] /\ \A i \in 1..N, d \in X : op[i][d] = Op(d, i)
  BY <1>2
<1> HIDE DEF op
<1>4. \E g : Iterates(g)
  <2>1. Iterable(X, start, op, N)
    BY <1>2, <1>3, LoopExists
  <2>2. PICK g \in [0..N -> X] : g[0] = start /\ \A i \in 1..N : g[i] = op[i][g[i - 1]]
    BY <2>1 DEF Iterable
  <2>3. \A i \in 1..N : i - 1 \in 0..N
    BY <1>2
  <2>4. \A i \in 1..N : g[i] = Op(g[i - 1], i)
    BY <1>3, <2>2, <2>3
  <2>5. \A i \in 0..N : i = 0 \/ i \in 1..N
    BY <1>2
  <2> QED
    BY <2>2, <2>4, <2>5
<1>5. Iterates(f)
  BY <1>4
<1> HIDE DEF f
<1>6. f[0] = start /\ \A i \in 1..N : f[i] = Op(f[i - 1], i)
  BY <1>2, <1>5
<1>7. \A i \in 0..N : f[i] \in X
  <2>1. \A i \in 1..N : f[i - 1] \in X => f[i] \in X
    BY <1>2, <1>6
  <2> QED
    BY <1>2, <1>6, <2>1, LoopKeeps
<1>8. f[N] \in X
  BY <1>2, <1>7
<1>9. f \in [0..N -> X]
  BY <1>5, <1>7
<1> QED
  BY <1>1, <1>6, <1>8, <1>9 DEF N, Op, start, TypedRounds

\* The second loop of build().
LEMMA FilesLoop ==
  ASSUME NEW X,
         NEW c,
         NEW b,
         Len(c) \in Nat,
         b \in X[0],
         \A i \in 1..Len(c) : \A d \in X[i - 1] : (IF c[i].type = "Filename" THEN insertFile(d, c[i].level, c[i].value) ELSE d) \in X[i]
  PROVE  insertFiles(c, b) \in X[Len(c)]
<1> DEFINE N == Len(c)
           start == b
           Op(d, i) == (IF c[i].type = "Filename" THEN insertFile(d, c[i].level, c[i].value) ELSE d)
           Iterates(g) ==
             g = [i \in 0..N |-> IF i = 0 THEN start ELSE <<g[i - 1], Op(g[i - 1], i)>>[2]]
           f == CHOOSE g : Iterates(g)
           op == [i \in 1..N |-> [d \in X[i - 1] |-> Op(d, i)]]
<1>1. insertFiles(c, b) = f[N]
  BY DEF insertFiles, Loop
<1>2. N \in Nat /\ start \in X[0] /\ \A i \in 1..N : \A d \in X[i - 1] : Op(d, i) \in X[i]
  OBVIOUS
<1> HIDE DEF Op, N, start
<1>3. \A i \in 1..N : \A d \in X[i - 1] : op[i][d] = Op(d, i)
  OBVIOUS
<1> HIDE DEF op
<1>4. \E g : Iterates(g)
  <2>1. PICK g : g[0] = start /\ \A i \in 1..N : g[i] = op[i][g[i - 1]] /\ g[i - 1] \in X[i - 1]
    <3>1. \A i \in 1..N : \A d \in X[i - 1] : op[i][d] \in X[i]
      BY <1>2, <1>3
    <3>2. IterableIn(X, start, op, N)
      BY <1>2, <3>1, LoopExistsIn
    <3> QED
      BY <3>2 DEF IterableIn
  <2> DEFINE h == [i \in 0..N |-> g[i]]
  <2>2. \A i \in 0..N : i = 0 \/ (i \in 1..N /\ i - 1 \in 0..N)
    BY <1>2
  <2>3. Iterates(h)
    BY <1>3, <2>1, <2>2
  <2> QED
    BY <2>3
<1>5. Iterates(f)
  BY <1>4
<1> HIDE DEF f
<1>6. f[0] = start /\ \A i \in 1..N : f[i] = Op(f[i - 1], i)
  BY <1>2, <1>5
<1>7. \A i \in 0..N : f[i] \in X[i]
  <2>1. \A i \in 1..N : f[i - 1] \in X[i - 1] => f[i] \in X[i]
    BY <1>2, <1>6
  <2> QED
    BY <1>2, <1>6, <2>1, LoopProgresses
<1> QED
  BY <1>1, <1>2, <1>7 DEF N

\* The third loop of build().
LEMMA LimitsLoop ==
  ASSUME NEW X,
         NEW c,
         NEW typed,
         NEW streams,
         Len(c) \in Nat,
         streams \in X,
         \A d \in X, i \in 1..Len(c) : (IF c[i].type = "MaxLogFileSize" /\ c[i].value # 0
                      THEN validateFileRolling(d, typed, c[i].level) ELSE d) \in X
  PROVE  validateLimits(c, typed, streams) \in X
<1> DEFINE N == Len(c)
           start == streams
           Op(d, i) == (IF c[i].type = "MaxLogFileSize" /\ c[i].value # 0
                      THEN validateFileRolling(d, typed, c[i].level) ELSE d)
           Iterates(g) ==
             g = [i \in 0..N |-> IF i = 0 THEN start ELSE <<g[i - 1], Op(g[i - 1], i)>>[2]]
           f == CHOOSE g : Iterates(g)
           op == [i \in 1..N |-> [d \in X |-> Op(d, i)]]
<1>1. validateLimits(c, typed, streams) = f[N]
  BY DEF validateLimits, Loop
<1>2. N \in Nat /\ start \in X /\ \A d \in X, i \in 1..N : Op(d, i) \in X
  OBVIOUS
<1> HIDE DEF Op, N, start
<1>3. op \in [1..N -> [X -> X]] /\ \A i \in 1..N, d \in X : op[i][d] = Op(d, i)
  BY <1>2
<1> HIDE DEF op
<1>4. \E g : Iterates(g)
  <2>1. Iterable(X, start, op, N)
    BY <1>2, <1>3, LoopExists
  <2>2. PICK g \in [0..N -> X] : g[0] = start /\ \A i \in 1..N : g[i] = op[i][g[i - 1]]
    BY <2>1 DEF Iterable
  <2>3. \A i \in 1..N : i - 1 \in 0..N
    BY <1>2
  <2>4. \A i \in 1..N : g[i] = Op(g[i - 1], i)
    BY <1>3, <2>2, <2>3
  <2>5. \A i \in 0..N : i = 0 \/ i \in 1..N
    BY <1>2
  <2> QED
    BY <2>2, <2>4, <2>5
<1>5. Iterates(f)
  BY <1>4
<1> HIDE DEF f
<1>6. f[0] = start /\ \A i \in 1..N : f[i] = Op(f[i - 1], i)
  BY <1>2, <1>5
<1>7. \A i \in 0..N : f[i] \in X
  <2>1. \A i \in 1..N : f[i - 1] \in X => f[i] \in X
    BY <1>2, <1>6
  <2> QED
    BY <1>2, <1>6, <2>1, LoopKeeps
<1>8. f[N] \in X
  BY <1>2, <1>7
<1> QED
  BY <1>1, <1>8

\* The loop of flush() over all levels.
LEMMA FlushLoop ==
  ASSUME NEW X,
         NEW r,
         NEW id,
         Len(LevelOrder) \in Nat,
         r \in X[0],
         \A i \in 1..Len(LevelOrder) : \A d \in X[i - 1] : FlushLevel(d, id, LevelOrder[i]) \in X[i]
  PROVE  flush(r, id) \in X[Len(LevelOrder)]
<1> DEFINE N == Len(LevelOrder)
           start == r
           Op(d, i) == FlushLevel(d, id, LevelOrder[i])
           Iterates(g) ==
             g = [i \in 0..N |-> IF i = 0 THEN start ELSE <<g[i - 1], Op(g[i - 1], i)>>[2]]
           f == CHOOSE g : Iterates(g)
           op == [i \in 1..N |-> [d \in X[i - 1] |-> Op(d, i)]]
<1>1. flush(r, id) = f[N]
  BY DEF flush, Loop
<1>2. N \in Nat /\ start \in X[0] /\ \A i \in 1..N : \A d \in X[i - 1] : Op(d, i) \in X[i]
  OBVIOUS
<1> HIDE DEF Op, N, start
<1>3. \A i \in 1..N : \A d \in X[i - 1] : op[i][d] = Op(d, i)
  OBVIOUS
<1> HIDE DEF op
<1>4. \E g : Iterates(g)
  <2>1. PICK g : g[0] = start /\ \A i \in 1..N : g[i] = op[i][g[i - 1]] /\ g[i - 1] \in X[i - 1]
    <3>1. \A i \in 1..N : \A d \in X[i - 1] : op[i][d] \in X[i]
      BY <1>2, <1>3
    <3>2. IterableIn(X, start, op, N)
      BY <1>2, <3>1, LoopExistsIn
    <3> QED
      BY <3>2 DEF IterableIn
  <2> DEFINE h == [i \in 0..N |-> g[i]]
  <2>2. \A i \in 0..N : i = 0 \/ (i \in 1..N /\ i - 1 \in 0..N)
    BY <1>2
  <2>3. Iterates(h)
    BY <1>3, <2>1, <2>2
  <2> QED
    BY <2>3
<1>5. Iterates(f)
  BY <1>4
<1> HIDE DEF f
<1>6. f[0] = start /\ \A i \in 1..N : f[i] = Op(f[i - 1], i)
  BY <1>2, <1>5
<1>7. \A i \in 0..N : f[i] \in X[i]
  <2>1. \A i \in 1..N : f[i - 1] \in X[i - 1] => f[i] \in X[i]
    BY <1>2, <1>6
  <2> QED
    BY <1>2, <1>6, <2>1, LoopProgresses
<1> QED
  BY <1>1, <1>2, <1>7 DEF N

\* The loop of reconfigureAllLoggers() over the loggers.
LEMMA AllLoop ==
  ASSUME NEW X,
         NEW r,
         NEW c,
         Len(InSomeOrder(r)) \in Nat,
         r \in X[0],
         \A i \in 1..Len(InSomeOrder(r)) : \A d \in X[i - 1] : configure(d, InSomeOrder(r)[i], c) \in X[i]
  PROVE  reconfigureAll(r, c) \in X[Len(InSomeOrder(r))]
<1> DEFINE N == Len(InSomeOrder(r))
           start == r
           Op(d, i) == configure(d, InSomeOrder(r)[i], c)
           Iterates(g) ==
             g = [i \in 0..N |-> IF i = 0 THEN start ELSE <<g[i - 1], Op(g[i - 1], i)>>[2]]
           f == CHOOSE g : Iterates(g)
           op == [i \in 1..N |-> [d \in X[i - 1] |-> Op(d, i)]]
<1>1. reconfigureAll(r, c) = f[N]
  BY DEF reconfigureAll, Loop
<1>2. N \in Nat /\ start \in X[0] /\ \A i \in 1..N : \A d \in X[i - 1] : Op(d, i) \in X[i]
  OBVIOUS
<1> HIDE DEF Op, N, start
<1>3. \A i \in 1..N : \A d \in X[i - 1] : op[i][d] = Op(d, i)
  OBVIOUS
<1> HIDE DEF op
<1>4. \E g : Iterates(g)
  <2>1. PICK g : g[0] = start /\ \A i \in 1..N : g[i] = op[i][g[i - 1]] /\ g[i - 1] \in X[i - 1]
    <3>1. \A i \in 1..N : \A d \in X[i - 1] : op[i][d] \in X[i]
      BY <1>2, <1>3
    <3>2. IterableIn(X, start, op, N)
      BY <1>2, <3>1, LoopExistsIn
    <3> QED
      BY <3>2 DEF IterableIn
  <2> DEFINE h == [i \in 0..N |-> g[i]]
  <2>2. \A i \in 0..N : i = 0 \/ (i \in 1..N /\ i - 1 \in 0..N)
    BY <1>2
  <2>3. Iterates(h)
    BY <1>3, <2>1, <2>2
  <2> QED
    BY <2>3
<1>5. Iterates(f)
  BY <1>4
<1> HIDE DEF f
<1>6. f[0] = start /\ \A i \in 1..N : f[i] = Op(f[i - 1], i)
  BY <1>2, <1>5
<1>7. \A i \in 0..N : f[i] \in X[i]
  <2>1. \A i \in 1..N : f[i - 1] \in X[i - 1] => f[i] \in X[i]
    BY <1>2, <1>6
  <2> QED
    BY <1>2, <1>6, <2>1, LoopProgresses
<1> QED
  BY <1>1, <1>2, <1>7 DEF N

\* The loop of reconfigureAllLoggers() that sets a value.
LEMMA AllValueLoop ==
  ASSUME NEW X,
         NEW r,
         NEW l,
         NEW t,
         NEW v,
         Len(InSomeOrder(r)) \in Nat,
         r \in X,
         \A d \in X, i \in 1..Len(InSomeOrder(r)) : setAndReconfigure(d, InSomeOrder(r)[i], l, t, v) \in X
  PROVE  reconfigureAllValue(r, l, t, v) \in X
<1> DEFINE N == Len(InSomeOrder(r))
           start == r
           Op(d, i) == setAndReconfigure(d, InSomeOrder(r)[i], l, t, v)
           Iterates(g) ==
             g = [i \in 0..N |-> IF i = 0 THEN start ELSE <<g[i - 1], Op(g[i - 1], i)>>[2]]
           f == CHOOSE g : Iterates(g)
           op == [i \in 1..N |-> [d \in X |-> Op(d, i)]]
<1>1. reconfigureAllValue(r, l, t, v) = f[N]
  BY DEF reconfigureAllValue, Loop
<1>2. N \in Nat /\ start \in X /\ \A d \in X, i \in 1..N : Op(d, i) \in X
  OBVIOUS
<1> HIDE DEF Op, N, start
<1>3. op \in [1..N -> [X -> X]] /\ \A i \in 1..N, d \in X : op[i][d] = Op(d, i)
  BY <1>2
<1> HIDE DEF op
<1>4. \E g : Iterates(g)
  <2>1. Iterable(X, start, op, N)
    BY <1>2, <1>3, LoopExists
  <2>2. PICK g \in [0..N -> X] : g[0] = start /\ \A i \in 1..N : g[i] = op[i][g[i - 1]]
    BY <2>1 DEF Iterable
  <2>3. \A i \in 1..N : i - 1 \in 0..N
    BY <1>2
  <2>4. \A i \in 1..N : g[i] = Op(g[i - 1], i)
    BY <1>3, <2>2, <2>3
  <2>5. \A i \in 0..N : i = 0 \/ i \in 1..N
    BY <1>2
  <2> QED
    BY <2>2, <2>4, <2>5
<1>5. Iterates(f)
  BY <1>4
<1> HIDE DEF f
<1>6. f[0] = start /\ \A i \in 1..N : f[i] = Op(f[i - 1], i)
  BY <1>2, <1>5
<1>7. \A i \in 0..N : f[i] \in X
  <2>1. \A i \in 1..N : f[i - 1] \in X => f[i] \in X
    BY <1>2, <1>6
  <2> QED
    BY <1>2, <1>6, <2>1, LoopKeeps
<1>8. f[N] \in X
  BY <1>2, <1>7
<1> QED
  BY <1>1, <1>8

\* The loop of configureFromGlobal() over the sections of a file.
LEMMA GlobalLoop ==
  ASSUME NEW X,
         NEW r,
         NEW file,
         NEW c,
         Len(file) \in Nat,
         r \in X,
         \A d \in X, i \in 1..Len(file) : configure(get(d, file[i].id, c), file[i].id,
                      parseFromText(Empty, file[i].lines).list) \in X
  PROVE  configureFromGlobal(r, file, c) \in X
<1> DEFINE N == Len(file)
           start == r
           Op(d, i) == configure(get(d, file[i].id, c), file[i].id,
                      parseFromText(Empty, file[i].lines).list)
           Iterates(g) ==
             g = [i \in 0..N |-> IF i = 0 THEN start ELSE <<g[i - 1], Op(g[i - 1], i)>>[2]]
           f == CHOOSE g : Iterates(g)
           op == [i \in 1..N |-> [d \in X |-> Op(d, i)]]
<1>1. configureFromGlobal(r, file, c) = f[N]
  BY DEF configureFromGlobal, Loop
<1>2. N \in Nat /\ start \in X /\ \A d \in X, i \in 1..N : Op(d, i) \in X
  OBVIOUS
<1> HIDE DEF Op, N, start
<1>3. op \in [1..N -> [X -> X]] /\ \A i \in 1..N, d \in X : op[i][d] = Op(d, i)
  BY <1>2
<1> HIDE DEF op
<1>4. \E g : Iterates(g)
  <2>1. Iterable(X, start, op, N)
    BY <1>2, <1>3, LoopExists
  <2>2. PICK g \in [0..N -> X] : g[0] = start /\ \A i \in 1..N : g[i] = op[i][g[i - 1]]
    BY <2>1 DEF Iterable
  <2>3. \A i \in 1..N : i - 1 \in 0..N
    BY <1>2
  <2>4. \A i \in 1..N : g[i] = Op(g[i - 1], i)
    BY <1>3, <2>2, <2>3
  <2>5. \A i \in 0..N : i = 0 \/ i \in 1..N
    BY <1>2
  <2> QED
    BY <2>2, <2>4, <2>5
<1>5. Iterates(f)
  BY <1>4
<1> HIDE DEF f
<1>6. f[0] = start /\ \A i \in 1..N : f[i] = Op(f[i - 1], i)
  BY <1>2, <1>5
<1>7. \A i \in 0..N : f[i] \in X
  <2>1. \A i \in 1..N : f[i - 1] \in X => f[i] \in X
    BY <1>2, <1>6
  <2> QED
    BY <1>2, <1>6, <2>1, LoopKeeps
<1>8. f[N] \in X
  BY <1>2, <1>7
<1> QED
  BY <1>1, <1>8

-----------------------------------------------------------------------------
(* Lists.                                                                  *)

LEMMA EntryFacts ==
  /\ \A l, t, v : IsEntry(l, t, v) => Entry(l, t, v) \in Entries
  /\ \A e \in Entries : IsEntry(e.level, e.type, e.value) /\ e = Entry(e.level, e.type, e.value)
<1>1. ASSUME NEW l, NEW t, NEW v, IsEntry(l, t, v) PROVE Entry(l, t, v) \in Entries
  <2>1. t \in Types /\ Entry(l, t, v) \in [level : LevelNames, type : {t}, value : ValuesOf[t]]
    BY <1>1 DEF IsEntry, Entry
  <2> QED
    BY <2>1 DEF Entries
<1>2. ASSUME NEW e \in Entries
      PROVE  IsEntry(e.level, e.type, e.value) /\ e = Entry(e.level, e.type, e.value)
  <2>1. PICK t \in Types : e \in [level : LevelNames, type : {t}, value : ValuesOf[t]]
    BY DEF Entries
  <2> QED
    BY <2>1 DEF IsEntry, Entry
<1> QED
  BY <1>1, <1>2

LEMMA ListFacts ==
  ASSUME NEW c \in Lists
  PROVE  /\ c \in Seq(Entries) /\ Len(c) \in Nat /\ DOMAIN c = 1..Len(c)
         /\ \A i \in DOMAIN c : c[i] \in Entries
  BY DEF Lists

\* The list has this entry.
Has(c, l, t, v) == \E i \in DOMAIN c : c[i] = Entry(l, t, v)

\* Every entry is found at the place it has, and only there.
LEMMA PlaceIs ==
  ASSUME NEW c \in Lists, NEW i \in DOMAIN c
  PROVE  /\ hasConfiguration(c, c[i].level, c[i].type)
         /\ Place(c, c[i].level, c[i].type) = i
         /\ ValueAt(c, c[i].level, c[i].type) = c[i].value
<1>1. At(c, c[i].level, c[i].type) = {i}
  BY DEF At, Lists
<1>2. Place(c, c[i].level, c[i].type) = i
  BY <1>1 DEF Place
<1> QED
  BY <1>1, <1>2 DEF hasConfiguration, ValueAt

LEMMA HasSays ==
  ASSUME NEW c \in Lists, NEW l, NEW t, NEW v, Has(c, l, t, v)
  PROVE  hasConfiguration(c, l, t) /\ ValueAt(c, l, t) = v /\ Says(c, l, t) = v
<1>1. PICK i \in DOMAIN c : c[i] = Entry(l, t, v)
  BY DEF Has
<1>2. c[i].level = l /\ c[i].type = t /\ c[i].value = v
  BY <1>1 DEF Entry
<1>3. hasConfiguration(c, l, t) /\ ValueAt(c, l, t) = v
  BY <1>2, PlaceIs
<1> QED
  BY <1>3 DEF Says

\* Entries keep their places.
Grows(c, d) ==
  /\ Len(c) <= Len(d)
  /\ \A i \in DOMAIN c : d[i].level = c[i].level /\ d[i].type = c[i].type

LEMMA LeadsStays ==
  ASSUME NEW c \in Lists, NEW d \in Lists, Grows(c, d), NEW t, Leads(c, t)
  PROVE  Leads(d, t)
<1>1. PICK i \in DOMAIN c : /\ c[i].type = t /\ c[i].level = Global
                            /\ \A j \in DOMAIN c : c[j].type = t => i <= j
  BY DEF Leads
<1>2. /\ Len(c) \in Nat /\ Len(d) \in Nat /\ DOMAIN c = 1..Len(c) /\ DOMAIN d = 1..Len(d)
  BY ListFacts
<1>3. i \in DOMAIN d /\ d[i].type = t /\ d[i].level = Global
  BY <1>1, <1>2 DEF Grows
<1>4. ASSUME NEW j \in DOMAIN d, d[j].type = t PROVE i <= j
  <2>1. CASE j \in DOMAIN c
    BY <1>1, <1>4, <2>1 DEF Grows
  <2>2. CASE j \notin DOMAIN c
    BY <1>2, <2>2
  <2> QED
    BY <2>1, <2>2
<1> QED
  BY <1>3, <1>4 DEF Leads

\* What setting type t to v for l, and with Global for all levels, makes of a list.
SetsTo(c, d, l, t, v) ==
  /\ d \in Lists /\ Grows(c, d) /\ Has(d, l, t, v)
  /\ \A i \in DOMAIN d \ DOMAIN c : d[i].type = t
  /\ \A i \in DOMAIN c : c[i].type # t \/ (l # Global /\ c[i].level # l) => d[i] = c[i]
  /\ l = Global /\ (\A i \in DOMAIN c : c[i].type # t) => Leads(d, t)

LEMMA SetOneSets ==
  ASSUME NEW c \in Lists, NEW l, NEW t, NEW v, IsEntry(l, t, v)
  PROVE  /\ SetsTo(c, SetOne(c, l, t, v), l, t, v)
         /\ \A i \in DOMAIN c : c[i].type # t \/ c[i].level # l => SetOne(c, l, t, v)[i] = c[i]
<1> DEFINE e == Entry(l, t, v)
           d == SetOne(c, l, t, v)
<1>1. e \in Entries /\ e.level = l /\ e.type = t /\ e.value = v
  <2>1. e.level = l /\ e.type = t /\ e.value = v
    BY DEF Entry
  <2> QED
    BY <2>1, EntryFacts
<1>2. c \in Seq(Entries) /\ Len(c) \in Nat /\ DOMAIN c = 1..Len(c) /\ \A i \in DOMAIN c : c[i] \in Entries
  BY ListFacts
<1>3. CASE hasConfiguration(c, l, t)
  <2>1. PICK i \in DOMAIN c : c[i].level = l /\ c[i].type = t
    BY <1>3 DEF hasConfiguration, At
  <2>2. Place(c, l, t) = i
    BY <2>1, PlaceIs
  <2>3. [c[i] EXCEPT !.value = v] = e
    <3>1. c[i] = Entry(l, t, c[i].value)
      BY <1>2, <2>1, EntryFacts
    <3> QED
      BY <3>1 DEF Entry
  <2>4. d = [c EXCEPT ![i] = e]
    BY <1>3, <2>2, <2>3 DEF SetOne
  <2>5. d \in Seq(Entries) /\ Len(d) = Len(c) /\ DOMAIN d = DOMAIN c
    BY <1>1, <1>2, <2>4
  <2>6. d[i] = e /\ \A j \in DOMAIN c : j # i => d[j] = c[j]
    BY <2>4
  <2> HIDE DEF d, e
  <2>7. \A j \in DOMAIN c : d[j].level = c[j].level /\ d[j].type = c[j].type
    BY <1>1, <2>1, <2>6
  <2>8. d \in Lists
    <3>1. \A j, k \in DOMAIN c : c[j].level = c[k].level /\ c[j].type = c[k].type => j = k
      BY DEF Lists
    <3> QED
      BY <2>5, <2>7, <3>1 DEF Lists
  <2>9. Has(d, l, t, v)
    BY <2>5, <2>6 DEF Has, e
  <2>10. \A j \in DOMAIN c : c[j].type # t \/ c[j].level # l => d[j] = c[j]
    BY <2>1, <2>6
  <2> QED
    BY <1>2, <2>1, <2>5, <2>7, <2>8, <2>9, <2>10 DEF SetsTo, Grows, d
<1>4. CASE ~hasConfiguration(c, l, t)
  <2>1. \A i \in DOMAIN c : ~(c[i].level = l /\ c[i].type = t)
    BY <1>4 DEF hasConfiguration, At
  <2>2. d = Append(c, e)
    BY <1>4 DEF SetOne
  <2>3. /\ d \in Seq(Entries) /\ Len(d) = Len(c) + 1 /\ DOMAIN d = 1..(Len(c) + 1)
        /\ d[Len(c) + 1] = e /\ \A i \in DOMAIN c : d[i] = c[i]
    BY <1>1, <1>2, <2>2
  <2> HIDE DEF d, e
  <2>4. \A i \in DOMAIN d : i \in DOMAIN c \/ i = Len(c) + 1
    BY <1>2, <2>3
  <2>5. d \in Lists
    <3>1. \A j, k \in DOMAIN c : c[j].level = c[k].level /\ c[j].type = c[k].type => j = k
      BY DEF Lists
    <3>2. \A j, k \in DOMAIN d : d[j].level = d[k].level /\ d[j].type = d[k].type => j = k
      BY <1>1, <2>1, <2>3, <2>4, <3>1
    <3> QED
      BY <2>3, <3>2 DEF Lists
  <2>6. Has(d, l, t, v) /\ \A i \in DOMAIN d \ DOMAIN c : d[i].type = t
    <3>1. Len(c) + 1 \in DOMAIN d
      BY <1>2, <2>3
    <3> QED
      BY <1>1, <2>3, <2>4, <3>1 DEF Has, e
  <2>7. l = Global /\ (\A i \in DOMAIN c : c[i].type # t) => Leads(d, t)
    <3> SUFFICES ASSUME l = Global, \A i \in DOMAIN c : c[i].type # t PROVE Leads(d, t)
      OBVIOUS
    <3>1. Len(c) + 1 \in DOMAIN d /\ \A i \in DOMAIN d : d[i].type = t => i = Len(c) + 1
      BY <1>2, <2>3, <2>4
    <3>2. \A i \in DOMAIN d : d[i].type = t => Len(c) + 1 <= i
      BY <1>2, <3>1
    <3> QED
      BY <1>1, <2>3, <3>1, <3>2 DEF Leads
  <2> QED
    BY <1>2, <2>3, <2>5, <2>6, <2>7 DEF SetsTo, Grows, d
<1> QED
  BY <1>3, <1>4

LEMMA LevelFacts ==
  /\ Len(LevelOrder) \in Nat /\ Global \notin Levels
  /\ \A i \in 1..Len(LevelOrder) : LevelOrder[i] \in Levels
  /\ \A l \in Levels : \E i \in 1..Len(LevelOrder) : LevelOrder[i] = l
  /\ Levels \subseteq LevelNames /\ Global \in LevelNames
<1>1. /\ Len(LevelOrder) \in Nat /\ DOMAIN LevelOrder = 1..Len(LevelOrder) /\ Global \notin Levels
  BY RegistryAssumption
<1> QED
  BY <1>1 DEF Levels, Range, LevelNames

LEMMA GrowsTwice ==
  ASSUME NEW c \in Lists, NEW d \in Lists, NEW e \in Lists, Grows(c, d), Grows(d, e)
  PROVE  Grows(c, e)
  BY ListFacts DEF Grows

LEMMA GrowsNot == \A c \in Lists : Grows(c, c)
  BY ListFacts DEF Grows

LEMMA SetSets ==
  ASSUME NEW c \in Lists, NEW l, NEW t, NEW v, IsEntry(l, t, v)
  PROVE  SetsTo(c, set(c, l, t, v), l, t, v)
<1> DEFINE one == SetOne(c, l, t, v)
<1>1. SetsTo(c, one, l, t, v)
  BY SetOneSets
<1>2. CASE l # Global
  BY <1>1, <1>2 DEF set, unsafeSet
<1>3. CASE l = Global
  <2> DEFINE X == {d \in Lists : /\ Grows(one, d) /\ \A i \in DOMAIN d \ DOMAIN one : d[i].type = t
                                 /\ \A i \in DOMAIN one :
                                      one[i].type # t \/ one[i].level = Global => d[i] = one[i]}
  <2>1. one \in Lists
    BY <1>1 DEF SetsTo
  <2> HIDE DEF one
  <2>2. one \in X
    BY <2>1, GrowsNot
  <2>3. ASSUME NEW d \in X, NEW k \in 1..Len(LevelOrder) PROVE SetOne(d, LevelOrder[k], t, v) \in X
    <3> DEFINE m == LevelOrder[k]
               n == SetOne(d, m, t, v)
    <3>1. IsEntry(m, t, v) /\ m # Global
      BY LevelFacts DEF IsEntry
    <3> HIDE DEF m
    <3>2. d \in Lists
      OBVIOUS
    <3>3. SetsTo(d, n, m, t, v) /\ \A i \in DOMAIN d : d[i].type # t \/ d[i].level # m => n[i] = d[i]
      BY <3>1, <3>2, SetOneSets
    <3> HIDE DEF n
    <3>4. n \in Lists /\ Grows(d, n) /\ Grows(one, d) /\ DOMAIN one \subseteq DOMAIN d
      <4>1. n \in Lists /\ Grows(d, n) /\ Grows(one, d)
        BY <3>3 DEF SetsTo
      <4> QED
        BY <2>1, <3>2, <4>1, ListFacts DEF Grows
    <3>5. Grows(one, n)
      BY <2>1, <3>2, <3>4, GrowsTwice
    <3>6. ASSUME NEW i \in DOMAIN n \ DOMAIN one PROVE n[i].type = t
      <4>1. CASE i \in DOMAIN d
        BY <3>4, <4>1 DEF Grows
      <4>2. CASE i \notin DOMAIN d
        BY <3>3, <4>2 DEF SetsTo
      <4> QED
        BY <4>1, <4>2
    <3>7. ASSUME NEW i \in DOMAIN one, one[i].type # t \/ one[i].level = Global PROVE n[i] = one[i]
      BY <3>1, <3>3, <3>4, <3>7
    <3> QED
      BY <3>4, <3>5, <3>6, <3>7 DEF n, m
  <2>4. unsafeSetGlobally(one, t, v) \in X
    <3> HIDE DEF X
    <3>1. Len(LevelOrder) \in Nat
      BY LevelFacts
    <3>2. \A d \in X, i \in 1..Len(LevelOrder) : SetOne(d, LevelOrder[i], t, v) \in X
      BY <2>3
    <3> QED
      BY <2>2, <3>1, <3>2, LevelsLoop
  <2> DEFINE d == set(c, l, t, v)
  <2>5. d \in X
    BY <1>3, <2>4 DEF set, unsafeSet, one
  <2> HIDE DEF d
  <2>6. d \in Lists /\ Grows(one, d) /\ Grows(c, one) /\ Grows(c, d)
    <3>1. d \in Lists /\ Grows(one, d) /\ Grows(c, one)
      BY <1>1, <2>5 DEF SetsTo, one
    <3> QED
      BY <2>1, <3>1, GrowsTwice
  <2>7. DOMAIN c \subseteq DOMAIN one /\ DOMAIN one \subseteq DOMAIN d
    BY <2>1, <2>6, ListFacts DEF Grows
  <2>8. Has(d, l, t, v)
    <3>1. PICK i \in DOMAIN one : one[i] = Entry(l, t, v)
      BY <1>1 DEF SetsTo, Has, one
    <3>2. d[i] = one[i]
      BY <1>3, <2>5, <3>1 DEF Entry
    <3> QED
      BY <2>7, <3>1, <3>2 DEF Has
  <2>9. ASSUME NEW i \in DOMAIN d \ DOMAIN c PROVE d[i].type = t
    <3>1. CASE i \in DOMAIN one
      <4>1. one[i].type = t
        BY <1>1, <3>1 DEF SetsTo, one
      <4> QED
        BY <2>6, <3>1, <4>1 DEF Grows
    <3>2. CASE i \notin DOMAIN one
      BY <2>5, <3>2
    <3> QED
      BY <3>1, <3>2
  <2>10. ASSUME NEW i \in DOMAIN c, c[i].type # t PROVE d[i] = c[i]
    <3>1. one[i] = c[i]
      BY <1>1, <2>10 DEF SetsTo, one
    <3> QED
      BY <2>5, <2>7, <2>10, <3>1
  <2>11. (\A i \in DOMAIN c : c[i].type # t) => Leads(d, t)
    <3> SUFFICES ASSUME \A i \in DOMAIN c : c[i].type # t PROVE Leads(d, t)
      OBVIOUS
    <3>1. Leads(one, t)
      BY <1>1, <1>3 DEF SetsTo, one
    <3> QED
      BY <2>1, <2>6, <3>1, LeadsStays
  <2> QED
    BY <1>3, <2>6, <2>8, <2>9, <2>10, <2>11 DEF SetsTo, d
<1> QED
  BY <1>2, <1>3

\* What every value set keeps: a list that grows, and the types that Global leads.
LEMMA SetKeeps ==
  ASSUME NEW c \in Lists, NEW d \in Lists, Grows(c, d), NEW l, NEW t, NEW v, IsEntry(l, t, v)
  PROVE  set(d, l, t, v) \in Lists /\ Grows(c, set(d, l, t, v))
<1>1. set(d, l, t, v) \in Lists /\ Grows(d, set(d, l, t, v))
  BY SetSets DEF SetsTo
<1> QED
  BY <1>1, GrowsTwice

\* Entries of a list of which nothing more is known than that they suit.
LEMMA FromBaseKeeps ==
  ASSUME NEW c \in Lists, NEW base \in Seq(Entries)
  PROVE  setFromBase(c, base) \in Lists /\ Grows(c, setFromBase(c, base))
<1> DEFINE X == {d \in Lists : Grows(c, d)}
<1>1. c \in X /\ Len(base) \in Nat /\ \A i \in 1..Len(base) : base[i] \in Entries
  BY GrowsNot
<1>2. ASSUME NEW d \in X, NEW i \in 1..Len(base)
      PROVE  set(d, base[i].level, base[i].type, base[i].value) \in X
  BY <1>1, EntryFacts, SetKeeps
<1>3. setFromBase(c, base) \in X
  <2> HIDE DEF X
  <2> QED
    BY <1>1, <1>2, BaseLoop
<1> QED
  BY <1>3

LEMMA FullStays ==
  ASSUME NEW c \in FullLists, NEW d \in Lists, Grows(c, d)
  PROVE  d \in FullLists
<1>1. c \in Lists /\ \A t \in Types : Leads(c, t)
  BY DEF FullLists
<1>2. \A t \in Types : Leads(d, t)
  BY <1>1, LeadsStays
<1> QED
  BY <1>2 DEF FullLists

LEMMA EmptyList == Empty \in Lists /\ DOMAIN Empty = {} /\ Len(Empty) = 0
  BY EmptySeq DEF Empty, Lists

\* From nothing and a list whose types Global leads comes a list whose types Global leads.
LEMMA FullFromNothing ==
  ASSUME NEW base \in Seq(Entries), \A t \in Types : Leads(base, t)
  PROVE  setFromBase(Empty, base) \in FullLists
<1> DEFINE N == Len(base)
           Y == [i \in 0..N |->
                   {d \in Lists :
                      /\ \A j \in DOMAIN d : \E m \in 1..i : base[m].type = d[j].type
                      /\ \A m \in 1..i : Leads(d, base[m].type)}]
<1>1. /\ N \in Nat /\ DOMAIN base = 1..N
      /\ \A i \in 1..N : base[i] \in Entries /\ IsEntry(base[i].level, base[i].type, base[i].value)
  BY EntryFacts
<1>2. PICK f \in [0..N -> Lists] :
        /\ f[0] = Empty /\ f[N] = setFromBase(Empty, base)
        /\ \A i \in 1..N : f[i] = set(f[i - 1], base[i].level, base[i].type, base[i].value)
  <2> SUFFICES \E f \in [0..N -> Lists] : BaseRounds(f, Empty, base)
    BY DEF BaseRounds
  <2>1. \A d \in Lists, i \in 1..N : set(d, base[i].level, base[i].type, base[i].value) \in Lists
    BY <1>1, SetSets DEF SetsTo
  <2> QED
    BY <1>1, <2>1, EmptyList, BaseLoop
<1>3. f[0] \in Y[0]
  BY <1>1, <1>2, EmptyList
<1>4. ASSUME NEW i \in 1..N, f[i - 1] \in Y[i - 1] PROVE f[i] \in Y[i]
  <2> DEFINE d == f[i - 1]
             e == base[i]
             n == f[i]
  <2>1. i \in 0..N /\ i - 1 \in 0..N /\ i \in Nat /\ \A m \in 1..i : m \in 1..(i - 1) \/ m = i
    BY <1>1
  <2>2. d \in Lists /\ n \in Lists
    BY <1>2, <2>1
  <2>3. SetsTo(d, n, e.level, e.type, e.value)
    BY <1>1, <1>2, <2>2, SetSets
  <2>4. /\ \A j \in DOMAIN d : \E m \in 1..(i - 1) : base[m].type = d[j].type
        /\ \A m \in 1..(i - 1) : Leads(d, base[m].type)
    BY <1>4, <2>1
  <2> HIDE DEF d, n, Y
  <2>5. ASSUME NEW j \in DOMAIN n PROVE \E m \in 1..i : base[m].type = n[j].type
    <3>1. CASE j \in DOMAIN d
      <4>1. n[j].type = d[j].type
        BY <2>3, <3>1 DEF SetsTo, Grows
      <4>2. \A m \in 1..(i - 1) : m \in 1..i
        BY <2>1
      <4> QED
        BY <2>4, <3>1, <4>1, <4>2
    <3>2. CASE j \notin DOMAIN d
      <4>1. n[j].type = e.type /\ i \in 1..i
        BY <2>1, <2>3, <3>2 DEF SetsTo
      <4> QED
        BY <4>1
    <3> QED
      BY <3>1, <3>2
  <2>6. ASSUME NEW m \in 1..(i - 1) PROVE Leads(n, base[m].type)
    <3>1. Grows(d, n)
      BY <2>3 DEF SetsTo
    <3> QED
      BY <2>2, <2>4, <3>1, LeadsStays
  <2>7. Leads(n, e.type)
    <3>1. CASE \E m \in 1..(i - 1) : base[m].type = e.type
      BY <2>6, <3>1
    <3>2. CASE \A m \in 1..(i - 1) : base[m].type # e.type
      <4>1. PICK k \in 1..N : /\ base[k].type = e.type /\ base[k].level = Global
                              /\ \A j \in 1..N : base[j].type = e.type => k <= j
        BY <1>1 DEF Leads, IsEntry
      <4>2. k <= i
        BY <4>1
      <4>3. k = i
        BY <1>1, <3>2, <4>1, <4>2
      <4>4. \A j \in DOMAIN d : d[j].type # e.type
        BY <2>4, <3>2
      <4> QED
        BY <2>3, <4>1, <4>3, <4>4 DEF SetsTo
    <3> QED
      BY <3>1, <3>2
  <2>8. n \in Y[i]
    BY <2>1, <2>2, <2>5, <2>6, <2>7 DEF Y
  <2> QED
    BY <2>8 DEF n
<1>5. f[N] \in Y[N] /\ N \in 0..N
  <2> HIDE DEF Y
  <2>1. \A i \in 0..N : f[i] \in Y[i]
    BY <1>1, <1>3, <1>4, LoopProgresses
  <2> QED
    BY <1>1, <2>1
<1>6. f[N] \in Lists /\ \A m \in 1..N : Leads(f[N], base[m].type)
  BY <1>5
<1>7. ASSUME NEW t \in Types PROVE Leads(f[N], t)
  <2>1. PICK m \in 1..N : base[m].type = t
    BY <1>1 DEF Leads
  <2> QED
    BY <1>6, <2>1
<1> QED
  BY <1>2, <1>6, <1>7 DEF FullLists

\* A list set from one whose global entries come before others of their type has its entries.
LEMMA FromBaseHas ==
  ASSUME NEW c \in Lists, NEW base \in Lists, GlobalFirst(base)
  PROVE  \A m \in 1..Len(base) :
           Has(setFromBase(c, base), base[m].level, base[m].type, base[m].value)
<1> DEFINE N == Len(base)
           Y == [i \in 0..N |->
                   {d \in Lists : \A m \in 1..i : Has(d, base[m].level, base[m].type, base[m].value)}]
<1>1. /\ N \in Nat /\ DOMAIN base = 1..N
      /\ \A i \in 1..N : base[i] \in Entries /\ IsEntry(base[i].level, base[i].type, base[i].value)
  BY ListFacts, EntryFacts
<1>2. PICK f \in [0..N -> Lists] :
        /\ f[0] = c /\ f[N] = setFromBase(c, base)
        /\ \A i \in 1..N : f[i] = set(f[i - 1], base[i].level, base[i].type, base[i].value)
  <2> SUFFICES \E f \in [0..N -> Lists] : BaseRounds(f, c, base)
    BY DEF BaseRounds
  <2>1. \A d \in Lists, i \in 1..N : set(d, base[i].level, base[i].type, base[i].value) \in Lists
    BY <1>1, SetSets DEF SetsTo
  <2> QED
    BY <1>1, <2>1, BaseLoop
<1>3. f[0] \in Y[0]
  BY <1>1, <1>2
<1>4. ASSUME NEW i \in 1..N, f[i - 1] \in Y[i - 1] PROVE f[i] \in Y[i]
  <2> DEFINE d == f[i - 1]
             e == base[i]
             n == f[i]
  <2>1. i \in 0..N /\ i - 1 \in 0..N /\ i \in Nat /\ \A m \in 1..i : m \in 1..(i - 1) \/ m = i
    BY <1>1
  <2>2. d \in Lists /\ n \in Lists
    BY <1>2, <2>1
  <2>3. SetsTo(d, n, e.level, e.type, e.value)
    BY <1>1, <1>2, <2>2, SetSets
  <2>4. \A m \in 1..(i - 1) : Has(d, base[m].level, base[m].type, base[m].value)
    BY <1>4, <2>1
  <2> HIDE DEF d, n, Y
  <2>5. ASSUME NEW m \in 1..(i - 1) PROVE Has(n, base[m].level, base[m].type, base[m].value)
    <3>1. PICK k \in DOMAIN d : d[k] = Entry(base[m].level, base[m].type, base[m].value)
      BY <2>4 DEF Has
    <3>2. d[k].level = base[m].level /\ d[k].type = base[m].type
      BY <3>1 DEF Entry
    <3>3. m \in 1..N /\ ~(i <= m) /\ m # i
      BY <1>1
    <3>4. base[m].type = e.type => base[i].level # Global /\ base[m].level # base[i].level
      BY <1>1, <3>3 DEF GlobalFirst, Lists
    <3>5. n[k] = d[k]
      BY <2>3, <3>2, <3>4 DEF SetsTo
    <3>6. k \in DOMAIN n
      BY <2>2, <2>3, ListFacts DEF SetsTo, Grows
    <3> QED
      BY <3>1, <3>5, <3>6 DEF Has
  <2>6. Has(n, base[i].level, base[i].type, base[i].value)
    BY <2>3 DEF SetsTo
  <2>7. n \in Y[i]
    BY <2>1, <2>2, <2>5, <2>6 DEF Y
  <2> QED
    BY <2>7 DEF n
<1>5. f[N] \in Y[N] /\ N \in 0..N
  <2> HIDE DEF Y
  <2>1. \A i \in 0..N : f[i] \in Y[i]
    BY <1>1, <1>3, <1>4, LoopProgresses
  <2> QED
    BY <1>1, <2>1
<1> QED
  BY <1>2, <1>5

-----------------------------------------------------------------------------
(* Lists that the program and the loggers are given.                       *)

LEMMA ValuesFacts ==
  /\ ValuesOf["Enabled"] = BOOLEAN /\ ValuesOf["ToFile"] = BOOLEAN
  /\ ValuesOf["ToStandardOutput"] = BOOLEAN /\ ValuesOf["PerformanceTracking"] = BOOLEAN
  /\ ValuesOf["Format"] = STRING \cup DefaultFormats /\ ValuesOf["Filename"] = DOMAIN OnDisk
  /\ ValuesOf["SubsecondPrecision"] = Nat /\ ValuesOf["MaxLogFileSize"] = Nat
  /\ ValuesOf["LogFlushThreshold"] = Nat
  BY DEF ValuesOf, Types, GlobalTypes, LevelTypes

LEMMA FiveAreASequence ==
  ASSUME NEW S, NEW a \in S, NEW b \in S, NEW c \in S, NEW d \in S, NEW e \in S
  PROVE  <<a, b, c, d, e>> \in Seq(S)
  OBVIOUS

LEMMA NineAreASequence ==
  ASSUME NEW S, NEW a \in S, NEW b \in S, NEW c \in S, NEW d \in S, NEW e \in S,
         NEW f \in S, NEW g \in S, NEW h \in S, NEW i \in S
  PROVE  <<a, b, c, d, e, f, g, h, i>> \in Seq(S)
  OBVIOUS

LEMMA DefaultsFacts ==
  /\ Defaults \in Seq(Entries) /\ \A t \in Types : Leads(Defaults, t)
  /\ Formats \in Seq(Entries)
<1>1. /\ Global \in LevelNames /\ \A l \in {"Debug", "Error", "Fatal", "Verbose", "Trace"} : l \in LevelNames
  <2>1. \A w \in DOMAIN stringToLevelMap : stringToLevelMap[w] \in LevelNames
    BY DEF LevelNames, Range
  <2>2. /\ "debug" \in DOMAIN stringToLevelMap /\ stringToLevelMap["debug"] = "Debug"
        /\ "error" \in DOMAIN stringToLevelMap /\ stringToLevelMap["error"] = "Error"
        /\ "fatal" \in DOMAIN stringToLevelMap /\ stringToLevelMap["fatal"] = "Fatal"
        /\ "verbose" \in DOMAIN stringToLevelMap /\ stringToLevelMap["verbose"] = "Verbose"
        /\ "trace" \in DOMAIN stringToLevelMap /\ stringToLevelMap["trace"] = "Trace"
    BY DEF stringToLevelMap
  <2> QED
    BY <2>1, <2>2, LevelFacts
<1>2. Defaults \in Seq(Entries)
  <2>1. /\ IsEntry(Global, "Enabled", TRUE) /\ IsEntry(Global, "Filename", "default.log")
        /\ IsEntry(Global, "ToFile", TRUE) /\ IsEntry(Global, "ToStandardOutput", TRUE)
        /\ IsEntry(Global, "SubsecondPrecision", 3) /\ IsEntry(Global, "PerformanceTracking", TRUE)
        /\ IsEntry(Global, "MaxLogFileSize", 0) /\ IsEntry(Global, "LogFlushThreshold", 0)
        /\ IsEntry(Global, "Format", "plain")
    BY <1>1, ValuesFacts, RegistryAssumption DEF IsEntry, Types, GlobalTypes, LevelTypes, DefaultFormats
  <2>2. /\ Entry(Global, "Enabled", TRUE) \in Entries /\ Entry(Global, "Filename", "default.log") \in Entries
        /\ Entry(Global, "ToFile", TRUE) \in Entries /\ Entry(Global, "ToStandardOutput", TRUE) \in Entries
        /\ Entry(Global, "SubsecondPrecision", 3) \in Entries
        /\ Entry(Global, "PerformanceTracking", TRUE) \in Entries
        /\ Entry(Global, "MaxLogFileSize", 0) \in Entries
        /\ Entry(Global, "LogFlushThreshold", 0) \in Entries
        /\ Entry(Global, "Format", "plain") \in Entries
    BY <2>1, EntryFacts
  <2> QED
    BY <2>2, NineAreASequence DEF Defaults
<1>3. Formats \in Seq(Entries)
  <2>1. \A l \in {"Debug", "Error", "Fatal", "Verbose", "Trace"}, v \in DefaultFormats : IsEntry(l, "Format", v)
    BY <1>1, ValuesFacts DEF IsEntry, Types, GlobalTypes, LevelTypes
  <2>2. /\ IsEntry("Debug", "Format", "host func loc") /\ IsEntry("Error", "Format", "plain")
        /\ IsEntry("Fatal", "Format", "plain") /\ IsEntry("Verbose", "Format", "vlevel")
        /\ IsEntry("Trace", "Format", "func loc")
    BY <2>1 DEF DefaultFormats
  <2>3. /\ Entry("Debug", "Format", "host func loc") \in Entries /\ Entry("Error", "Format", "plain") \in Entries
        /\ Entry("Fatal", "Format", "plain") \in Entries /\ Entry("Verbose", "Format", "vlevel") \in Entries
        /\ Entry("Trace", "Format", "func loc") \in Entries
    BY <2>2, EntryFacts
  <2> QED
    BY <2>3, FiveAreASequence DEF Formats
<1>4. /\ DOMAIN Defaults = 1..9 /\ \A i \in 1..9 : Defaults[i].level = Global
      /\ \A i, j \in 1..9 : Defaults[i].type = Defaults[j].type => i = j
      /\ \A t \in Types : \E i \in 1..9 : Defaults[i].type = t
  BY DEF Defaults, Entry, Types, GlobalTypes, LevelTypes
<1>5. \A t \in Types : Leads(Defaults, t)
  BY <1>4 DEF Leads
<1> QED
  BY <1>2, <1>3, <1>5

LEMMA ToDefaultKeeps ==
  /\ \A c \in Lists : setToDefault(c) \in Lists
  /\ setToDefault(Empty) \in FullLists
<1>1. ASSUME NEW c \in Lists PROVE setToDefault(c) \in Lists
  BY DefaultsFacts, FromBaseKeeps DEF setToDefault
<1>2. setToDefault(Empty) \in FullLists
  <2> DEFINE d == setFromBase(Empty, Defaults)
  <2>1. d \in FullLists
    BY DefaultsFacts, FullFromNothing
  <2> HIDE DEF d
  <2>2. d \in Lists
    BY <2>1 DEF FullLists
  <2>3. setFromBase(d, Formats) \in Lists /\ Grows(d, setFromBase(d, Formats))
    BY <2>2, DefaultsFacts, FromBaseKeeps
  <2> QED
    BY <2>1, <2>3, FullStays DEF setToDefault, d
<1> QED
  BY <1>1, <1>2

LEMMA RemainingKeeps ==
  ASSUME NEW c \in Lists
  PROVE  setRemainingToDefault(c) \in Lists
<1>1. /\ Defaults \o Formats \in Seq(Entries) /\ Len(Defaults \o Formats) \in Nat
      /\ \A i \in 1..Len(Defaults \o Formats) : (Defaults \o Formats)[i] \in Entries
  <2>1. Defaults \o Formats \in Seq(Entries)
    BY DefaultsFacts
  <2> QED
    BY <2>1
<1>2. ASSUME NEW d \in Lists, NEW e \in Entries PROVE setRemaining(d, e) \in Lists
  <2>1. IsEntry(e.level, e.type, e.value)
    BY EntryFacts
  <2>2. set(d, e.level, e.type, e.value) \in Lists
    BY <2>1, SetSets DEF SetsTo
  <2> QED
    BY <2>2 DEF setRemaining, unsafeSetIfNotExist, set
<1> QED
  BY <1>1, <1>2, RemainingLoop

LEMMA ParseKeeps ==
  ASSUME NEW c \in Lists, NEW text, IsText(text)
  PROVE  parseFromText(c, text).list \in Lists
<1> DEFINE X == [list : Lists, level : LevelNames \cup {Unknown}, ok : BOOLEAN]
<1>1. Len(text) \in Nat /\ [list |-> c, level |-> Unknown, ok |-> FALSE] \in X
  BY DEF IsText
<1>2. ASSUME NEW p \in X, NEW i \in 1..Len(text) PROVE parseLine(p, text[i]) \in X
  <2> DEFINE line == text[i]
             t == IF line.kind = "config" THEN convertFromString(configStringToTypeMap, line.type)
                  ELSE Unknown
  <2>1. t # Unknown => line.value \in ValuesOf[t] /\ t \in Types
    <3> SUFFICES ASSUME t # Unknown PROVE line.value \in ValuesOf[t] /\ t \in Types
      OBVIOUS
    <3>1. /\ line.kind = "config" /\ line.type \in DOMAIN configStringToTypeMap
          /\ t = configStringToTypeMap[line.type]
      BY DEF convertFromString
    <3>2. line.value \in ValuesOf[t]
      BY <3>1 DEF IsText
    <3>3. \A w \in DOMAIN configStringToTypeMap : configStringToTypeMap[w] \in Types
      BY DEF configStringToTypeMap, Types, GlobalTypes, LevelTypes
    <3> QED
      BY <3>1, <3>2, <3>3
  <2>2. \A w : convertFromString(stringToLevelMap, w) \in LevelNames \cup {Unknown}
    <3>1. \A w \in DOMAIN stringToLevelMap : stringToLevelMap[w] \in LevelNames
      BY DEF LevelNames, Range
    <3> QED
      BY <3>1 DEF convertFromString
  <2>3. t # Unknown /\ p.level # Unknown => set(p.list, p.level, t, line.value) \in Lists
    <3> SUFFICES ASSUME t # Unknown, p.level # Unknown PROVE set(p.list, p.level, t, line.value) \in Lists
      OBVIOUS
    <3>1. IsEntry(p.level, t, line.value) /\ p.list \in Lists
      BY <2>1 DEF IsEntry
    <3> QED
      BY <3>1, SetSets DEF SetsTo
  <2> HIDE DEF line
  <2>4. \/ line.kind = "comment" /\ parseLine(p, line) = [p EXCEPT !.ok = TRUE]
        \/ line.kind = "level"
           /\ parseLine(p, line) = [p EXCEPT !.ok = TRUE, !.level = convertFromString(stringToLevelMap, line.level)]
        \/ p.level # Unknown /\ t # Unknown
           /\ parseLine(p, line) = [p EXCEPT !.ok = TRUE, !.list = set(p.list, p.level, t, line.value)]
        \/ parseLine(p, line) = [p EXCEPT !.ok = FALSE]
    BY DEF parseLine
  <2> HIDE DEF t
  <2>5. parseLine(p, line) \in X
    BY <2>2, <2>3, <2>4
  <2> QED
    BY <2>5 DEF line
<1>3. parseFromText(c, text) \in X
  <2> HIDE DEF X
  <2> QED
    BY <1>1, <1>2, ParseLoop
<1> QED
  BY <1>3

LEMMA GloballyKeeps ==
  ASSUME NEW c \in Lists, NEW t, NEW v, IsEntry(Global, t, v)
  PROVE  setGlobally(c, t, v, FALSE) \in Lists
<1>1. \A d \in Lists, i \in 1..Len(LevelOrder) : SetOne(d, LevelOrder[i], t, v) \in Lists
  <2> SUFFICES ASSUME NEW d \in Lists, NEW i \in 1..Len(LevelOrder)
               PROVE  SetOne(d, LevelOrder[i], t, v) \in Lists
    OBVIOUS
  <2>1. IsEntry(LevelOrder[i], t, v)
    BY LevelFacts DEF IsEntry
  <2> QED
    BY <2>1, SetOneSets DEF SetsTo
<1> QED
  BY <1>1, LevelFacts, LevelsLoop DEF setGlobally

-----------------------------------------------------------------------------
(* Typed maps.                                                             *)

LEMMA EmptyMap ==
  ASSUME NEW V, NEW m \in Maps(V)
  PROVE  m = Empty <=> DOMAIN m = {}
<1>1. PICK D \in SUBSET LevelNames : m \in [D -> V]
  BY DEF Maps
<1>2. ASSUME DOMAIN m = {} PROVE m = Empty
  <2>1. m \in [{} -> V] /\ Empty \in Seq(V) /\ DOMAIN Empty = {}
    BY <1>1, <1>2, EmptyList DEF Empty
  <2>2. Empty \in [{} -> V]
    BY <2>1 DEF Empty
  <2> QED
    BY <2>1, <2>2
<1> QED
  BY <1>2, EmptyList

LEMMA MapFacts ==
  /\ \A V, m : m \in Maps(V) => DOMAIN m \subseteq LevelNames /\ \A l \in DOMAIN m : m[l] \in V
  /\ \A V, D, m : D \subseteq LevelNames /\ m \in [D -> V] => m \in Maps(V)
  /\ \A V : Empty \in Maps(V)
<1>1. ASSUME NEW V, NEW m \in Maps(V) PROVE DOMAIN m \subseteq LevelNames /\ \A l \in DOMAIN m : m[l] \in V
  <2>1. PICK D \in SUBSET LevelNames : m \in [D -> V]
    BY DEF Maps
  <2> QED
    BY <2>1
<1>2. ASSUME NEW V, NEW D, NEW m, D \subseteq LevelNames, m \in [D -> V] PROVE m \in Maps(V)
  BY <1>2 DEF Maps
<1>3. ASSUME NEW V PROVE Empty \in Maps(V)
  <2>1. Empty \in Seq(V) /\ DOMAIN Empty = {}
    BY EmptyList DEF Empty
  <2>2. Empty \in [{} -> V]
    BY <2>1 DEF Empty
  <2> QED
    BY <1>2, <2>2
<1> QED
  BY <1>1, <1>2, <1>3

LEMMA LookupFacts ==
  ASSUME NEW V, NEW m \in Maps(V), NEW d \in V, NEW l
  PROVE  Lookup(m, l, d) \in V
  BY MapFacts DEF Lookup

\* n is the map m with v for l.
IsWith(n, m, l, v) ==
  DOMAIN n = DOMAIN m \cup {l} /\ n[l] = v /\ \A x \in DOMAIN m \ {l} : n[x] = m[x]

LEMMA WithIs ==
  ASSUME NEW V, NEW m \in Maps(V), NEW l \in LevelNames, NEW v \in V
  PROVE  With(m, l, v) \in Maps(V) /\ IsWith(With(m, l, v), m, l, v)
<1> DEFINE n == With(m, l, v)
<1>1. n = [x \in DOMAIN m \cup {l} |-> IF x = l THEN v ELSE m[x]]
  BY DEF With
<1>2. DOMAIN m \cup {l} \subseteq LevelNames /\ n \in [DOMAIN m \cup {l} -> V]
  BY <1>1, MapFacts
<1>3. n \in Maps(V)
  BY <1>2, MapFacts
<1> QED
  BY <1>1, <1>3 DEF IsWith

\* What one more entry does to a map.
SetsValue(n, m, l, v) ==
  /\ DOMAIN m = {} => IsWith(n, m, Global, v)
  /\ Global \in DOMAIN m /\ m[Global] = v => n = m
  /\ DOMAIN m # {} /\ ~(Global \in DOMAIN m /\ m[Global] = v) => IsWith(n, m, l, v)

LEMMA SetValueIs ==
  ASSUME NEW V, NEW m \in Maps(V), NEW l \in LevelNames, NEW v \in V
  PROVE  setValue(m, l, v) \in Maps(V) /\ SetsValue(setValue(m, l, v), m, l, v)
<1>1. Global \in LevelNames /\ (m = Empty <=> DOMAIN m = {})
  BY EmptyMap DEF LevelNames
<1>2. /\ With(m, l, v) \in Maps(V) /\ IsWith(With(m, l, v), m, l, v)
      /\ With(m, Global, v) \in Maps(V) /\ IsWith(With(m, Global, v), m, Global, v)
  BY <1>1, WithIs
<1> QED
  BY <1>1, <1>2 DEF setValue, SetsValue

LEMMA TypedMapType ==
  ASSUME NEW c \in Lists, NEW t \in Types
  PROVE  TypedMap(c, t) \in Maps(ValuesOf[t])
<1>1. ASSUME NEW m \in Maps(ValuesOf[t]), NEW i \in 1..Len(c)
      PROVE  (IF c[i].type = t THEN setValue(m, LevelOf(c[i]), c[i].value) ELSE m) \in Maps(ValuesOf[t])
  <2>1. IsEntry(c[i].level, c[i].type, c[i].value)
    BY ListFacts, EntryFacts
  <2>2. LevelOf(c[i]) \in LevelNames
    BY <2>1 DEF IsEntry, LevelOf, LevelNames
  <2> QED
    BY <2>1, <2>2, SetValueIs DEF IsEntry
<1> QED
  BY <1>1, ListFacts, MapFacts, TypedLoop

\* m has entries of type t of the list, among them that of Global; it agrees on others.
Covers(m, c, t) ==
  /\ Global \in DOMAIN m
  /\ \A k \in DOMAIN m : Has(c, k, t, m[k])
  /\ \A j \in DOMAIN c :
       c[j].type = t => IF c[j].level \in DOMAIN m THEN m[c[j].level] = c[j].value
                        ELSE m[Global] = c[j].value

LEMMA CoversSays ==
  ASSUME NEW c \in Lists, NEW t, NEW m, Covers(m, c, t), NEW l, NEW default
  PROVE  Lookup(m, l, default) = Says(c, l, t)
<1>1. m[Global] = ValueAt(c, Global, t)
  BY HasSays DEF Covers
<1>2. CASE hasConfiguration(c, l, t)
  <2>1. PICK j \in DOMAIN c : c[j].level = l /\ c[j].type = t
    BY <1>2 DEF hasConfiguration, At
  <2>2. ValueAt(c, l, t) = c[j].value
    BY <2>1, PlaceIs
  <2> QED
    BY <1>2, <2>1, <2>2 DEF Covers, Lookup, Says
<1>3. CASE ~hasConfiguration(c, l, t)
  <2>1. l \notin DOMAIN m
    BY <1>3, HasSays DEF Covers
  <2> QED
    BY <1>1, <1>3, <2>1 DEF Covers, Lookup, Says
<1> QED
  BY <1>2, <1>3

\* The map of a type says of every level what the list does.
LEMMA TypedMapCovers ==
  ASSUME NEW c \in FullLists, NEW t \in LevelTypes
  PROVE  Covers(TypedMap(c, t), c, t)
<1> DEFINE N == Len(c)
           V == ValuesOf[t]
           Y == [i \in 0..N |->
                   {m \in Maps(V) :
                      /\ \A k \in DOMAIN m : \E j \in 1..i : c[j] = Entry(k, t, m[k])
                      /\ \A j \in 1..i : c[j].type = t =>
                           /\ Global \in DOMAIN m
                           /\ IF c[j].level \in DOMAIN m THEN m[c[j].level] = c[j].value
                              ELSE m[Global] = c[j].value}]
<1>1. /\ c \in Lists /\ t \in Types /\ N \in Nat /\ DOMAIN c = 1..N
      /\ \A i \in 1..N : c[i] \in Entries /\ IsEntry(c[i].level, c[i].type, c[i].value)
                         /\ c[i] = Entry(c[i].level, c[i].type, c[i].value)
  BY ListFacts, EntryFacts DEF FullLists, Types
<1>2. PICK f \in [0..N -> Maps(V)] :
        /\ f[0] = Empty /\ f[N] = TypedMap(c, t)
        /\ \A i \in 1..N : f[i] = (IF c[i].type = t THEN setValue(f[i - 1], LevelOf(c[i]), c[i].value) ELSE f[i - 1])
  <2> SUFFICES \E f \in [0..N -> Maps(V)] : TypedRounds(f, c, t)
    BY DEF TypedRounds
  <2>1. ASSUME NEW m \in Maps(V), NEW i \in 1..N
        PROVE  (IF c[i].type = t THEN setValue(m, LevelOf(c[i]), c[i].value) ELSE m) \in Maps(V)
    <3>1. LevelOf(c[i]) \in LevelNames
      BY <1>1 DEF IsEntry, LevelOf, LevelNames
    <3> QED
      BY <1>1, <3>1, SetValueIs DEF IsEntry
  <2> QED
    BY <1>1, <2>1, MapFacts, TypedLoop
<1>3. f[0] \in Y[0]
  BY <1>1, <1>2, MapFacts, EmptyList
<1>4. ASSUME NEW i \in 1..N, f[i - 1] \in Y[i - 1] PROVE f[i] \in Y[i]
  <2> DEFINE m == f[i - 1]
             n == f[i]
             e == c[i]
  <2>1. i \in 0..N /\ i - 1 \in 0..N /\ i \in Nat /\ \A j \in 1..i : j \in 1..(i - 1) \/ j = i
    BY <1>1
  <2>2. \A j \in 1..(i - 1) : j \in 1..i /\ j \in 1..N /\ j # i /\ ~(i <= j)
    BY <1>1
  <2>3. /\ m \in Maps(V) /\ n \in Maps(V)
        /\ \A k \in DOMAIN m : \E j \in 1..(i - 1) : c[j] = Entry(k, t, m[k])
        /\ \A j \in 1..(i - 1) : c[j].type = t =>
             /\ Global \in DOMAIN m
             /\ IF c[j].level \in DOMAIN m THEN m[c[j].level] = c[j].value ELSE m[Global] = c[j].value
    BY <1>2, <1>4, <2>1
  <2>4. n = IF e.type = t THEN setValue(m, LevelOf(e), e.value) ELSE m
    BY <1>2
  <2> HIDE DEF m, n, Y
  <2> SUFFICES /\ \A k \in DOMAIN n : \E j \in 1..i : c[j] = Entry(k, t, n[k])
               /\ \A j \in 1..i : c[j].type = t =>
                    /\ Global \in DOMAIN n
                    /\ IF c[j].level \in DOMAIN n THEN n[c[j].level] = c[j].value ELSE n[Global] = c[j].value
    BY <2>1, <2>3 DEF Y, n
  <2>5. CASE e.type # t
    BY <2>1, <2>2, <2>3, <2>4, <2>5
  <2>6. CASE e.type = t
    <3>1. LevelOf(e) = e.level /\ e.level \in LevelNames /\ e.value \in V /\ e = Entry(e.level, t, e.value)
      BY <1>1, <2>6 DEF LevelOf, IsEntry, GlobalTypes, LevelTypes
    <3>2. n = setValue(m, e.level, e.value)
      BY <2>4, <2>6, <3>1
    <3>3. SetsValue(n, m, e.level, e.value)
      BY <2>3, <3>1, <3>2, SetValueIs
    <3>4. e.level \notin DOMAIN m
      <4> SUFFICES ASSUME e.level \in DOMAIN m PROVE FALSE
        OBVIOUS
      <4>1. PICK j \in 1..(i - 1) : c[j] = Entry(e.level, t, m[e.level])
        BY <2>3
      <4>2. c[j].level = c[i].level /\ c[j].type = c[i].type
        BY <2>6, <4>1 DEF Entry
      <4> QED
        BY <1>1, <2>2, <4>2 DEF Lists
    <3>5. \A j \in 1..(i - 1) : c[j].type = t => c[j].level # e.level
      BY <1>1, <2>2, <2>6 DEF Lists
    <3>6. CASE DOMAIN m = {}
      <4>1. \A j \in 1..(i - 1) : c[j].type # t
        BY <2>3, <3>6
      <4>2. e.level = Global
        <5>1. PICK j \in 1..N : c[j].type = t /\ c[j].level = Global /\ \A k \in 1..N : c[k].type = t => j <= k
          BY <1>1 DEF FullLists, Leads
        <5>2. j <= i /\ j \in 1..i
          BY <2>6, <5>1
        <5> QED
          BY <2>1, <4>1, <5>1, <5>2
      <4>3. DOMAIN n = {Global} /\ n[Global] = e.value
        BY <3>6, <3>3 DEF SetsValue, IsWith
      <4> QED
        BY <2>1, <3>1, <4>1, <4>2, <4>3
    <3>7. CASE DOMAIN m # {} /\ Global \in DOMAIN m /\ m[Global] = e.value
      <4>1. n = m
        BY <3>7, <3>3 DEF SetsValue, IsWith
      <4> QED
        BY <2>1, <2>2, <2>3, <3>4, <3>7, <4>1
    <3>8. CASE DOMAIN m # {} /\ ~(Global \in DOMAIN m /\ m[Global] = e.value)
      <4>1. /\ DOMAIN n = DOMAIN m \cup {e.level} /\ n[e.level] = e.value
            /\ \A x \in DOMAIN m \ {e.level} : n[x] = m[x]
        BY <3>8, <3>3 DEF SetsValue, IsWith
      <4>2. Global \in DOMAIN m
        <5>1. PICK k \in DOMAIN m : TRUE
          BY <3>8
        <5>2. PICK j \in 1..(i - 1) : c[j] = Entry(k, t, m[k])
          BY <2>3
        <5> QED
          BY <2>3, <5>2 DEF Entry
      <4>3. \A k \in DOMAIN n : \E j \in 1..i : c[j] = Entry(k, t, n[k])
        <5>1. i \in 1..i
          BY <2>1
        <5> QED
          BY <2>2, <2>3, <3>1, <3>4, <4>1, <5>1
      <4>4. ASSUME NEW j \in 1..i, c[j].type = t
            PROVE  IF c[j].level \in DOMAIN n THEN n[c[j].level] = c[j].value ELSE n[Global] = c[j].value
        <5>1. CASE j = i
          BY <4>1, <5>1
        <5>2. CASE j \in 1..(i - 1)
          BY <2>3, <3>4, <3>5, <4>1, <4>2, <4>4, <5>2
        <5> QED
          BY <2>1, <5>1, <5>2
      <4> QED
        BY <4>1, <4>2, <4>3, <4>4
    <3> QED
      BY <3>6, <3>7, <3>8
  <2> QED
    BY <2>5, <2>6
<1>5. f[N] \in Y[N] /\ N \in 0..N
  <2> HIDE DEF Y
  <2>1. \A i \in 0..N : f[i] \in Y[i]
    BY <1>1, <1>3, <1>4, LoopProgresses
  <2> QED
    BY <1>1, <2>1
<1> DEFINE m == TypedMap(c, t)
<1>6. /\ \A k \in DOMAIN m : \E j \in 1..N : c[j] = Entry(k, t, m[k])
      /\ \A j \in 1..N : c[j].type = t =>
           /\ Global \in DOMAIN m
           /\ IF c[j].level \in DOMAIN m THEN m[c[j].level] = c[j].value ELSE m[Global] = c[j].value
  BY <1>2, <1>5
<1> HIDE DEF m
<1>7. Global \in DOMAIN m
  BY <1>1, <1>6 DEF FullLists, Leads
<1>8. \A k \in DOMAIN m : Has(c, k, t, m[k])
  BY <1>1, <1>6 DEF Has
<1> QED
  BY <1>1, <1>6, <1>7, <1>8 DEF Covers, m

-----------------------------------------------------------------------------
(* Files.                                                                  *)

Builds == [typed : Typeds, streams : Seq(Streams), refs : Refs]

\* More files are known and more streams open, in which nothing was written.
Opens(streams, refs, more, moreRefs) ==
  /\ Len(streams) <= Len(more)
  /\ \A n \in DOMAIN streams : more[n] = streams[n]
  /\ \A n \in DOMAIN more \ DOMAIN streams, o \in Owners : more[n].pending[o] = 0
  /\ \A f \in DOMAIN refs : f \in DOMAIN moreRefs /\ moreRefs[f] = refs[f]

LEMMA StreamFacts ==
  /\ \A streams \in Seq(Streams) :
       /\ Len(streams) \in Nat /\ DOMAIN streams = 1..Len(streams)
       /\ \A n \in DOMAIN streams : streams[n] \in Streams
  /\ \A refs \in Refs : /\ DOMAIN refs \subseteq DOMAIN OnDisk
                        /\ \A f \in DOMAIN refs : refs[f] \in Nat
  /\ \A F, refs : F \subseteq DOMAIN OnDisk /\ refs \in [F -> Nat] => refs \in Refs
<1>1. ASSUME NEW streams \in Seq(Streams)
      PROVE  /\ Len(streams) \in Nat /\ DOMAIN streams = 1..Len(streams)
             /\ \A n \in DOMAIN streams : streams[n] \in Streams
  OBVIOUS
<1>2. ASSUME NEW refs \in Refs
      PROVE  DOMAIN refs \subseteq DOMAIN OnDisk /\ \A f \in DOMAIN refs : refs[f] \in Nat
  <2>1. PICK F \in SUBSET DOMAIN OnDisk : refs \in [F -> Nat]
    BY DEF Refs
  <2> QED
    BY <2>1
<1>3. ASSUME NEW F, NEW refs, F \subseteq DOMAIN OnDisk, refs \in [F -> Nat] PROVE refs \in Refs
  BY <1>3 DEF Refs
<1> QED
  BY <1>1, <1>2, <1>3

LEMMA OpensTwice ==
  ASSUME NEW r \in Builds, NEW s \in Builds, NEW t \in Builds,
         Opens(r.streams, r.refs, s.streams, s.refs), Opens(s.streams, s.refs, t.streams, t.refs)
  PROVE  Opens(r.streams, r.refs, t.streams, t.refs)
<1>1. /\ r.streams \in Seq(Streams) /\ s.streams \in Seq(Streams) /\ t.streams \in Seq(Streams)
  BY DEF Builds
<1>2. /\ Len(r.streams) \in Nat /\ DOMAIN r.streams = 1..Len(r.streams)
      /\ Len(s.streams) \in Nat /\ DOMAIN s.streams = 1..Len(s.streams)
      /\ Len(t.streams) \in Nat /\ DOMAIN t.streams = 1..Len(t.streams)
  BY <1>1, StreamFacts
<1> QED
  BY <1>2 DEF Opens

LEMMA TypedFacts ==
  ASSUME NEW typed \in Typeds
  PROVE  /\ typed.name \in Maps(DOMAIN OnDisk) /\ typed.stream \in Maps(Nat)
         /\ DOMAIN typed.maps = LevelTypes \cup GlobalTypes
         /\ \A t \in LevelTypes \cup GlobalTypes : typed.maps[t] \in Maps(ValuesOf[t])
         /\ typed = [name |-> typed.name, stream |-> typed.stream, maps |-> typed.maps]
  BY DEF Typeds

LEMMA TypedMake ==
  ASSUME NEW name \in Maps(DOMAIN OnDisk), NEW stream \in Maps(Nat), NEW maps,
         maps = [t \in LevelTypes \cup GlobalTypes |-> maps[t]],
         \A t \in LevelTypes \cup GlobalTypes : maps[t] \in Maps(ValuesOf[t])
  PROVE  [name |-> name, stream |-> stream, maps |-> maps] \in Typeds
<1>1. LevelTypes \cup GlobalTypes \subseteq Types
  BY DEF Types
<1>2. maps \in [LevelTypes \cup GlobalTypes -> UNION {Maps(ValuesOf[t]) : t \in Types}]
  BY <1>1
<1> QED
  BY <1>2 DEF Typeds

LEMMA InsertIs ==
  ASSUME NEW V, NEW m \in Maps(V), NEW l \in LevelNames, NEW v \in V, l \notin DOMAIN m
  PROVE  Insert(m, l, v) \in Maps(V) /\ IsWith(Insert(m, l, v), m, l, v)
  BY WithIs DEF Insert

\* What is said of a level by a map with Global, after setValue() has said FALSE of l.
LEMMA ToFileOff ==
  ASSUME NEW m \in Maps(BOOLEAN), Global \in DOMAIN m, NEW l \in LevelNames
  PROVE  /\ setValue(m, l, FALSE) \in Maps(BOOLEAN) /\ Global \in DOMAIN setValue(m, l, FALSE)
         /\ \A k : k # l /\ l # Global => Lookup(setValue(m, l, FALSE), k, FALSE) = Lookup(m, k, FALSE)
<1> DEFINE n == setValue(m, l, FALSE)
<1>1. n \in Maps(BOOLEAN) /\ \/ n = m
                             \/ /\ DOMAIN n = DOMAIN m \cup {l}
                                /\ \A x \in DOMAIN m \ {l} : n[x] = m[x]
  <2>1. n \in Maps(BOOLEAN) /\ SetsValue(n, m, l, FALSE)
    BY SetValueIs
  <2> HIDE DEF n
  <2> QED
    BY <2>1 DEF SetsValue, IsWith
<1> HIDE DEF n
<1>2. Global \in DOMAIN n
  BY <1>1
<1>3. ASSUME NEW k, k # l, l # Global PROVE Lookup(n, k, FALSE) = Lookup(m, k, FALSE)
  <2>1. k \in DOMAIN n <=> k \in DOMAIN m
    BY <1>1, <1>3
  <2>2. (k \in DOMAIN m => n[k] = m[k]) /\ n[Global] = m[Global]
    BY <1>1, <1>3
  <2> QED
    BY <1>2, <2>1, <2>2 DEF Lookup
<1> QED
  BY <1>1, <1>2, <1>3 DEF n

\* x is what inserting a file makes of b.
InsertsFile(b, level, file, x) ==
  /\ x \in Builds
  /\ FilesFit(x.streams, x.refs) /\ Opens(b.streams, b.refs, x.streams, x.refs)
  /\ DOMAIN x.typed.name = DOMAIN b.typed.name \cup {level} /\ x.typed.name[level] = file
  /\ \A k \in DOMAIN b.typed.name : x.typed.name[k] = b.typed.name[k]
  /\ DOMAIN x.typed.stream = DOMAIN b.typed.stream \cup {level}
  /\ file \in DOMAIN x.refs /\ x.typed.stream[level] = x.refs[file]
  /\ \A k \in DOMAIN b.typed.stream : x.typed.stream[k] = b.typed.stream[k]
  /\ \A t \in (LevelTypes \cup GlobalTypes) \ {"ToFile"} : x.typed.maps[t] = b.typed.maps[t]
  /\ Global \in DOMAIN x.typed.maps["ToFile"]
  /\ \A k : \/ Lookup(x.typed.maps["ToFile"], k, FALSE) = Lookup(b.typed.maps["ToFile"], k, FALSE)
            \/ level \in {k, Global} /\ x.typed.stream[level] = Null

LEMMA InsertFileIs ==
  ASSUME NEW b \in Builds, NEW level \in LevelNames, NEW file \in DOMAIN OnDisk,
         FilesFit(b.streams, b.refs),
         DOMAIN b.typed.name = DOMAIN b.typed.stream, level \notin DOMAIN b.typed.name,
         DOMAIN b.typed.name = {} => level = Global,
         Global \in DOMAIN b.typed.maps["ToFile"]
  PROVE  InsertsFile(b, level, file, insertFile(b, level, file))
<1> DEFINE x == insertFile(b, level, file)
           known == file \in DOMAIN b.refs
           opened == ~known /\ file \notin Unopenable
           n == IF known THEN b.refs[file] ELSE IF opened THEN Len(b.streams) + 1 ELSE Null
           name == Insert(b.typed.name, level, file)
           stream == Insert(b.typed.stream, level, n)
           maps == IF n # Null THEN b.typed.maps
                   ELSE [b.typed.maps EXCEPT !["ToFile"] = setValue(@, level, FALSE)]
           streams == IF opened THEN Append(b.streams, NewStream(file)) ELSE b.streams
           refs == IF known THEN b.refs ELSE Insert(b.refs, file, n)
<1>1. /\ b.typed \in Typeds /\ b.streams \in Seq(Streams) /\ b.refs \in Refs
      /\ Len(b.streams) \in Nat /\ DOMAIN b.streams = 1..Len(b.streams)
      /\ \A i \in 1..Len(b.streams) : b.streams[i] \in Streams
  <2>1. b.typed \in Typeds /\ b.streams \in Seq(Streams) /\ b.refs \in Refs
    BY DEF Builds
  <2> QED
    BY <2>1, StreamFacts
<1>2. /\ b.typed.name \in Maps(DOMAIN OnDisk) /\ b.typed.stream \in Maps(Nat)
      /\ DOMAIN b.typed.maps = LevelTypes \cup GlobalTypes
      /\ \A t \in LevelTypes \cup GlobalTypes : b.typed.maps[t] \in Maps(ValuesOf[t])
      /\ b.typed.maps = [t \in LevelTypes \cup GlobalTypes |-> b.typed.maps[t]]
  <2>1. b.typed.maps = [t \in LevelTypes \cup GlobalTypes |-> b.typed.maps[t]]
    BY <1>1 DEF Typeds
  <2> QED
    BY <1>1, <2>1, TypedFacts
<1>3. n \in Nat
  BY <1>1, StreamFacts DEF Null
<1> HIDE DEF n
<1>4. /\ stream \in Maps(Nat) /\ DOMAIN stream = DOMAIN b.typed.stream \cup {level}
      /\ stream[level] = n /\ \A k \in DOMAIN b.typed.stream : stream[k] = b.typed.stream[k]
  <2>1. stream \in Maps(Nat) /\ IsWith(stream, b.typed.stream, level, n)
    BY <1>2, <1>3, InsertIs
  <2> HIDE DEF stream
  <2> QED
    BY <2>1 DEF IsWith
<1>5. /\ name \in Maps(DOMAIN OnDisk) /\ DOMAIN name = DOMAIN b.typed.name \cup {level}
      /\ name[level] = file /\ \A k \in DOMAIN b.typed.name : name[k] = b.typed.name[k]
  <2>1. name \in Maps(DOMAIN OnDisk) /\ IsWith(name, b.typed.name, level, file)
    BY <1>2, InsertIs
  <2> HIDE DEF name
  <2> QED
    BY <2>1 DEF IsWith
<1>6. x = [typed |-> [name |-> name, stream |-> stream, maps |-> maps],
           streams |-> streams, refs |-> refs]
  <2>1. (IF b.typed.name = Empty /\ b.typed.stream = Empty THEN Global ELSE level) = level
    <3>1. b.typed.name = Empty => level = Global
      BY EmptyList
    <3> QED
      BY <3>1
  <2>2. IF known THEN refs = b.refs ELSE refs = Insert(b.refs, file, stream[level])
    BY <1>4
  <2> HIDE DEF stream, refs
  <2> QED
    BY <2>1, <2>2 DEF insertFile, HasStream, n, stream, refs
<1> HIDE DEF x, name, stream
<1>7. /\ \A t \in LevelTypes \cup GlobalTypes : maps[t] \in Maps(ValuesOf[t])
      /\ maps = [t \in LevelTypes \cup GlobalTypes |-> maps[t]]
      /\ \A t \in (LevelTypes \cup GlobalTypes) \ {"ToFile"} : maps[t] = b.typed.maps[t]
      /\ Global \in DOMAIN maps["ToFile"]
      /\ \A k : \/ Lookup(maps["ToFile"], k, FALSE) = Lookup(b.typed.maps["ToFile"], k, FALSE)
                \/ level \in {k, Global} /\ n = Null
  <2>1. CASE n # Null
    BY <1>2, <2>1
  <2>2. CASE n = Null
    <3> DEFINE m == b.typed.maps["ToFile"]
               off == setValue(m, level, FALSE)
    <3>1. "ToFile" \in LevelTypes \cup GlobalTypes /\ m \in Maps(BOOLEAN)
      BY <1>2, ValuesFacts DEF LevelTypes
    <3>2. maps = [t \in LevelTypes \cup GlobalTypes |-> IF t = "ToFile" THEN off ELSE b.typed.maps[t]]
      BY <1>2, <2>2
    <3>3. /\ off \in Maps(BOOLEAN) /\ Global \in DOMAIN off
          /\ \A k : k # level /\ level # Global => Lookup(off, k, FALSE) = Lookup(m, k, FALSE)
      BY <3>1, ToFileOff
    <3> HIDE DEF off, maps
    <3>4. maps["ToFile"] = off
      BY <3>1, <3>2
    <3> QED
      BY <1>2, <2>2, <3>2, <3>3, <3>4, ValuesFacts
  <2> QED
    BY <2>1, <2>2
<1> HIDE DEF maps
<1>8. NewStream(file) \in Streams /\ \A o \in Owners : NewStream(file).pending[o] = 0
  BY RegistryAssumption DEF NewStream, Streams
<1>9. /\ streams \in Seq(Streams) /\ Len(streams) \in Nat /\ DOMAIN streams = 1..Len(streams)
      /\ Len(b.streams) <= Len(streams)
      /\ \A i \in 1..Len(b.streams) : streams[i] = b.streams[i]
      /\ IF opened THEN Len(streams) = Len(b.streams) + 1 /\ streams[Len(b.streams) + 1] = NewStream(file)
         ELSE Len(streams) = Len(b.streams)
  <2>1. CASE opened
    <3>1. streams = Append(b.streams, NewStream(file))
      BY <2>1
    <3> HIDE DEF streams, opened
    <3> QED
      BY <1>1, <1>8, <2>1, <3>1
  <2>2. CASE ~opened
    BY <1>1, <2>2
  <2> QED
    BY <2>1, <2>2
<1>10. /\ refs \in Refs /\ DOMAIN refs = DOMAIN b.refs \cup {file} /\ refs[file] = n
       /\ \A f \in DOMAIN b.refs : refs[f] = b.refs[f]
  <2>1. CASE known
    BY <1>1, <2>1 DEF n
  <2>2. CASE ~known
    <3>1. refs = [f \in DOMAIN b.refs \cup {file} |-> IF f = file THEN n ELSE b.refs[f]]
      BY <2>2 DEF Insert, With
    <3>2. DOMAIN b.refs \cup {file} \subseteq DOMAIN OnDisk /\ refs \in [DOMAIN b.refs \cup {file} -> Nat]
      <4>1. DOMAIN b.refs \subseteq DOMAIN OnDisk /\ \A f \in DOMAIN b.refs : b.refs[f] \in Nat
        BY <1>1, StreamFacts
      <4> HIDE DEF refs, known
      <4> QED
        BY <1>3, <3>1, <4>1
    <3>3. refs \in Refs
      BY <3>2, StreamFacts
    <3> QED
      BY <2>2, <3>1, <3>3
  <2> QED
    BY <2>1, <2>2
<1>11. /\ \A i \in DOMAIN streams \ DOMAIN b.streams : opened /\ i = Len(b.streams) + 1
       /\ opened => Len(b.streams) + 1 \in DOMAIN streams
       /\ DOMAIN b.streams \subseteq DOMAIN streams
  <2> DEFINE M == Len(b.streams)
             N == Len(streams)
  <2>1. /\ M \in Nat /\ N \in Nat /\ DOMAIN b.streams = 1..M /\ DOMAIN streams = 1..N
        /\ N = IF opened THEN M + 1 ELSE M
    BY <1>1, <1>9
  <2> HIDE DEF M, N, opened, streams
  <2>2. /\ \A i \in 1..N : i \notin 1..M => opened /\ i = M + 1
        /\ opened => M + 1 \in 1..N
        /\ \A i \in 1..M : i \in 1..N
    BY <2>1
  <2> QED
    BY <2>1, <2>2 DEF M
<1> HIDE DEF streams, refs
<1> HIDE DEF opened, known
<1>12. FilesFit(streams, refs)
  <2>1. /\ \A f \in DOMAIN b.refs :
            b.refs[f] = Null \/ (b.refs[f] \in DOMAIN b.streams /\ b.streams[b.refs[f]].file = f)
        /\ \A i \in DOMAIN b.streams : b.streams[i].file \in DOMAIN b.refs /\ b.refs[b.streams[i].file] = i
    BY DEF FilesFit
  <2>2. NewStream(file).file = file
    BY DEF NewStream
  <2>3. ASSUME NEW f \in DOMAIN refs
        PROVE  refs[f] = Null \/ (refs[f] \in DOMAIN streams /\ streams[refs[f]].file = f)
    <3>1. CASE f \in DOMAIN b.refs
      <4>1. refs[f] = b.refs[f] /\ \A i \in DOMAIN b.streams : i \in DOMAIN streams /\ streams[i] = b.streams[i]
        BY <1>1, <1>9, <1>10, <1>11, <3>1
      <4> QED
        BY <2>1, <3>1, <4>1
    <3>2. CASE f \notin DOMAIN b.refs
      <4>1. f = file /\ ~known /\ refs[f] = n
        BY <1>10, <3>2 DEF known
      <4>2. n = IF opened THEN Len(b.streams) + 1 ELSE Null
        BY <4>1 DEF n
      <4> QED
        BY <1>9, <1>11, <2>2, <4>1, <4>2
    <3> QED
      BY <3>1, <3>2
  <2>4. ASSUME NEW i \in DOMAIN streams PROVE streams[i].file \in DOMAIN refs /\ refs[streams[i].file] = i
    <3>1. CASE i \in DOMAIN b.streams
      BY <1>1, <1>9, <1>10, <2>1, <3>1
    <3>2. CASE i \notin DOMAIN b.streams
      <4>1. opened /\ i = Len(b.streams) + 1
        BY <1>11, <3>2
      <4>2. n = i
        BY <4>1 DEF n, opened
      <4> QED
        BY <1>9, <1>10, <2>2, <4>1, <4>2
    <3> QED
      BY <3>1, <3>2
  <2> QED
    BY <1>9, <1>10, <2>3, <2>4 DEF FilesFit
<1>13. Opens(b.streams, b.refs, streams, refs)
  <2>1. \A i \in DOMAIN streams \ DOMAIN b.streams : streams[i] = NewStream(file)
    BY <1>9, <1>11
  <2> QED
    BY <1>1, <1>8, <1>9, <1>10, <2>1 DEF Opens
<1>14. [name |-> name, stream |-> stream, maps |-> maps] \in Typeds
  BY <1>4, <1>5, <1>7, TypedMake
<1>15. x \in Builds
  BY <1>6, <1>9, <1>10, <1>14 DEF Builds
<1>16. /\ x.typed.name = name /\ x.typed.stream = stream /\ x.typed.maps = maps
       /\ x.streams = streams /\ x.refs = refs
  BY <1>6
<1> QED
  BY <1>4, <1>5, <1>7, <1>10, <1>12, <1>13, <1>15, <1>16 DEF x, InsertsFile

\* What the second loop of build() has after i rounds.
Filled(b, c, i, streams, refs) ==
  /\ b \in Builds /\ FilesFit(b.streams, b.refs) /\ Opens(streams, refs, b.streams, b.refs)
  /\ DOMAIN b.typed.name = DOMAIN b.typed.stream
  /\ \A k \in DOMAIN b.typed.name :
       /\ \E j \in 1..i : c[j] = Entry(k, "Filename", b.typed.name[k])
       /\ b.typed.name[k] \in DOMAIN b.refs /\ b.typed.stream[k] = b.refs[b.typed.name[k]]
  /\ \A j \in 1..i : c[j].type = "Filename" =>
       c[j].level \in DOMAIN b.typed.name /\ b.typed.name[c[j].level] = c[j].value
  /\ \A t \in (LevelTypes \cup GlobalTypes) \ {"ToFile"} : b.typed.maps[t] = TypedMap(c, t)
  /\ Global \in DOMAIN b.typed.maps["ToFile"]
  /\ \A l : \/ Lookup(b.typed.maps["ToFile"], l, FALSE) = Lookup(TypedMap(c, "ToFile"), l, FALSE)
            \/ \E k \in {l, Global} \cap DOMAIN b.typed.stream : b.typed.stream[k] = Null

LEMMA InsertFilesFills ==
  ASSUME NEW c \in FullLists, NEW streams \in Seq(Streams), NEW refs \in Refs,
         FilesFit(streams, refs)
  PROVE  Filled(insertFiles(c, [typed |-> NewTyped(c), streams |-> streams, refs |-> refs]),
                c, Len(c), streams, refs)
<1> DEFINE N == Len(c)
           start == [typed |-> NewTyped(c), streams |-> streams, refs |-> refs]
           Y == [i \in 0..N |-> {b \in Builds : Filled(b, c, i, streams, refs)}]
<1>1. /\ c \in Lists /\ N \in Nat /\ DOMAIN c = 1..N
      /\ \A i \in 1..N : c[i] \in Entries /\ IsEntry(c[i].level, c[i].type, c[i].value)
                         /\ c[i] = Entry(c[i].level, c[i].type, c[i].value)
  BY ListFacts, EntryFacts DEF FullLists
<1>2. Filled(start, c, 0, streams, refs)
  <2> DEFINE maps == [t \in LevelTypes \cup GlobalTypes |-> TypedMap(c, t)]
  <2>1. \A t \in LevelTypes \cup GlobalTypes : maps[t] = TypedMap(c, t) /\ maps[t] \in Maps(ValuesOf[t])
    BY <1>1, TypedMapType DEF Types
  <2>2. Empty \in Maps(DOMAIN OnDisk) /\ Empty \in Maps(Nat) /\ DOMAIN Empty = {}
    BY MapFacts, EmptyList
  <2>3. NewTyped(c) = [name |-> Empty, stream |-> Empty, maps |-> maps]
    BY DEF NewTyped
  <2>4. NewTyped(c) \in Typeds
    <3>1. maps = [t \in LevelTypes \cup GlobalTypes |-> maps[t]]
      OBVIOUS
    <3> HIDE DEF maps
    <3> QED
      BY <2>1, <2>2, <2>3, <3>1, TypedMake
  <2>5. start \in Builds
    BY <2>4 DEF Builds
  <2>6. Opens(streams, refs, streams, refs)
    BY StreamFacts DEF Opens
  <2>7. "ToFile" \in LevelTypes /\ Global \in DOMAIN TypedMap(c, "ToFile")
    BY TypedMapCovers DEF LevelTypes, Covers
  <2> HIDE DEF maps
  <2>8. /\ start.streams = streams /\ start.refs = refs /\ start.typed.name = Empty
        /\ start.typed.stream = Empty /\ start.typed.maps = maps
    BY <2>3
  <2>9. maps["ToFile"] = TypedMap(c, "ToFile") /\ \A j \in 1..0 : FALSE
    BY <2>1, <2>7
  <2> HIDE DEF start
  <2>10. \A t \in (LevelTypes \cup GlobalTypes) \ {"ToFile"} : start.typed.maps[t] = TypedMap(c, t)
    BY <2>1, <2>8
  <2>11. /\ DOMAIN start.typed.name = {} /\ DOMAIN start.typed.stream = {}
         /\ start.typed.maps["ToFile"] = TypedMap(c, "ToFile")
         /\ FilesFit(start.streams, start.refs) /\ Opens(streams, refs, start.streams, start.refs)
    BY <2>2, <2>6, <2>8, <2>9
  <2> HIDE DEF maps
  <2> QED
    BY <2>5, <2>7, <2>9, <2>10, <2>11 DEF Filled
<1>3. ASSUME NEW i \in 1..N, NEW b \in Y[i - 1]
      PROVE  (IF c[i].type = "Filename" THEN insertFile(b, c[i].level, c[i].value) ELSE b) \in Y[i]
  <2> DEFINE x == insertFile(b, c[i].level, c[i].value)
             level == c[i].level
             file == c[i].value
  <2>1. i \in 0..N /\ i - 1 \in 0..N /\ i \in 1..i /\ \A j \in 1..i : j \in 1..(i - 1) \/ j = i
    BY <1>1
  <2>2. \A j \in 1..(i - 1) : j \in 1..i /\ j \in 1..N /\ j # i /\ ~(i <= j)
    BY <1>1
  <2>3. b \in Builds /\ Filled(b, c, i - 1, streams, refs)
    BY <2>1
  <2>4. CASE c[i].type # "Filename"
    <3>1. Filled(b, c, i, streams, refs)
      BY <2>1, <2>2, <2>3, <2>4 DEF Filled
    <3> QED
      BY <2>1, <2>3, <2>4, <3>1
  <2>5. CASE c[i].type = "Filename"
    <3>1. /\ c[i] = Entry(level, "Filename", file) /\ level \in LevelNames /\ file \in DOMAIN OnDisk
      BY <1>1, <2>5, ValuesFacts DEF IsEntry
    <3>2. level \notin DOMAIN b.typed.name
      <4> SUFFICES ASSUME level \in DOMAIN b.typed.name PROVE FALSE
        OBVIOUS
      <4>1. PICK j \in 1..(i - 1) : c[j] = Entry(level, "Filename", b.typed.name[level])
        BY <2>3 DEF Filled
      <4>2. c[j].level = c[i].level /\ c[j].type = c[i].type
        BY <2>5, <4>1 DEF Entry
      <4> QED
        BY <1>1, <2>2, <4>2 DEF Lists
    <3>3. DOMAIN b.typed.name = {} => level = Global
      <4> SUFFICES ASSUME DOMAIN b.typed.name = {} PROVE level = Global
        OBVIOUS
      <4>1. PICK j \in 1..N : /\ c[j].type = "Filename" /\ c[j].level = Global
                              /\ \A k \in 1..N : c[k].type = "Filename" => j <= k
        BY <1>1 DEF FullLists, Leads, Types
      <4>2. j <= i /\ j \in 1..i
        BY <2>5, <4>1
      <4>3. j \notin 1..(i - 1)
        BY <2>3, <4>1 DEF Filled
      <4> QED
        BY <2>1, <4>1, <4>2, <4>3
    <3> DEFINE old == b.typed
               new == x.typed
    <3>4. /\ FilesFit(b.streams, b.refs) /\ Opens(streams, refs, b.streams, b.refs)
          /\ DOMAIN old.name = DOMAIN old.stream /\ Global \in DOMAIN old.maps["ToFile"]
          /\ \A k \in DOMAIN old.name :
               /\ \E j \in 1..(i - 1) : c[j] = Entry(k, "Filename", old.name[k])
               /\ old.name[k] \in DOMAIN b.refs /\ old.stream[k] = b.refs[old.name[k]]
          /\ \A j \in 1..(i - 1) : c[j].type = "Filename" =>
               c[j].level \in DOMAIN old.name /\ old.name[c[j].level] = c[j].value
          /\ \A t \in (LevelTypes \cup GlobalTypes) \ {"ToFile"} : old.maps[t] = TypedMap(c, t)
          /\ \A l : \/ Lookup(old.maps["ToFile"], l, FALSE) = Lookup(TypedMap(c, "ToFile"), l, FALSE)
                    \/ \E k \in {l, Global} \cap DOMAIN old.stream : old.stream[k] = Null
      BY <2>3 DEF Filled
    <3>5. /\ x \in Builds
          /\ FilesFit(x.streams, x.refs) /\ Opens(b.streams, b.refs, x.streams, x.refs)
          /\ DOMAIN new.name = DOMAIN old.name \cup {level} /\ new.name[level] = file
          /\ \A k \in DOMAIN old.name : new.name[k] = old.name[k]
          /\ DOMAIN new.stream = DOMAIN old.stream \cup {level}
          /\ file \in DOMAIN x.refs /\ new.stream[level] = x.refs[file]
          /\ \A k \in DOMAIN old.stream : new.stream[k] = old.stream[k]
          /\ \A t \in (LevelTypes \cup GlobalTypes) \ {"ToFile"} : new.maps[t] = old.maps[t]
          /\ Global \in DOMAIN new.maps["ToFile"]
          /\ \A k : \/ Lookup(new.maps["ToFile"], k, FALSE) = Lookup(old.maps["ToFile"], k, FALSE)
                    \/ level \in {k, Global} /\ new.stream[level] = Null
      <4>1. InsertsFile(b, level, file, x)
        BY <2>3, <3>1, <3>2, <3>3, <3>4, InsertFileIs
      <4> HIDE DEF x
      <4> QED
        BY <4>1 DEF InsertsFile
    <3> HIDE DEF x
    <3>6. Opens(streams, refs, x.streams, x.refs)
      <4> DEFINE s == [typed |-> b.typed, streams |-> streams, refs |-> refs]
      <4>1. s \in Builds /\ s.streams = streams /\ s.refs = refs
        BY <2>3 DEF Builds
      <4> HIDE DEF s
      <4> QED
        BY <2>3, <3>4, <3>5, <4>1, OpensTwice
    <3>7. ASSUME NEW k \in DOMAIN new.name
          PROVE  /\ \E j \in 1..i : c[j] = Entry(k, "Filename", new.name[k])
                 /\ new.name[k] \in DOMAIN x.refs /\ new.stream[k] = x.refs[new.name[k]]
      <4>1. CASE k = level
        BY <2>1, <3>1, <3>5, <4>1
      <4>2. CASE k \in DOMAIN old.name
        <5>1. new.name[k] = old.name[k] /\ new.stream[k] = old.stream[k]
          BY <3>4, <3>5, <4>2
        <5>2. old.name[k] \in DOMAIN x.refs /\ x.refs[old.name[k]] = b.refs[old.name[k]]
          BY <3>4, <3>5, <4>2 DEF Opens
        <5>3. PICK j \in 1..(i - 1) : c[j] = Entry(k, "Filename", old.name[k])
          BY <3>4, <4>2
        <5> QED
          BY <2>2, <3>4, <4>2, <5>1, <5>2, <5>3
      <4> QED
        BY <3>5, <4>1, <4>2
    <3>8. ASSUME NEW j \in 1..i, c[j].type = "Filename"
          PROVE  c[j].level \in DOMAIN new.name /\ new.name[c[j].level] = c[j].value
      <4>1. CASE j = i
        BY <3>5, <4>1
      <4>2. CASE j \in 1..(i - 1)
        BY <3>4, <3>5, <3>8, <4>2
      <4> QED
        BY <2>1, <4>1, <4>2
    <3>9. ASSUME NEW l
          PROVE  \/ Lookup(new.maps["ToFile"], l, FALSE) = Lookup(TypedMap(c, "ToFile"), l, FALSE)
                 \/ \E k \in {l, Global} \cap DOMAIN new.stream : new.stream[k] = Null
      <4>1. \A k \in DOMAIN old.stream : k \in DOMAIN new.stream /\ new.stream[k] = old.stream[k]
        BY <3>5
      <4>2. level \in DOMAIN new.stream
        BY <3>5
      <4>3. CASE level \in {l, Global} /\ new.stream[level] = Null
        BY <4>2, <4>3
      <4>4. CASE Lookup(new.maps["ToFile"], l, FALSE) = Lookup(old.maps["ToFile"], l, FALSE)
        <5>1. CASE \E k \in {l, Global} \cap DOMAIN old.stream : old.stream[k] = Null
          BY <4>1, <5>1
        <5> QED
          BY <3>4, <4>4, <5>1
      <4> QED
        BY <3>5, <4>3, <4>4
    <3>10. Filled(x, c, i, streams, refs)
      BY <3>4, <3>5, <3>6, <3>7, <3>8, <3>9 DEF Filled
    <3> QED
      BY <2>1, <2>5, <3>5, <3>10 DEF x
  <2> QED
    BY <2>4, <2>5
<1>4. start \in Y[0]
  <2>1. start \in Builds
    BY <1>2 DEF Filled
  <2> QED
    BY <1>1, <1>2, <2>1
<1>5. insertFiles(c, start) \in Y[N]
  <2> HIDE DEF Y, start
  <2>1. \A i \in 1..Len(c) : \A d \in Y[i - 1] :
          (IF c[i].type = "Filename" THEN insertFile(d, c[i].level, c[i].value) ELSE d) \in Y[i]
    BY <1>3
  <2> QED
    BY <1>1, <1>4, <2>1, FilesLoop
<1>6. N \in 0..N
  BY <1>1
<1> HIDE DEF N, start
<1>7. Filled(insertFiles(c, start), c, N, streams, refs)
  BY <1>5, <1>6
<1> QED
  BY <1>7 DEF N, start

LEMMA FilledFits ==
  ASSUME NEW c \in FullLists, NEW streams, NEW refs, NEW b,
         Filled(b, c, Len(c), streams, refs)
  PROVE  TypedFits(b.typed, b.refs) /\ SaysTheSame(b.typed, c)
<1>1. c \in Lists /\ Len(c) \in Nat /\ DOMAIN c = 1..Len(c) /\ \A t \in Types : Leads(c, t)
  BY ListFacts DEF FullLists
<1>2. Global \in DOMAIN b.typed.name
  <2>1. PICK j \in 1..Len(c) : c[j].type = "Filename" /\ c[j].level = Global
    BY <1>1 DEF Leads, Types
  <2>2. c[j].level \in DOMAIN b.typed.name
    BY <2>1 DEF Filled
  <2> QED
    BY <2>1, <2>2
<1>3. TypedFits(b.typed, b.refs)
  BY <1>2 DEF TypedFits, Filled
<1>4. Covers(b.typed.name, c, "Filename")
  <2>1. \A k \in DOMAIN b.typed.name : Has(c, k, "Filename", b.typed.name[k])
    BY <1>1 DEF Filled, Has
  <2> QED
    BY <1>1, <1>2, <2>1 DEF Covers, Filled
<1>5. ASSUME NEW l \in Levels PROVE filename(b.typed, l) = Says(c, l, "Filename")
  BY <1>1, <1>4, CoversSays DEF filename
<1>6. ASSUME NEW l \in Levels, NEW t \in LevelTypes, t # "ToFile"
      PROVE  Lookup(b.typed.maps[t], l, FALSE) = Says(c, l, t)
  <2>1. b.typed.maps[t] = TypedMap(c, t)
    BY <1>6 DEF Filled
  <2> QED
    BY <1>1, <2>1, TypedMapCovers, CoversSays
<1>7. ASSUME NEW l \in Levels
      PROVE  \/ Lookup(b.typed.maps["ToFile"], l, FALSE) = Says(c, l, "ToFile")
             \/ Null \in {fileStream(b.typed, l), fileStream(b.typed, Global)}
  <2>1. Lookup(TypedMap(c, "ToFile"), l, FALSE) = Says(c, l, "ToFile")
    BY <1>1, TypedMapCovers, CoversSays DEF LevelTypes
  <2>2. ASSUME NEW k \in {l, Global} \cap DOMAIN b.typed.stream, b.typed.stream[k] = Null
        PROVE  Null \in {fileStream(b.typed, l), fileStream(b.typed, Global)}
    BY <2>2 DEF fileStream, Lookup
  <2> QED
    BY <2>1, <2>2 DEF Filled
<1>8. SaysTheSame(b.typed, c)
  BY <1>5, <1>6, <1>7 DEF SaysTheSame
<1> QED
  BY <1>3, <1>8

-----------------------------------------------------------------------------
(* Streams are flushed and rolled.                                         *)

\* The streams are the same, and nobody has more in them.
Worn(streams, less) ==
  /\ less \in Seq(Streams) /\ Len(less) = Len(streams)
  /\ \A n \in DOMAIN streams :
       /\ less[n].file = streams[n].file
       /\ \A o \in Owners : less[n].pending[o] <= streams[n].pending[o]

LEMMA WornFacts ==
  /\ \A streams \in Seq(Streams) : Worn(streams, streams)
  /\ \A r, s, t \in Seq(Streams) : Worn(r, s) /\ Worn(s, t) => Worn(r, t)
<1>1. ASSUME NEW streams \in Seq(Streams) PROVE Worn(streams, streams)
  <2>1. ASSUME NEW n \in DOMAIN streams, NEW o \in Owners PROVE streams[n].pending[o] \in Nat
    <3>1. streams[n] \in Streams
      OBVIOUS
    <3> QED
      BY <3>1 DEF Streams
  <2>2. \A n \in DOMAIN streams, o \in Owners : streams[n].pending[o] <= streams[n].pending[o]
    BY <2>1
  <2> QED
    BY <2>2 DEF Worn
<1>2. ASSUME NEW r \in Seq(Streams), NEW s \in Seq(Streams), NEW t \in Seq(Streams),
             Worn(r, s), Worn(s, t)
      PROVE  Worn(r, t)
  <2>1. DOMAIN r = DOMAIN s /\ DOMAIN s = DOMAIN t /\ Len(t) = Len(r)
    BY <1>2 DEF Worn
  <2>2. ASSUME NEW n \in DOMAIN r, NEW o \in Owners PROVE t[n].pending[o] <= r[n].pending[o]
    <3>1. r[n] \in Streams /\ s[n] \in Streams /\ t[n] \in Streams
      BY <2>1
    <3>2. r[n].pending[o] \in Nat /\ s[n].pending[o] \in Nat /\ t[n].pending[o] \in Nat
      BY <3>1 DEF Streams
    <3>3. s[n].pending[o] <= r[n].pending[o] /\ t[n].pending[o] <= s[n].pending[o]
      BY <1>2, <2>1 DEF Worn
    <3> QED
      BY <3>2, <3>3
  <2> QED
    BY <1>2, <2>1, <2>2 DEF Worn
<1> QED
  BY <1>1, <1>2

LEMMA WornFits ==
  ASSUME NEW streams, NEW refs, FilesFit(streams, refs), NEW less, Worn(streams, less)
  PROVE  FilesFit(less, refs)
<1>1. streams \in Seq(Streams) /\ less \in Seq(Streams) /\ Len(less) = Len(streams)
  BY DEF FilesFit, Worn
<1>2. DOMAIN less = DOMAIN streams
  BY <1>1
<1> QED
  BY <1>1, <1>2 DEF FilesFit, Worn

LEMMA OwnersFinite == IsFiniteSet(Owners) /\ Left \in Owners /\ Ids \subseteq Owners
  BY RegistryAssumption, FS_AddElement DEF Owners

\* A stream that is flushed, and one that is rolled, has nothing that waits.
LEMMA FlushStreamIs ==
  ASSUME NEW f \in Streams
  PROVE  /\ FlushStream(f) \in Streams /\ FlushStream(f).file = f.file
         /\ \A o \in Owners : FlushStream(f).pending[o] = 0
         /\ Truncated(f) \in Streams /\ Truncated(f).file = f.file
         /\ \A o \in Owners : Truncated(f).pending[o] = 0
<1>1. f.pending \in [Owners -> Nat] /\ f.size \in Nat
  BY DEF Streams
<1>2. Pending(f) = SumFunctionOnSet(f.pending, Owners)
  BY <1>1 DEF Pending, SumFunction
<1>3. \A o \in Owners : f.pending[o] \in Nat
  BY <1>1
<1>4. Pending(f) \in Nat /\ \A o \in Owners : f.pending[o] <= Pending(f)
  <2>1. SumFunctionOnSet(f.pending, Owners) \in Nat
    BY <1>3, OwnersFinite, SumIsNat
  <2>2. \A o \in Owners : f.pending[o] <= SumFunctionOnSet(f.pending, Owners)
    BY <1>3, OwnersFinite, SumBounds
  <2> QED
    BY <1>2, <2>1, <2>2
<1>5. CASE Pending(f) = 0
  <2>1. FlushStream(f) = f
    BY <1>5 DEF FlushStream
  <2>2. \A o \in Owners : f.pending[o] = 0
    BY <1>3, <1>4, <1>5
  <2> QED
    BY <1>1, <2>1, <2>2 DEF Truncated, Streams
<1>6. CASE Pending(f) # 0
  <2> DEFINE g == FlushStream(f)
  <2>1. g = [f EXCEPT !.size = f.size + Pending(f), !.pending = [o \in Owners |-> 0]]
    BY <1>6 DEF FlushStream
  <2>2. f.size + Pending(f) \in Nat
    BY <1>1, <1>4
  <2> HIDE DEF g
  <2>3. g \in Streams /\ g.file = f.file /\ g.pending = [o \in Owners |-> 0]
    BY <2>1, <2>2 DEF Streams
  <2> QED
    BY <2>3 DEF g, Truncated, Streams
<1> QED
  BY <1>5, <1>6

\* Any streams may be replaced by themselves with nothing that waits.
LEMMA EmptiedWears ==
  ASSUME NEW streams \in Seq(Streams), NEW n, NEW g,
         n \in DOMAIN streams => /\ g \in Streams /\ g.file = streams[n].file
                                 /\ \A o \in Owners : g.pending[o] = 0
  PROVE  Worn(streams, [streams EXCEPT ![n] = g])
<1> DEFINE less == [streams EXCEPT ![n] = g]
<1>1. /\ Len(streams) \in Nat /\ DOMAIN streams = 1..Len(streams)
      /\ \A m \in DOMAIN streams : streams[m] \in Streams
  BY StreamFacts
<1>2. /\ DOMAIN less = DOMAIN streams /\ less \in Seq(Streams) /\ Len(less) = Len(streams)
      /\ \A m \in DOMAIN streams : less[m] = IF m = n THEN g ELSE streams[m]
  <2>1. \A m \in DOMAIN streams : less[m] = IF m = n THEN g ELSE streams[m]
    OBVIOUS
  <2>2. less \in [1..Len(streams) -> Streams]
    BY <1>1
  <2>3. less \in Seq(Streams) /\ Len(less) = Len(streams)
    BY <1>1, <2>2
  <2> QED
    BY <2>1, <2>3
<1> HIDE DEF less
<1>3. ASSUME NEW m \in DOMAIN streams
      PROVE  less[m].file = streams[m].file /\ \A o \in Owners : less[m].pending[o] <= streams[m].pending[o]
  <2>1. \A o \in Owners : streams[m].pending[o] \in Nat
    BY <1>1 DEF Streams
  <2> QED
    BY <1>2, <2>1
<1> QED
  BY <1>2, <1>3 DEF Worn, less

LEMMA RollingWears ==
  ASSUME NEW streams \in Seq(Streams), NEW typed, NEW l
  PROVE  Worn(streams, validateFileRolling(streams, typed, l))
<1> DEFINE n == fileStream(typed, l)
           rolled == [streams EXCEPT ![n] = Truncated(streams[n])]
<1>1. Worn(streams, rolled)
  <2>1. n \in DOMAIN streams => streams[n] \in Streams
    BY StreamFacts
  <2> HIDE DEF n
  <2> QED
    BY <2>1, FlushStreamIs, EmptiedWears
<1>2. Worn(streams, streams)
  BY WornFacts
<1>3. validateFileRolling(streams, typed, l) \in {streams, rolled}
  BY DEF validateFileRolling
<1> QED
  BY <1>1, <1>2, <1>3

LEMMA LimitsWear ==
  ASSUME NEW c \in Lists, NEW typed, NEW streams \in Seq(Streams)
  PROVE  Worn(streams, validateLimits(c, typed, streams))
<1> DEFINE X == {s \in Seq(Streams) : Worn(streams, s)}
<1>1. streams \in X /\ Len(c) \in Nat
  BY WornFacts, ListFacts
<1>2. ASSUME NEW s \in X, NEW l PROVE validateFileRolling(s, typed, l) \in X
  <2>1. Worn(s, validateFileRolling(s, typed, l))
    BY RollingWears
  <2>2. validateFileRolling(s, typed, l) \in Seq(Streams)
    BY <2>1 DEF Worn
  <2> QED
    BY <2>1, <2>2, WornFacts
<1>3. validateLimits(c, typed, streams) \in X
  <2> HIDE DEF X
  <2> QED
    BY <1>1, <1>2, LimitsLoop
<1> QED
  BY <1>3

-----------------------------------------------------------------------------
(* Registries.                                                             *)

LEMMA RegistryFacts ==
  /\ \A r \in RegistryType :
       /\ r.streams \in Seq(Streams) /\ r.refs \in Refs /\ DOMAIN r.loggers \subseteq Ids
       /\ r.loggers = [id \in DOMAIN r.loggers |-> r.loggers[id]]
       /\ \A id \in DOMAIN r.loggers : r.loggers[id] \in Loggers
  /\ \A I, loggers, streams, refs :
       /\ I \subseteq Ids /\ loggers \in [I -> Loggers]
       /\ streams \in Seq(Streams) /\ refs \in Refs
       => [loggers |-> loggers, streams |-> streams, refs |-> refs] \in RegistryType
<1>1. ASSUME NEW r \in RegistryType
      PROVE  /\ r.streams \in Seq(Streams) /\ r.refs \in Refs /\ DOMAIN r.loggers \subseteq Ids
             /\ r.loggers = [id \in DOMAIN r.loggers |-> r.loggers[id]]
             /\ \A id \in DOMAIN r.loggers : r.loggers[id] \in Loggers
  <2>1. /\ r.streams \in Seq(Streams) /\ r.refs \in Refs
        /\ \E I \in SUBSET Ids : r.loggers \in [I -> Loggers]
    BY DEF RegistryType
  <2> QED
    BY <2>1
<1>2. ASSUME NEW I, NEW loggers, NEW streams, NEW refs, I \subseteq Ids, loggers \in [I -> Loggers],
             streams \in Seq(Streams), refs \in Refs
      PROVE  [loggers |-> loggers, streams |-> streams, refs |-> refs] \in RegistryType
  BY <1>2 DEF RegistryType
<1> QED
  BY <1>1, <1>2

LEMMA LoggerFacts ==
  ASSUME NEW logger \in Loggers
  PROVE  /\ logger.confs \in FullLists /\ logger.confs \in Lists
         /\ logger.typed \in Typeds /\ logger.typed # Empty
         /\ hasConfiguration(logger.confs, Global, "Filename")
         /\ \A l \in Levels : logger.unflushed[l] \in Nat /\ Threshold(logger.typed, l) \in Nat
<1>1. logger.confs \in FullLists /\ logger.typed \in Typeds /\ logger.unflushed \in [Levels -> Nat]
  BY DEF Loggers
<1>2. logger.confs \in Lists /\ Leads(logger.confs, "Filename")
  BY <1>1 DEF FullLists, Types
<1>3. hasConfiguration(logger.confs, Global, "Filename")
  BY <1>2 DEF Leads, hasConfiguration, At
<1>4. logger.typed # Empty
  <2>1. "name" \in DOMAIN logger.typed
    BY <1>1 DEF Typeds
  <2> QED
    BY <2>1, EmptyList
<1>5. ASSUME NEW l \in Levels PROVE Threshold(logger.typed, l) \in Nat
  <2>1. logger.typed.maps["LogFlushThreshold"] \in Maps(Nat)
    BY <1>1, TypedFacts, ValuesFacts DEF LevelTypes
  <2> QED
    BY <2>1, LookupFacts DEF Threshold
<1> QED
  BY <1>1, <1>2, <1>3, <1>4, <1>5

\* The levels are finitely many, and their sums are numbers.
LEMMA LevelSums ==
  ASSUME NEW S \in SUBSET Levels
  PROVE  IsFiniteSet(S)
<1>1. IsFiniteSet(1..Len(LevelOrder)) /\ Len(LevelOrder) \in Nat
  BY LevelFacts, FS_Interval
<1>2. [i \in 1..Len(LevelOrder) |-> LevelOrder[i]] \in Surjection(1..Len(LevelOrder), Levels)
  BY LevelFacts DEF Surjection
<1>3. IsFiniteSet(Levels)
  BY <1>1, <1>2, FS_Surjection
<1> QED
  BY <1>3, FS_Subset

\* The stream of a level is one that is open, of the file that the logger has for it.
LEMMA StreamIsOpen ==
  ASSUME NEW typed \in Typeds, NEW refs \in Refs, NEW streams, TypedFits(typed, refs),
         FilesFit(streams, refs), NEW l
  PROVE  /\ filename(typed, l) \in DOMAIN refs
         /\ fileStream(typed, l) = refs[filename(typed, l)]
         /\ fileStream(typed, l) # Null =>
              /\ fileStream(typed, l) \in DOMAIN streams
              /\ streams[fileStream(typed, l)].file = filename(typed, l)
<1>1. /\ DOMAIN typed.name = DOMAIN typed.stream /\ Global \in DOMAIN typed.name
      /\ \A k \in DOMAIN typed.name :
           typed.name[k] \in DOMAIN refs /\ typed.stream[k] = refs[typed.name[k]]
  BY DEF TypedFits
<1>2. PICK k \in DOMAIN typed.name :
        filename(typed, l) = typed.name[k] /\ fileStream(typed, l) = typed.stream[k]
  BY <1>1 DEF filename, fileStream, Lookup
<1> QED
  BY <1>1, <1>2 DEF FilesFit

\* s is r after flushes: streams of r are worn, and only counts of id are other.
Flushes(r, s, id) ==
  /\ s \in RegistryType /\ s.refs = r.refs /\ Worn(r.streams, s.streams)
  /\ DOMAIN s.loggers = DOMAIN r.loggers
  /\ \A i \in DOMAIN r.loggers \ {id} : s.loggers[i] = r.loggers[i]
  /\ s.loggers[id].typed = r.loggers[id].typed /\ s.loggers[id].confs = r.loggers[id].confs

\* What id has written to stream n is flushed.
Clean(s, n, id) == s.streams[n].pending[id] = 0

LEMMA FlushesTwice ==
  ASSUME NEW r \in RegistryType, NEW s, NEW t, NEW id, Flushes(r, s, id), Flushes(s, t, id)
  PROVE  /\ Flushes(r, t, id)
         /\ \A n \in DOMAIN r.streams : id \in Owners /\ Clean(s, n, id) => Clean(t, n, id)
<1>1. /\ r.streams \in Seq(Streams) /\ s.streams \in Seq(Streams) /\ t.streams \in Seq(Streams)
      /\ Worn(r.streams, s.streams) /\ Worn(s.streams, t.streams)
  BY RegistryFacts DEF Flushes
<1>2. Worn(r.streams, t.streams)
  BY <1>1, WornFacts
<1>3. Flushes(r, t, id)
  BY <1>2 DEF Flushes
<1>4. ASSUME NEW n \in DOMAIN r.streams, id \in Owners, Clean(s, n, id) PROVE Clean(t, n, id)
  <2>1. n \in DOMAIN s.streams /\ n \in DOMAIN t.streams
    BY <1>1 DEF Worn
  <2>2. t.streams[n] \in Streams
    BY <1>1, <2>1
  <2>3. t.streams[n].pending[id] \in Nat /\ t.streams[n].pending[id] <= 0
    BY <1>1, <1>4, <2>1, <2>2 DEF Worn, Clean, Streams
  <2> QED
    BY <2>3 DEF Clean
<1> QED
  BY <1>3, <1>4

LEMMA FlushToIs ==
  ASSUME NEW r \in RegistryType, NEW id \in DOMAIN r.loggers, NEW l \in Levels,
         NEW n \in DOMAIN r.streams, n # Null
  PROVE  /\ Flushes(r, FlushTo(r, id, l, n), id) /\ Clean(FlushTo(r, id, l, n), n, id)
         /\ FlushTo(r, id, l, n).loggers[id].unflushed = [r.loggers[id].unflushed EXCEPT ![l] = 0]
<1> DEFINE typed == r.loggers[id].typed
           flushed == [r.streams EXCEPT ![n] = FlushStream(r.streams[n])]
           rolled == validateFileRolling(flushed, typed, l)
           logger == [r.loggers[id] EXCEPT !.unflushed = [r.loggers[id].unflushed EXCEPT ![l] = 0]]
           loggers == [r.loggers EXCEPT ![id] = logger]
           s == FlushTo(r, id, l, n)
<1>1. /\ r.streams \in Seq(Streams) /\ r.refs \in Refs /\ DOMAIN r.loggers \subseteq Ids
      /\ r.loggers = [i \in DOMAIN r.loggers |-> r.loggers[i]]
      /\ \A i \in DOMAIN r.loggers : r.loggers[i] \in Loggers
  BY RegistryFacts
<1>2. s = [r EXCEPT !.streams = rolled, !.loggers[id].unflushed[l] = 0]
  BY DEF FlushTo
<1>3. s = [loggers |-> loggers, streams |-> rolled, refs |-> r.refs]
  <2> HIDE DEF rolled
  <2>1. s.loggers = loggers
    BY <1>2 DEF RegistryType
  <2>2. s = [loggers |-> s.loggers, streams |-> rolled, refs |-> r.refs]
    <3> HIDE DEF loggers
    <3> QED
      BY <1>2 DEF RegistryType
  <2> QED
    BY <2>1, <2>2
<1>4. r.streams[n] \in Streams /\ id \in Owners
  BY <1>1, StreamFacts, OwnersFinite
<1>5. Worn(r.streams, flushed) /\ \A o \in Owners : flushed[n].pending[o] = 0
  BY <1>1, <1>4, FlushStreamIs, EmptiedWears
<1>6. flushed \in Seq(Streams)
  BY <1>5 DEF Worn
<1> HIDE DEF flushed
<1>7. Worn(flushed, rolled)
  BY <1>6, RollingWears
<1> HIDE DEF rolled
<1>8. rolled \in Seq(Streams) /\ Worn(r.streams, rolled)
  <2>1. rolled \in Seq(Streams)
    BY <1>7 DEF Worn
  <2> QED
    BY <1>1, <1>5, <1>6, <1>7, <2>1, WornFacts
<1>9. rolled[n].pending[id] = 0
  <2>1. n \in DOMAIN rolled /\ n \in DOMAIN flushed
    BY <1>1, <1>5, <1>6, <1>8 DEF Worn
  <2>2. rolled[n] \in Streams
    BY <1>8, <2>1
  <2>3. rolled[n].pending[id] \in Nat /\ rolled[n].pending[id] <= 0
    BY <1>4, <1>5, <1>7, <2>1, <2>2 DEF Worn, Streams
  <2> QED
    BY <2>3
<1>10. /\ logger \in Loggers /\ logger.typed = typed /\ logger.confs = r.loggers[id].confs
       /\ logger.unflushed = [r.loggers[id].unflushed EXCEPT ![l] = 0]
  BY <1>1 DEF Loggers
<1> HIDE DEF logger
<1>11. /\ loggers \in [DOMAIN r.loggers -> Loggers] /\ loggers[id] = logger
       /\ DOMAIN loggers = DOMAIN r.loggers
       /\ \A i \in DOMAIN r.loggers \ {id} : loggers[i] = r.loggers[i]
  BY <1>1, <1>10
<1> HIDE DEF loggers, s
<1>12. s \in RegistryType
  BY <1>1, <1>3, <1>8, <1>11, RegistryFacts
<1>13. s.loggers = loggers /\ s.streams = rolled /\ s.refs = r.refs
  BY <1>3
<1>14. Flushes(r, s, id)
  BY <1>8, <1>10, <1>11, <1>12, <1>13 DEF Flushes
<1>15. Clean(s, n, id) /\ s.loggers[id].unflushed = [r.loggers[id].unflushed EXCEPT ![l] = 0]
  BY <1>9, <1>10, <1>11, <1>13 DEF Clean
<1> QED
  BY <1>14, <1>15 DEF s


-----------------------------------------------------------------------------
(* A logger is flushed.                                                    *)

\* s is r with nothing of id waiting in streams, or counted.
FlushesAll(r, s, id) ==
  /\ Flushes(r, s, id) /\ s.loggers[id].unflushed = NoLines
  /\ \A n \in DOMAIN r.streams : Clean(s, n, id)

LEMMA FlushesNot ==
  ASSUME NEW r \in RegistryType, NEW id \in DOMAIN r.loggers
  PROVE  Flushes(r, r, id)
<1>1. r.streams \in Seq(Streams)
  BY RegistryFacts
<1>2. Worn(r.streams, r.streams)
  BY <1>1, WornFacts
<1> QED
  BY <1>2 DEF Flushes

\* A registry in which the list of id need not say what id looks up.
FitsBut(r, id) ==
  /\ r \in RegistryType /\ FilesFit(r.streams, r.refs) /\ id \in DOMAIN r.loggers
  /\ TypedFits(r.loggers[id].typed, r.refs) /\ CountsFit(r.loggers[id], id, r.streams)
  /\ \A i \in DOMAIN r.loggers \ {id} : LoggerFits(r.loggers[i], i, r.streams, r.refs)
  /\ \A i \in Ids \ DOMAIN r.loggers, n \in DOMAIN r.streams : r.streams[n].pending[i] = 0

LEMMA RegistriesFacts ==
  ASSUME NEW r \in Registries
  PROVE  /\ r \in RegistryType /\ FilesFit(r.streams, r.refs)
         /\ \A id \in DOMAIN r.loggers : LoggerFits(r.loggers[id], id, r.streams, r.refs)
         /\ \A id \in DOMAIN r.loggers : id \in Ids /\ FitsBut(r, id)
         /\ \A id \in Ids \ DOMAIN r.loggers, n \in DOMAIN r.streams : r.streams[n].pending[id] = 0
<1>1. /\ r \in RegistryType /\ FilesFit(r.streams, r.refs)
      /\ \A id \in DOMAIN r.loggers : LoggerFits(r.loggers[id], id, r.streams, r.refs)
      /\ \A id \in Ids \ DOMAIN r.loggers, n \in DOMAIN r.streams : r.streams[n].pending[id] = 0
  BY DEF Registries
<1>2. DOMAIN r.loggers \subseteq Ids
  BY <1>1, RegistryFacts
<1>3. \A id \in DOMAIN r.loggers : FitsBut(r, id)
  BY <1>1 DEF FitsBut, LoggerFits
<1> QED
  BY <1>1, <1>2, <1>3

LEMMA FitsButFacts ==
  ASSUME NEW r, NEW id, FitsBut(r, id)
  PROVE  /\ r \in RegistryType /\ id \in DOMAIN r.loggers /\ id \in Ids /\ id \in Owners
         /\ r.loggers[id] \in Loggers /\ r.streams \in Seq(Streams) /\ r.refs \in Refs
         /\ r.loggers[id].typed \in Typeds /\ TypedFits(r.loggers[id].typed, r.refs)
         /\ FilesFit(r.streams, r.refs) /\ CountsFit(r.loggers[id], id, r.streams)
<1>1. /\ r \in RegistryType /\ id \in DOMAIN r.loggers /\ TypedFits(r.loggers[id].typed, r.refs)
      /\ FilesFit(r.streams, r.refs) /\ CountsFit(r.loggers[id], id, r.streams)
  BY DEF FitsBut
<1>2. r.loggers[id] \in Loggers /\ r.streams \in Seq(Streams) /\ r.refs \in Refs /\ id \in Ids
  BY <1>1, RegistryFacts
<1> QED
  BY <1>1, <1>2, LoggerFacts, OwnersFinite

LEMMA CountsBegin ==
  ASSUME NEW r \in RegistryType, NEW id \in DOMAIN r.loggers
  PROVE  /\ Flushes(r, CountsFlushed(r, id), id)
         /\ CountsFlushed(r, id).loggers[id].unflushed = NoLines
<1> DEFINE logger == [r.loggers[id] EXCEPT !.unflushed = NoLines]
           loggers == [r.loggers EXCEPT ![id] = logger]
           s == CountsFlushed(r, id)
<1>1. /\ r.streams \in Seq(Streams) /\ r.refs \in Refs /\ DOMAIN r.loggers \subseteq Ids
      /\ r.loggers = [i \in DOMAIN r.loggers |-> r.loggers[i]]
      /\ \A i \in DOMAIN r.loggers : r.loggers[i] \in Loggers
  BY RegistryFacts
<1>2. s = [loggers |-> loggers, streams |-> r.streams, refs |-> r.refs]
  <2>1. s = [r EXCEPT !.loggers[id].unflushed = NoLines]
    BY DEF CountsFlushed
  <2>2. s.loggers = loggers
    BY <2>1 DEF RegistryType
  <2>3. s = [loggers |-> s.loggers, streams |-> r.streams, refs |-> r.refs]
    <3> HIDE DEF loggers
    <3> QED
      BY <2>1 DEF RegistryType
  <2> QED
    BY <2>2, <2>3
<1>3. NoLines \in [Levels -> Nat]
  BY DEF NoLines
<1>4. /\ logger \in Loggers /\ logger.typed = r.loggers[id].typed
      /\ logger.confs = r.loggers[id].confs /\ logger.unflushed = NoLines
  BY <1>1, <1>3 DEF Loggers
<1> HIDE DEF logger
<1>5. /\ loggers \in [DOMAIN r.loggers -> Loggers] /\ loggers[id] = logger
      /\ DOMAIN loggers = DOMAIN r.loggers
      /\ \A i \in DOMAIN r.loggers \ {id} : loggers[i] = r.loggers[i]
  BY <1>1, <1>4
<1> HIDE DEF loggers, s
<1>6. s \in RegistryType
  BY <1>1, <1>2, <1>5, RegistryFacts
<1>7. Worn(r.streams, s.streams)
  BY <1>1, <1>2, WornFacts
<1>8. s.loggers = loggers /\ s.refs = r.refs
  BY <1>2
<1>9. Flushes(r, s, id)
  BY <1>4, <1>5, <1>6, <1>7, <1>8 DEF Flushes
<1> QED
  BY <1>4, <1>5, <1>8, <1>9 DEF s

\* After flushes the levels of a logger have the streams that they had.
LEMMA FlushLevelIs ==
  ASSUME NEW r, NEW id, FitsBut(r, id), NEW s, Flushes(r, s, id),
         s.loggers[id].unflushed = NoLines, NEW l \in Levels
  PROVE  /\ Flushes(s, FlushLevel(s, id, l), id)
         /\ FlushLevel(s, id, l).loggers[id].unflushed = NoLines
         /\ toFile(r.loggers[id].typed, l) /\ fileStream(r.loggers[id].typed, l) # Null =>
              Clean(FlushLevel(s, id, l), fileStream(r.loggers[id].typed, l), id)
<1> DEFINE typed == r.loggers[id].typed
           n == fileStream(typed, l)
<1>1. /\ s \in RegistryType /\ id \in DOMAIN s.loggers /\ s.loggers[id].typed = typed
      /\ s.refs = r.refs /\ Worn(r.streams, s.streams)
  BY FitsButFacts DEF Flushes
<1>2. CASE ~toFile(typed, l) \/ n = Null
  <2>1. FlushLevel(s, id, l) = s
    BY <1>1, <1>2 DEF FlushLevel, FlushTo
  <2> QED
    BY <1>1, <1>2, <2>1, FlushesNot
<1>3. CASE toFile(typed, l) /\ n # Null
  <2>1. FlushLevel(s, id, l) = FlushTo(s, id, l, n)
    BY <1>1, <1>3 DEF FlushLevel
  <2>2. typed \in Typeds /\ r.refs \in Refs /\ TypedFits(typed, r.refs) /\ FilesFit(s.streams, r.refs)
    <3>1. FilesFit(r.streams, r.refs)
      BY FitsButFacts
    <3> QED
      BY <1>1, <3>1, FitsButFacts, WornFits
  <2>3. n \in DOMAIN s.streams
    BY <1>3, <2>2, StreamIsOpen
  <2> HIDE DEF n
  <2>4. /\ Flushes(s, FlushTo(s, id, l, n), id) /\ Clean(FlushTo(s, id, l, n), n, id)
        /\ FlushTo(s, id, l, n).loggers[id].unflushed = [s.loggers[id].unflushed EXCEPT ![l] = 0]
    BY <1>1, <1>3, <2>3, FlushToIs
  <2>5. [NoLines EXCEPT ![l] = 0] = NoLines
    BY DEF NoLines
  <2> QED
    BY <2>1, <2>4, <2>5 DEF n
<1> QED
  BY <1>2, <1>3

\* Every level that counts lines goes to a file whose stream is flushed.
LEMMA FlushedIs ==
  ASSUME NEW r, NEW id, FitsBut(r, id)
  PROVE  FlushesAll(r, Flushed(r, id), id)
<1> DEFINE typed == r.loggers[id].typed
           N == Len(LevelOrder)
           s == CountsFlushed(r, id)
           Cleaned(t, l) == toFile(typed, l) /\ fileStream(typed, l) # Null =>
                              Clean(t, fileStream(typed, l), id)
           X == [i \in 0..N |-> {t \in RegistryType : /\ Flushes(r, t, id)
                                                      /\ t.loggers[id].unflushed = NoLines
                                                      /\ \A k \in 1..i : Cleaned(t, LevelOrder[k])}]
           t == Flushed(r, id)
<1>1. /\ r \in RegistryType /\ id \in Owners /\ r.loggers[id] \in Loggers
      /\ FilesFit(r.streams, r.refs) /\ TypedFits(typed, r.refs)
      /\ CountsFit(r.loggers[id], id, r.streams)
      /\ r.streams \in Seq(Streams) /\ r.refs \in Refs /\ typed \in Typeds
      /\ id \in DOMAIN r.loggers
  BY FitsButFacts
<1>2. Flushes(r, s, id) /\ s.loggers[id].unflushed = NoLines
  BY <1>1, CountsBegin
<1>3. t = flush(s, id)
  <2>1. s.loggers[id].typed # Empty /\ hasConfiguration(s.loggers[id].confs, Global, "Filename")
    BY <1>1, <1>2, LoggerFacts DEF Flushes
  <2> QED
    BY <2>1 DEF Flushed
<1> HIDE DEF s, t
<1>4. N \in Nat /\ \A i \in 1..N : LevelOrder[i] \in Levels
  BY LevelFacts
<1>5. s \in X[0]
  BY <1>2, <1>4 DEF Flushes
<1>6. ASSUME NEW i \in 1..N, NEW d \in X[i - 1] PROVE FlushLevel(d, id, LevelOrder[i]) \in X[i]
  <2> DEFINE l == LevelOrder[i]
             e == FlushLevel(d, id, l)
  <2>1. i - 1 \in 0..N /\ i \in 0..N /\ l \in Levels
    BY <1>4
  <2>2. /\ d \in RegistryType /\ Flushes(r, d, id) /\ d.loggers[id].unflushed = NoLines
        /\ \A k \in 1..(i - 1) : Cleaned(d, LevelOrder[k])
    BY <2>1
  <2> HIDE DEF l
  <2>3. Flushes(d, e, id) /\ e.loggers[id].unflushed = NoLines /\ Cleaned(e, l)
    BY <2>1, <2>2, FlushLevelIs
  <2> HIDE DEF e
  <2>4. /\ Flushes(r, e, id)
        /\ \A n \in DOMAIN r.streams : Clean(d, n, id) => Clean(e, n, id)
    BY <1>1, <2>2, <2>3, FlushesTwice
  <2>5. ASSUME NEW k \in 1..i PROVE Cleaned(e, LevelOrder[k])
    <3>1. CASE k = i
      BY <2>3, <3>1 DEF l
    <3>2. CASE k # i
      <4>1. k \in 1..(i - 1)
        BY <3>2
      <4>2. Cleaned(d, LevelOrder[k])
        BY <2>2, <4>1
      <4>3. fileStream(typed, LevelOrder[k]) # Null => fileStream(typed, LevelOrder[k]) \in DOMAIN r.streams
        BY <1>1, StreamIsOpen
      <4> QED
        BY <2>4, <4>2, <4>3
    <3> QED
      BY <3>1, <3>2
  <2>6. e \in RegistryType
    BY <2>4 DEF Flushes
  <2>7. e \in X[i]
    <3> HIDE DEF Cleaned
    <3> QED
      BY <2>1, <2>3, <2>4, <2>5, <2>6
  <2> QED
    BY <2>7 DEF e, l
<1>7. t \in X[N]
  <2> HIDE DEF X
  <2>1. \A i \in 1..N : \A d \in X[i - 1] : FlushLevel(d, id, LevelOrder[i]) \in X[i]
    BY <1>6
  <2>2. flush(s, id) \in X[N]
    BY <1>4, <1>5, <2>1, FlushLoop
  <2> QED
    BY <1>3, <2>2
<1>8. /\ Flushes(r, t, id) /\ t.loggers[id].unflushed = NoLines
      /\ \A k \in 1..N : Cleaned(t, LevelOrder[k])
  BY <1>4, <1>7
<1>9. ASSUME NEW n \in DOMAIN r.streams PROVE Clean(t, n, id)
  <2>1. n # Null
    BY <1>1, StreamFacts DEF Null
  <2>2. CASE \E l \in Levels : fileStream(typed, l) = n /\ toFile(typed, l)
    <3>1. PICK l \in Levels : fileStream(typed, l) = n /\ toFile(typed, l)
      BY <2>2
    <3>2. PICK k \in 1..N : LevelOrder[k] = l
      BY LevelFacts
    <3> QED
      BY <1>8, <2>1, <3>1, <3>2
  <2>3. CASE ~ \E l \in Levels : fileStream(typed, l) = n /\ toFile(typed, l)
    <3> DEFINE S == {l \in Levels : fileStream(typed, l) = n}
               counts == r.loggers[id].unflushed
    <3>1. r.streams[n].pending[id] <= SumFunctionOnSet(counts, S)
      BY <1>1 DEF CountsFit
    <3>2. \A l \in S : counts[l] = 0
      BY <1>1, <2>3 DEF CountsFit
    <3>3. IsFiniteSet(S)
      BY LevelSums
    <3> HIDE DEF S, counts
    <3>4. SumFunctionOnSet(counts, S) = 0
      BY <3>2, <3>3, SumOfZeros
    <3>5. /\ t.streams \in Seq(Streams) /\ n \in DOMAIN t.streams
          /\ t.streams[n].pending[id] <= r.streams[n].pending[id]
      BY <1>1, <1>8 DEF Flushes, Worn
    <3>6. t.streams[n] \in Streams /\ r.streams[n] \in Streams
      BY <1>1, <3>5
    <3>7. t.streams[n].pending[id] \in Nat /\ r.streams[n].pending[id] \in Nat
      BY <1>1, <3>6 DEF Streams
    <3> QED
      BY <3>1, <3>4, <3>5, <3>7 DEF Clean
  <2> QED
    BY <2>2, <2>3
<1> QED
  BY <1>8, <1>9 DEF FlushesAll, t

-----------------------------------------------------------------------------
(* A logger is given its list and built.                                   *)

LEMMA OpensNot ==
  ASSUME NEW streams \in Seq(Streams), NEW refs
  PROVE  Opens(streams, refs, streams, refs)
  BY StreamFacts DEF Opens

\* No more waits for n than did, and nothing if it is new.
Fewer(streams, less, n, o) ==
  /\ less[n].pending[o] \in Nat
  /\ n \in DOMAIN streams => /\ streams[n].pending[o] \in Nat
                             /\ less[n].pending[o] <= streams[n].pending[o]
  /\ n \notin DOMAIN streams => less[n].pending[o] = 0

\* When streams are opened, flushed and rolled no stream gets more lines.
LEMMA WaitsLess ==
  ASSUME NEW streams \in Seq(Streams), NEW refs, NEW more \in Seq(Streams), NEW moreRefs,
         NEW less, Opens(streams, refs, more, moreRefs), Worn(more, less), NEW o \in Owners,
         NEW n \in DOMAIN less
  PROVE  Fewer(streams, less, n, o)
<1>1. /\ less \in Seq(Streams) /\ n \in DOMAIN more
      /\ less[n].pending[o] <= more[n].pending[o]
  BY DEF Worn
<1>2. less[n] \in Streams /\ more[n] \in Streams /\ (n \in DOMAIN streams => streams[n] \in Streams)
  BY <1>1
<1>3. /\ less[n].pending[o] \in Nat /\ more[n].pending[o] \in Nat
      /\ n \in DOMAIN streams => streams[n].pending[o] \in Nat
  BY <1>2 DEF Streams
<1>4. CASE n \in DOMAIN streams
  BY <1>1, <1>3, <1>4 DEF Opens, Fewer
<1>5. CASE n \notin DOMAIN streams
  <2>1. more[n].pending[o] = 0
    BY <1>1, <1>5 DEF Opens
  <2> QED
    BY <1>1, <1>3, <1>5, <2>1 DEF Fewer
<1> QED
  BY <1>4, <1>5

\* What others open, flush and roll leaves a logger as it was.
LEMMA FitsStill ==
  ASSUME NEW logger \in Loggers, NEW i \in Ids, NEW streams \in Seq(Streams), NEW refs,
         LoggerFits(logger, i, streams, refs), NEW more \in Seq(Streams), NEW moreRefs, NEW less,
         Opens(streams, refs, more, moreRefs), Worn(more, less)
  PROVE  LoggerFits(logger, i, less, moreRefs)
<1>1. TypedFits(logger.typed, refs) /\ CountsFit(logger, i, streams) /\ i \in Owners
  BY OwnersFinite DEF LoggerFits
<1>2. TypedFits(logger.typed, moreRefs)
  BY <1>1 DEF TypedFits, Opens
<1>3. ASSUME NEW n \in DOMAIN less
      PROVE  less[n].pending[i]
               <= SumFunctionOnSet(logger.unflushed, {l \in Levels : fileStream(logger.typed, l) = n})
  <2> DEFINE S == {l \in Levels : fileStream(logger.typed, l) = n}
             sum == SumFunctionOnSet(logger.unflushed, S)
  <2>1. \A l \in S : logger.unflushed[l] \in Nat
    BY LoggerFacts
  <2>2. IsFiniteSet(S)
    BY LevelSums
  <2>3. n \in DOMAIN streams => streams[n].pending[i] <= sum
    BY <1>1 DEF CountsFit
  <2> HIDE DEF S
  <2>4. sum \in Nat
    BY <2>1, <2>2, SumIsNat
  <2> HIDE DEF sum
  <2>5. Fewer(streams, less, n, i)
    BY <1>1, WaitsLess
  <2>6. less[n].pending[i] <= sum
    BY <2>3, <2>4, <2>5 DEF Fewer
  <2> QED
    BY <2>6 DEF sum, S
<1>4. CountsFit(logger, i, less)
  BY <1>1, <1>3 DEF CountsFit
<1> QED
  BY <1>2, <1>4 DEF LoggerFits

\* A registry whose logger id has nothing waiting, nothing counted, and need not be built.
Ready(s, id) ==
  /\ s = [loggers |-> s.loggers, streams |-> s.streams, refs |-> s.refs]
  /\ s.refs \in Refs /\ FilesFit(s.streams, s.refs)
  /\ DOMAIN s.loggers \subseteq Ids /\ s.loggers = [i \in DOMAIN s.loggers |-> s.loggers[i]]
  /\ id \in DOMAIN s.loggers
  /\ \E confs, typed :
       s.loggers[id] = [confs |-> confs, typed |-> typed, unflushed |-> NoLines]
  /\ \A i \in DOMAIN s.loggers \ {id} :
       s.loggers[i] \in Loggers /\ LoggerFits(s.loggers[i], i, s.streams, s.refs)
  /\ \A i \in (Ids \ DOMAIN s.loggers) \cup {id}, n \in DOMAIN s.streams :
       s.streams[n].pending[i] = 0

\* q is a registry like r, but that id has the list confs.
Configured(r, q, id, confs) ==
  /\ q \in Registries /\ DOMAIN q.loggers = DOMAIN r.loggers
  /\ q.loggers[id].confs = confs
  /\ \A i \in DOMAIN r.loggers \ {id} : q.loggers[i] = r.loggers[i]

LEMMA RebuildIs ==
  ASSUME NEW s, NEW id, Ready(s, id), NEW confs \in FullLists
  PROVE  Configured(s, Rebuild(s, id, confs), id, confs)
<1> DEFINE start == [typed |-> NewTyped(confs), streams |-> s.streams, refs |-> s.refs]
           b == insertFiles(confs, start)
           less == validateLimits(confs, b.typed, b.streams)
           logger == [confs |-> confs, typed |-> b.typed, unflushed |-> NoLines]
           loggers == [s.loggers EXCEPT ![id] = logger]
           q == Rebuild(s, id, confs)
<1>1. /\ s.streams \in Seq(Streams) /\ s.refs \in Refs /\ FilesFit(s.streams, s.refs)
      /\ confs \in Lists /\ id \in Ids /\ id \in DOMAIN s.loggers /\ DOMAIN s.loggers \subseteq Ids
      /\ s.loggers = [i \in DOMAIN s.loggers |-> s.loggers[i]]
  BY DEF Ready, FilesFit, FullLists
<1>2. Filled(b, confs, Len(confs), s.streams, s.refs)
  BY <1>1, InsertFilesFills
<1> HIDE DEF start
<1>3. build(confs, s.streams, s.refs) = [b EXCEPT !.streams = less]
  BY DEF build, start
<1>4. /\ b = [typed |-> b.typed, streams |-> b.streams, refs |-> b.refs]
      /\ b.typed \in Typeds /\ b.streams \in Seq(Streams) /\ b.refs \in Refs
      /\ FilesFit(b.streams, b.refs) /\ Opens(s.streams, s.refs, b.streams, b.refs)
  BY <1>2 DEF Filled, Builds
<1>5. q = [loggers |-> loggers, streams |-> less, refs |-> b.refs]
  <2> HIDE DEF b, less
  <2>1. /\ [b EXCEPT !.streams = less].typed = b.typed /\ [b EXCEPT !.streams = less].refs = b.refs
        /\ [b EXCEPT !.streams = less].streams = less
    BY <1>4
  <2>2. PICK old, typed : s.loggers[id] = [confs |-> old, typed |-> typed, unflushed |-> NoLines]
    BY DEF Ready
  <2>3. [s.loggers EXCEPT ![id].confs = confs, ![id].typed = b.typed] = loggers
    BY <1>1, <2>2
  <2>4. q = [loggers |-> [s.loggers EXCEPT ![id].confs = confs, ![id].typed = b.typed],
             streams |-> less, refs |-> b.refs]
    <3> HIDE DEF loggers
    <3> QED
      BY <1>3, <2>1 DEF Rebuild
  <2> HIDE DEF loggers, q
  <2> QED
    BY <2>3, <2>4
<1>6. TypedFits(b.typed, b.refs) /\ SaysTheSame(b.typed, confs)
  BY <1>2, FilledFits
<1> HIDE DEF b, q
<1>7. Worn(b.streams, less)
  BY <1>1, <1>4, LimitsWear
<1> HIDE DEF less
<1>8. less \in Seq(Streams) /\ FilesFit(less, b.refs)
  <2>1. less \in Seq(Streams)
    BY <1>7 DEF Worn
  <2> QED
    BY <1>4, <1>7, <2>1, WornFits
<1>9. logger \in Loggers
  <2>1. NoLines \in [Levels -> Nat]
    BY DEF NoLines
  <2> QED
    BY <1>4, <2>1 DEF Loggers
<1>10. ASSUME NEW i \in (Ids \ DOMAIN s.loggers) \cup {id}, NEW n \in DOMAIN less
       PROVE  less[n].pending[i] = 0
  <2>1. i \in Owners
    BY <1>1, OwnersFinite
  <2>2. Fewer(s.streams, less, n, i)
    BY <1>1, <1>4, <1>7, <2>1, WaitsLess
  <2>3. n \in DOMAIN s.streams => s.streams[n].pending[i] = 0
    BY DEF Ready
  <2> QED
    BY <2>2, <2>3 DEF Fewer
<1>11. CountsFit(logger, id, less)
  <2>1. \A l \in Levels : logger.unflushed[l] = 0
    BY DEF NoLines
  <2>2. ASSUME NEW n \in DOMAIN less
        PROVE  less[n].pending[id]
                 <= SumFunctionOnSet(logger.unflushed, {l \in Levels : fileStream(logger.typed, l) = n})
    <3> DEFINE S == {l \in Levels : fileStream(logger.typed, l) = n}
    <3>1. IsFiniteSet(S)
      BY LevelSums
    <3>2. \A l \in S : logger.unflushed[l] = 0
      BY <2>1
    <3> HIDE DEF S, logger
    <3>3. SumFunctionOnSet(logger.unflushed, S) = 0
      BY <3>1, <3>2, SumOfZeros
    <3>4. less[n].pending[id] = 0
      BY <1>10
    <3>5. less[n].pending[id] <= SumFunctionOnSet(logger.unflushed, S)
      BY <3>3, <3>4
    <3> QED
      BY <3>5 DEF S
  <2> HIDE DEF logger
  <2> QED
    BY <2>1, <2>2 DEF CountsFit
<1>12. LoggerFits(logger, id, less, b.refs)
  BY <1>6, <1>11 DEF LoggerFits
<1>13. logger.confs = confs
  OBVIOUS
<1> HIDE DEF logger
<1>14. /\ DOMAIN loggers = DOMAIN s.loggers /\ loggers[id] = logger
       /\ \A i \in DOMAIN s.loggers \ {id} : loggers[i] = s.loggers[i]
  BY <1>1
<1>15. ASSUME NEW i \in DOMAIN s.loggers
       PROVE  loggers[i] \in Loggers /\ LoggerFits(loggers[i], i, less, b.refs)
  <2>1. CASE i = id
    BY <1>9, <1>12, <1>14, <2>1
  <2>2. CASE i # id
    <3>1. s.loggers[i] \in Loggers /\ LoggerFits(s.loggers[i], i, s.streams, s.refs) /\ i \in Ids
      BY <1>1, <2>2 DEF Ready
    <3>2. LoggerFits(s.loggers[i], i, less, b.refs)
      BY <1>1, <1>4, <1>7, <3>1, FitsStill
    <3> QED
      BY <1>14, <2>2, <3>1, <3>2
  <2> QED
    BY <2>1, <2>2
<1>16. loggers \in [DOMAIN s.loggers -> Loggers]
  BY <1>1, <1>14, <1>15
<1> HIDE DEF loggers
<1>17. q \in RegistryType /\ q.loggers = loggers /\ q.streams = less /\ q.refs = b.refs
  BY <1>1, <1>4, <1>5, <1>8, <1>16, RegistryFacts
<1>18. q \in Registries
  BY <1>8, <1>10, <1>14, <1>15, <1>17 DEF Registries
<1> QED
  BY <1>13, <1>14, <1>17, <1>18 DEF Configured, q

-----------------------------------------------------------------------------
(* Loggers are configured, reconfigured, made and removed.                 *)

LEMMA FlushedIsReady ==
  ASSUME NEW r, NEW id, FitsBut(r, id), NEW s, FlushesAll(r, s, id)
  PROVE  Ready(s, id)
<1>1. /\ r \in RegistryType /\ id \in DOMAIN r.loggers /\ id \in Ids
      /\ r.streams \in Seq(Streams) /\ FilesFit(r.streams, r.refs)
      /\ DOMAIN r.loggers \subseteq Ids
  BY FitsButFacts, RegistryFacts
<1>2. /\ s \in RegistryType /\ s.refs = r.refs /\ Worn(r.streams, s.streams)
      /\ DOMAIN s.loggers = DOMAIN r.loggers /\ s.loggers[id].unflushed = NoLines
      /\ \A i \in DOMAIN r.loggers \ {id} : s.loggers[i] = r.loggers[i]
  BY DEF FlushesAll, Flushes
<1>3. /\ s.streams \in Seq(Streams) /\ s.refs \in Refs
      /\ s.loggers = [i \in DOMAIN s.loggers |-> s.loggers[i]]
      /\ \A i \in DOMAIN s.loggers : s.loggers[i] \in Loggers
  BY <1>2, RegistryFacts
<1>4. s = [loggers |-> s.loggers, streams |-> s.streams, refs |-> s.refs]
  BY <1>2 DEF RegistryType
<1>5. FilesFit(s.streams, s.refs)
  BY <1>1, <1>2, WornFits
<1>6. \E confs, typed : s.loggers[id] = [confs |-> confs, typed |-> typed, unflushed |-> NoLines]
  <2>1. s.loggers[id] \in Loggers
    BY <1>1, <1>2, <1>3
  <2>2. s.loggers[id] = [confs |-> s.loggers[id].confs, typed |-> s.loggers[id].typed,
                         unflushed |-> s.loggers[id].unflushed]
    BY <2>1 DEF Loggers
  <2> QED
    BY <1>2, <2>2
<1>7. Opens(r.streams, r.refs, r.streams, s.refs)
  BY <1>1, <1>2, OpensNot
<1>8. ASSUME NEW i \in DOMAIN s.loggers \ {id}
      PROVE  s.loggers[i] \in Loggers /\ LoggerFits(s.loggers[i], i, s.streams, s.refs)
  <2>1. s.loggers[i] = r.loggers[i] /\ s.loggers[i] \in Loggers /\ i \in Ids
    BY <1>1, <1>2, <1>3
  <2>2. LoggerFits(s.loggers[i], i, r.streams, r.refs)
    BY <1>2, <2>1 DEF FitsBut
  <2>3. LoggerFits(s.loggers[i], i, s.streams, s.refs)
    BY <1>1, <1>2, <1>7, <2>1, <2>2, FitsStill
  <2> QED
    BY <2>1, <2>3
<1>9. ASSUME NEW i \in (Ids \ DOMAIN s.loggers) \cup {id}, NEW n \in DOMAIN s.streams
      PROVE  s.streams[n].pending[i] = 0
  <2>1. n \in DOMAIN r.streams
    BY <1>1, <1>2, <1>3 DEF Worn
  <2>2. CASE i = id
    BY <2>1, <2>2 DEF FlushesAll, Clean
  <2>3. CASE i # id
    <3>1. r.streams[n].pending[i] = 0 /\ i \in Owners
      BY <1>2, <2>1, <2>3, OwnersFinite DEF FitsBut
    <3>2. Fewer(r.streams, s.streams, n, i)
      BY <1>1, <1>2, <1>7, <3>1, WaitsLess
    <3> QED
      BY <2>1, <3>1, <3>2 DEF Fewer
  <2> QED
    BY <2>2, <2>3
<1> QED
  BY <1>1, <1>2, <1>3, <1>4, <1>5, <1>6, <1>8, <1>9 DEF Ready

\* Flushed and built, id has the list.
LEMMA FlushAndRebuild ==
  ASSUME NEW r, NEW id, FitsBut(r, id), NEW confs \in FullLists
  PROVE  Configured(r, Rebuild(Flushed(r, id), id, confs), id, confs)
<1> DEFINE s == Flushed(r, id)
<1>1. FlushesAll(r, s, id)
  BY FlushedIs
<1> HIDE DEF s
<1>2. Ready(s, id)
  BY <1>1, FlushedIsReady
<1>3. Configured(s, Rebuild(s, id, confs), id, confs)
  BY <1>2, RebuildIs
<1>4. /\ DOMAIN s.loggers = DOMAIN r.loggers
      /\ \A i \in DOMAIN r.loggers \ {id} : s.loggers[i] = r.loggers[i]
  BY <1>1 DEF FlushesAll, Flushes
<1>5. Configured(r, Rebuild(s, id, confs), id, confs)
  BY <1>3, <1>4 DEF Configured
<1> QED
  BY <1>5 DEF s

LEMMA ConfigureIs ==
  ASSUME NEW r \in Registries, NEW id \in DOMAIN r.loggers, NEW c \in Seq(Entries)
  PROVE  Configured(r, configure(r, id, c), id, setFromBase(r.loggers[id].confs, c))
<1> DEFINE confs == setFromBase(r.loggers[id].confs, c)
<1>1. FitsBut(r, id) /\ r.loggers[id] \in Loggers
  BY RegistriesFacts, RegistryFacts
<1>2. confs \in FullLists
  BY <1>1, LoggerFacts, FromBaseKeeps, FullStays
<1> HIDE DEF confs
<1>3. Configured(r, Rebuild(Flushed(r, id), id, confs), id, confs)
  BY <1>1, <1>2, FlushAndRebuild
<1> QED
  BY <1>3 DEF configure, confs

\* A list that a logger was given and not built from stays the one that is built.
LEMMA ReconfigureIs ==
  ASSUME NEW r, NEW id, FitsBut(r, id)
  PROVE  Configured(r, reconfigure(r, id), id, r.loggers[id].confs)
<1>1. r.loggers[id].confs \in FullLists
  BY FitsButFacts, LoggerFacts
<1> QED
  BY <1>1, FlushAndRebuild DEF reconfigure

LEMMA SetAndReconfigureKeeps ==
  ASSUME NEW r \in Registries, NEW id \in DOMAIN r.loggers, NEW l, NEW t, NEW v, IsEntry(l, t, v)
  PROVE  /\ setAndReconfigure(r, id, l, t, v) \in Registries
         /\ DOMAIN setAndReconfigure(r, id, l, t, v).loggers = DOMAIN r.loggers
<1> DEFINE confs == set(r.loggers[id].confs, l, t, v)
           logger == [r.loggers[id] EXCEPT !.confs = confs]
           loggers == [r.loggers EXCEPT ![id] = logger]
           s == [r EXCEPT !.loggers[id].confs = set(@, l, t, v)]
<1>1. /\ r \in RegistryType /\ r.loggers[id] \in Loggers /\ FitsBut(r, id)
      /\ r.streams \in Seq(Streams) /\ r.refs \in Refs /\ DOMAIN r.loggers \subseteq Ids
      /\ r.loggers = [i \in DOMAIN r.loggers |-> r.loggers[i]]
      /\ \A i \in DOMAIN r.loggers : r.loggers[i] \in Loggers
  BY RegistriesFacts, RegistryFacts
<1>2. confs \in FullLists
  <2>1. r.loggers[id].confs \in FullLists /\ r.loggers[id].confs \in Lists
    BY <1>1, LoggerFacts
  <2>2. confs \in Lists /\ Grows(r.loggers[id].confs, confs)
    BY <2>1, GrowsNot, SetKeeps
  <2> QED
    BY <2>1, <2>2, FullStays
<1>3. s = [loggers |-> loggers, streams |-> r.streams, refs |-> r.refs]
  <2> HIDE DEF confs
  <2>1. s = [r EXCEPT !.loggers[id].confs = confs]
    BY DEF confs
  <2>2. s.loggers = loggers
    BY <1>1, <2>1 DEF RegistryType
  <2>3. s = [loggers |-> s.loggers, streams |-> r.streams, refs |-> r.refs]
    <3> HIDE DEF loggers
    <3> QED
      BY <1>1, <2>1 DEF RegistryType
  <2> HIDE DEF s, loggers
  <2> QED
    BY <2>2, <2>3
<1> HIDE DEF confs, s
<1>4. /\ logger \in Loggers /\ logger.typed = r.loggers[id].typed
      /\ logger.unflushed = r.loggers[id].unflushed
  BY <1>1, <1>2 DEF Loggers
<1> HIDE DEF logger
<1>5. /\ loggers \in [DOMAIN r.loggers -> Loggers] /\ loggers[id] = logger
      /\ DOMAIN loggers = DOMAIN r.loggers
      /\ \A i \in DOMAIN r.loggers \ {id} : loggers[i] = r.loggers[i]
  BY <1>1, <1>4
<1> HIDE DEF loggers
<1>6. s \in RegistryType /\ s.loggers = loggers /\ s.streams = r.streams /\ s.refs = r.refs
  BY <1>1, <1>3, <1>5, RegistryFacts
<1>7. CountsFit(logger, id, r.streams)
  BY <1>1, <1>4 DEF FitsBut, CountsFit
<1>8. FitsBut(s, id)
  BY <1>1, <1>4, <1>5, <1>6, <1>7 DEF FitsBut
<1>9. Configured(s, reconfigure(s, id), id, s.loggers[id].confs)
  BY <1>8, ReconfigureIs
<1>10. setAndReconfigure(r, id, l, t, v) = reconfigure(s, id)
  BY DEF setAndReconfigure, s
<1> QED
  BY <1>5, <1>6, <1>9, <1>10 DEF Configured

LEMMA GetKeeps ==
  ASSUME NEW r \in Registries, NEW id \in Ids, NEW c \in FullLists
  PROVE  get(r, id, c) \in Registries /\ DOMAIN get(r, id, c).loggers = DOMAIN r.loggers \cup {id}
<1> DEFINE loggers == With(r.loggers, id, NewLogger)
           s == [loggers |-> loggers, streams |-> r.streams, refs |-> r.refs]
           confs == setFromBase(Empty, c)
<1>1. /\ r \in RegistryType /\ FilesFit(r.streams, r.refs)
      /\ r.streams \in Seq(Streams) /\ r.refs \in Refs /\ DOMAIN r.loggers \subseteq Ids
      /\ \A i \in DOMAIN r.loggers : r.loggers[i] \in Loggers
  BY RegistriesFacts, RegistryFacts
<1>2. CASE id \in DOMAIN r.loggers
  <2>1. get(r, id, c) = r
    BY <1>2 DEF get
  <2> QED
    BY <1>2, <2>1
<1>3. CASE id \notin DOMAIN r.loggers
  <2>1. get(r, id, c) = configure(s, id, c)
    <3>1. [r EXCEPT !.loggers = Insert(r.loggers, id, NewLogger)] = s
      <4> HIDE DEF loggers
      <4>1. Insert(r.loggers, id, NewLogger) = loggers
        BY <1>3 DEF Insert, loggers
      <4> QED
        BY <1>1, <4>1 DEF RegistryType
    <3> QED
      BY <1>3, <3>1 DEF get
  <2>2. /\ DOMAIN loggers = DOMAIN r.loggers \cup {id} /\ loggers[id] = NewLogger
        /\ \A i \in DOMAIN r.loggers : loggers[i] = r.loggers[i]
        /\ loggers = [i \in DOMAIN loggers |-> loggers[i]]
    BY <1>3 DEF With
  <2> HIDE DEF loggers
  <2>3. Ready(s, id)
    <3>1. \E old, typed : s.loggers[id] = [confs |-> old, typed |-> typed, unflushed |-> NoLines]
      BY <2>2 DEF NewLogger
    <3>2. \A i \in DOMAIN s.loggers \ {id} :
            s.loggers[i] \in Loggers /\ LoggerFits(s.loggers[i], i, s.streams, s.refs)
      BY <1>1, <2>2, RegistriesFacts
    <3>3. \A i \in (Ids \ DOMAIN s.loggers) \cup {id}, n \in DOMAIN s.streams :
            s.streams[n].pending[i] = 0
      BY <1>3, <2>2, RegistriesFacts
    <3> QED
      BY <1>1, <2>2, <3>1, <3>2, <3>3 DEF Ready
  <2>4. Flushed(s, id) = s
    <3>1. CountsFlushed(s, id) = s
      BY <2>2 DEF CountsFlushed, NewLogger
    <3> QED
      BY <2>2, <3>1 DEF Flushed, NewLogger
  <2>5. s.loggers[id].confs = Empty /\ DOMAIN s.loggers = DOMAIN r.loggers \cup {id}
    BY <2>2 DEF NewLogger
  <2> HIDE DEF s
  <2>6. confs \in FullLists
    <3>1. c \in Seq(Entries) /\ \A t \in Types : Leads(c, t)
      BY DEF FullLists, Lists
    <3> QED
      BY <3>1, FullFromNothing
  <2> HIDE DEF confs
  <2>7. Configured(s, Rebuild(s, id, confs), id, confs)
    BY <2>3, <2>6, RebuildIs
  <2>8. get(r, id, c) = Rebuild(s, id, confs)
    BY <2>1, <2>4, <2>5 DEF configure, confs
  <2> QED
    BY <2>5, <2>7, <2>8 DEF Configured
<1> QED
  BY <1>2, <1>3

-----------------------------------------------------------------------------
(* Loggers are removed, streams flushed, and lines written.                *)

\* The streams have the same files, and the same lines of i.
SameFor(streams, others, i) ==
  /\ others \in Seq(Streams) /\ Len(others) = Len(streams)
  /\ \A n \in DOMAIN streams :
       others[n].file = streams[n].file /\ others[n].pending[i] = streams[n].pending[i]

LEMMA FitsTheSame ==
  ASSUME NEW streams \in Seq(Streams), NEW others, NEW i, SameFor(streams, others, i)
  PROVE  /\ \A refs : FilesFit(streams, refs) => FilesFit(others, refs)
         /\ \A logger, refs : LoggerFits(logger, i, streams, refs) => LoggerFits(logger, i, others, refs)
<1>1. DOMAIN others = DOMAIN streams /\ others \in Seq(Streams)
  BY DEF SameFor
<1>2. ASSUME NEW refs, FilesFit(streams, refs) PROVE FilesFit(others, refs)
  BY <1>1, <1>2 DEF FilesFit, SameFor
<1>3. ASSUME NEW logger, NEW refs, LoggerFits(logger, i, streams, refs)
      PROVE  LoggerFits(logger, i, others, refs)
  BY <1>1, <1>3 DEF LoggerFits, CountsFit, SameFor
<1> QED
  BY <1>2, <1>3

\* Streams may be flushed and rolled at any time.
LEMMA WearKeeps ==
  ASSUME NEW r \in Registries, NEW less, Worn(r.streams, less)
  PROVE  /\ [r EXCEPT !.streams = less] \in Registries
         /\ DOMAIN [r EXCEPT !.streams = less].loggers = DOMAIN r.loggers
<1> DEFINE s == [r EXCEPT !.streams = less]
<1>1. /\ r \in RegistryType /\ FilesFit(r.streams, r.refs)
      /\ r.streams \in Seq(Streams) /\ r.refs \in Refs /\ DOMAIN r.loggers \subseteq Ids
      /\ r.loggers \in [DOMAIN r.loggers -> Loggers]
      /\ \A i \in DOMAIN r.loggers : r.loggers[i] \in Loggers
  <2>1. r \in RegistryType /\ FilesFit(r.streams, r.refs)
    BY RegistriesFacts
  <2>2. /\ r.loggers = [i \in DOMAIN r.loggers |-> r.loggers[i]]
        /\ \A i \in DOMAIN r.loggers : r.loggers[i] \in Loggers
    BY <2>1, RegistryFacts
  <2> QED
    BY <2>1, <2>2, RegistryFacts
<1>2. s = [loggers |-> r.loggers, streams |-> less, refs |-> r.refs]
  BY <1>1 DEF RegistryType
<1> HIDE DEF s
<1>3. less \in Seq(Streams) /\ DOMAIN less = DOMAIN r.streams
  BY <1>1 DEF Worn
<1>4. s \in RegistryType /\ s.loggers = r.loggers /\ s.streams = less /\ s.refs = r.refs
  BY <1>1, <1>2, <1>3, RegistryFacts
<1>5. FilesFit(less, r.refs)
  BY <1>1, WornFits
<1>6. Opens(r.streams, r.refs, r.streams, r.refs)
  BY <1>1, OpensNot
<1>7. ASSUME NEW i \in DOMAIN r.loggers PROVE LoggerFits(r.loggers[i], i, less, r.refs)
  <2>1. LoggerFits(r.loggers[i], i, r.streams, r.refs) /\ r.loggers[i] \in Loggers /\ i \in Ids
    BY <1>1, RegistriesFacts
  <2> QED
    BY <1>1, <1>6, <2>1, FitsStill
<1>8. ASSUME NEW i \in Ids \ DOMAIN r.loggers, NEW n \in DOMAIN less PROVE less[n].pending[i] = 0
  <2>1. r.streams[n].pending[i] = 0 /\ i \in Owners
    BY <1>3, OwnersFinite, RegistriesFacts
  <2>2. Fewer(r.streams, less, n, i)
    BY <1>1, <1>6, <2>1, WaitsLess
  <2> QED
    BY <1>3, <2>1, <2>2 DEF Fewer
<1>9. s \in Registries
  BY <1>4, <1>5, <1>7, <1>8 DEF Registries
<1> QED
  BY <1>4, <1>9 DEF s

LEMMA FlushAllKeeps ==
  ASSUME NEW r \in Registries
  PROVE  [r EXCEPT !.streams = [n \in DOMAIN r.streams |-> FlushStream(r.streams[n])]] \in Registries
<1> DEFINE less == [n \in DOMAIN r.streams |-> FlushStream(r.streams[n])]
<1>1. r.streams \in Seq(Streams)
  BY RegistriesFacts, RegistryFacts
<1>2. /\ Len(r.streams) \in Nat /\ DOMAIN r.streams = 1..Len(r.streams)
      /\ \A n \in DOMAIN r.streams : r.streams[n] \in Streams
  BY <1>1, StreamFacts
<1>3. ASSUME NEW n \in DOMAIN r.streams
      PROVE  /\ less[n] \in Streams /\ less[n].file = r.streams[n].file
             /\ \A o \in Owners : less[n].pending[o] <= r.streams[n].pending[o]
  <2>1. r.streams[n] \in Streams /\ less[n] = FlushStream(r.streams[n])
    BY <1>2
  <2>2. /\ less[n] \in Streams /\ less[n].file = r.streams[n].file
        /\ \A o \in Owners : less[n].pending[o] = 0
    BY <2>1, FlushStreamIs
  <2>3. \A o \in Owners : r.streams[n].pending[o] \in Nat
    BY <2>1 DEF Streams
  <2> QED
    BY <2>2, <2>3
<1>4. DOMAIN less = DOMAIN r.streams
  OBVIOUS
<1> HIDE DEF less
<1>5. less \in Seq(Streams) /\ Len(less) = Len(r.streams)
  <2>1. less \in [1..Len(r.streams) -> Streams]
    <3>1. less = [n \in DOMAIN r.streams |-> less[n]]
      BY DEF less
    <3> QED
      BY <1>2, <1>3, <3>1
  <2> QED
    BY <1>2, <2>1
<1>6. Worn(r.streams, less)
  BY <1>3, <1>5 DEF Worn
<1>7. [r EXCEPT !.streams = less] \in Registries
  BY <1>6, WearKeeps
<1> QED
  BY <1>7 DEF less

\* What a logger that is removed has written is nobody's.
LEMMA UnregisterKeeps ==
  ASSUME NEW r \in Registries, NEW id \in DOMAIN r.loggers
  PROVE  unregister(r, id) \in Registries
<1> DEFINE I == DOMAIN r.loggers \ {id}
           loggers == [i \in I |-> r.loggers[i]]
           others == [n \in DOMAIN r.streams |-> Disowned(r.streams[n], id)]
           s == unregister(r, id)
<1>1. /\ r \in RegistryType /\ FilesFit(r.streams, r.refs)
      /\ r.streams \in Seq(Streams) /\ r.refs \in Refs /\ DOMAIN r.loggers \subseteq Ids
      /\ \A i \in DOMAIN r.loggers : r.loggers[i] \in Loggers
  BY RegistriesFacts, RegistryFacts
<1>2. s = [loggers |-> loggers, streams |-> others, refs |-> r.refs]
  <2> HIDE DEF others
  <2>1. s = [r EXCEPT !.loggers = loggers, !.streams = others]
    BY DEF unregister, Restrict, others
  <2> HIDE DEF s, loggers
  <2> QED
    BY <1>1, <2>1 DEF RegistryType
<1>3. /\ Len(r.streams) \in Nat /\ DOMAIN r.streams = 1..Len(r.streams)
      /\ \A n \in DOMAIN r.streams : r.streams[n] \in Streams
  BY <1>1, StreamFacts
<1>4. id \in Ids /\ id \in Owners /\ Left \in Owners /\ Left \notin Ids
  BY <1>1, OwnersFinite, RegistryAssumption
<1>5. ASSUME NEW n \in DOMAIN r.streams
      PROVE  /\ others[n] \in Streams /\ others[n].file = r.streams[n].file
             /\ others[n].pending[id] = 0
             /\ \A o \in Owners \ {id, Left} : others[n].pending[o] = r.streams[n].pending[o]
  <2> DEFINE f == r.streams[n]
             pending == [f.pending EXCEPT ![Left] = f.pending[Left] + f.pending[id], ![id] = 0]
  <2>1. f \in Streams /\ others[n] = Disowned(f, id)
    BY <1>3
  <2> HIDE DEF f, others
  <2>2. others[n] = [f EXCEPT !.pending = pending]
    BY <2>1 DEF Disowned
  <2>3. f.pending \in [Owners -> Nat]
    BY <2>1 DEF Streams
  <2>4. pending \in [Owners -> Nat] /\ pending[id] = 0
    BY <1>4, <2>3
  <2>5. \A o \in Owners \ {id, Left} : pending[o] = f.pending[o]
    BY <2>3
  <2> HIDE DEF pending
  <2>6. others[n] \in Streams /\ others[n].file = f.file /\ others[n].pending = pending
    BY <2>1, <2>2, <2>4 DEF Streams
  <2> QED
    BY <2>4, <2>5, <2>6 DEF f
<1>6. others = [n \in DOMAIN r.streams |-> others[n]]
  OBVIOUS
<1>7. loggers \in [I -> Loggers] /\ I \subseteq Ids /\ \A i \in I : loggers[i] = r.loggers[i]
  BY <1>1
<1> HIDE DEF others, loggers
<1>8. others \in Seq(Streams) /\ Len(others) = Len(r.streams) /\ DOMAIN others = DOMAIN r.streams
  <2>1. others \in [1..Len(r.streams) -> Streams]
    BY <1>3, <1>5, <1>6
  <2> QED
    BY <1>3, <2>1
<1>9. \A i \in Ids \ {id} : SameFor(r.streams, others, i)
  BY <1>4, <1>5, <1>8, OwnersFinite DEF SameFor
<1> HIDE DEF s, I
<1>10. s \in RegistryType /\ s.loggers = loggers /\ s.streams = others /\ s.refs = r.refs
  BY <1>1, <1>2, <1>7, <1>8, RegistryFacts
<1>11. DOMAIN loggers = I
  BY <1>7
<1>12. FilesFit(others, r.refs)
  BY <1>1, <1>5, <1>8 DEF FilesFit
<1>13. ASSUME NEW i \in I PROVE LoggerFits(loggers[i], i, others, r.refs)
  <2>1. i \in Ids \ {id} /\ i \in DOMAIN r.loggers
    BY <1>7 DEF I
  <2>2. LoggerFits(loggers[i], i, r.streams, r.refs)
    BY <1>7, <2>1, RegistriesFacts
  <2>3. SameFor(r.streams, others, i)
    BY <1>9, <2>1
  <2> QED
    BY <1>1, <2>2, <2>3, FitsTheSame
<1>14. ASSUME NEW i \in Ids \ I, NEW n \in DOMAIN others PROVE others[n].pending[i] = 0
  <2>1. CASE i = id
    BY <1>5, <1>8, <2>1
  <2>2. CASE i # id
    <3>1. i \in Ids \ DOMAIN r.loggers
      BY <2>2 DEF I
    <3>2. r.streams[n].pending[i] = 0
      BY <1>8, <3>1, RegistriesFacts
    <3> QED
      BY <1>8, <1>9, <2>2, <3>2 DEF SameFor
  <2> QED
    BY <2>1, <2>2
<1>15. s \in Registries
  BY <1>10, <1>11, <1>12, <1>13, <1>14 DEF Registries
<1> QED
  BY <1>15 DEF s

\* w is r with one more line of level l of logger id in stream n.
Writes(r, w, id, l, n) ==
  /\ w \in RegistryType /\ w.refs = r.refs /\ DOMAIN w.loggers = DOMAIN r.loggers
  /\ \A i \in DOMAIN r.loggers \ {id} : w.loggers[i] = r.loggers[i]
  /\ w.loggers[id].typed = r.loggers[id].typed /\ w.loggers[id].confs = r.loggers[id].confs
  /\ w.loggers[id].unflushed =
       [r.loggers[id].unflushed EXCEPT ![l] = r.loggers[id].unflushed[l] + 1]
  /\ w.streams \in Seq(Streams) /\ Len(w.streams) = Len(r.streams)
  /\ \A m \in DOMAIN r.streams :
       /\ w.streams[m].file = r.streams[m].file
       /\ \A o \in Owners : w.streams[m].pending[o] =
            IF m = n /\ o = id THEN r.streams[m].pending[o] + 1 ELSE r.streams[m].pending[o]

LEMMA WrittenIs ==
  ASSUME NEW r \in RegistryType, NEW id \in DOMAIN r.loggers, NEW l \in Levels,
         NEW n \in DOMAIN r.streams
  PROVE  Writes(r, Written(r, id, l, n), id, l, n)
<1> DEFINE pending == [r.streams[n].pending EXCEPT ![id] = r.streams[n].pending[id] + 1]
           f == [r.streams[n] EXCEPT !.pending = pending]
           streams == [r.streams EXCEPT ![n] = f]
           counts == [r.loggers[id].unflushed EXCEPT ![l] = r.loggers[id].unflushed[l] + 1]
           logger == [r.loggers[id] EXCEPT !.unflushed = counts]
           loggers == [r.loggers EXCEPT ![id] = logger]
           w == Written(r, id, l, n)
<1>1. /\ r.streams \in Seq(Streams) /\ r.refs \in Refs /\ DOMAIN r.loggers \subseteq Ids
      /\ r.loggers = [i \in DOMAIN r.loggers |-> r.loggers[i]]
      /\ \A i \in DOMAIN r.loggers : r.loggers[i] \in Loggers
  BY RegistryFacts
<1>2. /\ Len(r.streams) \in Nat /\ DOMAIN r.streams = 1..Len(r.streams)
      /\ \A m \in DOMAIN r.streams : r.streams[m] \in Streams
  BY <1>1, StreamFacts
<1>3. w = [loggers |-> loggers, streams |-> streams, refs |-> r.refs]
  <2>1. w.loggers = loggers /\ w.streams = streams
    BY DEF Written, RegistryType
  <2>2. r = [loggers |-> r.loggers, streams |-> r.streams, refs |-> r.refs]
    BY DEF RegistryType
  <2>3. w = [[r EXCEPT !.streams = w.streams] EXCEPT !.loggers = w.loggers]
    BY <2>2, Zenon DEF Written
  <2> HIDE DEF loggers, streams, w
  <2>4. w = [loggers |-> w.loggers, streams |-> w.streams, refs |-> r.refs]
    BY <2>2, <2>3
  <2> QED
    BY <2>1, <2>4
<1>4. /\ pending \in [Owners -> Nat]
      /\ \A o \in Owners : pending[o] = IF o = id THEN r.streams[n].pending[o] + 1
                                        ELSE r.streams[n].pending[o]
  <2>1. r.streams[n].pending \in [Owners -> Nat] /\ id \in Owners
    BY <1>1, <1>2, OwnersFinite DEF Streams
  <2> QED
    BY <2>1
<1> HIDE DEF pending
<1>5. f \in Streams /\ f.file = r.streams[n].file /\ f.pending = pending
  <2>1. r.streams[n] \in Streams
    BY <1>2
  <2> QED
    BY <1>4, <2>1 DEF Streams
<1> HIDE DEF f
<1>6. /\ streams \in Seq(Streams) /\ Len(streams) = Len(r.streams)
      /\ \A m \in DOMAIN r.streams : streams[m] = IF m = n THEN f ELSE r.streams[m]
  <2>1. streams \in [1..Len(r.streams) -> Streams]
    BY <1>1, <1>2, <1>5
  <2> QED
    BY <1>2, <2>1
<1>7. counts \in [Levels -> Nat]
  BY <1>1 DEF Loggers
<1> HIDE DEF counts
<1>8. /\ logger \in Loggers /\ logger.typed = r.loggers[id].typed
      /\ logger.confs = r.loggers[id].confs /\ logger.unflushed = counts
  BY <1>1, <1>7 DEF Loggers
<1> HIDE DEF logger
<1>9. /\ loggers \in [DOMAIN r.loggers -> Loggers] /\ loggers[id] = logger
      /\ \A i \in DOMAIN r.loggers \ {id} : loggers[i] = r.loggers[i]
      /\ DOMAIN loggers = DOMAIN r.loggers
  BY <1>1, <1>8
<1> HIDE DEF loggers, streams, w
<1>10. w \in RegistryType /\ w.loggers = loggers /\ w.streams = streams /\ w.refs = r.refs
  BY <1>1, <1>3, <1>6, <1>9, RegistryFacts
<1>11. ASSUME NEW m \in DOMAIN r.streams
       PROVE  /\ streams[m].file = r.streams[m].file
              /\ \A o \in Owners : streams[m].pending[o] =
                   IF m = n /\ o = id THEN r.streams[m].pending[o] + 1 ELSE r.streams[m].pending[o]
  BY <1>4, <1>5, <1>6
<1>12. w.loggers[id].unflushed =
         [r.loggers[id].unflushed EXCEPT ![l] = r.loggers[id].unflushed[l] + 1]
  BY <1>8, <1>9, <1>10 DEF counts
<1>13. Writes(r, w, id, l, n)
  BY <1>6, <1>8, <1>9, <1>10, <1>11, <1>12 DEF Writes
<1> QED
  BY <1>13 DEF w

\* Others have the lines that they had.
LEMMA WritesForOne ==
  ASSUME NEW r \in Registries, NEW w, NEW id \in DOMAIN r.loggers, NEW l, NEW n,
         Writes(r, w, id, l, n)
  PROVE  /\ FilesFit(w.streams, w.refs)
         /\ \A i \in DOMAIN w.loggers \ {id} : LoggerFits(w.loggers[i], i, w.streams, w.refs)
         /\ \A i \in Ids \ DOMAIN w.loggers, m \in DOMAIN w.streams : w.streams[m].pending[i] = 0
<1>1. r.streams \in Seq(Streams) /\ FilesFit(r.streams, r.refs) /\ id \in Ids /\ Ids \subseteq Owners
  BY RegistriesFacts, RegistryFacts, OwnersFinite
<1>2. w.streams \in Seq(Streams) /\ DOMAIN w.streams = DOMAIN r.streams /\ w.refs = r.refs
  BY <1>1 DEF Writes
<1>3. FilesFit(w.streams, w.refs)
  BY <1>1, <1>2 DEF FilesFit, Writes
<1>4. ASSUME NEW i \in Ids \ {id} PROVE SameFor(r.streams, w.streams, i)
  BY <1>1 DEF SameFor, Writes
<1>5. ASSUME NEW i \in DOMAIN w.loggers \ {id} PROVE LoggerFits(w.loggers[i], i, w.streams, w.refs)
  <2>1. i \in DOMAIN r.loggers /\ w.loggers[i] = r.loggers[i]
    BY DEF Writes
  <2>2. i \in Ids /\ LoggerFits(w.loggers[i], i, r.streams, w.refs)
    BY <1>2, <2>1, RegistriesFacts
  <2>3. SameFor(r.streams, w.streams, i)
    BY <1>4, <2>2
  <2> QED
    BY <1>1, <2>2, <2>3, FitsTheSame
<1>6. ASSUME NEW i \in Ids \ DOMAIN w.loggers, NEW m \in DOMAIN w.streams
      PROVE  w.streams[m].pending[i] = 0
  <2>1. i \in Ids \ {id} /\ i \in Ids \ DOMAIN r.loggers
    BY DEF Writes
  <2>2. r.streams[m].pending[i] = 0
    BY <1>2, <2>1, RegistriesFacts
  <2> QED
    BY <1>2, <1>4, <2>1, <2>2 DEF SameFor
<1> QED
  BY <1>3, <1>5, <1>6

\* What waits of id in a stream, and what it counts for it.
LEMMA CountsSum ==
  ASSUME NEW r \in Registries, NEW id \in DOMAIN r.loggers, NEW m \in DOMAIN r.streams
  PROVE  /\ r.streams[m].pending[id] \in Nat
         /\ IsFiniteSet({k \in Levels : fileStream(r.loggers[id].typed, k) = m})
         /\ \A k \in Levels : r.loggers[id].unflushed[k] \in Nat
         /\ SumFunctionOnSet(r.loggers[id].unflushed,
                             {k \in Levels : fileStream(r.loggers[id].typed, k) = m}) \in Nat
         /\ r.streams[m].pending[id] <=
              SumFunctionOnSet(r.loggers[id].unflushed,
                               {k \in Levels : fileStream(r.loggers[id].typed, k) = m})
<1> DEFINE S == {k \in Levels : fileStream(r.loggers[id].typed, k) = m}
<1>1. /\ FitsBut(r, id) /\ r.loggers[id] \in Loggers /\ r.streams \in Seq(Streams) /\ id \in Owners
      /\ CountsFit(r.loggers[id], id, r.streams)
  BY RegistriesFacts, FitsButFacts
<1>2. r.streams[m].pending[id] \in Nat
  <2>1. r.streams[m] \in Streams
    BY <1>1
  <2> QED
    BY <1>1, <2>1 DEF Streams
<1>3. \A k \in Levels : r.loggers[id].unflushed[k] \in Nat
  BY <1>1, LoggerFacts
<1>4. IsFiniteSet(S)
  BY LevelSums
<1>5. SumFunctionOnSet(r.loggers[id].unflushed, S) \in Nat
  BY <1>3, <1>4, SumIsNat
<1> QED
  BY <1>1, <1>2, <1>3, <1>4, <1>5 DEF CountsFit

\* A line that is written and not flushed is counted, below the threshold of its level.
LEMMA WrittenKeeps ==
  ASSUME NEW r \in Registries, NEW w, NEW id \in DOMAIN r.loggers, NEW l \in Levels,
         NEW n \in DOMAIN r.streams, Writes(r, w, id, l, n),
         fileStream(r.loggers[id].typed, l) = n, toFile(r.loggers[id].typed, l),
         w.loggers[id].unflushed[l] < Threshold(w.loggers[id].typed, l)
  PROVE  w \in Registries
<1> DEFINE typed == r.loggers[id].typed
           old == r.loggers[id].unflushed
           new == w.loggers[id].unflushed
           S(m) == {k \in Levels : fileStream(typed, k) = m}
<1>1. /\ r.loggers[id] \in Loggers /\ TypedFits(typed, r.refs) /\ id \in Owners
      /\ SaysTheSame(typed, r.loggers[id].confs) /\ CountsFit(r.loggers[id], id, r.streams)
      /\ r.streams \in Seq(Streams)
  <2>1. FitsBut(r, id) /\ LoggerFits(r.loggers[id], id, r.streams, r.refs)
    BY RegistriesFacts
  <2> QED
    BY <2>1, FitsButFacts DEF LoggerFits
<1>2. /\ w.loggers[id].typed = typed /\ w.loggers[id].confs = r.loggers[id].confs /\ w.refs = r.refs
      /\ DOMAIN w.streams = DOMAIN r.streams
      /\ w.streams[n].pending[id] = r.streams[n].pending[id] + 1
      /\ \A m \in DOMAIN r.streams \ {n} : w.streams[m].pending[id] = r.streams[m].pending[id]
  BY <1>1 DEF Writes
<1>3. /\ \A k \in Levels : old[k] \in Nat /\ new[k] \in Nat
      /\ new[l] = old[l] + 1 /\ \A k \in Levels \ {l} : new[k] = old[k]
  <2>1. old \in [Levels -> Nat]
    BY <1>1 DEF Loggers
  <2>2. new = [old EXCEPT ![l] = old[l] + 1]
    BY DEF Writes
  <2> HIDE DEF old, new
  <2> QED
    BY <2>1, <2>2
<1>4. ASSUME NEW k \in Levels
      PROVE  /\ new[k] < Threshold(typed, k) \/ new[k] = 0
             /\ new[k] # 0 => toFile(typed, k)
  <2>1. CASE k = l
    BY <1>2, <2>1
  <2>2. CASE k # l
    BY <1>1, <1>3, <2>2 DEF CountsFit
  <2> QED
    BY <2>1, <2>2
<1>5. ASSUME NEW m \in DOMAIN r.streams
      PROVE  w.streams[m].pending[id] <= SumFunctionOnSet(new, S(m))
  <2> DEFINE T == S(m)
  <2>1. /\ r.streams[m].pending[id] \in Nat /\ IsFiniteSet(T)
        /\ SumFunctionOnSet(old, T) \in Nat
        /\ r.streams[m].pending[id] <= SumFunctionOnSet(old, T)
    BY CountsSum
  <2>2. \A k \in T : old[k] \in Nat /\ new[k] \in Nat
    BY <1>3
  <2>3. l \in T <=> m = n
    OBVIOUS
  <2>4. \A k \in T \ {l} : new[k] = old[k]
    BY <1>3
  <2> HIDE DEF T, old, new
  <2>5. CASE m = n
    <3>1. SumFunctionOnSet(new, T) = SumFunctionOnSet(old, T) + 1
      BY <1>3, <2>1, <2>2, <2>3, <2>4, <2>5, SumIncrements
    <3>2. w.streams[m].pending[id] = r.streams[m].pending[id] + 1
      BY <1>2, <2>5
    <3> QED
      BY <2>1, <3>1, <3>2 DEF T
  <2>6. CASE m # n
    <3>1. \A k \in T : old[k] <= new[k]
      BY <2>2, <2>3, <2>4, <2>6
    <3>2. SumFunctionOnSet(old, T) <= SumFunctionOnSet(new, T)
      BY <2>1, <2>2, <3>1, SumMonotone
    <3>3. SumFunctionOnSet(new, T) \in Nat
      BY <2>1, <2>2, SumIsNat
    <3>4. w.streams[m].pending[id] = r.streams[m].pending[id]
      BY <1>2, <2>6
    <3> QED
      BY <2>1, <3>2, <3>3, <3>4 DEF T
  <2> QED
    BY <2>5, <2>6
<1>6. CountsFit(w.loggers[id], id, w.streams)
  BY <1>2, <1>4, <1>5 DEF CountsFit
<1>7. LoggerFits(w.loggers[id], id, w.streams, w.refs)
  BY <1>1, <1>2, <1>6 DEF LoggerFits
<1>8. /\ FilesFit(w.streams, w.refs)
      /\ \A i \in DOMAIN w.loggers \ {id} : LoggerFits(w.loggers[i], i, w.streams, w.refs)
      /\ \A i \in Ids \ DOMAIN w.loggers, m \in DOMAIN w.streams : w.streams[m].pending[i] = 0
  BY WritesForOne
<1>9. w \in RegistryType
  BY DEF Writes
<1> QED
  BY <1>7, <1>8, <1>9 DEF Registries

\* A line that is written and flushed leaves what the other levels have in other streams.
LEMMA WrittenAndFlushedKeeps ==
  ASSUME NEW r \in Registries, NEW w, NEW id \in DOMAIN r.loggers, NEW l \in Levels,
         NEW n \in DOMAIN r.streams, Writes(r, w, id, l, n), n # Null,
         fileStream(r.loggers[id].typed, l) = n
  PROVE  FlushTo(w, id, l, n) \in Registries
<1> DEFINE typed == r.loggers[id].typed
           old == r.loggers[id].unflushed
           t == FlushTo(w, id, l, n)
           new == t.loggers[id].unflushed
           S(m) == {k \in Levels : fileStream(typed, k) = m}
<1>1. /\ r.loggers[id] \in Loggers /\ TypedFits(typed, r.refs) /\ id \in Owners /\ id \in Ids
      /\ SaysTheSame(typed, r.loggers[id].confs) /\ CountsFit(r.loggers[id], id, r.streams)
      /\ r.streams \in Seq(Streams)
  <2>1. FitsBut(r, id) /\ LoggerFits(r.loggers[id], id, r.streams, r.refs)
    BY RegistriesFacts
  <2> QED
    BY <2>1, FitsButFacts DEF LoggerFits
<1>2. /\ w \in RegistryType /\ w.loggers[id].typed = typed
      /\ w.loggers[id].confs = r.loggers[id].confs /\ w.refs = r.refs
      /\ w.streams \in Seq(Streams) /\ DOMAIN w.streams = DOMAIN r.streams
      /\ DOMAIN w.loggers = DOMAIN r.loggers
      /\ \A m \in DOMAIN r.streams \ {n} : w.streams[m].pending[id] = r.streams[m].pending[id]
      /\ w.loggers[id].unflushed = [old EXCEPT ![l] = old[l] + 1]
  BY <1>1 DEF Writes
<1>3. /\ Flushes(w, t, id) /\ Clean(t, n, id)
      /\ new = [w.loggers[id].unflushed EXCEPT ![l] = 0]
  <2>1. w \in RegistryType /\ id \in DOMAIN w.loggers /\ n \in DOMAIN w.streams
    BY <1>2
  <2> QED
    BY <2>1, FlushToIs
<1> HIDE DEF t
<1>4. /\ FilesFit(w.streams, w.refs)
      /\ \A i \in DOMAIN w.loggers \ {id} : LoggerFits(w.loggers[i], i, w.streams, w.refs)
      /\ \A i \in Ids \ DOMAIN w.loggers, m \in DOMAIN w.streams : w.streams[m].pending[i] = 0
  BY WritesForOne
<1>5. /\ t \in RegistryType /\ t.refs = w.refs /\ Worn(w.streams, t.streams)
      /\ DOMAIN t.loggers = DOMAIN w.loggers
      /\ \A i \in DOMAIN w.loggers \ {id} : t.loggers[i] = w.loggers[i]
      /\ t.loggers[id].typed = typed /\ t.loggers[id].confs = r.loggers[id].confs
  BY <1>2, <1>3 DEF Flushes
<1>6. t.streams \in Seq(Streams) /\ DOMAIN t.streams = DOMAIN r.streams
  BY <1>2, <1>5 DEF Worn
<1>7. FilesFit(t.streams, t.refs)
  BY <1>4, <1>5, WornFits
<1>8. Opens(w.streams, t.refs, w.streams, t.refs)
  BY <1>2, OpensNot
<1>9. ASSUME NEW i \in DOMAIN t.loggers \ {id} PROVE LoggerFits(t.loggers[i], i, t.streams, t.refs)
  <2>1. i \in Ids /\ t.loggers[i] = w.loggers[i] /\ t.loggers[i] \in Loggers
    BY <1>2, <1>5, RegistryFacts
  <2>2. LoggerFits(t.loggers[i], i, w.streams, t.refs)
    BY <1>4, <1>5, <2>1
  <2> QED
    BY <1>2, <1>5, <1>8, <2>1, <2>2, FitsStill
<1>10. ASSUME NEW i \in Ids \ DOMAIN t.loggers, NEW m \in DOMAIN t.streams
       PROVE  t.streams[m].pending[i] = 0
  <2>1. w.streams[m].pending[i] = 0 /\ i \in Owners
    BY <1>2, <1>4, <1>5, <1>6, OwnersFinite
  <2>2. Fewer(w.streams, t.streams, m, i)
    BY <1>2, <1>5, <1>8, <2>1, WaitsLess
  <2> QED
    BY <1>2, <1>6, <2>1, <2>2 DEF Fewer
<1>11. /\ \A k \in Levels : old[k] \in Nat /\ new[k] \in Nat
       /\ new[l] = 0 /\ \A k \in Levels \ {l} : new[k] = old[k]
  <2>1. old \in [Levels -> Nat]
    BY <1>1 DEF Loggers
  <2> HIDE DEF old, new
  <2>2. new = [[old EXCEPT ![l] = old[l] + 1] EXCEPT ![l] = 0]
    BY <1>2, <1>3
  <2> QED
    BY <2>1, <2>2
<1>12. ASSUME NEW k \in Levels
       PROVE  /\ new[k] < Threshold(typed, k) \/ new[k] = 0
              /\ new[k] # 0 => toFile(typed, k)
  BY <1>1, <1>11 DEF CountsFit
<1>13. ASSUME NEW m \in DOMAIN t.streams
       PROVE  t.streams[m].pending[id] <= SumFunctionOnSet(new, S(m))
  <2> DEFINE T == S(m)
  <2>1. /\ r.streams[m].pending[id] \in Nat /\ IsFiniteSet(T)
        /\ SumFunctionOnSet(old, T) \in Nat
        /\ r.streams[m].pending[id] <= SumFunctionOnSet(old, T)
    BY <1>6, CountsSum
  <2>2. \A k \in T : old[k] \in Nat /\ new[k] \in Nat
    BY <1>11
  <2>3. l \in T <=> m = n
    OBVIOUS
  <2>4. \A k \in T \ {l} : new[k] = old[k]
    BY <1>11
  <2> HIDE DEF T, old, new
  <2>5. SumFunctionOnSet(new, T) \in Nat
    BY <2>1, <2>2, SumIsNat
  <2>6. CASE m = n
    BY <1>3, <2>5, <2>6 DEF Clean, T
  <2>7. CASE m # n
    <3>1. \A k \in T : old[k] <= new[k]
      BY <2>2, <2>3, <2>4, <2>7
    <3>2. SumFunctionOnSet(old, T) <= SumFunctionOnSet(new, T)
      BY <2>1, <2>2, <3>1, SumMonotone
    <3>3. w.streams[m].pending[id] = r.streams[m].pending[id]
      BY <1>2, <1>6, <2>7
    <3>4. Fewer(w.streams, t.streams, m, id)
      BY <1>1, <1>2, <1>5, <1>8, WaitsLess
    <3> QED
      BY <1>2, <1>6, <2>1, <2>5, <3>2, <3>3, <3>4 DEF Fewer, T
  <2> QED
    BY <2>6, <2>7
<1>14. CountsFit(t.loggers[id], id, t.streams)
  BY <1>5, <1>12, <1>13 DEF CountsFit
<1>15. LoggerFits(t.loggers[id], id, t.streams, t.refs)
  BY <1>1, <1>2, <1>5, <1>14 DEF LoggerFits
<1>16. t \in Registries
  BY <1>5, <1>7, <1>9, <1>10, <1>15 DEF Registries
<1> QED
  BY <1>16 DEF t

LEMMA WriteLineKeeps ==
  ASSUME NEW r \in Registries, NEW id \in DOMAIN r.loggers, NEW l \in Levels
  PROVE  WriteLine(r, id, l) \in Registries
<1> DEFINE typed == r.loggers[id].typed
           n == fileStream(typed, l)
           w == Written(r, id, l, n)
           threshold == Lookup(typed.maps["LogFlushThreshold"], l, 0)
           flushNeeded == w.loggers[id].unflushed[l] >= threshold
           wrote == Lookup(typed.maps["Enabled"], l, FALSE) /\ toFile(typed, l) /\ n # Null
<1>1. WriteLine(r, id, l) =
        IF ~wrote THEN r ELSE IF flushNeeded THEN FlushTo(w, id, l, n) ELSE w
  BY DEF WriteLine
<1>2. CASE ~wrote
  BY <1>1, <1>2
<1>3. CASE wrote
  <2>1. /\ r \in RegistryType /\ typed \in Typeds /\ r.refs \in Refs /\ TypedFits(typed, r.refs)
        /\ FilesFit(r.streams, r.refs) /\ r.loggers[id] \in Loggers
    BY RegistriesFacts, FitsButFacts
  <2>2. n \in DOMAIN r.streams /\ n # Null
    BY <1>3, <2>1, StreamIsOpen
  <2>3. toFile(typed, l) /\ fileStream(typed, l) = n
    BY <1>3
  <2>4. WriteLine(r, id, l) = IF flushNeeded THEN FlushTo(w, id, l, n) ELSE w
    BY <1>1, <1>3
  <2> HIDE DEF n
  <2>5. Writes(r, w, id, l, n)
    BY <2>1, <2>2, WrittenIs
  <2> HIDE DEF w
  <2>6. CASE flushNeeded
    <3>1. FlushTo(w, id, l, n) \in Registries
      BY <2>2, <2>3, <2>5, WrittenAndFlushedKeeps
    <3> QED
      BY <2>4, <2>6, <3>1
  <2>7. CASE ~flushNeeded
    <3>1. Threshold(typed, l) \in Nat /\ threshold = Threshold(typed, l)
      BY <2>1, LoggerFacts DEF Threshold
    <3>2. w.loggers[id].unflushed[l] \in Nat
      <4>1. w \in RegistryType /\ id \in DOMAIN w.loggers
        BY <2>5 DEF Writes
      <4>2. w.loggers[id] \in Loggers
        BY <4>1, RegistryFacts
      <4> QED
        BY <4>2, LoggerFacts
    <3>3. w.loggers[id].typed = typed
      BY <2>5 DEF Writes
    <3>4. w.loggers[id].unflushed[l] < Threshold(w.loggers[id].typed, l)
      <4> HIDE DEF threshold
      <4> QED
        BY <2>7, <3>1, <3>2, <3>3
    <3>5. w \in Registries
      BY <2>2, <2>3, <2>5, <3>4, WrittenKeeps
    <3> QED
      BY <2>4, <2>7, <3>5
  <2> QED
    BY <2>6, <2>7
<1> QED
  BY <1>2, <1>3

-----------------------------------------------------------------------------
(* All loggers are configured.                                             *)

\* The order is one of all loggers.
LEMMA OrderFacts ==
  ASSUME NEW r, IsFiniteSet(DOMAIN r.loggers)
  PROVE  /\ Len(InSomeOrder(r)) \in Nat
         /\ \A i \in 1..Len(InSomeOrder(r)) : InSomeOrder(r)[i] \in DOMAIN r.loggers
         /\ \A id \in DOMAIN r.loggers :
              \E i \in 1..Len(InSomeOrder(r)) : InSomeOrder(r)[i] = id
<1> DEFINE S == DOMAIN r.loggers
           N == Cardinality(S)
           f == InSomeOrder(r)
<1>1. N \in Nat /\ ExistsBijection(1..N, S)
  BY FS_CardinalityType
<1>2. \E g \in [1..N -> S] : IsInjective(g)
  BY <1>1 DEF ExistsBijection, Bijection, Injection, IsInjective
<1>3. f = CHOOSE g \in [1..N -> S] : IsInjective(g)
  BY DEF InSomeOrder, SetToSeq
<1> HIDE DEF f, S
<1>4. f \in [1..N -> S] /\ IsInjective(f)
  BY <1>2, <1>3
<1>5. f \in Injection(1..N, S)
  BY <1>4 DEF IsInjective, Injection
<1>6. f \in Surjection(1..N, S)
  <2>1. Cardinality(1..N) = N
    BY <1>1, FS_Interval
  <2>2. IsFiniteSet(S)
    BY DEF S
  <2> HIDE DEF N
  <2>3. Cardinality(1..N) = Cardinality(S) <=> f \in Surjection(1..N, S)
    BY <1>5, <2>2, FS_Injection
  <2> QED
    BY <2>1, <2>3 DEF N
<1>7. Len(f) = N
  <2> HIDE DEF N
  <2> QED
    BY <1>1, <1>4
<1>8. \A id \in S : \E i \in 1..N : f[i] = id
  BY <1>6 DEF Surjection
<1> QED
  BY <1>1, <1>4, <1>7, <1>8 DEF f, S

LEMMA RegistryOrder ==
  ASSUME NEW r \in Registries
  PROVE  IsFiniteSet(DOMAIN r.loggers)
<1>1. r \in RegistryType
  BY RegistriesFacts
<1> QED
  BY <1>1, RegistryFacts, RegistryAssumption, FS_Subset

\* The list of id has every entry of c, when the global entries of c come first.
AsAsked(q, id, c) ==
  GlobalFirst(c) => \A m \in 1..Len(c) : Has(q.loggers[id].confs, c[m].level, c[m].type, c[m].value)

\* The loggers are the same ones, and each is as c asks.
LEMMA ReconfigureAllIs ==
  ASSUME NEW r \in Registries, NEW c \in Lists
  PROVE  /\ reconfigureAll(r, c) \in Registries
         /\ DOMAIN reconfigureAll(r, c).loggers = DOMAIN r.loggers
         /\ \A id \in DOMAIN r.loggers : AsAsked(reconfigureAll(r, c), id, c)
<1> DEFINE order == InSomeOrder(r)
           N == Len(order)
           X == [i \in 0..N |-> {q \in Registries : /\ DOMAIN q.loggers = DOMAIN r.loggers
                                                    /\ \A k \in 1..i : AsAsked(q, order[k], c)}]
           t == reconfigureAll(r, c)
<1>1. /\ N \in Nat /\ \A i \in 1..N : order[i] \in DOMAIN r.loggers
      /\ \A id \in DOMAIN r.loggers : \E i \in 1..N : order[i] = id
  BY RegistryOrder, OrderFacts
<1>2. r \in X[0]
  BY <1>1
<1>3. c \in Seq(Entries)
  BY ListFacts
<1>4. ASSUME NEW i \in 1..N, NEW d \in X[i - 1] PROVE configure(d, order[i], c) \in X[i]
  <2> DEFINE id == order[i]
             e == configure(d, id, c)
  <2>1. i - 1 \in 0..N /\ i \in 0..N /\ id \in DOMAIN r.loggers
    BY <1>1
  <2>2. /\ d \in Registries /\ DOMAIN d.loggers = DOMAIN r.loggers
        /\ \A k \in 1..(i - 1) : AsAsked(d, order[k], c)
    BY <2>1
  <2>3. Configured(d, e, id, setFromBase(d.loggers[id].confs, c))
    BY <1>3, <2>1, <2>2, ConfigureIs
  <2> HIDE DEF e
  <2>4. /\ e \in Registries /\ DOMAIN e.loggers = DOMAIN r.loggers
        /\ e.loggers[id].confs = setFromBase(d.loggers[id].confs, c)
        /\ \A j \in DOMAIN r.loggers \ {id} : e.loggers[j] = d.loggers[j]
    BY <2>2, <2>3 DEF Configured
  <2>5. AsAsked(e, id, c)
    <3>1. d.loggers[id] \in Loggers
      BY <2>1, <2>2, RegistriesFacts, RegistryFacts
    <3>2. d.loggers[id].confs \in Lists
      BY <3>1, LoggerFacts
    <3> HIDE DEF id
    <3>3. GlobalFirst(c) => \A m \in 1..Len(c) : Has(setFromBase(d.loggers[id].confs, c), c[m].level, c[m].type, c[m].value)
      BY <3>2, FromBaseHas
    <3> QED
      BY <2>4, <3>3 DEF AsAsked
  <2>6. ASSUME NEW k \in 1..i PROVE AsAsked(e, order[k], c)
    <3>1. CASE order[k] = id
      BY <2>5, <3>1
    <3>2. CASE order[k] # id
      <4> HIDE DEF X, t
      <4>1. k \in 1..(i - 1) /\ k \in 1..N
        <5>1. k # i
          BY <3>2
        <5>2. N \in Nat /\ i \in Nat /\ k \in Nat /\ 1 <= k /\ k <= i /\ i <= N
          BY <1>1
        <5>3. k <= i - 1 /\ i - 1 \in Nat /\ k <= N
          BY <5>1, <5>2
        <5> QED
          BY <5>2, <5>3
      <4>2. e.loggers[order[k]] = d.loggers[order[k]] /\ AsAsked(d, order[k], c)
        BY <1>1, <2>2, <2>4, <3>2, <4>1
      <4> QED
        BY <4>2 DEF AsAsked
    <3> QED
      BY <3>1, <3>2
  <2> QED
    BY <2>1, <2>4, <2>6 DEF e
<1>5. t \in X[N]
  <2> HIDE DEF X
  <2>1. \A i \in 1..N : \A d \in X[i - 1] : configure(d, order[i], c) \in X[i]
    BY <1>4
  <2> QED
    BY <1>1, <1>2, <2>1, AllLoop
<1> HIDE DEF t, order
<1>6. /\ t \in Registries /\ DOMAIN t.loggers = DOMAIN r.loggers
      /\ \A k \in 1..N : AsAsked(t, order[k], c)
  BY <1>1, <1>5
<1>7. \A id \in DOMAIN r.loggers : AsAsked(t, id, c)
  BY <1>1, <1>6
<1> QED
  BY <1>6, <1>7 DEF t

LEMMA ReconfigureAllValueKeeps ==
  ASSUME NEW r \in Registries, NEW l, NEW t, NEW v, IsEntry(l, t, v)
  PROVE  reconfigureAllValue(r, l, t, v) \in Registries
<1> DEFINE N == Len(InSomeOrder(r))
           X == {q \in Registries : DOMAIN q.loggers = DOMAIN r.loggers}
<1>1. N \in Nat /\ \A i \in 1..N : InSomeOrder(r)[i] \in DOMAIN r.loggers
  BY RegistryOrder, OrderFacts
<1>2. ASSUME NEW d \in X, NEW i \in 1..N
      PROVE  setAndReconfigure(d, InSomeOrder(r)[i], l, t, v) \in X
  <2> DEFINE id == InSomeOrder(r)[i]
  <2>1. d \in Registries /\ id \in DOMAIN d.loggers /\ DOMAIN d.loggers = DOMAIN r.loggers
    BY <1>1
  <2> HIDE DEF id
  <2>2. /\ setAndReconfigure(d, id, l, t, v) \in Registries
        /\ DOMAIN setAndReconfigure(d, id, l, t, v).loggers = DOMAIN d.loggers
    BY <2>1, SetAndReconfigureKeeps
  <2> QED
    BY <2>1, <2>2 DEF id
<1>3. r \in X
  OBVIOUS
<1>4. reconfigureAllValue(r, l, t, v) \in X
  <2> HIDE DEF X
  <2> QED
    BY <1>1, <1>2, <1>3, AllValueLoop
<1> QED
  BY <1>4

LEMMA ConfigureFromGlobalKeeps ==
  ASSUME NEW r \in Registries, NEW file \in Globals, NEW c \in FullLists
  PROVE  configureFromGlobal(r, file, c) \in Registries
<1>1. /\ Len(file) \in Nat
      /\ \A i \in 1..Len(file) : file[i].id \in Ids /\ IsText(file[i].lines)
  BY InputsAssumption
<1>2. ASSUME NEW d \in Registries, NEW i \in 1..Len(file)
      PROVE  configure(get(d, file[i].id, c), file[i].id,
                       parseFromText(Empty, file[i].lines).list) \in Registries
  <2> DEFINE id == file[i].id
             q == get(d, id, c)
             list == parseFromText(Empty, file[i].lines).list
  <2>1. q \in Registries /\ id \in DOMAIN q.loggers
    BY <1>1, GetKeeps
  <2>2. list \in Seq(Entries)
    <3>1. list \in Lists
      BY <1>1, EmptyList, ParseKeeps
    <3> QED
      BY <3>1, ListFacts
  <2> HIDE DEF id, q, list
  <2>3. Configured(q, configure(q, id, list), id, setFromBase(q.loggers[id].confs, list))
    BY <2>1, <2>2, ConfigureIs
  <2> QED
    BY <2>3 DEF Configured, id, q, list
<1> QED
  BY <1>1, <1>2, GlobalLoop

-----------------------------------------------------------------------------
(* The invariant is one.                                                   *)

\* The loggers' registry before its first logger.
Nothing == [loggers |-> Empty, streams |-> Empty, refs |-> Empty]

LEMMA NothingFits == Nothing \in Registries
<1>1. DOMAIN Empty = {} /\ \A V : Empty \in Seq(V) /\ Empty \in [{} -> V]
  <2>1. DOMAIN Empty = {} /\ \A V : Empty \in Seq(V)
    BY EmptyList DEF Empty
  <2> QED
    BY <2>1 DEF Empty
<1>2. Empty \in [{} -> Loggers] /\ {} \in SUBSET Ids /\ Empty \in Seq(Streams)
  BY <1>1
<1>3. Empty \in Refs
  BY <1>1 DEF Refs
<1>4. Nothing \in RegistryType
  BY <1>2, <1>3, RegistryFacts DEF Nothing
<1>5. FilesFit(Empty, Empty)
  BY <1>1, <1>3 DEF FilesFit
<1> QED
  BY <1>1, <1>4, <1>5 DEF Registries, Nothing

LEMMA InitStep ==
  ASSUME Init
  PROVE  IInv
<1>1. defaults \in FullLists
  BY ToDefaultKeeps DEF Init
<1>2. registry \in Registries
  BY <1>1, NothingFits, GetKeeps, RegistryAssumption DEF Init, Nothing
<1>3. user \in Lists
  BY EmptyList DEF Init
<1> QED
  BY <1>1, <1>2, <1>3 DEF IInv

LEMMA UserStep ==
  ASSUME IInv, UserOps
  PROVE  IInv'
<1>1. user \in Lists
  BY DEF IInv
<1>2. ASSUME NEW c \in Lists, Fill(c) PROVE IInv'
  BY <1>2 DEF Fill, IInv
<1>3. CASE SetUser
  <2>1. PICK s \in Settings : Fill(set(user, s[1], s[2], s[3]))
    BY <1>3 DEF SetUser
  <2>2. set(user, s[1], s[2], s[3]) \in Lists
    BY <1>1, InputsAssumption, GrowsNot, SetKeeps
  <2> QED
    BY <1>2, <2>1, <2>2
<1>4. CASE SetUserToDefault
  BY <1>1, <1>2, <1>4, ToDefaultKeeps DEF SetUserToDefault
<1>5. CASE SetUserRemaining
  BY <1>1, <1>2, <1>5, RemainingKeeps DEF SetUserRemaining
<1>6. CASE ParseText
  <2>1. PICK text \in Texts : Fill(parseFromText(user, text).list)
    BY <1>6 DEF ParseText
  <2>2. parseFromText(user, text).list \in Lists
    BY <1>1, InputsAssumption, ParseKeeps
  <2> QED
    BY <1>2, <2>1, <2>2
<1>7. CASE ClearUser
  BY <1>2, <1>7, EmptyList DEF ClearUser
<1> QED
  BY <1>3, <1>4, <1>5, <1>6, <1>7 DEF UserOps

LEMMA LoggersStep ==
  ASSUME IInv, LoggersOps
  PROVE  IInv'
<1>1. registry \in Registries /\ defaults \in FullLists /\ user \in Lists
  BY DEF IInv
<1>2. ASSUME NEW r \in Registries, Change(r) PROVE IInv'
  BY <1>2 DEF Change, IInv
<1>3. user \in Seq(Entries) /\ DOMAIN registry.loggers \subseteq Ids
  BY <1>1, ListFacts, RegistriesFacts
<1>4. CASE GetLogger
  BY <1>1, <1>2, <1>4, GetKeeps DEF GetLogger
<1>5. CASE Unregister
  BY <1>1, <1>2, <1>5, UnregisterKeeps DEF Unregister
<1>6. CASE ReconfigureLogger
  <2>1. PICK id \in Ids : Change(configure(get(registry, id, defaults), id, user))
    BY <1>6 DEF ReconfigureLogger
  <2> DEFINE r == get(registry, id, defaults)
  <2>2. r \in Registries /\ id \in DOMAIN r.loggers
    BY <1>1, GetKeeps
  <2> HIDE DEF r
  <2>3. Configured(r, configure(r, id, user), id, setFromBase(r.loggers[id].confs, user))
    BY <1>3, <2>2, ConfigureIs
  <2>4. configure(r, id, user) \in Registries
    BY <2>3 DEF Configured
  <2> QED
    BY <1>2, <2>1, <2>4 DEF r
<1>7. CASE ReconfigureLoggerValue
  <2>1. PICK id \in Ids, s \in Settings :
          Change(setAndReconfigure(get(registry, id, defaults), id, Global, s[2], s[3]))
    BY <1>7 DEF ReconfigureLoggerValue
  <2> DEFINE r == get(registry, id, defaults)
  <2>2. r \in Registries /\ id \in DOMAIN r.loggers
    BY <1>1, GetKeeps
  <2>3. IsEntry(Global, s[2], s[3])
    BY InputsAssumption, LevelFacts DEF IsEntry
  <2> HIDE DEF r
  <2>4. setAndReconfigure(r, id, Global, s[2], s[3]) \in Registries
    BY <2>2, <2>3, SetAndReconfigureKeeps
  <2> QED
    BY <1>2, <2>1, <2>4 DEF r
<1>8. CASE ReconfigureAllLoggers
  BY <1>1, <1>2, <1>8, ReconfigureAllIs DEF ReconfigureAllLoggers
<1>9. CASE ReconfigureAllLoggersValue
  <2>1. PICK s \in Settings : Change(reconfigureAllValue(registry, s[1], s[2], s[3]))
    BY <1>9 DEF ReconfigureAllLoggersValue
  <2>2. reconfigureAllValue(registry, s[1], s[2], s[3]) \in Registries
    BY <1>1, InputsAssumption, ReconfigureAllValueKeeps
  <2> QED
    BY <1>2, <2>1, <2>2
<1>10. CASE FlushAll
  BY <1>1, <1>2, <1>10, FlushAllKeeps DEF FlushAll
<1>11. CASE ConfigureFromGlobal
  BY <1>1, <1>2, <1>11, ConfigureFromGlobalKeeps DEF ConfigureFromGlobal
<1>12. CASE SetDefaultConfigurations
  <2>1. setFromBase(defaults, user) \in FullLists
    <3>1. defaults \in Lists
      BY <1>1 DEF FullLists
    <3> QED
      BY <1>1, <1>3, <3>1, FromBaseKeeps, FullStays
  <2>2. reconfigureAll(registry, user) \in Registries
    BY <1>1, ReconfigureAllIs
  <2> QED
    BY <1>1, <1>12, <2>1, <2>2 DEF SetDefaultConfigurations, IInv
<1> QED
  BY <1>4, <1>5, <1>6, <1>7, <1>8, <1>9, <1>10, <1>11, <1>12 DEF LoggersOps

LEMMA ArgumentsStep ==
  ASSUME IInv, SetApplicationArguments
  PROVE  IInv'
<1>1. registry \in Registries /\ defaults \in FullLists /\ user \in Lists
  BY DEF IInv
<1>2. PICK s \in Settings :
        /\ s[2] = "Filename"
        /\ defaults' = setFromBase(defaults, setGlobally(Empty, "Filename", s[3], FALSE))
        /\ registry' = reconfigureAll(registry, setGlobally(Empty, "Filename", s[3], FALSE))
        /\ user' = user
  BY DEF SetApplicationArguments
<1> DEFINE c == setGlobally(Empty, "Filename", s[3], FALSE)
<1>3. c \in Lists
  <2>1. IsEntry(Global, "Filename", s[3])
    BY <1>2, InputsAssumption, LevelFacts DEF IsEntry
  <2> QED
    BY <2>1, EmptyList, GloballyKeeps
<1>4. defaults' = setFromBase(defaults, c) /\ registry' = reconfigureAll(registry, c)
  BY <1>2
<1> HIDE DEF c
<1>5. registry' \in Registries
  BY <1>1, <1>3, <1>4, ReconfigureAllIs
<1>6. defaults' \in FullLists
  <2>1. c \in Seq(Entries) /\ defaults \in Lists
    BY <1>1, <1>3, ListFacts DEF FullLists
  <2> QED
    BY <1>1, <1>4, <2>1, FromBaseKeeps, FullStays
<1> QED
  BY <1>1, <1>2, <1>5, <1>6 DEF IInv

LEMMA PenduoStep ==
  ASSUME IInv, PenduoInit
  PROVE  IInv'
<1> DEFINE c == parseFromText(setToDefault(Empty), PenduoText).list
<1>1. registry \in Registries /\ defaults \in FullLists /\ user \in Lists
  BY DEF IInv
<1>2. registry' = reconfigureAll(registry, c) /\ defaults' = defaults /\ user' = user
  BY DEF PenduoInit
<1>3. c \in Lists
  BY EmptyList, ToDefaultKeeps, InputsAssumption, ParseKeeps
<1> HIDE DEF c
<1>4. registry' \in Registries
  BY <1>1, <1>2, <1>3, ReconfigureAllIs
<1> QED
  BY <1>1, <1>2, <1>4 DEF IInv

LEMMA WriteStep ==
  ASSUME IInv, Write
  PROVE  IInv'
<1>1. registry \in Registries /\ defaults \in FullLists /\ user \in Lists
  BY DEF IInv
<1>2. PICK id \in DOMAIN registry.loggers, l \in Levels : registry' = WriteLine(registry, id, l)
  BY DEF Write
<1>3. registry' \in Registries
  BY <1>1, <1>2, WriteLineKeeps
<1>4. defaults' = defaults /\ user' = user
  BY DEF Write
<1> QED
  BY <1>1, <1>3, <1>4 DEF IInv

-----------------------------------------------------------------------------

\* In every state that the registry reaches the files, the loggers' typed configurations
\* and their counts fit the lists and the streams: what the theorems below rest on.
THEOREM Invariance == Spec => []IInv
<1>1. Init => IInv
  BY InitStep
<1>2. IInv /\ [Next]_vars => IInv'
  <2> SUFFICES ASSUME IInv, [Next]_vars PROVE IInv'
    OBVIOUS
  <2>1. CASE UserOps
    BY <2>1, UserStep
  <2>2. CASE LoggersOps
    BY <2>2, LoggersStep
  <2>3. CASE SetApplicationArguments
    BY <2>3, ArgumentsStep
  <2>4. CASE PenduoInit
    BY <2>4, PenduoStep
  <2>5. CASE Write
    BY <2>5, WriteStep
  <2>6. CASE UNCHANGED vars
    BY <2>6 DEF vars, IInv
  <2> QED
    BY <2>1, <2>2, <2>3, <2>4, <2>5, <2>6 DEF Next
<1> QED
  BY <1>1, <1>2, PTL DEF Spec

\* Every lookup of a logger, at any level, says what its list of configurations says:
\* TypedConfigurations::build() forgets nothing, whatever was set, parsed and rebuilt before.
THEOREM TypedAgrees == Spec => []TypedAgree
<1>1. IInv => TypedAgree
  <2> SUFFICES ASSUME IInv, NEW id \in DOMAIN registry.loggers
               PROVE  SaysTheSame(registry.loggers[id].typed, registry.loggers[id].confs)
    BY DEF TypedAgree, SaysTheSame
  <2> QED
    BY RegistriesFacts DEF IInv, LoggerFits
<1> QED
  BY <1>1, Invariance, PTL

\* A file has one stream, for all the loggers and levels that name it, and a stream one file.
THEOREM FilesHaveOneStream == Spec => []OneStreamPerFile
<1>1. IInv => OneStreamPerFile
  <2> SUFFICES ASSUME IInv PROVE OneStreamPerFile
    OBVIOUS
  <2>1. registry \in Registries /\ FilesFit(registry.streams, registry.refs)
    BY RegistriesFacts DEF IInv
  <2>2. ASSUME NEW id \in DOMAIN registry.loggers, NEW l \in Levels
        PROVE  LET typed == registry.loggers[id].typed
                   n == fileStream(typed, l)
               IN  /\ n = registry.refs[filename(typed, l)]
                   /\ n # Null => registry.streams[n].file = filename(typed, l)
    <3> DEFINE typed == registry.loggers[id].typed
    <3>1. typed \in Typeds /\ registry.refs \in Refs /\ TypedFits(typed, registry.refs)
      BY <2>1, RegistriesFacts, FitsButFacts
    <3> HIDE DEF typed
    <3>2. /\ fileStream(typed, l) = registry.refs[filename(typed, l)]
          /\ fileStream(typed, l) # Null =>
               registry.streams[fileStream(typed, l)].file = filename(typed, l)
      BY <2>1, <3>1, StreamIsOpen
    <3> QED
      BY <3>2 DEF typed
  <2>3. ASSUME NEW m \in DOMAIN registry.streams, NEW n \in DOMAIN registry.streams,
               registry.streams[m].file = registry.streams[n].file
        PROVE  m = n
    BY <2>1, <2>3 DEF FilesFit
  <2> QED
    BY <2>2, <2>3 DEF OneStreamPerFile
<1> QED
  BY <1>1, Invariance, PTL

\* Of what a logger wrote into a stream, less waits to be flushed than the thresholds of
\* its levels there allow: no reconfiguration and no other logger's flush makes a count of
\* Logger::m_unflushedCount smaller than the lines it stands for.
THEOREM LossStaysBounded == Spec => []LossIsBounded
<1>1. IInv => LossIsBounded
  <2> SUFFICES ASSUME IInv, NEW id \in DOMAIN registry.loggers, NEW n \in DOMAIN registry.streams
               PROVE  registry.streams[n].pending[id]
                        <= SumFunctionOnSet([l \in Levels |->
                             Max({Lookup(registry.loggers[id].typed.maps["LogFlushThreshold"], l, 0), 1}) - 1],
                             {l \in Levels : fileStream(registry.loggers[id].typed, l) = n})
    BY DEF LossIsBounded
  <2> DEFINE logger == registry.loggers[id]
             held == [l \in Levels |->
                        Max({Lookup(logger.typed.maps["LogFlushThreshold"], l, 0), 1}) - 1]
             S == {l \in Levels : fileStream(logger.typed, l) = n}
  <2>1. /\ registry \in Registries /\ logger \in Loggers
        /\ CountsFit(logger, id, registry.streams)
    BY RegistriesFacts, FitsButFacts DEF IInv
  <2>2. /\ registry.streams[n].pending[id] \in Nat /\ IsFiniteSet(S)
        /\ \A l \in Levels : logger.unflushed[l] \in Nat
        /\ SumFunctionOnSet(logger.unflushed, S) \in Nat
        /\ registry.streams[n].pending[id] <= SumFunctionOnSet(logger.unflushed, S)
    BY <2>1, CountsSum
  <2>3. ASSUME NEW l \in S PROVE held[l] \in Nat /\ logger.unflushed[l] <= held[l]
    <3> DEFINE t == Threshold(logger.typed, l)
    <3>1. t \in Nat /\ logger.unflushed[l] \in Nat
      BY <2>1, LoggerFacts
    <3>2. logger.unflushed[l] < t \/ logger.unflushed[l] = 0
      BY <2>1 DEF CountsFit
    <3>3. held[l] = Max({t, 1}) - 1
      BY DEF Threshold
    <3> HIDE DEF t, held
    <3>4. Max({t, 1}) = IF t >= 1 THEN t ELSE 1
      <4>1. \E x \in {t, 1} : \A y \in {t, 1} : x >= y
        BY <3>1
      <4>2. Max({t, 1}) \in {t, 1} /\ \A y \in {t, 1} : Max({t, 1}) >= y
        BY <4>1 DEF Max
      <4> QED
        BY <3>1, <4>2
    <3> QED
      BY <3>1, <3>2, <3>3, <3>4
  <2>4. \A l \in S : logger.unflushed[l] \in Nat /\ held[l] \in Nat /\ logger.unflushed[l] <= held[l]
    BY <2>2, <2>3
  <2> HIDE DEF held, S
  <2>5. SumFunctionOnSet(logger.unflushed, S) <= SumFunctionOnSet(held, S)
    BY <2>2, <2>4, SumMonotone
  <2>6. SumFunctionOnSet(held, S) \in Nat
    BY <2>2, <2>4, SumIsNat
  <2>7. registry.streams[n].pending[id] <= SumFunctionOnSet(held, S)
    BY <2>2, <2>5, <2>6
  <2> QED
    BY <2>7 DEF held, S
<1> QED
  BY <1>1, Invariance, PTL

\* After Loggers::reconfigureAllLoggers() with an object whose global entries come first,
\* the list of every logger has every entry of the object.
THEOREM AllAreAsAsked == Spec => ConfiguredAsAsked
<1> DEFINE Asked == ReconfigureAllLoggers /\ GlobalFirst(user) =>
             \A id \in DOMAIN registry.loggers, i \in DOMAIN user :
               Says(registry'.loggers[id].confs, user[i].level, user[i].type) = user[i].value
<1>1. IInv => Asked
  <2> SUFFICES ASSUME IInv, ReconfigureAllLoggers, GlobalFirst(user),
                      NEW id \in DOMAIN registry.loggers, NEW i \in DOMAIN user
               PROVE  Says(registry'.loggers[id].confs, user[i].level, user[i].type) = user[i].value
    OBVIOUS
  <2>1. registry \in Registries /\ user \in Lists /\ registry' = reconfigureAll(registry, user)
    BY DEF IInv, ReconfigureAllLoggers, Change
  <2>2. /\ registry' \in Registries /\ id \in DOMAIN registry'.loggers
        /\ AsAsked(registry', id, user)
    BY <2>1, ReconfigureAllIs
  <2>3. i \in 1..Len(user)
    BY <2>1, ListFacts
  <2>4. Has(registry'.loggers[id].confs, user[i].level, user[i].type, user[i].value)
    BY <2>2, <2>3 DEF AsAsked
  <2>5. registry'.loggers[id].confs \in Lists
    <3>1. registry'.loggers[id] \in Loggers
      BY <2>2, RegistriesFacts, RegistryFacts
    <3> QED
      BY <3>1, LoggerFacts
  <2> QED
    BY <2>4, <2>5, HasSays
<1>2. IInv => [Asked]_vars
  BY <1>1
<1> QED
  BY <1>2, Invariance, PTL DEF ConfiguredAsAsked
=============================================================================
