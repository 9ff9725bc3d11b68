--------------------------- MODULE LoggingProofs ----------------------------
(***************************************************************************)
(* Proofs about Logging, for any threads, programs, loggers and flags.     *)
(* Where ELPP_THREAD_SAFE is defined, the lock of a logger keeps the       *)
(* messages of a stream whole and the configurations that a Writer reads   *)
(* in place, and that of Storage keeps the callbacks apart; and the sites  *)
(* of the occasional macros, each visit of which is one step under the     *)
(* lock of their counters, write the lines they should. With locks or      *)
(* without, the search and replace that makes a line leaves its message    *)
(* as it is.                                                               *)
(***************************************************************************)
EXTENDS Logging, CommonLemmas

Tokens == (Threads \X Nat) \cup UNION {Range(s.quote) : s \in AllStatements}

\* What a stream gathers is made of whole parts, and so ends as a quote or a part does.
QuotesEndPlain == \A s \in AllStatements : EndsPlain(s.quote)
Messages == {m \in Seq(Tokens) : QuotesEndPlain => EndsPlain(m)}

\* What the library says itself.
Own == {OwnMessage(level).stmt : level \in {"Debug", "Warning"}}
Statements == AllStatements \cup Own

\* Where a Writer that has found its logger has it locked, and where none is found yet.
Locked == {"arguments", "stream", "process", "dispatch", "callbacks", "release"}
Unwritten == {"verbosity", "init", "site", "acquire", "construct"}
Places == Locked \cup Unwritten \cup {"abort", "next"}

\* A message of the library is constructed at once, and only the member functions of
\* Logger bring values.
Writers ==
  {w \in [stmt : Statements, at : Places, k : Nat, logger : AllIds \cup {NoLogger},
          proceed : BOOLEAN, part : Nat, message : Messages, saved : Messages,
          firstDispatched : BOOLEAN, left : SUBSET Callbacks] :
     /\ w.k \in 1..Len(w.stmt.ids)
     /\ w.proceed => w.logger # NoLogger
     /\ w.at \in {"verbosity", "init", "site", "acquire", "arguments"} => w.stmt \in AllStatements
     /\ w.at = "arguments" => Member(w.stmt) /\ w.logger # NoLogger /\ w.k = 1
     /\ w.at = "acquire" => Member(w.stmt) /\ w.k = 1
     /\ w.at \in {"dispatch", "callbacks"} => w.logger # NoLogger}

TypeOK ==
  /\ todo \in [Threads -> Seq(AllStatements)]
  /\ writers \in [Threads -> Seq(Writers)]
  /\ stream \in [AllIds -> Messages]
  /\ owner \in [AllIds -> Threads \cup {NoThread}]
  /\ dispatcher \in Threads \cup {NoThread}
  /\ registered \subseteq AllIds /\ pending \subseteq AllIds
  /\ counters \in [Sites -> Nat] /\ visits \in [Sites -> Nat] /\ written \in [Sites -> Nat]
  /\ init \in Threads \cup {"no", "done"}
  /\ replacing \in AllIds \cup {NoLogger}
  /\ aborted \in BOOLEAN

Holds(w) == w.logger # NoLogger /\ w.at \in Locked

\* What the stream of its logger, and then its message, has of the parts of a Writer.
Gathered(t, w, streams) ==
  LET said == Said(t, w.stmt)
      whole == said[w.stmt.parts]
  IN  /\ w.saved \in {<<>>, whole}
      /\ w.k = 1 => /\ w.at \in Unwritten => w.part = 0
                    /\ w.at \in Unwritten \cup {"arguments", "stream", "process"} => ~w.firstDispatched
      /\ w.at = "arguments" =>
           w.part <= w.stmt.args /\ streams[w.logger] = said[w.part]
      /\ w.at = "stream" => w.k = 1
      /\ w.at = "stream" /\ w.proceed =>
           w.part <= w.stmt.parts /\ streams[w.logger] = said[w.part]
      /\ w.at = "process" /\ w.proceed =>
           streams[w.logger] = IF w.k = 1 THEN whole ELSE <<>>
      /\ w.at \in {"dispatch", "callbacks"} =>
           w.message = whole \/ (w.message = <<>> /\ w.k > 1)

\* A Writer of t has the locks of the places it is at.
WriterKept(t, w, streams, owners, dispatchedBy) ==
  /\ Holds(w) => owners[w.logger] = t
  /\ w.proceed => Holds(w)
  /\ w.at = "callbacks" => dispatchedBy = t
  /\ Gathered(t, w, streams)

\* One that another Writer of its thread goes before has no lock and writes nothing.
Suspended(w) == ~w.proceed /\ ~Holds(w) /\ w.at # "callbacks"

StackKept(t, q, streams, owners, dispatchedBy) ==
  \A i \in 1..Len(q) :
    /\ WriterKept(t, q[i], streams, owners, dispatchedBy)
    /\ i < Len(q) => Suspended(q[i])

WritersKept ==
  \A t \in Threads : StackKept(t, writers[t], stream, owner, dispatcher)

\* A logger that nobody has locked has an empty stream.
FreeIsEmpty == \A id \in AllIds : owner[id] = NoThread => stream[id] = <<>>

\* The thread that runs Logger::Init() is at a line of its own that waits for it, and has
\* locked the logger whose configurations it replaces.
WaitsForInit(q) == q # <<>> /\ q[Len(q)].at = "init" /\ ~q[Len(q)].stmt.sys

InitKept ==
  /\ init \in Threads => WaitsForInit(writers[init])
  /\ replacing # NoLogger =>
       init \in Threads /\ owner[replacing] = init /\ stream[replacing] = <<>>

LocksKept ==
  /\ WritersKept
  /\ FreeIsEmpty
  /\ InitKept

\* The counter of a site has gone as far into its phase of n as the visits, or as far as
\* n; and so the lines are those that OccasionsKept counts.
SiteCounted(occasion, n, h, seen, lines) ==
  /\ occasion = "every" /\ n \in 1..KMax =>
       h <= KMax /\ h % n = seen % n /\ lines = seen \div n
  /\ occasion = "after" =>
       /\ h = IF seen > n THEN n ELSE seen
       /\ lines = IF seen > n THEN seen - n ELSE 0
  /\ occasion = "times" =>
       /\ h = seen
       /\ lines = IF seen > n THEN n ELSE seen

SitesKept ==
  \A s \in AllStatements :
    SiteCounted(s.occasion, s.n, counters[s.site], visits[s.site], written[s.site])

IInv ==
  /\ TypeOK
  /\ ThreadSafe => LocksKept
  /\ SitesKept

-----------------------------------------------------------------------------
(* The loops of LogFormat.                                                 *)

\* f has what the loop has after each round.
WithoutRounds(f, s, places) ==
  /\ f[0] = <<>> /\ f[Len(Indexes(s))] = Without(s, places)
  /\ \A i \in 1..Len(Indexes(s)) : f[i] = (IF Indexes(s)[i] \in places THEN f[i - 1]
                      ELSE Append(f[i - 1], s[Indexes(s)[i]]))

\* The loop that leaves tokens out.
LEMMA WithoutLoop ==
  ASSUME NEW X,
         NEW s,
         NEW places,
         Len(Indexes(s)) \in Nat,
         <<>> \in X,
         \A d \in X, i \in 1..Len(Indexes(s)) : (IF Indexes(s)[i] \in places THEN d
                      ELSE Append(d, s[Indexes(s)[i]])) \in X
  PROVE  /\ Without(s, places) \in X
         /\ \E f \in [0..Len(Indexes(s)) -> X] : WithoutRounds(f, s, places)
<1> DEFINE N == Len(Indexes(s))
           start == <<>>
           Op(d, i) == (IF Indexes(s)[i] \in places THEN d
                      ELSE Append(d, s[Indexes(s)[i]]))
           Iterates(g) ==
             g = [i \in 0..N |-> IF i = 0 THEN start ELSE <<g[i - 1], Op(g[i - 1], i)>>[2]]
           f == CHOOSE g : Iterates(g)
           op == [i \in 1..N |-> [d \in X |-> Op(d, i)]]
<1>1. Without(s, places) = f[N]
  BY DEF Without, Loop
<1>2. N \in Nat /\ start \in X /\ \A d \in X, i \in 1..N : Op(d, i) \in X
  OBVIOUS
<1> HIDE DEF Op, N, start
<1>3. op \in [1..N -> [X -> X]] /\ \A i \in 1..N, d \in X : op[i][d] = Op(d, i)
  BY <1>2
<1> HIDE DEF op
<1>4. \E g : Iterates(g)
  <2>1. Iterable(X, start, op, N)
    BY <1>2, <1>3, LoopExists
  <2>2. PICK g \in [0..N -> X] : g[0] = start /\ \A i \in 1..N : g[i] = op[i][g[i - 1]]
    BY <2>1 DEF Iterable
  <2>3. \A i \in 1..N : i - 1 \in 0..N
    BY <1>2
  <2>4. \A i \in 1..N : g[i] = Op(g[i - 1], i)
    BY <1>3, <2>2, <2>3
  <2>5. \A i \in 0..N : i = 0 \/ i \in 1..N
    BY <1>2
  <2> QED
    BY <2>2, <2>4, <2>5
<1>5. Iterates(f)
  BY <1>4
<1> HIDE DEF f
<1>6. f[0] = start /\ \A i \in 1..N : f[i] = Op(f[i - 1], i)
  BY <1>2, <1>5
<1>7. \A i \in 0..N : f[i] \in X
  <2>1. \A i \in 1..N : f[i - 1] \in X => f[i] \in X
    BY <1>2, <1>6
  <2> QED
    BY <1>2, <1>6, <2>1, LoopKeeps
<1>8. f[N] \in X
  BY <1>2, <1>7
<1>9. f \in [0..N -> X]
  BY <1>5, <1>7
<1> QED
  BY <1>1, <1>6, <1>8, <1>9 DEF N, Op, start, WithoutRounds

\* f has what the loop has after each round.
OwnRounds(f, lf, level, v, message) ==
  /\ f[0] = lf.format /\ f[Len(Built)] = buildOwn(lf, level, v, message)
  /\ \A i \in 1..Len(Built) : f[i] = buildOne(lf, level, v, message, f[i - 1], Built[i])

\* The loop of build() over its specifiers.
LEMMA OwnLoop ==
  ASSUME NEW X,
         NEW lf,
         NEW level,
         NEW v,
         NEW message,
         Len(Built) \in Nat,
         lf.format \in X,
         \A d \in X, i \in 1..Len(Built) : buildOne(lf, level, v, message, d, Built[i]) \in X
  PROVE  /\ buildOwn(lf, level, v, message) \in X
         /\ \E f \in [0..Len(Built) -> X] : OwnRounds(f, lf, level, v, message)
<1> DEFINE N == Len(Built)
           start == lf.format
           Op(d, i) == buildOne(lf, level, v, message, d, Built[i])
           Iterates(g) ==
             g = [i \in 0..N |-> IF i = 0 THEN start ELSE <<g[i - 1], Op(g[i - 1], i)>>[2]]
           f == CHOOSE g : Iterates(g)
           op == [i \in 1..N |-> [d \in X |-> Op(d, i)]]
<1>1. buildOwn(lf, level, v, message) = f[N]
  BY DEF buildOwn, Loop
<1>2. N \in Nat /\ start \in X /\ \A d \in X, i \in 1..N : Op(d, i) \in X
  OBVIOUS
<1> HIDE DEF Op, N, start
<1>3. op \in [1..N -> [X -> X]] /\ \A i \in 1..N, d \in X : op[i][d] = Op(d, i)
  BY <1>2
<1> HIDE DEF op
<1>4. \E g : Iterates(g)
  <2>1. Iterable(X, start, op, N)
    BY <1>2, <1>3, LoopExists
  <2>2. PICK g \in [0..N -> X] : g[0] = start /\ \A i \in 1..N : g[i] = op[i][g[i - 1]]
    BY <2>1 DEF Iterable
  <2>3. \A i \in 1..N : i - 1 \in 0..N
    BY <1>2
  <2>4. \A i \in 1..N : g[i] = Op(g[i - 1], i)
    BY <1>3, <2>2, <2>3
  <2>5. \A i \in 0..N : i = 0 \/ i \in 1..N
    BY <1>2
  <2> QED
    BY <2>2, <2>4, <2>5
<1>5. Iterates(f)
  BY <1>4
<1> HIDE DEF f
<1>6. f[0] = start /\ \A i \in 1..N : f[i] = Op(f[i - 1], i)
  BY <1>2, <1>5
<1>7. \A i \in 0..N : f[i] \in X
  <2>1. \A i \in 1..N : f[i - 1] \in X => f[i] \in X
    BY <1>2, <1>6
  <2> QED
    BY <1>2, <1>6, <2>1, LoopKeeps
<1>8. f[N] \in X
  BY <1>2, <1>7
<1>9. f \in [0..N -> X]
  BY <1>5, <1>7
<1> QED
  BY <1>1, <1>6, <1>8, <1>9 DEF N, Op, start, OwnRounds

-----------------------------------------------------------------------------
(* Search and replace.                                                     *)

\* The indexes of a sequence, in their order.
LEMMA IndexesAre ==
  ASSUME NEW T, NEW s \in Seq(T)
  PROVE  /\ Len(Indexes(s)) = Len(s) /\ Len(s) \in Nat
         /\ \A i \in 1..Len(s) : Indexes(s)[i] = i
<1>1. DOMAIN s = 1..Len(s) /\ Len(s) \in Nat
  OBVIOUS
<1>2. Indexes(s) \in [1..Len(s) -> Nat]
  BY <1>1 DEF Indexes
<1>3. Indexes(s) \in Seq(Nat)
  BY <1>1, <1>2, IsASeq
<1>4. DOMAIN Indexes(s) = 1..Len(Indexes(s)) /\ Len(Indexes(s)) \in Nat
  BY <1>3
<1>5. 1..Len(Indexes(s)) = 1..Len(s)
  BY <1>2, <1>4
<1>6. Len(Indexes(s)) = Len(s)
  <2>1. \A m, n \in Nat : 1..m = 1..n => m <= n
    <3> SUFFICES ASSUME NEW m \in Nat, NEW n \in Nat, 1..m = 1..n, m > n PROVE FALSE
      OBVIOUS
    <3>1. m \in 1..m
      OBVIOUS
    <3>2. m \in 1..n
      BY <3>1
    <3> QED
      BY <3>2
  <2>2. Len(Indexes(s)) <= Len(s) /\ Len(s) <= Len(Indexes(s))
    BY <1>1, <1>4, <1>5, <2>1
  <2>3. \A m, n \in Nat : m <= n /\ n <= m => m = n
    OBVIOUS
  <2>4. Len(s) \in Nat /\ Len(Indexes(s)) \in Nat
    BY <1>1, <1>4
  <2> QED
    BY <2>2, <2>3, <2>4
<1> QED
  BY <1>1, <1>6 DEF Indexes

\* Where s has the specifier unescaped.
Plain(s, name) == {i \in 1..Len(s) : s[i] = Spec_(name) /\ ~Escaped(s, i)}

\* The search finds the first unescaped occurrence if there is one.
LEMMA FirstPlainIs ==
  ASSUME NEW T, NEW s \in Seq(T), NEW name
  PROVE  /\ FirstPlain(s, name) \in 1..(Len(s) + 1)
         /\ FirstPlain(s, name) <= Len(s) => FirstPlain(s, name) \in Plain(s, name)
         /\ \A i \in Plain(s, name) : FirstPlain(s, name) <= i
         /\ Has(s, name) <=> Plain(s, name) # {}
<1> DEFINE S == Plain(s, name) \cup {Len(s) + 1}
           p == FirstPlain(s, name)
<1>1. Len(s) \in Nat /\ DOMAIN s = 1..Len(s)
  OBVIOUS
<1>2. p = Min(S)
  BY <1>1 DEF FirstPlain, Occurrences, Plain
<1>3. S \in SUBSET Nat /\ S # {} /\ S \subseteq 1..(Len(s) + 1)
  BY <1>1 DEF Plain
<1>4. p \in S /\ \A j \in S : p <= j
  <2> HIDE DEF S, p
  <2>1. \E i \in S : \A j \in S : i <= j
    BY <1>3, NatLeast
  <2> QED
    BY <1>2, <2>1 DEF Min
<1>5. \A i \in Plain(s, name) : i \in 1..Len(s)
  BY DEF Plain
<1> HIDE DEF p
<1>6. p \in 1..(Len(s) + 1)
  BY <1>3, <1>4
<1>7. p <= Len(s) => p \in Plain(s, name)
  BY <1>1, <1>4
<1>8. \A i \in Plain(s, name) : p <= i
  BY <1>4
<1>9. p <= Len(s) <=> Plain(s, name) # {}
  <2>1. ASSUME Plain(s, name) # {} PROVE p <= Len(s)
    <3>1. PICK i \in Plain(s, name) : TRUE
      BY <2>1
    <3> QED
      BY <1>1, <1>5, <1>6, <1>8, <3>1
  <2> QED
    BY <1>7, <2>1
<1> QED
  BY <1>6, <1>7, <1>8, <1>9 DEF p, Has

\* f has what is kept of every beginning of s.
WithoutSteps(f, s, places) ==
  /\ f[0] = <<>> /\ f[Len(s)] = Without(s, places)
  /\ \A i \in 1..Len(s) : f[i] = IF i \in places THEN f[i - 1] ELSE Append(f[i - 1], s[i])

\* Without goes from one beginning of s to the next, and takes sequences to sequences.
LEMMA WithoutTyped ==
  ASSUME NEW T, NEW s \in Seq(T), NEW places
  PROVE  /\ Without(s, places) \in Seq(T)
         /\ \E f \in [0..Len(s) -> Seq(T)] : WithoutSteps(f, s, places)
<1> DEFINE X == Seq(T)
<1>1. /\ Len(Indexes(s)) = Len(s) /\ Len(s) \in Nat
      /\ \A i \in 1..Len(s) : Indexes(s)[i] = i
  BY IndexesAre
<1>2. \A i \in 1..Len(s) : s[i] \in T
  OBVIOUS
<1>3. <<>> \in X
  BY EmptySeq
<1>4. \A d \in X, i \in 1..Len(Indexes(s)) :
        (IF Indexes(s)[i] \in places THEN d ELSE Append(d, s[Indexes(s)[i]])) \in X
  <2> SUFFICES ASSUME NEW d \in X, NEW i \in 1..Len(s) PROVE Append(d, s[i]) \in X
    BY <1>1
  <2> QED
    BY <1>2, AppendProperties
<1> HIDE DEF X
<1>5. /\ Without(s, places) \in X
      /\ \E f \in [0..Len(Indexes(s)) -> X] : WithoutRounds(f, s, places)
  BY <1>1, <1>3, <1>4, WithoutLoop
<1>6. PICK f \in [0..Len(s) -> X] : WithoutRounds(f, s, places)
  BY <1>1, <1>5
<1>7. WithoutSteps(f, s, places)
  BY <1>1, <1>6 DEF WithoutRounds, WithoutSteps
<1> QED
  BY <1>5, <1>6, <1>7 DEF X

\* A sequence that keeps its last token ends as before.
LEMMA WithoutLast ==
  ASSUME NEW T, NEW s \in Seq(T), NEW places, s # <<>>, Len(s) \notin places
  PROVE  Without(s, places) # <<>> /\ Without(s, places)[Len(Without(s, places))] = s[Len(s)]
<1>1. PICK f \in [0..Len(s) -> Seq(T)] : WithoutSteps(f, s, places)
  BY WithoutTyped
<1>2. Len(s) \in 1..Len(s) /\ Len(s) - 1 \in 0..Len(s) /\ s[Len(s)] \in T
  BY EmptySeq
<1>3. Without(s, places) = Append(f[Len(s) - 1], s[Len(s)]) /\ f[Len(s) - 1] \in Seq(T)
  BY <1>1, <1>2 DEF WithoutSteps
<1> QED
  BY <1>2, <1>3, AppendProperties

\* What is unescaped in a sequence stays so when another follows it,
LEMMA PlainBefore ==
  ASSUME NEW T, NEW a \in Seq(T), NEW b \in Seq(T), NEW name, Plain(a, name) # {}
  PROVE  Plain(a \o b, name) # {}
<1>1. PICK i \in 1..Len(a) : a[i] = Spec_(name) /\ ~Escaped(a, i)
  BY DEF Plain
<1>2. /\ Len(a \o b) = Len(a) + Len(b) /\ Len(a) \in Nat /\ Len(b) \in Nat
      /\ \A j \in 1..Len(a) : (a \o b)[j] = a[j]
  BY ConcatProperties
<1>3. i \in 1..Len(a \o b) /\ (a \o b)[i] = Spec_(name)
  BY <1>1, <1>2
<1>4. ~Escaped(a \o b, i)
  <2>1. i > 1 => i - 1 \in 1..Len(a)
    BY <1>2
  <2> QED
    BY <1>1, <1>2, <2>1 DEF Escaped
<1> QED
  BY <1>3, <1>4 DEF Plain

\* and when one goes before it that does not end with the escape.
LEMMA PlainBehind ==
  ASSUME NEW T, NEW a \in Seq(T), NEW b \in Seq(T), NEW name, Plain(b, name) # {}, EndsPlain(a)
  PROVE  Plain(a \o b, name) # {}
<1>1. PICK i \in 1..Len(b) : b[i] = Spec_(name) /\ ~Escaped(b, i)
  BY DEF Plain
<1>2. /\ Len(a \o b) = Len(a) + Len(b) /\ Len(a) \in Nat /\ Len(b) \in Nat
      /\ \A j \in 1..Len(a) : (a \o b)[j] = a[j]
      /\ \A j \in 1..Len(b) : (a \o b)[Len(a) + j] = b[j]
  BY ConcatIs
<1> DEFINE k == Len(a) + i
<1>3. k \in 1..Len(a \o b) /\ (a \o b)[k] = Spec_(name)
  BY <1>1, <1>2
<1>4. ~Escaped(a \o b, k)
  <2>1. CASE i > 1
    <3>1. i - 1 \in 1..Len(b) /\ k - 1 = Len(a) + (i - 1)
      BY <1>2, <2>1
    <3> QED
      BY <1>1, <1>2, <2>1, <3>1 DEF Escaped
  <2>2. CASE i = 1 /\ a = <<>>
    BY <2>2 DEF Escaped
  <2>3. CASE i = 1 /\ a # <<>>
    <3>1. Len(a) \in 1..Len(a) /\ k - 1 = Len(a)
      BY <1>2, <2>3, EmptySeq
    <3> QED
      BY <1>2, <2>3, <3>1 DEF Escaped, EndsPlain
  <2> QED
    BY <1>1, <2>1, <2>2, <2>3
<1> QED
  BY <1>3, <1>4 DEF Plain

\* Where only escapes are left out, what was unescaped stays so: it is no escape itself, nor
\* is what stands before it.
LEMMA WithoutKeepsPlain ==
  ASSUME NEW T, NEW s \in Seq(T), NEW places, NEW name, Plain(s, name) # {},
         \A i \in places \cap (1..Len(s)) : s[i] = Percent
  PROVE  Plain(Without(s, places), name) # {}
<1>1. PICK i \in 1..Len(s) : s[i] = Spec_(name) /\ ~Escaped(s, i)
  BY DEF Plain
<1>2. PICK f \in [0..Len(s) -> Seq(T)] : WithoutSteps(f, s, places)
  BY WithoutTyped
<1>3. Len(s) \in Nat /\ \A j \in 1..Len(s) : s[j] \in T
  OBVIOUS
<1>4. Spec_(name) # Percent
  BY DEF Spec_, Percent
<1>5. EndsPlain(f[i - 1])
  <2>1. CASE i = 1
    BY <1>2, <2>1 DEF EndsPlain, WithoutSteps
  <2>2. CASE i > 1
    <3>1. i - 1 \in 1..Len(s) /\ (i - 1) - 1 \in 0..Len(s) /\ s[i - 1] # Percent
      BY <1>1, <2>2 DEF Escaped
    <3>2. f[i - 1] = Append(f[(i - 1) - 1], s[i - 1]) /\ f[(i - 1) - 1] \in Seq(T) /\ s[i - 1] \in T
      BY <1>2, <1>3, <3>1 DEF WithoutSteps
    <3>3. f[i - 1][Len(f[i - 1])] = s[i - 1]
      BY <3>2, AppendProperties
    <3> QED
      BY <3>1, <3>3 DEF EndsPlain
  <2> QED
    BY <2>1, <2>2
<1>6. Plain(f[i], name) # {}
  <2>1. i - 1 \in 0..Len(s) /\ i \notin places /\ s[i] \in T
    BY <1>1, <1>3, <1>4
  <2>2. f[i] = Append(f[i - 1], s[i]) /\ f[i - 1] \in Seq(T)
    BY <1>2, <2>1 DEF WithoutSteps
  <2>3. f[i] = f[i - 1] \o <<s[i]>>
    BY <2>1, <2>2, AppendIsConcat
  <2>4. <<s[i]>> \in Seq(T) /\ Len(<<s[i]>>) = 1 /\ <<s[i]>>[1] = Spec_(name)
    BY <1>1, <2>1
  <2>5. 1 \in Plain(<<s[i]>>, name)
    BY <2>4 DEF Plain, Escaped
  <2> QED
    BY <1>5, <2>2, <2>3, <2>4, <2>5, PlainBehind
<1> DEFINE S == {j \in Nat : j \in i..Len(s) => Plain(f[j], name) # {}}
<1>7. ASSUME NEW j \in Nat, j \in S PROVE j + 1 \in S
  <2> SUFFICES ASSUME j + 1 \in i..Len(s) PROVE Plain(f[j + 1], name) # {}
    OBVIOUS
  <2>1. CASE j + 1 = i
    BY <1>6, <2>1
  <2>2. CASE j + 1 # i
    <3>1. j + 1 \in 1..Len(s) /\ (j + 1) - 1 = j /\ j \in i..Len(s) /\ j \in 0..Len(s)
      BY <2>2
    <3>2. Plain(f[j], name) # {} /\ f[j] \in Seq(T)
      BY <1>2, <1>7, <3>1
    <3>3. f[j + 1] = IF j + 1 \in places THEN f[j] ELSE Append(f[j], s[j + 1])
      BY <1>2, <3>1 DEF WithoutSteps
    <3>4. s[j + 1] \in T /\ Append(f[j], s[j + 1]) = f[j] \o <<s[j + 1]>> /\ <<s[j + 1]>> \in Seq(T)
      BY <1>3, <3>1, <3>2, AppendIsConcat
    <3> QED
      BY <3>2, <3>3, <3>4, PlainBefore
  <2> QED
    BY <2>1, <2>2
<1>8. 0 \in S
  OBVIOUS
<1>9. Nat \subseteq S
  <2> HIDE DEF S
  <2> QED
    BY <1>7, <1>8, NatInduct
<1>10. Plain(f[Len(s)], name) # {}
  BY <1>3, <1>9
<1> QED
  BY <1>2, <1>10 DEF WithoutSteps

\* Without is about the places of its sequence only, and goes through two sequences in turn.
LEMMA WithoutConcat ==
  ASSUME NEW T, NEW a \in Seq(T), NEW b \in Seq(T), NEW P, NEW Q, NEW R,
         \A i \in 1..Len(a) : i \in P <=> i \in Q,
         \A i \in 1..Len(b) : Len(a) + i \in P <=> i \in R
  PROVE  Without(a \o b, P) = Without(a, Q) \o Without(b, R)
<1>0. \A u, v \in Seq(T), e \in T : Append(u \o v, e) = u \o Append(v, e)
  <2> SUFFICES ASSUME NEW u \in Seq(T), NEW v \in Seq(T), NEW e \in T
               PROVE  Append(u \o v, e) = u \o Append(v, e)
    OBVIOUS
  <2>1. u \o v \in Seq(T) /\ <<e>> \in Seq(T)
    BY ConcatProperties
  <2>2. Append(u \o v, e) = (u \o v) \o <<e>>
    BY <2>1, AppendIsConcat
  <2>3. Append(v, e) = v \o <<e>>
    BY AppendIsConcat
  <2>4. (u \o v) \o <<e>> = u \o (v \o <<e>>)
    BY <2>1, ConcatAssociative
  <2> QED
    BY <2>2, <2>3, <2>4
<1> DEFINE c == a \o b
           n == Len(a)
           m == Len(b)
<1>1. n \in Nat /\ m \in Nat /\ \A i \in 1..m : b[i] \in T
  OBVIOUS
<1>2. /\ c \in Seq(T) /\ Len(c) = n + m
      /\ \A i \in 1..n : c[i] = a[i]
      /\ \A i \in 1..m : c[n + i] = b[i]
  BY ConcatIs
<1>3. PICK f \in [0..Len(c) -> Seq(T)] : WithoutSteps(f, c, P)
  BY <1>2, WithoutTyped
<1>4. PICK g \in [0..n -> Seq(T)] : WithoutSteps(g, a, Q)
  BY WithoutTyped
<1>5. PICK h \in [0..m -> Seq(T)] : WithoutSteps(h, b, R)
  BY WithoutTyped
<1> HIDE DEF c
<1>6. /\ f[0] = <<>> /\ f[n + m] = Without(c, P)
      /\ \A i \in 1..(n + m) : f[i] = IF i \in P THEN f[i - 1] ELSE Append(f[i - 1], c[i])
  BY <1>2, <1>3 DEF WithoutSteps
<1>7. /\ g[0] = <<>> /\ g[n] = Without(a, Q)
      /\ \A i \in 1..n : g[i] = IF i \in Q THEN g[i - 1] ELSE Append(g[i - 1], a[i])
  BY <1>4 DEF WithoutSteps
<1>8. /\ h[0] = <<>> /\ h[m] = Without(b, R)
      /\ \A i \in 1..m : h[i] = IF i \in R THEN h[i - 1] ELSE Append(h[i - 1], b[i])
  BY <1>5 DEF WithoutSteps
<1>9. (\A i \in 1..n : i \in P <=> i \in Q) /\ \A i \in 1..m : n + i \in P <=> i \in R
  OBVIOUS
<1> HIDE DEF n, m
<1>10. f[n] = g[n]
  <2> DEFINE same == {i \in 0..n : f[i] = g[i]}
  <2>1. 0 \in same
    BY <1>1, <1>6, <1>7
  <2>2. ASSUME NEW i \in 1..n, i - 1 \in same PROVE i \in same
    <3>1. i \in 1..(n + m) /\ i - 1 \in 0..n /\ i \in 0..n
      BY <1>1
    <3>2. f[i - 1] = g[i - 1]
      BY <2>2, <3>1
    <3>3. f[i] = IF i \in P THEN f[i - 1] ELSE Append(f[i - 1], c[i])
      BY <1>6, <3>1
    <3>4. g[i] = IF i \in Q THEN g[i - 1] ELSE Append(g[i - 1], a[i])
      BY <1>7
    <3>5. c[i] = a[i]
      BY <1>2
    <3>6. f[i] = g[i]
      BY <1>9, <3>2, <3>3, <3>4, <3>5
    <3> QED
      BY <3>1, <3>6
  <2> HIDE DEF same
  <2>3. \A i \in 0..n : i \in same
    BY <1>1, <2>1, <2>2, RoundsInduct
  <2>4. n \in 0..n
    BY <1>1
  <2> QED
    BY <2>3, <2>4 DEF same
<1>11. f[n + m] = g[n] \o h[m]
  <2> DEFINE joined == {i \in 0..m : f[n + i] = g[n] \o h[i]}
  <2>1. g[n] \in Seq(T)
    BY <1>1, <1>4
  <2>2. 0 \in joined
    <3>1. n + 0 = n /\ 0 \in 0..m /\ g[n] \o <<>> = g[n]
      BY <1>1, <2>1, ConcatEmptySeq
    <3> QED
      BY <1>8, <1>10, <3>1
  <2>3. ASSUME NEW i \in 1..m, i - 1 \in joined PROVE i \in joined
    <3>1. n + i \in 1..(n + m) /\ (n + i) - 1 = n + (i - 1) /\ i - 1 \in 0..m /\ i \in 0..m
      BY <1>1
    <3>2. f[n + (i - 1)] = g[n] \o h[i - 1] /\ h[i - 1] \in Seq(T)
      BY <1>5, <2>3, <3>1
    <3>3. f[n + i] = IF n + i \in P THEN f[n + (i - 1)] ELSE Append(f[n + (i - 1)], c[n + i])
      BY <1>6, <3>1
    <3>4. h[i] = IF i \in R THEN h[i - 1] ELSE Append(h[i - 1], b[i])
      BY <1>8
    <3>5. c[n + i] = b[i] /\ b[i] \in T
      BY <1>1, <1>2
    <3>6. Append(g[n] \o h[i - 1], b[i]) = g[n] \o Append(h[i - 1], b[i])
      <4> DEFINE u == g[n]
                 v == h[i - 1]
                 e == b[i]
      <4>1. u \in Seq(T) /\ v \in Seq(T) /\ e \in T
        BY <2>1, <3>2, <3>5
      <4> HIDE DEF u, v, e
      <4>2. Append(u \o v, e) = u \o Append(v, e)
        BY <1>0, <4>1
      <4> QED
        BY <4>2 DEF u, v, e
    <3>7. f[n + i] = g[n] \o h[i]
      BY <1>9, <3>2, <3>3, <3>4, <3>5, <3>6
    <3> QED
      BY <3>1, <3>7
  <2> HIDE DEF joined
  <2>4. \A i \in 0..m : i \in joined
    BY <1>1, <2>2, <2>3, RoundsInduct
  <2>5. m \in 0..m
    BY <1>1
  <2> QED
    BY <2>4, <2>5 DEF joined
<1> QED
  BY <1>6, <1>7, <1>8, <1>11 DEF c

\* Nothing left out.
LEMMA WithoutNone ==
  ASSUME NEW T, NEW s \in Seq(T), NEW P, P \cap (1..Len(s)) = {}
  PROVE  Without(s, P) = s
<1>1. PICK f \in [0..Len(s) -> Seq(T)] : WithoutSteps(f, s, P)
  BY WithoutTyped
<1> DEFINE n == Len(s)
           kept == {i \in 0..n : f[i] = SubSeq(s, 1, i)}
<1>2. n \in Nat /\ \A i \in 1..n : s[i] \in T /\ i \notin P
  OBVIOUS
<1>3. /\ f[0] = <<>> /\ f[n] = Without(s, P)
      /\ \A i \in 1..n : f[i] = IF i \in P THEN f[i - 1] ELSE Append(f[i - 1], s[i])
  BY <1>1 DEF WithoutSteps
<1>4. SubSeq(s, 1, n) = s /\ SubSeq(s, 1, 0) = <<>>
  BY SubSeqFull, SubSeqEmpty
<1>5. \A i \in 1..n : SubSeq(s, 1, i) = Append(SubSeq(s, 1, i - 1), s[i])
  <2> SUFFICES ASSUME NEW i \in 1..n PROVE SubSeq(s, 1, i) = Append(SubSeq(s, 1, i - 1), s[i])
    OBVIOUS
  <2>1. 1 \in 1..Len(s) /\ i \in 1..Len(s)
    BY <1>2
  <2>2. SubSeq(s, 1, i) = SubSeq(s, 1, i - 1) \o <<s[i]>>
    BY <2>1, SubSeqRecursiveSecond
  <2>3. \A j \in 1..(i - 1) : s[j] \in T
    BY <1>2
  <2>4. SubSeq(s, 1, i - 1) \in Seq(T)
    BY <1>2, <2>3, SubSeqProperties
  <2> QED
    BY <1>2, <2>2, <2>4, AppendIsConcat
<1> HIDE DEF n
<1>6. 0 \in kept
  BY <1>2, <1>3, <1>4
<1>7. ASSUME NEW i \in 1..n, i - 1 \in kept PROVE i \in kept
  <2>1. i - 1 \in 0..n /\ i \in 0..n
    BY <1>2
  <2>2. f[i - 1] = SubSeq(s, 1, i - 1)
    BY <1>7, <2>1
  <2>3. f[i] = SubSeq(s, 1, i)
    BY <1>2, <1>3, <1>5, <2>2
  <2> QED
    BY <2>1, <2>3
<1> HIDE DEF kept
<1>8. \A i \in 0..n : i \in kept
  BY <1>2, <1>6, <1>7, RoundsInduct
<1>9. n \in 0..n
  BY <1>2
<1> QED
  BY <1>3, <1>4, <1>8, <1>9 DEF kept

\* What replaceFirstWithEscape keeps of s in front of the specifier that it finds, and behind.
EscapesOf(s, name, p) == {i - 1 : i \in {j \in Occurrences(s, name) : j < p}}
Until(s, name) ==
  Without(SubSeq(s, 1, FirstPlain(s, name) - 1), EscapesOf(s, name, FirstPlain(s, name)))
Behind(s, name) == SubSeq(s, FirstPlain(s, name) + 1, Len(s))

\* What stands before an occurrence in front of the first plain one is an escape.
LEMMA EscapesAre ==
  ASSUME NEW T, NEW s \in Seq(T), NEW name, NEW p \in 1..(Len(s) + 1), p <= FirstPlain(s, name)
  PROVE  \A i \in EscapesOf(s, name, p) :
           i \in 1..Len(s) /\ i + 1 < p /\ s[i] = Percent /\ s[i + 1] = Spec_(name)
<1> SUFFICES ASSUME NEW j \in Occurrences(s, name), j < p
             PROVE  j - 1 \in 1..Len(s) /\ (j - 1) + 1 < p /\ s[j - 1] = Percent
                    /\ s[(j - 1) + 1] = Spec_(name)
  BY DEF EscapesOf
<1>1. Len(s) \in Nat /\ DOMAIN s = 1..Len(s)
  OBVIOUS
<1>2. j \in 1..Len(s) /\ s[j] = Spec_(name)
  BY <1>1 DEF Occurrences
<1>3. FirstPlain(s, name) \in 1..(Len(s) + 1) /\ \A i \in Plain(s, name) : FirstPlain(s, name) <= i
  BY FirstPlainIs
<1>4. j \notin Plain(s, name)
  BY <1>1, <1>2, <1>3
<1>5. j > 1 /\ s[j - 1] = Percent
  BY <1>2, <1>4 DEF Plain, Escaped
<1> QED
  BY <1>1, <1>2, <1>5

\* What replaceFirstWithEscape makes of a text, in parts.
LEMMA ReplaceIs ==
  ASSUME NEW T, NEW s \in Seq(T), NEW name
  PROVE  /\ Until(s, name) \in Seq(T) /\ Behind(s, name) \in Seq(T)
         /\ Has(s, name) \/ EndsPlain(s) => EndsPlain(Until(s, name))
         /\ \A value : replaceFirstWithEscape(s, name, value) =
              IF Has(s, name) THEN Until(s, name) \o value \o Behind(s, name) ELSE Until(s, name)
<1> DEFINE p == FirstPlain(s, name)
           u == SubSeq(s, 1, p - 1)
           E == EscapesOf(s, name, p)
<1>1. Len(s) \in Nat /\ \A i \in 1..Len(s) : s[i] \in T
  OBVIOUS
<1>2. p \in 1..(Len(s) + 1) /\ (p <= Len(s) => p \in Plain(s, name)) /\ (Has(s, name) <=> p <= Len(s))
  BY FirstPlainIs DEF Has
<1>3. \A value : replaceFirstWithEscape(s, name, value) =
         IF Has(s, name) THEN Until(s, name) \o value \o Behind(s, name) ELSE Until(s, name)
  <2>1. Has(s, name) <=> ~(p > Len(s))
    BY <1>1, <1>2
  <2> QED
    BY <2>1 DEF replaceFirstWithEscape, Until, Behind, EscapesOf
<1>4. \A i \in E : i \in 1..Len(s) /\ i + 1 < p
  <2>1. p <= p
    BY <1>2
  <2> QED
    BY <1>2, <2>1, EscapesAre
<1>5. Until(s, name) = Without(u, E)
  BY DEF Until
<1>6. Has(s, name) => p = 1 \/ s[p - 1] # Percent
  BY <1>2 DEF Plain, Escaped
<1>7. Behind(s, name) = SubSeq(s, p + 1, Len(s))
  BY DEF Behind
<1> HIDE DEF p, E
<1>8. /\ u \in Seq(T) /\ Len(u) = p - 1 /\ \A i \in 1..(p - 1) : u[i] = s[i]
  BY <1>2, PartsAre
<1>9. Behind(s, name) \in Seq(T)
  BY <1>2, <1>7, PartsAre
<1> HIDE DEF u
<1>10. Without(u, E) \in Seq(T)
  BY <1>8, WithoutTyped
<1>11. ASSUME Has(s, name) \/ EndsPlain(s) PROVE EndsPlain(Without(u, E))
  <2>1. CASE u = <<>>
    <3>1. Len(u) = 0
      BY <2>1
    <3>2. E \cap (1..Len(u)) = {}
      BY <3>1
    <3> QED
      BY <1>8, <2>1, <3>2, WithoutNone DEF EndsPlain
  <2>2. CASE u # <<>>
    <3>1. Len(u) \in 1..Len(s) /\ Len(u) \notin E
      BY <1>1, <1>2, <1>4, <1>8, <2>2, EmptySeq
    <3>2. u[Len(u)] # Percent
      <4>1. Len(u) \in 1..(p - 1) /\ u[Len(u)] = s[p - 1] /\ p # 1
        BY <1>1, <1>2, <1>8, <3>1
      <4>2. CASE Has(s, name)
        BY <1>6, <4>1, <4>2
      <4>3. CASE ~Has(s, name) /\ EndsPlain(s)
        <5>1. p - 1 = Len(s) /\ s # <<>>
          BY <1>1, <1>2, <4>1, <4>3
        <5> QED
          BY <4>1, <4>3, <5>1 DEF EndsPlain
      <4> QED
        BY <1>11, <4>2, <4>3
    <3> QED
      BY <1>8, <2>2, <3>1, <3>2, WithoutLast DEF EndsPlain
  <2> QED
    BY <2>1, <2>2
<1> QED
  BY <1>3, <1>5, <1>9, <1>10, <1>11

\* It takes texts to texts.
LEMMA ReplaceTyped ==
  ASSUME NEW T, NEW s \in Seq(T), NEW name, NEW value \in Seq(T)
  PROVE  replaceFirstWithEscape(s, name, value) \in Seq(T)
<1> DEFINE u == Until(s, name)
           b == Behind(s, name)
<1>1. u \in Seq(T) /\ b \in Seq(T)
  BY ReplaceIs
<1>2. replaceFirstWithEscape(s, name, value) = IF Has(s, name) THEN u \o value \o b ELSE u
  BY ReplaceIs
<1> HIDE DEF u, b
<1>3. u \o value \in Seq(T)
  BY <1>1, ConcatProperties
<1>4. (u \o value) \o b \in Seq(T)
  BY <1>1, <1>3, ConcatProperties
<1> QED
  BY <1>1, <1>2, <1>4

\* Two texts that end with no escape make such a text.
LEMMA EndsPlainConcat ==
  ASSUME NEW T, NEW a \in Seq(T), NEW b \in Seq(T), EndsPlain(a), EndsPlain(b)
  PROVE  EndsPlain(a \o b)
<1>1. CASE b = <<>>
  <2>1. a \o b = a
    BY <1>1, ConcatEmptySeq
  <2> QED
    BY <2>1
<1>2. CASE b # <<>>
  <2>1. Len(b) \in 1..Len(b) /\ Len(a \o b) = Len(a) + Len(b)
    BY <1>2, EmptySeq, ConcatIs
  <2>2. (a \o b)[Len(a) + Len(b)] = b[Len(b)]
    BY <2>1, ConcatIs
  <2>3. (a \o b)[Len(a \o b)] = b[Len(b)]
    BY <2>1, <2>2
  <2> QED
    BY <1>2, <2>3 DEF EndsPlain
<1> QED
  BY <1>1, <1>2

\* Replacing one specifier leaves an unescaped other one.
LEMMA ReplaceKeepsPlain ==
  ASSUME NEW T, NEW s \in Seq(T), NEW name, NEW other, other # name,
         NEW value \in Seq(T), EndsPlain(value), Plain(s, other) # {}
  PROVE  Plain(replaceFirstWithEscape(s, name, value), other) # {}
<1> DEFINE p == FirstPlain(s, name)
           u == SubSeq(s, 1, p - 1)
           E == EscapesOf(s, name, p)
           w == Until(s, name)
           b == Behind(s, name)
<1>1. PICK k \in 1..Len(s) : s[k] = Spec_(other) /\ ~Escaped(s, k)
  BY DEF Plain
<1>2. Len(s) \in Nat /\ p \in 1..(Len(s) + 1) /\ (Has(s, name) <=> p <= Len(s))
      /\ (p <= Len(s) => s[p] = Spec_(name))
  BY FirstPlainIs DEF Has, Plain
<1>3. Spec_(other) # Spec_(name)
  BY DEF Spec_
<1>4. /\ u \in Seq(T) /\ Len(u) = p - 1 /\ \A i \in 1..(p - 1) : u[i] = s[i]
      /\ b \in Seq(T) /\ (p <= Len(s) => Len(b) = Len(s) - p)
      /\ \A i \in 1..(Len(s) - p) : b[i] = s[p + i]
  BY <1>2, PartsAre DEF Behind
<1>5. \A i \in E : i \in 1..Len(s) /\ i + 1 < p /\ s[i] = Percent
  <2>1. p <= p
    BY <1>2
  <2> QED
    BY <1>2, <2>1, EscapesAre
<1>6. /\ w = Without(u, E) /\ w \in Seq(T) /\ b \in Seq(T)
      /\ Has(s, name) => EndsPlain(w)
      /\ replaceFirstWithEscape(s, name, value) = IF Has(s, name) THEN w \o value \o b ELSE w
  BY ReplaceIs DEF Until
<1> HIDE DEF p, u, E, w, b
<1>7. w \o value \in Seq(T)
  BY <1>6, ConcatProperties
<1>8. CASE k < p
  <2>1. k \in 1..Len(u) /\ u[k] = Spec_(other)
    BY <1>1, <1>2, <1>4, <1>8
  <2>2. ~Escaped(u, k)
    <3>1. k > 1 => k - 1 \in 1..(p - 1)
      BY <1>2, <1>8
    <3> QED
      BY <1>1, <1>4, <3>1 DEF Escaped
  <2>3. Plain(u, other) # {}
    BY <2>1, <2>2 DEF Plain
  <2>4. \A i \in E \cap (1..Len(u)) : u[i] = Percent
    BY <1>2, <1>4, <1>5
  <2>5. Plain(w, other) # {}
    BY <1>4, <1>6, <2>3, <2>4, WithoutKeepsPlain
  <2>6. Plain(w \o value, other) # {}
    BY <1>6, <2>5, PlainBefore
  <2>7. Plain((w \o value) \o b, other) # {}
    BY <1>6, <1>7, <2>6, PlainBefore
  <2> QED
    BY <1>6, <2>5, <2>7
<1>9. CASE k > p
  <2>1. Has(s, name) /\ k - p \in 1..(Len(s) - p) /\ p + (k - p) = k /\ k - p \in 1..Len(b)
    BY <1>2, <1>4, <1>9
  <2>2. b[k - p] = Spec_(other)
    BY <1>1, <1>4, <2>1
  <2>3. ~Escaped(b, k - p)
    <3>1. k - p > 1 => /\ k > 1 /\ (k - p) - 1 \in 1..(Len(s) - p)
                       /\ p + ((k - p) - 1) = k - 1
      BY <1>2, <1>9
    <3> QED
      BY <1>1, <1>4, <3>1 DEF Escaped
  <2>4. Plain(b, other) # {}
    BY <2>1, <2>2, <2>3 DEF Plain
  <2>5. EndsPlain(w \o value)
    BY <1>6, <2>1, EndsPlainConcat
  <2>6. Plain((w \o value) \o b, other) # {}
    BY <1>6, <1>7, <2>4, <2>5, PlainBehind
  <2> QED
    BY <1>6, <2>1, <2>6
<1>10. CASE k = p
  BY <1>1, <1>2, <1>3, <1>10
<1> QED
  BY <1>2, <1>8, <1>9, <1>10

\* The search goes through two texts in turn, the first of which ends with no escape.
LEMMA FirstPlainConcat ==
  ASSUME NEW T, NEW a \in Seq(T), NEW b \in Seq(T), NEW name, EndsPlain(a)
  PROVE  /\ FirstPlain(a \o b, name) = IF Has(a, name) THEN FirstPlain(a, name)
                                       ELSE Len(a) + FirstPlain(b, name)
         /\ Has(a \o b, name) <=> Has(a, name) \/ Has(b, name)
<1> DEFINE c == a \o b
           n == Len(a)
           m == Len(b)
           p == FirstPlain(a, name)
           q == FirstPlain(b, name)
           r == FirstPlain(c, name)
<1>1. /\ c \in Seq(T) /\ Len(c) = n + m /\ n \in Nat /\ m \in Nat
      /\ \A i \in 1..n : c[i] = a[i]
      /\ \A i \in 1..m : c[n + i] = b[i]
  BY ConcatIs
<1>2. n > 0 => a[n] # Percent
  BY <1>1, EmptySeq DEF EndsPlain
<1>3. \A i \in 1..n : i \in Plain(c, name) <=> i \in Plain(a, name)
  <2> SUFFICES ASSUME NEW i \in 1..n PROVE i \in Plain(c, name) <=> i \in Plain(a, name)
    OBVIOUS
  <2> HIDE DEF c, n, m
  <2>1. i \in 1..Len(c) /\ i \in 1..Len(a) /\ (i > 1 => i - 1 \in 1..n)
    BY <1>1 DEF n
  <2>2. c[i] = a[i] /\ (i > 1 => c[i - 1] = a[i - 1])
    BY <1>1, <2>1
  <2> QED
    BY <2>1, <2>2 DEF Plain, Escaped
<1>4. \A i \in 1..m : n + i \in Plain(c, name) <=> i \in Plain(b, name)
  <2> SUFFICES ASSUME NEW i \in 1..m PROVE n + i \in Plain(c, name) <=> i \in Plain(b, name)
    OBVIOUS
  <2> HIDE DEF c, n, m
  <2>1. n + i \in 1..Len(c) /\ i \in 1..Len(b) /\ c[n + i] = b[i]
    BY <1>1 DEF m
  <2>2. Escaped(c, n + i) <=> Escaped(b, i)
    <3>1. CASE i > 1
      <4>1. i - 1 \in 1..m /\ (n + i) - 1 = n + (i - 1) /\ n + i > 1
        BY <1>1, <3>1
      <4> QED
        BY <1>1, <3>1, <4>1 DEF Escaped
    <3>2. CASE i = 1 /\ n > 0
      <4>1. n \in 1..n /\ (n + i) - 1 = n
        BY <1>1, <3>2
      <4>2. c[(n + i) - 1] # Percent
        BY <1>1, <1>2, <3>2, <4>1
      <4> QED
        BY <3>2, <4>2 DEF Escaped
    <3>3. CASE i = 1 /\ n = 0
      BY <3>3 DEF Escaped
    <3> QED
      BY <1>1, <3>1, <3>2, <3>3
  <2> QED
    BY <2>1, <2>2 DEF Plain
<1>5. /\ p \in 1..(n + 1) /\ (p <= n => p \in Plain(a, name))
      /\ \A i \in Plain(a, name) : p <= i
      /\ Has(a, name) <=> p <= n
  BY FirstPlainIs DEF Has
<1>6. /\ q \in 1..(m + 1) /\ (q <= m => q \in Plain(b, name))
      /\ \A i \in Plain(b, name) : q <= i
      /\ Has(b, name) <=> q <= m
  BY FirstPlainIs DEF Has
<1>7. /\ r \in 1..(Len(c) + 1) /\ (r <= Len(c) => r \in Plain(c, name))
      /\ \A i \in Plain(c, name) : r <= i
      /\ Has(c, name) <=> r <= Len(c)
  BY <1>1, FirstPlainIs DEF Has
<1> HIDE DEF c, n, m, p, q, r
<1>8. r <= n + m => (r \in 1..n /\ r \in Plain(a, name)) \/ (r - n \in 1..m /\ r - n \in Plain(b, name))
  <2> SUFFICES ASSUME r <= n + m, ~(r \in 1..n /\ r \in Plain(a, name))
               PROVE  r - n \in 1..m /\ r - n \in Plain(b, name)
    OBVIOUS
  <2>1. r \in Plain(c, name) /\ r \notin 1..n
    BY <1>1, <1>3, <1>7
  <2>2. r - n \in 1..m /\ n + (r - n) = r
    BY <1>1, <1>7, <2>1
  <2> QED
    BY <1>4, <2>1, <2>2
<1>9. CASE p <= n
  <2>1. p \in 1..n /\ p \in Plain(c, name)
    BY <1>1, <1>3, <1>5, <1>9
  <2>2. r <= p
    BY <1>7, <2>1
  <2>3. r <= n + m /\ r \in 1..n
    BY <1>1, <1>7, <2>1, <2>2
  <2>4. r \in Plain(a, name)
    BY <1>1, <1>3, <1>7, <2>3
  <2>5. p <= r
    BY <1>5, <2>4
  <2> QED
    BY <1>1, <1>5, <1>6, <1>7, <1>9, <2>1, <2>2, <2>3, <2>5 DEF c, n, m, p, q, r
<1>10. CASE ~(p <= n)
  <2>1. Plain(a, name) \cap (1..n) = {}
    BY <1>1, <1>5, <1>10
  <2>2. r <= n + m => r - n \in 1..m /\ q <= r - n
    BY <1>6, <1>8, <2>1
  <2>3. q <= m => r <= n + q
    <3> SUFFICES ASSUME q <= m PROVE r <= n + q
      OBVIOUS
    <3>1. q \in 1..m /\ q \in Plain(b, name)
      BY <1>1, <1>6
    <3> QED
      BY <1>4, <1>7, <3>1
  <2>4. r = n + q
    BY <1>1, <1>6, <1>7, <2>2, <2>3
  <2>5. r <= Len(c) <=> q <= m
    BY <1>1, <1>6, <2>4
  <2> QED
    BY <1>5, <1>6, <1>7, <1>10, <2>4, <2>5 DEF c, n, m, p, q, r
<1> QED
  BY <1>9, <1>10

\* The escapes that are left out, one by one.
LEMMA EscapesMembers ==
  ASSUME NEW T, NEW s \in Seq(T), NEW name, NEW p
  PROVE  \A i \in Nat :
           i \in EscapesOf(s, name, p) <=> i + 1 \in 1..Len(s) /\ s[i + 1] = Spec_(name) /\ i + 1 < p
<1> SUFFICES ASSUME NEW i \in Nat
             PROVE  i \in EscapesOf(s, name, p)
                      <=> i + 1 \in 1..Len(s) /\ s[i + 1] = Spec_(name) /\ i + 1 < p
  OBVIOUS
<1>1. DOMAIN s = 1..Len(s) /\ Len(s) \in Nat
  OBVIOUS
<1>2. ASSUME i \in EscapesOf(s, name, p)
      PROVE  i + 1 \in 1..Len(s) /\ s[i + 1] = Spec_(name) /\ i + 1 < p
  <2>1. PICK j \in Occurrences(s, name) : j < p /\ i = j - 1
    BY <1>2 DEF EscapesOf
  <2>2. j \in 1..Len(s) /\ s[j] = Spec_(name)
    BY <1>1 DEF Occurrences
  <2>3. i + 1 = j
    BY <1>1, <2>1, <2>2
  <2> QED
    BY <2>1, <2>2, <2>3
<1>3. ASSUME i + 1 \in 1..Len(s), s[i + 1] = Spec_(name), i + 1 < p
      PROVE  i \in EscapesOf(s, name, p)
  <2>1. i + 1 \in Occurrences(s, name) /\ (i + 1) - 1 = i
    BY <1>1, <1>3 DEF Occurrences
  <2> QED
    BY <1>3, <2>1 DEF EscapesOf
<1> QED
  BY <1>2, <1>3

\* Where the first of two texts has the specifier,
LEMMA FoundInFirst ==
  ASSUME NEW T, NEW a \in Seq(T), NEW b \in Seq(T), NEW name, EndsPlain(a), Has(a, name)
  PROVE  /\ Until(Joined(a, b), name) = Until(a, name)
         /\ Behind(Joined(a, b), name) = Joined(Behind(a, name), b)
<1> DEFINE c == a \o b
           n == Len(a)
           m == Len(b)
           p == FirstPlain(a, name)
           d == Behind(a, name)
           e == SubSeq(c, p + 1, Len(c))
           x == SubSeq(c, 1, p - 1)
           y == SubSeq(a, 1, p - 1)
<1>1. /\ c \in Seq(T) /\ Len(c) = n + m /\ n \in Nat /\ m \in Nat
      /\ \A i \in 1..n : c[i] = a[i]
      /\ \A i \in 1..m : c[n + i] = b[i]
  BY ConcatIs
<1>2. FirstPlain(c, name) = p /\ p \in 1..n /\ p \in 1..(n + 1)
  <2>1. p \in 1..(n + 1) /\ p <= n
    BY FirstPlainIs DEF Has
  <2> QED
    BY <1>1, <2>1, FirstPlainConcat
<1>3. p \in 1..(Len(c) + 1) /\ p <= Len(c)
  BY <1>1, <1>2
<1>4. /\ x \in Seq(T) /\ Len(x) = p - 1 /\ \A i \in 1..(p - 1) : x[i] = c[i]
      /\ e \in Seq(T) /\ Len(e) = Len(c) - p
      /\ \A i \in 1..(Len(c) - p) : e[i] = c[p + i]
  BY <1>1, <1>3, PartsAre
<1>5. /\ y \in Seq(T) /\ Len(y) = p - 1 /\ \A i \in 1..(p - 1) : y[i] = a[i]
      /\ d \in Seq(T) /\ Len(d) = n - p
      /\ \A i \in 1..(n - p) : d[i] = a[p + i]
  <2>1. p \in 1..(Len(a) + 1) /\ p <= Len(a)
    BY <1>2
  <2> QED
    BY <2>1, PartsAre DEF Behind
<1>6. /\ Until(c, name) = Without(x, EscapesOf(c, name, p))
      /\ Until(a, name) = Without(y, EscapesOf(a, name, p))
      /\ Behind(c, name) = e
  BY <1>2 DEF Until, Behind
<1> HIDE DEF c, n, m, p, d, e, x, y
<1>7. x = y
  <2>1. \A i \in 1..(p - 1) : i \in 1..n
    BY <1>1, <1>2
  <2>2. Len(x) = Len(y) /\ \A i \in 1..Len(x) : x[i] = y[i]
    BY <1>1, <1>4, <1>5, <2>1
  <2> QED
    BY <1>4, <1>5, <2>2, SeqEqual
<1>8. EscapesOf(c, name, p) = EscapesOf(a, name, p)
  <2>1. DOMAIN a = 1..n /\ DOMAIN c = 1..(n + m)
    BY <1>1 DEF n
  <2>2. \A j : j \in Occurrences(c, name) /\ j < p <=> j \in Occurrences(a, name) /\ j < p
    <3> SUFFICES ASSUME NEW j, j \in 1..(n + m), j < p
                 PROVE  j \in 1..n /\ c[j] = a[j]
      BY <1>1, <2>1 DEF Occurrences
    <3> QED
      BY <1>1, <1>2
  <2>3. {j \in Occurrences(c, name) : j < p} = {j \in Occurrences(a, name) : j < p}
    BY <2>2
  <2> QED
    BY <2>3 DEF EscapesOf
<1>9. e = d \o b
  <2>1. /\ d \o b \in Seq(T) /\ Len(d \o b) = (n - p) + m
        /\ \A i \in 1..(n - p) : (d \o b)[i] = d[i]
        /\ \A i \in 1..m : (d \o b)[(n - p) + i] = b[i]
    <3>1. /\ d \o b \in Seq(T) /\ Len(d \o b) = Len(d) + m
          /\ \A i \in 1..Len(d) : (d \o b)[i] = d[i]
          /\ \A i \in 1..m : (d \o b)[Len(d) + i] = b[i]
      <4>1. \A z \in Seq(T) :
              /\ z \o b \in Seq(T) /\ Len(z \o b) = Len(z) + Len(b)
              /\ \A i \in 1..Len(z) : (z \o b)[i] = z[i]
              /\ \A i \in 1..Len(b) : (z \o b)[Len(z) + i] = b[i]
        BY ConcatIs
      <4> QED
        BY <1>5, <4>1 DEF m
    <3>2. Len(d) = n - p
      BY <1>5
    <3> QED
      BY <3>1, <3>2
  <2>2. Len(e) = Len(d \o b)
    BY <1>1, <1>2, <1>4, <2>1
  <2>3. ASSUME NEW i \in 1..Len(e) PROVE e[i] = (d \o b)[i]
    <3>1. e[i] = c[p + i]
      BY <1>4, <2>3
    <3>2. CASE i <= n - p
      <4>1. i \in 1..(n - p) /\ p + i \in 1..n
        BY <1>1, <1>2, <1>4, <2>3, <3>2
      <4> QED
        BY <1>1, <1>5, <2>1, <3>1, <4>1
    <3>3. CASE ~(i <= n - p)
      <4>1. /\ i - (n - p) \in 1..m
            /\ (n - p) + (i - (n - p)) = i /\ n + (i - (n - p)) = p + i
        BY <1>1, <1>2, <1>4, <2>3, <3>3
      <4> QED
        BY <1>1, <2>1, <3>1, <4>1
    <3> QED
      BY <3>2, <3>3
  <2> QED
    BY <1>4, <2>1, <2>2, <2>3, SeqEqual
<1> QED
  BY <1>6, <1>7, <1>8, <1>9 DEF c, d, Joined

\* and where it has not.
LEMMA FoundBehind ==
  ASSUME NEW T, NEW a \in Seq(T), NEW b \in Seq(T), NEW name, EndsPlain(a), ~Has(a, name)
  PROVE  /\ Until(Joined(a, b), name) = Joined(Until(a, name), Until(b, name))
         /\ Has(b, name) => Behind(Joined(a, b), name) = Behind(b, name)
<1> DEFINE c == a \o b
           n == Len(a)
           m == Len(b)
           q == FirstPlain(b, name)
           r == n + q
           x == SubSeq(c, 1, r - 1)
           y == SubSeq(b, 1, q - 1)
           e == SubSeq(c, r + 1, Len(c))
           d == Behind(b, name)
           P == EscapesOf(c, name, r)
           Q == EscapesOf(a, name, n + 1)
           R == EscapesOf(b, name, q)
<1>1. /\ c \in Seq(T) /\ Len(c) = n + m /\ n \in Nat /\ m \in Nat
      /\ \A i \in 1..n : c[i] = a[i]
      /\ \A i \in 1..m : c[n + i] = b[i]
  BY ConcatIs
<1>2. FirstPlain(c, name) = r
  BY FirstPlainConcat
<1>3. q \in 1..(m + 1) /\ (Has(b, name) <=> q <= m) /\ \A i \in Plain(b, name) : q <= i
  BY FirstPlainIs DEF Has
<1>4. FirstPlain(a, name) = n + 1
  <2>1. FirstPlain(a, name) \in 1..(n + 1) /\ ~(FirstPlain(a, name) <= n)
    BY FirstPlainIs DEF Has
  <2> QED
    BY <1>1, <2>1
<1>5. r \in 1..(Len(c) + 1)
  BY <1>1, <1>3
<1>6. /\ x \in Seq(T) /\ Len(x) = r - 1 /\ \A i \in 1..(r - 1) : x[i] = c[i]
      /\ e \in Seq(T) /\ (r <= Len(c) => Len(e) = Len(c) - r)
      /\ \A i \in 1..(Len(c) - r) : e[i] = c[r + i]
  BY <1>1, <1>5, PartsAre
<1>7. /\ y \in Seq(T) /\ Len(y) = q - 1 /\ \A i \in 1..(q - 1) : y[i] = b[i]
      /\ d \in Seq(T) /\ (q <= m => Len(d) = m - q)
      /\ \A i \in 1..(m - q) : d[i] = b[q + i]
  BY <1>3, PartsAre DEF Behind
<1>8. /\ Until(c, name) = Without(x, P) /\ Until(b, name) = Without(y, R)
      /\ Behind(c, name) = e
  BY <1>2 DEF Until, Behind
<1>9. Until(a, name) = Without(a, Q)
  <2>1. (n + 1) - 1 = n
    BY <1>1
  <2>2. SubSeq(a, 1, n) = a
    BY SubSeqFull
  <2> QED
    BY <1>4, <2>1, <2>2 DEF Until
<1>10. /\ \A i \in Nat : i \in P <=> i + 1 \in 1..Len(c) /\ c[i + 1] = Spec_(name) /\ i + 1 < r
       /\ \A i \in Nat : i \in Q <=> i + 1 \in 1..n /\ a[i + 1] = Spec_(name) /\ i + 1 < n + 1
       /\ \A i \in Nat : i \in R <=> i + 1 \in 1..m /\ b[i + 1] = Spec_(name) /\ i + 1 < q
  <2>1. \A i \in Nat : i \in P <=> i + 1 \in 1..Len(c) /\ c[i + 1] = Spec_(name) /\ i + 1 < r
    <3> HIDE DEF c, r
    <3> QED
      BY <1>1, EscapesMembers
  <2> QED
    BY <2>1, EscapesMembers
<1>11. b \in Seq(T) /\ a \in Seq(T) /\ Len(y) = q - 1
  BY <1>7
<1> HIDE DEF c, n, m, q, r, x, y, e, d, P, Q, R
<1>12. r = n + q
  BY DEF r
<1>13. \A i \in 1..n : i \in P <=> i \in Q
  <2> SUFFICES ASSUME NEW i \in 1..n PROVE i \in P <=> i \in Q
    OBVIOUS
  <2>1. i \in Nat
    OBVIOUS
  <2>2. CASE i + 1 <= n
    <3>1. i + 1 \in 1..n /\ i + 1 \in 1..Len(c) /\ i + 1 < r /\ i + 1 < n + 1
      BY <1>1, <1>3, <1>12, <2>2
    <3> QED
      BY <1>1, <1>10, <2>1, <3>1
  <2>3. CASE ~(i + 1 <= n)
    <3>1. i = n /\ i \notin Q
      BY <1>1, <1>10, <2>1, <2>3
    <3>2. ASSUME i \in P PROVE FALSE
      <4>1. c[n + 1] = Spec_(name) /\ 1 < q /\ 1 \in 1..m
        BY <1>1, <1>3, <1>10, <1>12, <2>1, <3>1, <3>2
      <4>2. b[1] = Spec_(name)
        BY <1>1, <4>1
      <4>3. 1 \in Plain(b, name)
        BY <4>1, <4>2 DEF Plain, Escaped, m
      <4> QED
        BY <1>3, <4>1, <4>3
    <3> QED
      BY <3>1, <3>2
  <2> QED
    BY <2>2, <2>3
<1>14. \A i \in 1..Len(y) : n + i \in P <=> i \in R
  <2> SUFFICES ASSUME NEW i \in 1..(q - 1) PROVE n + i \in P <=> i \in R
    BY <1>7
  <2>1. /\ i \in Nat /\ n + i \in Nat /\ (n + i) + 1 = n + (i + 1)
        /\ n + (i + 1) < r <=> i + 1 < q
        /\ n + (i + 1) \in 1..Len(c) <=> i + 1 \in 1..m
    <3>1. n \in Nat /\ m \in Nat /\ q \in Nat /\ i \in Nat /\ r = n + q /\ Len(c) = n + m
      BY <1>1, <1>3, <1>12
    <3>2. n + i \in Nat /\ (n + i) + 1 = n + (i + 1)
      BY <3>1
    <3>3. n + (i + 1) < r <=> i + 1 < q
      BY <3>1
    <3>4. n + (i + 1) \in 1..Len(c) <=> i + 1 \in 1..m
      BY <3>1
    <3> QED
      BY <3>1, <3>2, <3>3, <3>4
  <2>2. i + 1 \in 1..m => c[n + (i + 1)] = b[i + 1]
    BY <1>1
  <2> QED
    BY <1>10, <2>1, <2>2
<1>15. x = a \o y
  <2>1. /\ a \o y \in Seq(T) /\ Len(a \o y) = n + (q - 1)
        /\ \A i \in 1..n : (a \o y)[i] = a[i]
        /\ \A i \in 1..(q - 1) : (a \o y)[n + i] = y[i]
    BY <1>7, ConcatIs DEF n
  <2>2. Len(x) = Len(a \o y)
    BY <1>1, <1>3, <1>6, <1>12, <2>1
  <2>3. ASSUME NEW i \in 1..Len(x) PROVE x[i] = (a \o y)[i]
    <3>1. x[i] = c[i]
      BY <1>6, <2>3
    <3>2. CASE i \in 1..n
      BY <1>1, <2>1, <3>1, <3>2
    <3>3. CASE i \notin 1..n
      <4>1. i - n \in 1..(q - 1) /\ i - n \in 1..m /\ n + (i - n) = i
        BY <1>1, <1>3, <1>6, <1>12, <2>3, <3>3
      <4> QED
        BY <1>1, <1>7, <2>1, <3>1, <4>1
    <3> QED
      BY <3>2, <3>3
  <2> QED
    BY <1>6, <2>1, <2>2, <2>3, SeqEqual
<1>16. Without(x, P) = Without(a, Q) \o Without(y, R)
  <2>1. \A i \in 1..Len(a) : i \in P <=> i \in Q
    BY <1>13 DEF n
  <2>2. \A i \in 1..Len(y) : Len(a) + i \in P <=> i \in R
    BY <1>14 DEF n
  <2>3. a \in Seq(T) /\ y \in Seq(T)
    BY <1>7
  <2> QED
    <3>1. Without(a \o y, P) = Without(a, Q) \o Without(y, R)
      <4>1. \A z \in Seq(T) : (\A i \in 1..Len(z) : Len(a) + i \in P <=> i \in R)
              => Without(a \o z, P) = Without(a, Q) \o Without(z, R)
        <5> SUFFICES ASSUME NEW z \in Seq(T), \A i \in 1..Len(z) : Len(a) + i \in P <=> i \in R
                     PROVE  Without(a \o z, P) = Without(a, Q) \o Without(z, R)
          OBVIOUS
        <5> QED
          BY <2>1, WithoutConcat
      <4> QED
        BY <2>2, <2>3, <4>1
    <3> QED
      BY <1>15, <3>1
<1>17. ASSUME Has(b, name) PROVE e = d
  <2>1. Len(e) = Len(d) /\ Len(e) = m - q
    BY <1>1, <1>3, <1>6, <1>7, <1>12, <1>17
  <2>2. ASSUME NEW i \in 1..Len(e) PROVE e[i] = d[i]
    <3>1. /\ i \in 1..(Len(c) - r) /\ i \in 1..(m - q)
          /\ q + i \in 1..m /\ r + i = n + (q + i)
      BY <1>1, <1>3, <1>12, <2>1, <2>2
    <3>2. e[i] = c[r + i] /\ d[i] = b[q + i]
      BY <1>6, <1>7, <3>1
    <3>3. c[n + (q + i)] = b[q + i]
      BY <1>1, <3>1
    <3> QED
      BY <3>1, <3>2, <3>3
  <2> QED
    BY <1>6, <1>7, <2>1, <2>2, SeqEqual
<1> QED
  BY <1>8, <1>9, <1>16, <1>17 DEF c, d, Joined

\* f has what the loop has after each round.
CustomRounds(f, line, customs) ==
  /\ f[0] = line /\ f[Len(customs)] = buildCustoms(line, customs)
  /\ \A i \in 1..Len(customs) : f[i] = replaceFirstWithEscape(f[i - 1], customs[i][1], customs[i][2])

\* The loop of build() over the custom specifiers.
LEMMA CustomLoop ==
  ASSUME NEW X,
         NEW line,
         NEW customs,
         Len(customs) \in Nat,
         line \in X,
         \A d \in X, i \in 1..Len(customs) : replaceFirstWithEscape(d, customs[i][1], customs[i][2]) \in X
  PROVE  /\ buildCustoms(line, customs) \in X
         /\ \E f \in [0..Len(customs) -> X] : CustomRounds(f, line, customs)
<1> DEFINE N == Len(customs)
           start == line
           Op(d, i) == replaceFirstWithEscape(d, customs[i][1], customs[i][2])
           Iterates(g) ==
             g = [i \in 0..N |-> IF i = 0 THEN start ELSE <<g[i - 1], Op(g[i - 1], i)>>[2]]
           f == CHOOSE g : Iterates(g)
           op == [i \in 1..N |-> [d \in X |-> Op(d, i)]]
<1>1. buildCustoms(line, customs) = f[N]
  BY DEF buildCustoms, Loop
<1>2. N \in Nat /\ start \in X /\ \A d \in X, i \in 1..N : Op(d, i) \in X
  OBVIOUS
<1> HIDE DEF Op, N, start
<1>3. op \in [1..N -> [X -> X]] /\ \A i \in 1..N, d \in X : op[i][d] = Op(d, i)
  BY <1>2
<1> HIDE DEF op
<1>4. \E g : Iterates(g)
  <2>1. Iterable(X, start, op, N)
    BY <1>2, <1>3, LoopExists
  <2>2. PICK g \in [0..N -> X] : g[0] = start /\ \A i \in 1..N : g[i] = op[i][g[i - 1]]
    BY <2>1 DEF Iterable
  <2>3. \A i \in 1..N : i - 1 \in 0..N
    BY <1>2
  <2>4. \A i \in 1..N : g[i] = Op(g[i - 1], i)
    BY <1>3, <2>2, <2>3
  <2>5. \A i \in 0..N : i = 0 \/ i \in 1..N
    BY <1>2
  <2> QED
    BY <2>2, <2>4, <2>5
<1>5. Iterates(f)
  BY <1>4
<1> HIDE DEF f
<1>6. f[0] = start /\ \A i \in 1..N : f[i] = Op(f[i - 1], i)
  <2>1. 0 \in 0..N /\ \A i \in 1..N : i \in 0..N /\ i # 0
    BY <1>2
  <2>2. f[0] = start
    BY <1>5, <2>1
  <2>3. \A i \in 1..N : f[i] = <<f[i - 1], Op(f[i - 1], i)>>[2]
    BY <1>5, <2>1
  <2> QED
    BY <2>2, <2>3
<1>7. \A i \in 0..N : f[i] \in X
  <2>1. \A i \in 1..N : f[i - 1] \in X => f[i] \in X
    BY <1>2, <1>6
  <2> QED
    BY <1>2, <1>6, <2>1, LoopKeeps
<1>8. f[N] \in X
  BY <1>2, <1>7
<1>9. f \in [0..N -> X]
  BY <1>5, <1>7
<1> QED
  BY <1>1, <1>6, <1>8, <1>9 DEF N, Op, start, CustomRounds

\* What is replaced, where it does not matter what the texts have at each place.
LEMMA ReplaceJoins ==
  ASSUME NEW T, NEW s \in Seq(T), NEW name, NEW value
  PROVE  replaceFirstWithEscape(s, name, value) =
           IF Has(s, name) THEN Joined(Joined(Until(s, name), value), Behind(s, name))
           ELSE Until(s, name)
<1>1. \A v : replaceFirstWithEscape(s, name, v) =
         IF Has(s, name) THEN Until(s, name) \o v \o Behind(s, name) ELSE Until(s, name)
  BY ReplaceIs
<1> QED
  BY <1>1 DEF Joined

\* The search and replace goes through two texts in turn.
LEMMA ReplaceConcat ==
  ASSUME NEW T, NEW a \in Seq(T), NEW b \in Seq(T), NEW name, NEW value \in Seq(T), EndsPlain(a)
  PROVE  replaceFirstWithEscape(Joined(a, b), name, value) =
           IF Has(a, name) THEN Joined(replaceFirstWithEscape(a, name, value), b)
           ELSE Joined(replaceFirstWithEscape(a, name, value), replaceFirstWithEscape(b, name, value))
<1> DEFINE c == Joined(a, b)
<1>1. c \in Seq(T)
  BY JoinedIs
<1>2. PICK ua \in Seq(T) : ua = Until(a, name)
  BY ReplaceIs
<1>3. PICK ub \in Seq(T) : ub = Until(b, name)
  BY ReplaceIs
<1>4. PICK da \in Seq(T) : da = Behind(a, name)
  BY ReplaceIs
<1>5. PICK db \in Seq(T) : db = Behind(b, name)
  BY ReplaceIs
<1>6. replaceFirstWithEscape(a, name, value) = IF Has(a, name) THEN Joined(Joined(ua, value), da) ELSE ua
  BY <1>2, <1>4, ReplaceJoins
<1>7. replaceFirstWithEscape(b, name, value) = IF Has(b, name) THEN Joined(Joined(ub, value), db) ELSE ub
  BY <1>3, <1>5, ReplaceJoins
<1>8. Has(c, name) <=> Has(a, name) \/ Has(b, name)
  BY FirstPlainConcat DEF Joined
<1> HIDE DEF c
<1>9. replaceFirstWithEscape(c, name, value) =
        IF Has(c, name) THEN Joined(Joined(Until(c, name), value), Behind(c, name)) ELSE Until(c, name)
  BY <1>1, ReplaceJoins
<1>10. CASE Has(a, name)
  <2>1. Until(c, name) = ua /\ Behind(c, name) = Joined(da, b)
    BY <1>2, <1>4, <1>10, FoundInFirst DEF c
  <2>2. Joined(ua, value) \in Seq(T)
    BY JoinedIs
  <2>3. Joined(Joined(ua, value), Joined(da, b)) = Joined(Joined(Joined(ua, value), da), b)
    BY <2>2, JoinedAssociative
  <2> QED
    BY <1>6, <1>8, <1>9, <1>10, <2>1, <2>3 DEF c
<1>11. CASE ~Has(a, name) /\ Has(b, name)
  <2>1. Until(c, name) = Joined(ua, ub) /\ Behind(c, name) = db
    BY <1>2, <1>3, <1>5, <1>11, FoundBehind DEF c
  <2>2. Joined(ub, value) \in Seq(T)
    BY JoinedIs
  <2>3. Joined(Joined(ua, ub), value) = Joined(ua, Joined(ub, value))
    BY JoinedAssociative
  <2>4. Joined(Joined(ua, Joined(ub, value)), db) = Joined(ua, Joined(Joined(ub, value), db))
    BY <2>2, JoinedAssociative
  <2> QED
    BY <1>6, <1>7, <1>8, <1>9, <1>11, <2>1, <2>3, <2>4 DEF c
<1>12. CASE ~Has(a, name) /\ ~Has(b, name)
  <2>1. Until(c, name) = Joined(ua, ub)
    BY <1>2, <1>3, <1>12, FoundBehind DEF c
  <2> QED
    BY <1>6, <1>7, <1>8, <1>9, <1>12, <2>1 DEF c
<1> QED
  BY <1>10, <1>11, <1>12

\* A text that has no escape at its end has none when a specifier was replaced by another such.
LEMMA ReplaceEndsPlain ==
  ASSUME NEW T, NEW s \in Seq(T), NEW name, NEW value \in Seq(T), EndsPlain(s), EndsPlain(value)
  PROVE  EndsPlain(replaceFirstWithEscape(s, name, value))
<1>1. PICK u \in Seq(T) : u = Until(s, name)
  BY ReplaceIs
<1>2. PICK b \in Seq(T) : b = Behind(s, name)
  BY ReplaceIs
<1>3. replaceFirstWithEscape(s, name, value) = IF Has(s, name) THEN Joined(Joined(u, value), b) ELSE u
  BY <1>1, <1>2, ReplaceJoins
<1>4. EndsPlain(u)
  BY <1>1, ReplaceIs
<1>5. EndsPlain(Joined(u, value)) /\ Joined(u, value) \in Seq(T)
  BY <1>4, EndsPlainConcat, JoinedIs DEF Joined
<1>6. ASSUME Has(s, name) PROVE EndsPlain(b)
  <2> DEFINE p == FirstPlain(s, name)
  <2>1. p \in 1..(Len(s) + 1) /\ p <= Len(s) /\ Len(s) \in Nat
    BY <1>6, FirstPlainIs DEF Has
  <2>2. b = SubSeq(s, p + 1, Len(s))
    BY <1>2 DEF Behind
  <2> HIDE DEF p
  <2>3. Len(b) = Len(s) - p /\ \A i \in 1..(Len(s) - p) : b[i] = s[p + i]
    BY <2>1, <2>2, PartsAre
  <2>4. CASE b = <<>>
    BY <2>4 DEF EndsPlain
  <2>5. CASE b # <<>>
    <3>1. Len(b) \in 1..(Len(s) - p) /\ p + Len(b) = Len(s) /\ s # <<>>
      BY <2>1, <2>3, <2>5, EmptySeq
    <3>2. b[Len(b)] = s[Len(s)]
      BY <2>3, <3>1
    <3> QED
      BY <3>1, <3>2 DEF EndsPlain
  <2> QED
    BY <2>4, <2>5
<1>7. Has(s, name) => EndsPlain(Joined(Joined(u, value), b))
  <2>1. \A x \in Seq(T) : EndsPlain(x) /\ EndsPlain(b) => EndsPlain(Joined(x, b))
    BY EndsPlainConcat DEF Joined
  <2> QED
    BY <1>5, <1>6, <2>1
<1> QED
  BY <1>3, <1>4, <1>7

\* A text without a specifier stays as it is.
LEMMA ReplaceNone ==
  ASSUME NEW T, NEW s \in Seq(T), NEW name, NEW value, Occurrences(s, name) = {}
  PROVE  ~Has(s, name) /\ replaceFirstWithEscape(s, name, value) = s
<1>1. Len(s) \in Nat /\ DOMAIN s = 1..Len(s)
  OBVIOUS
<1>2. Plain(s, name) = {}
  BY <1>1 DEF Plain, Occurrences
<1>3. ~Has(s, name)
  BY <1>2, FirstPlainIs
<1>4. FirstPlain(s, name) = Len(s) + 1
  <2>1. FirstPlain(s, name) \in 1..(Len(s) + 1) /\ ~(FirstPlain(s, name) <= Len(s))
    BY <1>3, FirstPlainIs DEF Has
  <2> QED
    BY <1>1, <2>1
<1>5. SubSeq(s, 1, FirstPlain(s, name) - 1) = s
  <2>1. FirstPlain(s, name) - 1 = Len(s)
    BY <1>1, <1>4
  <2> QED
    BY <2>1, SubSeqFull
<1>6. EscapesOf(s, name, FirstPlain(s, name)) = {}
  BY DEF EscapesOf
<1>7. Until(s, name) = Without(s, {})
  BY <1>5, <1>6 DEF Until
<1>8. Without(s, {}) = s
  BY WithoutNone
<1>9. replaceFirstWithEscape(s, name, value) = Until(s, name)
  BY <1>3, ReplaceIs
<1> QED
  BY <1>3, <1>7, <1>8, <1>9

-----------------------------------------------------------------------------
(* Custom specifiers.                                                      *)

\* Messages that no custom specifier is in, nor an escape at the end: what stands around each
\* of them is replaced as around any other.
FreeOf(Ms, T, name) ==
  \A m \in Ms : m \in Seq(T) /\ EndsPlain(m) /\ Occurrences(m, name) = {}

Around(front, m, back) == Joined(front, Joined(m, back))

ReplacesAround(front, back, name, value, Ms, T) ==
  \E f, b \in Seq(T) :
    /\ EndsPlain(f)
    /\ \A m \in Ms : replaceFirstWithEscape(Around(front, m, back), name, value) = Around(f, m, b)

\* Search and replace passes over these messages.
LEMMA ReplaceAround ==
  ASSUME NEW T, NEW U, T \subseteq U, NEW front \in Seq(T), NEW back \in Seq(T), EndsPlain(front),
         NEW value \in Seq(T), EndsPlain(value), NEW name, NEW Ms, FreeOf(Ms, U, name)
  PROVE  ReplacesAround(front, back, name, value, Ms, T)
<1> DEFINE f == replaceFirstWithEscape(front, name, value)
           b == IF Has(front, name) THEN back ELSE replaceFirstWithEscape(back, name, value)
<1>1. f \in Seq(T) /\ b \in Seq(T) /\ EndsPlain(f)
  BY ReplaceTyped, ReplaceEndsPlain
<1>2. /\ front \in Seq(U) /\ back \in Seq(U) /\ value \in Seq(U)
      /\ f \in Seq(U) /\ b \in Seq(U)
  <2>1. Seq(T) \subseteq Seq(U)
    BY SeqMonotonic
  <2> HIDE DEF f, b
  <2> QED
    BY <1>1, <2>1
<1>3. ASSUME NEW m \in Ms
      PROVE  replaceFirstWithEscape(Around(front, m, back), name, value) = Around(f, m, b)
  <2>1. m \in Seq(U) /\ EndsPlain(m) /\ Occurrences(m, name) = {}
    BY DEF FreeOf
  <2>2. Joined(m, back) \in Seq(U)
    BY <1>2, <2>1, JoinedIs
  <2>3. ~Has(m, name) /\ replaceFirstWithEscape(m, name, value) = m
    BY <2>1, ReplaceNone
  <2>4. replaceFirstWithEscape(Joined(m, back), name, value)
          = Joined(m, replaceFirstWithEscape(back, name, value))
    BY <1>2, <2>1, <2>3, ReplaceConcat
  <2>5. replaceFirstWithEscape(Joined(front, Joined(m, back)), name, value) =
          IF Has(front, name) THEN Joined(f, Joined(m, back))
          ELSE Joined(f, replaceFirstWithEscape(Joined(m, back), name, value))
    BY <1>2, <2>2, ReplaceConcat
  <2> HIDE DEF f
  <2> QED
    BY <2>4, <2>5 DEF Around
<1> HIDE DEF f, b
<1> QED
  BY <1>1, <1>3 DEF ReplacesAround

\* The custom specifiers are replaced in what stands around a message.
CustomsFit(customs, T) ==
  /\ Len(customs) \in Nat
  /\ \A i \in 1..Len(customs) : customs[i][2] \in Seq(T) /\ EndsPlain(customs[i][2])

\* The loop over the custom specifiers takes texts to texts,
LEMMA CustomsTyped ==
  ASSUME NEW T, NEW customs, CustomsFit(customs, T), NEW s \in Seq(T)
  PROVE  /\ buildCustoms(s, customs) \in Seq(T)
         /\ \E f \in [0..Len(customs) -> Seq(T)] : CustomRounds(f, s, customs)
<1> DEFINE X == Seq(T)
<1>1. Len(customs) \in Nat /\ s \in X
  BY DEF CustomsFit
<1>2. ASSUME NEW d \in X, NEW i \in 1..Len(customs)
      PROVE  replaceFirstWithEscape(d, customs[i][1], customs[i][2]) \in X
  <2>1. PICK value \in Seq(T) : value = customs[i][2]
    BY DEF CustomsFit
  <2>2. replaceFirstWithEscape(d, customs[i][1], value) \in Seq(T)
    BY ReplaceTyped
  <2> QED
    BY <2>1, <2>2
<1> HIDE DEF X
<1>3. /\ buildCustoms(s, customs) \in X
      /\ \E f \in [0..Len(customs) -> X] : CustomRounds(f, s, customs)
  BY <1>1, <1>2, CustomLoop
<1> QED
  BY <1>3 DEF X

CustomsReplacedAround(front, back, customs, Ms, T) ==
  \E f, b \in Seq(T) :
    /\ EndsPlain(f)
    /\ \A m \in Ms : buildCustoms(Around(front, m, back), customs) = Around(f, m, b)

\* and passes over these messages too.
LEMMA CustomsAround ==
  ASSUME NEW T, NEW U, T \subseteq U, NEW front \in Seq(T), NEW back \in Seq(T), EndsPlain(front),
         NEW customs, CustomsFit(customs, T),
         NEW Ms, \A m \in Ms : m \in Seq(U),
         \A i \in 1..Len(customs) : FreeOf(Ms, U, customs[i][1])
  PROVE  CustomsReplacedAround(front, back, customs, Ms, T)
<1> DEFINE N == Len(customs)
           start(m) == Around(front, m, back)
           Rounds(g, m) == g \in [0..N -> Seq(U)] /\ CustomRounds(g, start(m), customs)
           F == [m \in Ms |-> CHOOSE g : Rounds(g, m)]
           Shaped(i, f, b) == EndsPlain(f) /\ \A m \in Ms : F[m][i] = Around(f, m, b)
           S == {i \in 0..N : \E f, b \in Seq(T) : Shaped(i, f, b)}
<1>1. N \in Nat /\ CustomsFit(customs, U)
  <2>1. Seq(T) \subseteq Seq(U)
    BY SeqMonotonic
  <2> QED
    BY <2>1 DEF CustomsFit
<1>2. ASSUME NEW m \in Ms PROVE Rounds(F[m], m)
  <2>1. front \in Seq(U) /\ back \in Seq(U) /\ m \in Seq(U)
    BY SeqMonotonic
  <2>2. Joined(m, back) \in Seq(U)
    BY <2>1, JoinedIs
  <2>3. start(m) \in Seq(U)
    BY <2>1, <2>2, JoinedIs DEF Around
  <2> HIDE DEF start
  <2>4. \E g : Rounds(g, m)
    BY <1>1, <2>3, CustomsTyped
  <2>5. F[m] = CHOOSE g : Rounds(g, m)
    OBVIOUS
  <2> HIDE DEF Rounds, F
  <2> QED
    BY <2>4, <2>5
<1> HIDE DEF F
<1>3. \A m \in Ms :
        /\ F[m][0] = start(m) /\ F[m][N] = buildCustoms(start(m), customs)
        /\ \A i \in 1..N : F[m][i] = replaceFirstWithEscape(F[m][i - 1], customs[i][1], customs[i][2])
  BY <1>2 DEF CustomRounds
<1>4. 0 \in S
  <2>1. 0 \in 0..N /\ Shaped(0, front, back)
    BY <1>1, <1>3
  <2> HIDE DEF Shaped
  <2> QED
    BY <2>1
<1>5. ASSUME NEW i \in 1..N, i - 1 \in S PROVE i \in S
  <2>1. PICK f \in Seq(T), b \in Seq(T) : Shaped(i - 1, f, b)
    BY <1>5
  <2>2. PICK value \in Seq(T) : value = customs[i][2]
    BY DEF CustomsFit
  <2>3. EndsPlain(value) /\ EndsPlain(f) /\ FreeOf(Ms, U, customs[i][1])
    BY <2>1, <2>2 DEF CustomsFit
  <2>4. PICK f2 \in Seq(T), b2 \in Seq(T) :
          /\ EndsPlain(f2)
          /\ \A m \in Ms : replaceFirstWithEscape(Around(f, m, b), customs[i][1], value)
                             = Around(f2, m, b2)
    <3>1. ReplacesAround(f, b, customs[i][1], value, Ms, T)
      BY <2>3, ReplaceAround
    <3> QED
      BY <3>1 DEF ReplacesAround
  <2>5. \A m \in Ms : F[m][i] = Around(f2, m, b2)
    BY <1>3, <2>1, <2>2, <2>4
  <2>6. Shaped(i, f2, b2)
    BY <2>4, <2>5
  <2>7. i \in 0..N
    BY <1>1
  <2> HIDE DEF Shaped
  <2> QED
    BY <2>6, <2>7
<1> HIDE DEF S
<1>6. N \in S
  <2>1. \A i \in 0..N : i \in S
    BY <1>1, <1>4, <1>5, RoundsInduct
  <2>2. N \in 0..N
    BY <1>1
  <2> QED
    BY <2>1, <2>2
<1>7. PICK f \in Seq(T), b \in Seq(T) : Shaped(N, f, b)
  BY <1>6 DEF S
<1>8. \A m \in Ms : buildCustoms(Around(front, m, back), customs) = Around(f, m, b)
  BY <1>3, <1>7
<1> QED
  BY <1>7, <1>8 DEF CustomsReplacedAround

-----------------------------------------------------------------------------
(* Formats and lines.                                                      *)

\* The values of the specifiers are texts, and none escapes what follows it.
ValuesFit(v, T) == \A name \in Flagged \ {"msg"} : v[name] \in Seq(T) /\ EndsPlain(v[name])

\* %msg is the last of those that build() replaces.
LEMMA BuiltIs ==
  /\ Len(Built) = 10 /\ Built[10] = "msg"
  /\ \A i \in 1..9 : Built[i] \in Flagged \ {"msg"}
<1>1. Len(Built) = 10 /\ Built[10] = "msg" /\ DOMAIN Built = 1..10
  BY DEF Built
<1>2. \A i \in 1..9 : Built[i] # "msg"
  BY DEF Built
<1>3. \A i \in 1..9 : Built[i] \in Range(Built)
  BY <1>1 DEF Range
<1> QED
  BY <1>1, <1>2, <1>3 DEF Flagged

\* What build() does for one of its specifiers,
LEMMA OneIs ==
  ASSUME NEW T, NEW lf, NEW level, NEW v, ValuesFit(v, T), NEW message \in Seq(T),
         NEW d \in Seq(T), NEW name \in Flagged
  PROVE  buildOne(lf, level, v, message, d, name) \in Seq(T)
<1>1. CASE name = "msg"
  <2>1. replaceFirstWithEscape(d, name, message) \in Seq(T)
    BY ReplaceTyped
  <2> QED
    BY <1>1, <2>1 DEF buildOne
<1>2. CASE name # "msg"
  <2>1. PICK value \in Seq(T) : value = v[name]
    BY <1>2 DEF ValuesFit
  <2>2. replaceFirstWithEscape(d, name, value) \in Seq(T)
    BY ReplaceTyped
  <2> QED
    BY <1>2, <2>1, <2>2 DEF buildOne
<1> QED
  BY <1>1, <1>2

\* which leaves %msg where it is another one.
LEMMA OtherIs ==
  ASSUME NEW T, NEW lf, NEW level, NEW v, ValuesFit(v, T), NEW message,
         NEW d \in Seq(T), NEW name \in Flagged, name # "msg", Plain(d, "msg") # {}
  PROVE  Plain(buildOne(lf, level, v, message, d, name), "msg") # {}
<1>1. PICK value \in Seq(T) : value = v[name] /\ EndsPlain(value)
  BY DEF ValuesFit
<1>2. Plain(replaceFirstWithEscape(d, name, value), "msg") # {}
  BY <1>1, ReplaceKeepsPlain
<1>3. \/ buildOne(lf, level, v, message, d, name) = d
      \/ buildOne(lf, level, v, message, d, name) = replaceFirstWithEscape(d, name, value)
  BY <1>1 DEF buildOne
<1> QED
  BY <1>2, <1>3

\* Before the last round of build(), the message has not been looked at.
BeforeMessage(g, lf, level, v, T) ==
  /\ Plain(lf.format, "msg") # {} => Plain(g, "msg") # {}
  /\ \A U : \A m \in Seq(U) : T \subseteq U =>
       buildOwn(lf, level, v, m) = buildOne(lf, level, v, m, g, "msg")

\* What build() has made of a format when it comes to %msg, it makes for every message.
LEMMA OwnIs ==
  ASSUME NEW T, NEW lf, lf.format \in Seq(T), NEW level, NEW v, ValuesFit(v, T)
  PROVE  \E g \in Seq(T) : BeforeMessage(g, lf, level, v, T)
<1>0. /\ \A i \in 1..9 : i - 1 \in 0..10 /\ i \in 1..10 /\ i \in 0..9
      /\ 0 \in 0..9 /\ 9 \in 0..9 /\ 9 \in Nat /\ 10 \in Nat /\ lf.format \in Seq(T)
  OBVIOUS
<1> DEFINE X == Seq(T)
           none == <<>>
<1>1. Len(Built) = 10 /\ Built[10] = "msg" /\ \A i \in 1..9 : Built[i] \in Flagged \ {"msg"}
  BY BuiltIs
<1>2. \A i \in 1..Len(Built) : Built[i] \in Flagged
  <2>1. DOMAIN Built = 1..Len(Built)
    BY DEF Built
  <2> QED
    BY <2>1 DEF Flagged, Range
<1>3. none \in X
  BY EmptySeq
<1>4. \A d \in X, i \in 1..Len(Built) : buildOne(lf, level, v, none, d, Built[i]) \in X
  <2> HIDE DEF none
  <2> QED
    BY <1>2, <1>3, OneIs
<1> HIDE DEF none, X
<1>5. \E f \in [0..Len(Built) -> X] : OwnRounds(f, lf, level, v, none)
  <2>1. lf.format \in X /\ Len(Built) \in Nat
    BY <1>1 DEF X
  <2> QED
    BY <1>4, <2>1, OwnLoop
<1>6. PICK f \in [0..10 -> Seq(T)] : OwnRounds(f, lf, level, v, none)
  BY <1>1, <1>5 DEF X
<1>7. /\ f[0] = lf.format
      /\ \A i \in 1..10 : f[i] = buildOne(lf, level, v, none, f[i - 1], Built[i])
  BY <1>1, <1>6 DEF OwnRounds
<1>8. f[9] \in Seq(T)
  BY <1>6
<1>9. ASSUME Plain(lf.format, "msg") # {} PROVE Plain(f[9], "msg") # {}
  <2> DEFINE S == {i \in 0..9 : Plain(f[i], "msg") # {}}
  <2>1. 0 \in S
    <3>1. Plain(f[0], "msg") # {}
      BY <1>7, <1>9
    <3> QED
      BY <1>0, <3>1
  <2>2. ASSUME NEW i \in 1..9, i - 1 \in S PROVE i \in S
    <3>1. i - 1 \in 0..10 /\ i \in 1..10 /\ i \in 0..9
      BY <1>0
    <3>2. PICK d \in Seq(T) : d = f[i - 1] /\ Plain(d, "msg") # {}
      BY <1>6, <2>2, <3>1
    <3>3. PICK name \in Flagged : name = Built[i] /\ name # "msg"
      BY <1>1
    <3>4. Plain(buildOne(lf, level, v, none, d, name), "msg") # {}
      BY <3>2, <3>3, OtherIs
    <3> QED
      BY <1>7, <3>1, <3>2, <3>3, <3>4
  <2> HIDE DEF S
  <2>3. 9 \in S
    BY <2>1, <2>2, RoundsInduct
  <2> QED
    BY <2>3 DEF S
<1>10. ASSUME NEW U, NEW m \in Seq(U), T \subseteq U
       PROVE  buildOwn(lf, level, v, m) = buildOne(lf, level, v, m, f[9], "msg")
  <2> DEFINE Y == Seq(U)
  <2>1. Seq(T) \subseteq Seq(U)
    BY <1>10, SeqMonotonic
  <2>2. ValuesFit(v, U)
    BY <2>1 DEF ValuesFit
  <2>3. \A d \in Y, i \in 1..Len(Built) : buildOne(lf, level, v, m, d, Built[i]) \in Y
    BY <1>2, <2>2, OneIs
  <2>4. lf.format \in Y /\ Len(Built) \in Nat
    <3>1. lf.format \in Seq(U)
      BY <1>0, <2>1
    <3> QED
      BY <1>0, <1>1, <3>1
  <2> HIDE DEF Y
  <2>5. PICK h \in [0..Len(Built) -> Y] : OwnRounds(h, lf, level, v, m)
    BY <2>3, <2>4, OwnLoop
  <2>6. /\ h[0] = lf.format /\ h[10] = buildOwn(lf, level, v, m)
        /\ \A i \in 1..10 : h[i] = buildOne(lf, level, v, m, h[i - 1], Built[i])
    BY <1>1, <2>5 DEF OwnRounds
  <2> DEFINE S == {i \in 0..9 : h[i] = f[i]}
  <2>7. 0 \in S
    <3>1. h[0] = f[0]
      BY <1>7, <2>6
    <3> QED
      BY <1>0, <3>1
  <2>8. ASSUME NEW i \in 1..9, i - 1 \in S PROVE i \in S
    <3>1. i - 1 \in 0..10 /\ i \in 1..10 /\ i \in 0..9
      BY <1>0
    <3>2. PICK d \in Seq(T) : d = f[i - 1] /\ d = h[i - 1]
      BY <1>6, <2>8, <3>1
    <3>3. PICK name \in Flagged : name = Built[i] /\ name # "msg"
      BY <1>1
    <3>4. buildOne(lf, level, v, none, d, name) = buildOne(lf, level, v, m, d, name)
      BY <3>3 DEF buildOne
    <3>5. h[i] = f[i]
      BY <1>7, <2>6, <3>1, <3>2, <3>3, <3>4
    <3> QED
      BY <3>1, <3>5
  <2> HIDE DEF S
  <2>9. 9 \in S
    BY <2>7, <2>8, RoundsInduct
  <2>10. h[9] = f[9]
    BY <2>9 DEF S
  <2>11. h[10] = buildOne(lf, level, v, m, h[9], "msg")
    <3>1. 10 \in 1..10 /\ 10 - 1 = 9
      OBVIOUS
    <3>2. h[10] = buildOne(lf, level, v, m, h[10 - 1], Built[10])
      BY <2>6, <3>1
    <3> QED
      BY <1>1, <3>1, <3>2
  <2> QED
    BY <2>6, <2>10, <2>11
<1>11. BeforeMessage(f[9], lf, level, v, T)
  BY <1>9, <1>10 DEF BeforeMessage
<1> QED
  BY <1>8, <1>11

\* s2 is what was made of a text s, and %msg still stands in it if it stood in s.
StillThere(s, s2, T) == s2 \in Seq(T) /\ (Plain(s, "msg") # {} => Plain(s2, "msg") # {})

LEMMA ReplaceLeaves ==
  ASSUME NEW T, NEW s, NEW s1, StillThere(s, s1, T), NEW name, name # "msg",
         NEW value \in Seq(T), EndsPlain(value)
  PROVE  StillThere(s, replaceFirstWithEscape(s1, name, value), T)
<1>1. PICK d \in Seq(T) : d = s1
  BY DEF StillThere
<1>2. replaceFirstWithEscape(d, name, value) \in Seq(T)
  BY ReplaceTyped
<1>3. Plain(d, "msg") # {} => Plain(replaceFirstWithEscape(d, name, value), "msg") # {}
  BY ReplaceKeepsPlain
<1> QED
  BY <1>1, <1>2, <1>3 DEF StillThere

LEMMA UpdateLeaves ==
  ASSUME NEW T, NEW s, NEW f, StillThere(s, f.format, T), NEW level, NEW v, ValuesFit(v, T)
  PROVE  StillThere(s, updateFormatSpec(f, level, v).format, T)
<1> DEFINE leveled == IF level = "Global" THEN f.format
                      ELSE replaceFirstWithEscape(
                             replaceFirstWithEscape(f.format, "level", v["level"]), "levshort", v["levshort"])
           Resolve(x, name) == IF name \in f.flags THEN replaceFirstWithEscape(x, name, v[name]) ELSE x
<1>1. \A name \in {"level", "levshort", "user", "host"} :
        name # "msg" /\ v[name] \in Seq(T) /\ EndsPlain(v[name])
  BY DEF ValuesFit, Flagged
<1>2. ASSUME NEW x, StillThere(s, x, T), NEW name \in {"level", "levshort", "user", "host"}
      PROVE  StillThere(s, replaceFirstWithEscape(x, name, v[name]), T)
  <2>1. PICK value \in Seq(T) : value = v[name] /\ EndsPlain(value) /\ name # "msg"
    BY <1>1
  <2>2. StillThere(s, replaceFirstWithEscape(x, name, value), T)
    BY <1>2, <2>1, ReplaceLeaves
  <2> QED
    BY <2>1, <2>2
<1>3. StillThere(s, leveled, T)
  <2>1. StillThere(s, replaceFirstWithEscape(f.format, "level", v["level"]), T)
    BY <1>2
  <2>2. StillThere(s, replaceFirstWithEscape(
                        replaceFirstWithEscape(f.format, "level", v["level"]), "levshort", v["levshort"]), T)
    BY <1>2, <2>1
  <2> QED
    BY <2>2
<1>4. updateFormatSpec(f, level, v) = [f EXCEPT !.format = Resolve(Resolve(leveled, "user"), "host")]
  BY DEF updateFormatSpec
<1> HIDE DEF leveled
<1>5. StillThere(s, Resolve(leveled, "user"), T)
  BY <1>2, <1>3
<1>6. StillThere(s, Resolve(Resolve(leveled, "user"), "host"), T)
  <2> DEFINE x == Resolve(leveled, "user")
  <2> HIDE DEF x
  <2>1. StillThere(s, Resolve(x, "host"), T)
    BY <1>2, <1>5 DEF x
  <2> QED
    BY <2>1 DEF x
<1> QED
  BY <1>4, <1>6

\* A format that is parsed and resolved has the flags of what it had unescaped, and %msg.
FormatOf(fmt, level, v, id) ==
  resolveLoggerFormatSpec(parseFromFormat(fmt, level, v), << <<id>> >>)

LEMMA FormatOfIs ==
  ASSUME NEW T, NEW fmt \in Seq(T), NEW level, NEW v, ValuesFit(v, T),
         NEW id, <<id>> \in T, <<id>> # Percent
  PROVE  /\ StillThere(fmt, FormatOf(fmt, level, v, id).format, T)
         /\ "msg" \in FormatOf(fmt, level, v, id).flags <=> Has(fmt, "msg")
<1> DEFINE flags == {name \in Flagged : Has(fmt, name)}
           behind == UNION {{i \in Occurrences(fmt, name) :
                               i > FirstPlain(fmt, name) /\ Escaped(fmt, i)} :
                            name \in flags \ {"datetime"}}
           places == {i - 1 : i \in behind}
           x == Without(fmt, places)
           f == [format |-> x, flags |-> flags]
<1>1. parseFromFormat(fmt, level, v) = updateFormatSpec(f, level, v)
  BY DEF parseFromFormat
<1>2. \A i \in places \cap (1..Len(fmt)) : fmt[i] = Percent
  <2>1. \A i \in behind : Escaped(fmt, i)
    OBVIOUS
  <2> QED
    BY <2>1 DEF Escaped
<1> HIDE DEF places
<1>3. StillThere(fmt, f.format, T)
  <2>1. x \in Seq(T)
    BY WithoutTyped
  <2>2. Plain(fmt, "msg") # {} => Plain(x, "msg") # {}
    BY <1>2, WithoutKeepsPlain
  <2> QED
    BY <2>1, <2>2 DEF StillThere
<1> DEFINE g == updateFormatSpec(f, level, v)
<1>4. g = [f EXCEPT !.format = g.format]
  BY DEF updateFormatSpec
<1>5. g.flags = flags
  BY <1>4
<1> HIDE DEF f
<1>6. StillThere(fmt, g.format, T)
  BY <1>3, UpdateLeaves
<1> HIDE DEF g
<1>7. << <<id>> >> \in Seq(T) /\ EndsPlain(<< <<id>> >>)
  BY DEF EndsPlain
<1>8. StillThere(fmt, replaceFirstWithEscape(g.format, "logger", << <<id>> >>), T)
  BY <1>6, <1>7, ReplaceLeaves
<1>9. FormatOf(fmt, level, v, id)
        = [g EXCEPT !.format = replaceFirstWithEscape(g.format, "logger", << <<id>> >>)]
  BY <1>1 DEF FormatOf, resolveLoggerFormatSpec, g
<1>10. "msg" \in Flagged
  BY BuiltIs DEF Built, Flagged, Range
<1> QED
  BY <1>4, <1>5, <1>8, <1>9, <1>10

\* A line is the same around every message, or does not have the message at all.
LineOf(fmt, level, v, id, customs, m) == build(FormatOf(fmt, level, v, id), level, v, m, customs)

HasAll(fmt, level, v, id, customs, Ms, T) ==
  \E f, b \in Seq(T) : \A m \in Ms : LineOf(fmt, level, v, id, customs, m) = Around(f, m, b)
HasNone(fmt, level, v, id, customs, Ms, T) ==
  \E s \in Seq(T) : \A m \in Ms : LineOf(fmt, level, v, id, customs, m) = s

\* So it depends only on the format whether a line has the message.
LEMMA LineIs ==
  ASSUME NEW T, NEW U, T \subseteq U, NEW fmt \in Seq(T), NEW level, NEW v, ValuesFit(v, T),
         NEW id, <<id>> \in T, <<id>> # Percent,
         NEW customs, CustomsFit(customs, T), NEW Ms, \A m \in Ms : m \in Seq(U),
         \A i \in 1..Len(customs) : FreeOf(Ms, U, customs[i][1])
  PROVE  IF Has(fmt, "msg") THEN HasAll(fmt, level, v, id, customs, Ms, T)
         ELSE HasNone(fmt, level, v, id, customs, Ms, T)
<1> DEFINE lf == FormatOf(fmt, level, v, id)
<1>1. /\ lf.format \in Seq(T)
      /\ Plain(fmt, "msg") # {} => Plain(lf.format, "msg") # {}
      /\ "msg" \in lf.flags <=> Has(fmt, "msg")
  BY FormatOfIs DEF StillThere
<1>2. \A m : LineOf(fmt, level, v, id, customs, m) = buildCustoms(buildOwn(lf, level, v, m), customs)
  BY DEF LineOf, build
<1> HIDE DEF lf
<1>3. PICK g \in Seq(T) : BeforeMessage(g, lf, level, v, T)
  BY <1>1, OwnIs
<1>4. \A m \in Ms : buildOwn(lf, level, v, m) = IF "msg" \in lf.flags
                                                 THEN replaceFirstWithEscape(g, "msg", m) ELSE g
  BY <1>3 DEF buildOne, BeforeMessage
<1>5. CASE Has(fmt, "msg")
  <2>1. Plain(fmt, "msg") # {}
    BY <1>5, FirstPlainIs
  <2>2. Plain(g, "msg") # {}
    BY <1>1, <1>3, <2>1 DEF BeforeMessage
  <2>3. Has(g, "msg")
    BY <2>2, FirstPlainIs
  <2>4. PICK front \in Seq(T) : front = Until(g, "msg") /\ EndsPlain(front)
    BY <2>3, ReplaceIs
  <2>5. PICK back \in Seq(T) : back = Behind(g, "msg")
    BY ReplaceIs
  <2>6. ASSUME NEW m \in Ms PROVE buildOwn(lf, level, v, m) = Around(front, m, back)
    <3>1. m \in Seq(U) /\ front \in Seq(U) /\ back \in Seq(U)
      BY SeqMonotonic
    <3>2. replaceFirstWithEscape(g, "msg", m) = Joined(Joined(front, m), back)
      BY <2>3, <2>4, <2>5, ReplaceJoins
    <3>3. Joined(Joined(front, m), back) = Joined(front, Joined(m, back))
      BY <3>1, JoinedAssociative
    <3> QED
      BY <1>1, <1>4, <1>5, <3>2, <3>3 DEF Around
  <2>7. PICK f \in Seq(T), b \in Seq(T) :
          \A m \in Ms : buildCustoms(Around(front, m, back), customs) = Around(f, m, b)
    <3>1. CustomsReplacedAround(front, back, customs, Ms, T)
      BY <2>4, CustomsAround
    <3> QED
      BY <3>1 DEF CustomsReplacedAround
  <2>8. \A m \in Ms : LineOf(fmt, level, v, id, customs, m) = Around(f, m, b)
    BY <1>2, <2>6, <2>7
  <2> QED
    BY <1>5, <2>8 DEF HasAll
<1>6. CASE ~Has(fmt, "msg")
  <2>1. \A m \in Ms : buildOwn(lf, level, v, m) = g
    BY <1>1, <1>4, <1>6
  <2>2. buildCustoms(g, customs) \in Seq(T)
    BY CustomsTyped
  <2>3. \A m \in Ms : LineOf(fmt, level, v, id, customs, m) = buildCustoms(g, customs)
    BY <1>2, <2>1
  <2> QED
    BY <1>6, <2>2, <2>3 DEF HasNone
<1> QED
  BY <1>5, <1>6

\* The place of a token that is nowhere else.
PlaceIn(line, mark) == SelectInSeq(line, LAMBDA x : x = mark)

Lacks(s, mark) == \A i \in 1..Len(s) : s[i] # mark
Parted(line, f, mark, b) ==
  /\ PlaceIn(line, mark) = Len(f) + 1
  /\ SubSeq(line, 1, Len(f)) = f
  /\ SubSeq(line, Len(f) + 2, Len(line)) = b

LEMMA PlaceOfMark ==
  ASSUME NEW T, NEW mark \in T, NEW f \in Seq(T), NEW b \in Seq(T), NEW line,
         Lacks(f, mark), Lacks(b, mark), line = Around(f, <<mark>>, b)
  PROVE  Parted(line, f, mark, b)
<1> DEFINE n == Len(f)
           m == Len(b)
<1>1. PICK one \in Seq(T) : one = <<mark>>
  <2>1. <<mark>> \in Seq(T)
    OBVIOUS
  <2> QED
    BY <2>1
<1>2. Len(one) = 1 /\ one[1] = mark /\ n \in Nat /\ m \in Nat
  BY <1>1
<1>3. PICK r \in Seq(T) : r = Joined(one, b) /\ IsJoined(r, one, b, T)
  <2>1. IsJoined(Joined(one, b), one, b, T)
    BY JoinedHere
  <2> QED
    BY <2>1 DEF IsJoined
<1>4. Len(r) = 1 + m /\ r[1] = mark /\ \A i \in 1..m : r[1 + i] = b[i]
  <2>1. /\ Len(r) = Len(one) + m
        /\ \A i \in 1..Len(one) : r[i] = one[i]
        /\ \A i \in 1..m : r[Len(one) + i] = b[i]
    BY <1>3 DEF IsJoined
  <2> HIDE DEF m
  <2>2. 1 \in 1..1
    OBVIOUS
  <2> QED
    BY <1>2, <2>1, <2>2
<1>4a. PICK l \in Seq(T) : l = line /\ IsJoined(l, f, r, T)
  <2>1. IsJoined(Joined(f, r), f, r, T)
    BY JoinedHere
  <2>2. line = Joined(f, r)
    BY <1>1, <1>3 DEF Around
  <2> QED
    BY <2>1, <2>2 DEF IsJoined
<1>4b. /\ Len(l) = n + Len(r)
       /\ \A i \in 1..n : l[i] = f[i]
       /\ \A i \in 1..Len(r) : l[n + i] = r[i]
  BY <1>4a DEF IsJoined
<1>5. (\A i \in 1..n : f[i] # mark) /\ \A i \in 1..m : b[i] # mark
  BY DEF Lacks
<1> HIDE DEF n, m
<1>6. Len(l) = n + m + 1 /\ l[n + 1] = mark /\ \A i \in 1..m : l[n + 1 + i] = b[i]
  <2>1. Len(l) = n + m + 1
    BY <1>2, <1>4, <1>4b
  <2>2. l[n + 1] = mark
    <3>1. 1 \in 1..Len(r)
      BY <1>2, <1>4
    <3>2. l[n + 1] = r[1]
      BY <1>4b, <3>1
    <3> QED
      BY <1>4, <3>2
  <2>3. ASSUME NEW i \in 1..m PROVE l[n + 1 + i] = b[i]
    <3>1. 1 + i \in 1..(1 + m) /\ n + 1 + i = n + (1 + i)
      BY <1>2
    <3>2. l[n + (1 + i)] = r[1 + i]
      BY <1>4, <1>4b, <3>1
    <3> QED
      BY <1>4, <3>1, <3>2
  <2> QED
    BY <2>1, <2>2, <2>3
<1>7. \A i \in 1..Len(l) : l[i] = mark <=> i = n + 1
  <2> SUFFICES ASSUME NEW i \in 1..Len(l), i # n + 1 PROVE l[i] # mark
    BY <1>6
  <2>1. CASE i \in 1..n
    BY <1>4b, <1>5, <2>1
  <2>2. CASE i \notin 1..n
    <3>1. i - (n + 1) \in 1..m /\ n + 1 + (i - (n + 1)) = i
      BY <1>2, <1>6, <2>2
    <3> QED
      BY <1>5, <1>6, <3>1
  <2> QED
    BY <2>1, <2>2
<1>8. PlaceIn(l, mark) = n + 1
  <2> DEFINE I == {i \in 1..Len(l) : l[i] = mark}
  <2>1. n + 1 \in 1..Len(l)
    BY <1>2, <1>6
  <2>2. I = {n + 1}
    BY <1>7, <2>1
  <2>3. PlaceIn(l, mark) = IF I # {} THEN Min(I) ELSE 0
    BY DEF SelectInSeq, PlaceIn
  <2>4. Min({n + 1}) = n + 1
    BY <1>2 DEF Min
  <2> HIDE DEF I
  <2> QED
    BY <2>2, <2>3, <2>4
<1>9. SubSeq(l, 1, n) = f
  <2>1. n + 1 \in 1..(Len(l) + 1) /\ (n + 1) - 1 = n
    BY <1>2, <1>6
  <2>2. /\ SubSeq(l, 1, n) \in Seq(T) /\ Len(SubSeq(l, 1, n)) = n
        /\ \A i \in 1..n : SubSeq(l, 1, n)[i] = l[i]
    BY <2>1, PartsAre
  <2> QED
    BY <1>4b, <2>2, SeqEqual DEF n
<1>10. SubSeq(l, n + 2, Len(l)) = b
  <2>1. PICK p \in 1..(Len(l) + 1) : p = n + 1
    BY <1>2, <1>6
  <2>2. p <= Len(l) /\ p + 1 = n + 2 /\ Len(l) - p = m
    BY <1>2, <1>6, <2>1
  <2>3. /\ SubSeq(l, p + 1, Len(l)) \in Seq(T)
        /\ p <= Len(l) => Len(SubSeq(l, p + 1, Len(l))) = Len(l) - p
        /\ \A i \in 1..(Len(l) - p) : SubSeq(l, p + 1, Len(l))[i] = l[p + i]
    BY PartsAre
  <2>4. PICK c \in Seq(T) : c = SubSeq(l, n + 2, Len(l)) /\ c = SubSeq(l, p + 1, Len(l))
    BY <2>2, <2>3
  <2>5. Len(c) = m /\ \A i \in 1..m : c[i] = l[n + 1 + i]
    BY <2>1, <2>2, <2>3, <2>4
  <2>6. c = b
    BY <1>6, <2>5, SeqEqual DEF m
  <2> QED
    BY <2>4, <2>6
<1> QED
  BY <1>4a, <1>8, <1>9, <1>10 DEF n, Parted

-----------------------------------------------------------------------------
(* Statements.                                                             *)

\* Messages stay messages when they are put together.
LEMMA MessagesJoin ==
  /\ <<>> \in Messages /\ Messages \subseteq Seq(Tokens)
  /\ \A a, b \in Messages : a \o b \in Messages
<1>1. <<>> \in Messages
  BY EmptySeq DEF Messages, EndsPlain
<1>2. ASSUME NEW a \in Seq(Tokens), NEW b \in Seq(Tokens),
             QuotesEndPlain => EndsPlain(a), QuotesEndPlain => EndsPlain(b)
      PROVE  a \o b \in Messages
  <2>1. a \o b \in Seq(Tokens)
    BY ConcatIs
  <2>2. QuotesEndPlain => EndsPlain(a \o b)
    BY <1>2, EndsPlainConcat
  <2> QED
    BY <2>1, <2>2 DEF Messages
<1> QED
  BY <1>1, <1>2 DEF Messages

\* What is assumed of the statements of the program holds of those of the library.
LEMMA StatementFacts ==
  ASSUME NEW s \in Statements
  PROVE  /\ s.ids \in Seq(AllIds) /\ Len(s.ids) \in Nat \ {0}
         /\ \A k \in 1..Len(s.ids) : s.ids[k] \in AllIds
         /\ s.parts \in Nat /\ s.quote \in Messages
<1>1. CASE s \in AllStatements
  <2>1. s.ids \in Seq(AllIds) /\ s.ids # <<>> /\ s.parts \in Nat /\ s.quote \in Seq(Range(s.quote))
    BY <1>1, StatementsAssumption
  <2>2. Range(s.quote) \subseteq Tokens
    BY <1>1 DEF Tokens
  <2>3. s.quote \in Seq(Tokens)
    BY <2>1, <2>2
  <2> QED
    BY <1>1, <2>1, <2>3 DEF Messages, QuotesEndPlain
<1>2. CASE s \in Own
  <2> PICK level \in {"Debug", "Warning"} : s = OwnMessage(level).stmt
    BY <1>2 DEF Own
  <2>1. s.ids = <<Default>> /\ s.parts = 1 /\ s.quote = <<>>
    BY DEF OwnMessage, NewWriter
  <2>2. Default \in AllIds
    BY LoggingAssumption DEF AllIds
  <2>3. <<Default>> \in Seq(AllIds) /\ Len(<<Default>>) = 1 /\ <<Default>>[1] = Default
    BY <2>2
  <2>4. <<>> \in Messages
    BY MessagesJoin
  <2> QED
    BY <2>1, <2>2, <2>3, <2>4
<1> QED
  BY <1>1, <1>2 DEF Statements

\* What a part is adds to a stream.
Part(t, s, j, text) == Append(text, <<t, j>>) \o s.quote

LEMMA PartTyped ==
  ASSUME NEW t \in Threads, NEW s \in Statements, NEW j \in Nat, NEW text \in Messages
  PROVE  Part(t, s, j, text) \in Messages
<1>1. PICK x \in Tokens : x = <<t, j>> /\ x # Percent
  <2>1. <<t, j>> \in Tokens
    BY DEF Tokens
  <2>2. <<t, j>> # Percent
    BY DEF Percent
  <2> QED
    BY <2>1, <2>2
<1>2. PICK old \in Seq(Tokens) : old = text
  BY DEF Messages
<1>3. Append(old, x) \in Messages
  <2>1. Append(old, x) \in Seq(Tokens) /\ Len(Append(old, x)) = Len(old) + 1
        /\ Append(old, x)[Len(old) + 1] = x
    OBVIOUS
  <2>2. EndsPlain(Append(old, x))
    BY <1>1, <2>1 DEF EndsPlain
  <2> QED
    BY <2>1, <2>2 DEF Messages
<1>4. s.quote \in Messages
  BY StatementFacts
<1>5. Append(old, x) \o s.quote \in Messages
  BY <1>3, <1>4, MessagesJoin
<1> QED
  BY <1>1, <1>2, <1>5 DEF Part

\* What was said grows by one part at a time.
LEMMA SaidGrows ==
  ASSUME NEW t \in Threads, NEW s \in Statements
  PROVE  /\ Said(t, s)[0] = <<>>
         /\ \A j \in 0..s.parts : Said(t, s)[j] \in Messages
         /\ \A j \in 0..(s.parts - 1) : Said(t, s)[j + 1] = Part(t, s, j + 1, Said(t, s)[j])
<1> DEFINE N == s.parts
           Texts == Messages
           Says(f) == f = [j \in 0..N |-> IF j = 0 THEN <<>> ELSE Append(f[j - 1], <<t, j>>) \o s.quote]
           said == CHOOSE f : Says(f)
<1>1. N \in Nat
  BY StatementFacts
<1>2. Said(t, s) = said
  BY DEF Said
<1> HIDE DEF N
<1>3. \E f \in [0..N -> Texts] :
        f[0] = <<>> /\ \A j \in 1..N : f[j] = Part(t, s, j, f[j - 1])
  <2> DEFINE add == [j \in Nat |-> [text \in Texts |-> Part(t, s, j, text)]]
             nothing == <<>>
  <2>1. add \in [Nat -> [Texts -> Texts]]
    BY PartTyped
  <2>2. nothing \in Texts
    BY MessagesJoin
  <2>3. ASSUME NEW f \in [0..N -> Texts], NEW j \in 1..N
        PROVE  add[j][f[j - 1]] = Part(t, s, j, f[j - 1])
    <3>1. j \in Nat /\ j - 1 \in 0..N
      BY <1>1
    <3> QED
      BY <3>1
  <2> HIDE DEF add, Texts, nothing, Says, said
  <2>4. Iterable(Texts, nothing, add, N)
    BY <1>1, <2>1, <2>2, IterationExists
  <2>5. \E f \in [0..N -> Texts] :
          f[0] = nothing /\ \A j \in 1..N : f[j] = Part(t, s, j, f[j - 1])
    BY <2>3, <2>4 DEF Iterable
  <2> QED
    BY <2>5 DEF nothing
<1>4. Says(said)
  <2>1. PICK f \in [0..N -> Texts] : f[0] = <<>> /\ \A j \in 1..N : f[j] = Part(t, s, j, f[j - 1])
    BY <1>3
  <2>2. \A j \in 0..N : j # 0 => j \in 1..N
    BY <1>1
  <2>3. Says(f)
    BY <2>1, <2>2 DEF Part
  <2> QED
    BY <2>3
<1> HIDE DEF said
<1>5. \A j \in 0..N : said[j] = IF j = 0 THEN <<>> ELSE Append(said[j - 1], <<t, j>>) \o s.quote
  BY <1>4, Zenon
<1>6. said[0] = <<>>
  <2>1. 0 \in 0..N
    BY <1>1
  <2> QED
    BY <1>5, <2>1, Zenon
<1>7. ASSUME NEW j \in 0..(N - 1) PROVE said[j + 1] = Part(t, s, j + 1, said[j])
  <2>1. j + 1 \in 0..N /\ j + 1 # 0 /\ (j + 1) - 1 = j
    BY <1>1
  <2>2. said[j + 1] = Append(said[(j + 1) - 1], <<t, j + 1>>) \o s.quote
    BY <1>5, <2>1, Zenon
  <2> QED
    BY <2>1, <2>2, Zenon DEF Part
<1> DEFINE S == {j \in Nat : j \in 0..N => said[j] \in Texts}
<1>8. 0 \in S
  BY <1>6, MessagesJoin
<1>9. ASSUME NEW j \in Nat, j \in S PROVE j + 1 \in S
  <2> SUFFICES ASSUME j + 1 \in 0..N PROVE said[j + 1] \in Texts
    OBVIOUS
  <2>1. j \in 0..(N - 1) /\ said[j] \in Texts
    BY <1>1, <1>9
  <2> QED
    BY <1>7, <2>1, PartTyped
<1>10. Nat \subseteq S
  <2> HIDE DEF S
  <2> QED
    BY <1>8, <1>9, NatInduct
<1>11. \A j \in 0..N : said[j] \in Texts
  BY <1>1, <1>10
<1> QED
  BY <1>2, <1>6, <1>7, <1>11 DEF N

-----------------------------------------------------------------------------
(* Stacks of Writers.                                                      *)

LEMMA WriterFields ==
  ASSUME NEW w \in Writers
  PROVE  /\ w.stmt \in Statements /\ w.at \in Places /\ w.k \in 1..Len(w.stmt.ids) /\ w.k \in Nat
         /\ w.logger \in AllIds \cup {NoLogger} /\ w.proceed \in BOOLEAN /\ w.part \in Nat
         /\ w.message \in Messages /\ w.saved \in Messages
         /\ w.firstDispatched \in BOOLEAN /\ w.left \subseteq Callbacks
         /\ w.proceed => w.logger # NoLogger
         /\ w.at \in {"verbosity", "init", "site", "acquire", "arguments"} => w.stmt \in AllStatements
         /\ w.at = "arguments" => Member(w.stmt) /\ w.logger # NoLogger /\ w.k = 1
         /\ w.at = "acquire" => Member(w.stmt) /\ w.k = 1
         /\ w.at \in {"dispatch", "callbacks"} => w.logger # NoLogger
  BY DEF Writers

\* A step of t leaves what other threads have locked as it is.
Apart(t, streams, streams2, owners, owners2, dispatchedBy, dispatchedBy2) ==
  /\ \A id \in AllIds : owners[id] \notin {t, NoThread} =>
       owners2[id] = owners[id] /\ streams2[id] = streams[id]
  /\ dispatchedBy \notin {t, NoThread} => dispatchedBy2 = dispatchedBy

\* So it does not disturb their Writers, nor those of its own that wait.
LEMMA Undisturbed ==
  ASSUME NEW t \in Threads, NEW u \in Threads, NEW w \in Writers,
         NEW streams, NEW streams2, NEW owners, NEW owners2,
         NEW dispatchedBy, NEW dispatchedBy2,
         Apart(t, streams, streams2, owners, owners2, dispatchedBy, dispatchedBy2),
         WriterKept(u, w, streams, owners, dispatchedBy),
         u # t \/ Suspended(w)
  PROVE  WriterKept(u, w, streams2, owners2, dispatchedBy2)
<1>1. NoThread \notin Threads
  BY LoggingAssumption
<1>2. CASE Suspended(w)
  <2>1. w.at # "arguments" /\ ~w.proceed /\ ~Holds(w) /\ w.at # "callbacks"
    BY <1>2, WriterFields DEF Suspended, Holds, Locked
  <2> QED
    BY <2>1 DEF WriterKept, Gathered
<1>3. CASE u # t
  <2>1. Holds(w) => owners2[w.logger] = u /\ streams2[w.logger] = streams[w.logger]
    BY <1>1, <1>3, WriterFields DEF WriterKept, Apart, Holds
  <2>2. w.at = "callbacks" => dispatchedBy2 = u
    BY <1>1, <1>3 DEF WriterKept, Apart
  <2>3. w.at = "arguments" => Holds(w)
    BY WriterFields DEF Holds, Locked
  <2> HIDE DEF Holds
  <2>4. Gathered(u, w, streams2)
    BY <2>1, <2>3 DEF WriterKept, Gathered
  <2> QED
    BY <2>1, <2>2, <2>4 DEF WriterKept
<1> QED
  BY <1>2, <1>3

\* Top(t) in place of the last Writer.
Topped(q, w) == [q EXCEPT ![Len(q)] = w]

LEMMA ToppedIs ==
  ASSUME NEW q \in Seq(Writers), q # <<>>, NEW w \in Writers
  PROVE  /\ Topped(q, w) \in Seq(Writers) /\ Topped(q, w) # <<>>
         /\ Len(q) \in Nat \ {0} /\ Len(Topped(q, w)) = Len(q)
         /\ Topped(q, w)[Len(q)] = w
         /\ \A i \in 1..(Len(q) - 1) : Topped(q, w)[i] = q[i]
<1>1. Len(q) \in Nat \ {0} /\ Len(q) \in 1..Len(q)
  OBVIOUS
<1>2. /\ Topped(q, w) \in Seq(Writers) /\ Len(Topped(q, w)) = Len(q)
      /\ \A j \in 1..Len(q) : Topped(q, w)[j] = IF j = Len(q) THEN w ELSE q[j]
  BY <1>1, ExceptSeq DEF Topped
<1> QED
  BY <1>1, <1>2

LEMMA FrontIs ==
  ASSUME NEW q \in Seq(Writers), q # <<>>
  PROVE  /\ Front(q) \in Seq(Writers) /\ Len(Front(q)) = Len(q) - 1
         /\ \A i \in 1..Len(Front(q)) : i \in 1..Len(q) /\ i < Len(q) /\ Front(q)[i] = q[i]
<1>1. Len(q) \in Nat \ {0} /\ \A i \in 1..Len(q) : q[i] \in Writers
  OBVIOUS
<1>2. /\ SubSeq(q, 1, Len(q) - 1) \in Seq(Writers)
      /\ Len(SubSeq(q, 1, Len(q) - 1)) = Len(q) - 1
      /\ \A i \in 1..(Len(q) - 1) : SubSeq(q, 1, Len(q) - 1)[i] = q[i]
  BY <1>1
<1> QED
  BY <1>1, <1>2 DEF Front

\* The last Writer moves on,
LEMMA StackMoves ==
  ASSUME NEW t \in Threads, NEW q \in Seq(Writers), q # <<>>, NEW w \in Writers,
         NEW streams, NEW streams2, NEW owners, NEW owners2,
         NEW dispatchedBy, NEW dispatchedBy2,
         Apart(t, streams, streams2, owners, owners2, dispatchedBy, dispatchedBy2),
         StackKept(t, q, streams, owners, dispatchedBy),
         WriterKept(t, w, streams2, owners2, dispatchedBy2)
  PROVE  StackKept(t, Topped(q, w), streams2, owners2, dispatchedBy2)
<1> DEFINE p == Topped(q, w)
<1>1. /\ Len(p) = Len(q) /\ Len(q) \in Nat \ {0} /\ p[Len(q)] = w
      /\ \A i \in 1..(Len(q) - 1) : p[i] = q[i]
  BY ToppedIs
<1> HIDE DEF p
<1>2. ASSUME NEW i \in 1..Len(p)
      PROVE  /\ WriterKept(t, p[i], streams2, owners2, dispatchedBy2)
             /\ i < Len(p) => Suspended(p[i])
  <2>1. CASE i = Len(q)
    BY <1>1, <2>1
  <2>2. CASE i # Len(q)
    <3>1. i \in 1..Len(q) /\ i < Len(q) /\ p[i] = q[i] /\ q[i] \in Writers
      BY <1>1, <2>2
    <3>2. WriterKept(t, q[i], streams, owners, dispatchedBy) /\ Suspended(q[i])
      BY <3>1 DEF StackKept
    <3>3. WriterKept(t, q[i], streams2, owners2, dispatchedBy2)
      BY <3>1, <3>2, Undisturbed
    <3> QED
      BY <3>1, <3>2, <3>3
  <2> QED
    BY <2>1, <2>2
<1> QED
  BY <1>2 DEF StackKept, p

\* or is gone,
LEMMA StackReturns ==
  ASSUME NEW t \in Threads, NEW q \in Seq(Writers), q # <<>>,
         NEW streams, NEW owners, NEW dispatchedBy,
         StackKept(t, q, streams, owners, dispatchedBy)
  PROVE  StackKept(t, Front(q), streams, owners, dispatchedBy)
  BY FrontIs DEF StackKept

\* or lets another one go first.
LEMMA StackCalls ==
  ASSUME NEW t \in Threads, NEW q \in Seq(Writers), q # <<>>, NEW v \in Writers,
         NEW streams, NEW owners, NEW dispatchedBy,
         StackKept(t, q, streams, owners, dispatchedBy), Suspended(q[Len(q)]),
         WriterKept(t, v, streams, owners, dispatchedBy)
  PROVE  StackKept(t, Append(q, v), streams, owners, dispatchedBy)
<1>1. /\ Len(q) \in Nat \ {0} /\ Len(Append(q, v)) = Len(q) + 1
      /\ Append(q, v)[Len(q) + 1] = v
      /\ \A i \in 1..Len(q) : Append(q, v)[i] = q[i]
  BY AppendProperties
<1>2. \A i \in 1..(Len(q) + 1) : i = Len(q) + 1 \/ i = Len(q) \/ (i \in 1..Len(q) /\ i < Len(q))
  BY <1>1
<1> QED
  BY <1>1, <1>2 DEF StackKept

LEMMA TopIs ==
  ASSUME TypeOK, NEW t \in Threads, writers[t] # <<>>
  PROVE  /\ Top(t) \in Writers /\ writers[t] \in Seq(Writers)
         /\ \A w : SetTop(t, w) = [writers EXCEPT ![t] = Topped(writers[t], w)]
         /\ \A w \in Writers : SetTop(t, w) \in [Threads -> Seq(Writers)]
<1>1. writers \in [Threads -> Seq(Writers)] /\ writers[t] \in Seq(Writers)
  BY DEF TypeOK
<1>2. Top(t) \in Writers
  <2>1. Len(writers[t]) \in 1..Len(writers[t])
    BY <1>1
  <2> QED
    BY <1>1, <2>1 DEF Top
<1>3. ASSUME NEW w PROVE SetTop(t, w) = [writers EXCEPT ![t] = Topped(writers[t], w)]
  BY <1>1 DEF SetTop, Topped
<1>4. ASSUME NEW w \in Writers PROVE SetTop(t, w) \in [Threads -> Seq(Writers)]
  <2>1. Topped(writers[t], w) \in Seq(Writers)
    BY <1>1, ToppedIs
  <2> QED
    BY <1>1, <1>3, <2>1
<1> QED
  BY <1>1, <1>2, <1>3, <1>4

LEMMA NewWriters ==
  /\ \A s \in AllStatements : \A at \in {"verbosity", "init"} : NewWriter(s, at) \in Writers
  /\ \A s \in AllStatements : Member(s) => NewWriter(s, "acquire") \in Writers
  /\ OwnMessage("Debug") \in Writers /\ OwnMessage("Warning") \in Writers
<1>1. ASSUME NEW s \in Statements, NEW at \in Unwritten,
             at \in {"verbosity", "init", "site", "acquire"} => s \in AllStatements,
             at = "acquire" => Member(s)
      PROVE  NewWriter(s, at) \in Writers
  <2>1. 1 \in 1..Len(s.ids) /\ 1 \in Nat
    BY StatementFacts
  <2>2. <<>> \in Messages
    BY MessagesJoin
  <2> QED
    BY <1>1, <2>1, <2>2 DEF NewWriter, Writers, Places, Unwritten
<1>2. ASSUME NEW level \in {"Debug", "Warning"} PROVE OwnMessage(level) \in Writers
  <2> DEFINE s == [site |-> "own", occasion |-> "always", n |-> 0, level |-> level, vlevel |-> 0,
                   file |-> "", ids |-> <<Default>>, parts |-> 1, sys |-> TRUE, quote |-> <<>>]
  <2>1. OwnMessage(level) = NewWriter(s, "construct")
    BY DEF OwnMessage
  <2> HIDE DEF s
  <2>2. OwnMessage(level).stmt = s
    BY <2>1 DEF NewWriter
  <2>3. s \in Statements
    BY <2>2 DEF Statements, Own
  <2> QED
    BY <1>1, <2>1, <2>3 DEF Unwritten
<1> QED
  BY <1>1, <1>2 DEF Statements, Unwritten

LEMMA LockTyped ==
  ASSUME TypeOK, NEW t \in Threads, NEW id
  PROVE  /\ Lock(t, id) => owner' \in [AllIds -> Threads \cup {NoThread}]
         /\ Unlocked(id) \in [AllIds -> Threads \cup {NoThread}]
  BY DEF TypeOK, Lock, Unlocked

LEMMA InitTyped == Init => TypeOK
<1> SUFFICES ASSUME Init PROVE TypeOK
  OBVIOUS
<1> USE DEF Init
<1>1. todo \in [Threads -> Seq(AllStatements)]
  BY StatementsAssumption
<1>2. writers \in [Threads -> Seq(Writers)] /\ stream \in [AllIds -> Messages]
  <2>1. <<>> \in Seq(Writers) /\ <<>> \in Messages
    BY EmptySeq, MessagesJoin
  <2> QED
    BY <2>1
<1>3. registered \subseteq AllIds /\ pending \subseteq AllIds
  BY DEF AllIds
<1> QED
  BY <1>1, <1>2, <1>3 DEF TypeOK

LEMMA PartCounted == \A w \in Writers : [w EXCEPT !.part = @ + 1] \in Writers
<1> SUFFICES ASSUME NEW w \in Writers PROVE [w EXCEPT !.part = w.part + 1] \in Writers
  OBVIOUS
<1> DEFINE n == w.part + 1
<1>1. n \in Nat
  BY WriterFields
<1> HIDE DEF n
<1>2. [w EXCEPT !.part = n] \in Writers
  BY <1>1 DEF Writers
<1> QED
  BY <1>2 DEF n

LEMMA ProceedsIsBoolean == \A id, level : Proceeds(id, level) \in BOOLEAN
<1> SUFFICES ASSUME NEW id, NEW level PROVE Proceeds(id, level) \in BOOLEAN
  OBVIOUS
<1> DEFINE atLeast == castToInt(level)[2] >= castToInt(LoggingLevel)[2]
<1>1. atLeast \in BOOLEAN
  OBVIOUS
<1>2. (level \in Enabled[id]) \in BOOLEAN
  OBVIOUS
<1>3. Proceeds(id, level) = atLeast \/ Proceeds(id, level) = (level \in Enabled[id])
  BY Zenon DEF Proceeds
<1> HIDE DEF atLeast
<1> QED
  BY <1>1, <1>2, <1>3, Zenon

\* A step of t that moves its last Writer.
LEMMA Moves ==
  ASSUME TypeOK, NEW t \in Threads, writers[t] # <<>>, NEW w \in Writers,
         writers' = SetTop(t, w)
  PROVE  writers' \in [Threads -> Seq(Writers)]
  BY TopIs

LEMMA Empties ==
  ASSUME TypeOK, NEW t \in Threads, writers' = [writers EXCEPT ![t] = <<>>]
  PROVE  writers' \in [Threads -> Seq(Writers)]
  BY EmptySeq DEF TypeOK

LEMMA Calls ==
  ASSUME TypeOK, NEW t \in Threads, writers[t] # <<>>, NEW w \in Writers, NEW v \in Writers,
         writers' = [SetTop(t, w) EXCEPT ![t] = Append(@, v)]
  PROVE  /\ writers' \in [Threads -> Seq(Writers)]
         /\ writers' = [writers EXCEPT ![t] = Append(Topped(writers[t], w), v)]
<1>1. writers \in [Threads -> Seq(Writers)] /\ SetTop(t, w) = [writers EXCEPT ![t] = Topped(writers[t], w)]
  BY TopIs DEF TypeOK
<1>2. Topped(writers[t], w) \in Seq(Writers)
  BY <1>1, ToppedIs
<1>3. Append(Topped(writers[t], w), v) \in Seq(Writers)
  BY <1>2
<1>4. writers' = [writers EXCEPT ![t] = Append(Topped(writers[t], w), v)]
  BY <1>1
<1> QED
  BY <1>1, <1>3, <1>4

LEMMA TypeStep ==
  ASSUME TypeOK, NEW t \in Threads, Thread(t)
  PROVE  TypeOK'
<1> USE DEF TypeOK
<1>1. CASE Begin(t)
  <2> DEFINE s == Head(todo[t])
  <2>1. todo[t] \in Seq(AllStatements) /\ todo[t] # <<>>
    BY <1>1 DEF Begin
  <2>2. s \in AllStatements /\ Tail(todo[t]) \in Seq(AllStatements)
    BY <2>1
  <2> HIDE DEF s
  <2>3. PICK w \in Writers : writers' = [writers EXCEPT ![t] = <<w>>]
    <3>1. writers' = [writers EXCEPT ![t] =
              << NewWriter(s, IF Member(s) THEN "acquire"
                              ELSE IF SetsVerbosity(s) THEN "verbosity" ELSE "init") >>]
      BY <1>1 DEF Begin, s
    <3>2. NewWriter(s, IF Member(s) THEN "acquire"
                       ELSE IF SetsVerbosity(s) THEN "verbosity" ELSE "init") \in Writers
      BY <2>2, NewWriters
    <3> QED
      BY <3>1, <3>2
  <2>4. <<w>> \in Seq(Writers)
    OBVIOUS
  <2> QED
    BY <1>1, <2>2, <2>3, <2>4 DEF Begin, locks, sites, initVars
<1>2. CASE SetVerbosity(t)
  BY <1>2, Empties DEF SetVerbosity, locks, initVars
<1>3. CASE InitOnce(t)
  <2>1. writers[t] # <<>> /\ Top(t).at = "init" /\ Top(t) \in Writers
    BY <1>3, TopIs DEF InitOnce, At
  <2>2. [Top(t) EXCEPT !.at = "site"] \in Writers
    BY <2>1 DEF Writers, Places, Unwritten
  <2>3. writers' \in [Threads -> Seq(Writers)]
    BY <1>3, <2>1, <2>2, Moves DEF InitOnce
  <2> QED
    BY <1>3, <2>3 DEF InitOnce, locks, sites, initVars
<1>4. CASE BeginReconfigure(t)
  <2>1. owner' \in [AllIds -> Threads \cup {NoThread}]
    BY <1>4, LockTyped DEF BeginReconfigure
  <2> QED
    BY <1>4, <2>1 DEF BeginReconfigure, sites
<1>5. CASE EndReconfigure(t)
  <2>1. owner' \in [AllIds -> Threads \cup {NoThread}]
    BY <1>5, LockTyped DEF EndReconfigure
  <2> QED
    BY <1>5, <2>1 DEF EndReconfigure, sites
<1>6. CASE Site(t)
  <2>1. writers[t] # <<>> /\ Top(t).at = "site" /\ Top(t) \in Writers
    BY <1>6, TopIs DEF Site, At
  <2>2. [Top(t) EXCEPT !.at = "construct"] \in Writers
    BY <2>1 DEF Writers, Places, Unwritten
  <2>3. writers' \in [Threads -> Seq(Writers)]
    <3>1. writers' = SetTop(t, [Top(t) EXCEPT !.at = "construct"])
            \/ writers' = [writers EXCEPT ![t] = <<>>]
      BY <1>6 DEF Site
    <3> QED
      BY <2>1, <2>2, <3>1, Moves, Empties
  <2>4. Top(t).stmt \in AllStatements /\ Top(t).stmt.site \in Sites /\ Top(t).stmt.n \in Nat
    BY <2>1, WriterFields, StatementsAssumption DEF Sites
  <2>5. ASSUME NEW h \in Nat PROVE Count(Top(t).stmt.occasion, h, Top(t).stmt.n) \in Nat
    <3> DEFINE n == Top(t).stmt.n
    <3>1. KMax \in Nat /\ n \in Nat /\ (n >= 1 => KMax % n \in Nat)
      BY <2>4, SiteAssumption
    <3> HIDE DEF n
    <3>2. validateHitCounts(h, n) \in Nat
      BY <3>1 DEF validateHitCounts
    <3>3. Count(Top(t).stmt.occasion, h, n) \in Nat
      BY <3>1, <3>2 DEF Count
    <3> QED
      BY <3>3 DEF n
  <2>6. counters' \in [Sites -> Nat] /\ visits' \in [Sites -> Nat]
    <3>1. PICK u \in AllStatements : u = Top(t).stmt
      BY <2>4
    <3>2. u.site \in Sites /\ \A h \in Nat : Count(u.occasion, h, u.n) \in Nat
      BY <2>4, <2>5, <3>1
    <3>3. /\ counters' = [counters EXCEPT ![u.site] = Count(u.occasion, counters[u.site], u.n)]
          /\ visits' = [visits EXCEPT ![u.site] = visits[u.site] + 1]
      BY <1>6, <3>1 DEF Site
    <3>4. counters[u.site] \in Nat /\ visits[u.site] + 1 \in Nat
      <4>1. PICK x \in Sites : x = u.site
        BY <3>2
      <4>2. counters[x] \in Nat /\ visits[x] \in Nat
        OBVIOUS
      <4>3. \A k \in Nat : k + 1 \in Nat
        OBVIOUS
      <4> QED
        BY <4>1, <4>2, <4>3
    <3>5. Count(u.occasion, counters[u.site], u.n) \in Nat
      BY <3>2, <3>4
    <3> QED
      BY <3>3, <3>4, <3>5
  <2>7. written' \in [Sites -> Nat]
    BY <1>6, <2>4 DEF Site
  <2> QED
    BY <1>6, <2>3, <2>6, <2>7 DEF Site, locks, initVars
<1>7. CASE Acquire(t)
  <2> DEFINE id == Top(t).stmt.ids[1]
             w == [Top(t) EXCEPT !.logger = id, !.at = "arguments"]
  <2>1. writers[t] # <<>> /\ Top(t).at = "acquire" /\ Top(t) \in Writers
    BY <1>7, TopIs DEF Acquire, At
  <2>2. id \in AllIds /\ id # NoLogger
    BY <2>1, WriterFields, StatementFacts, StatementsAssumption
  <2>3. w \in Writers
    BY <2>1, <2>2 DEF Writers, Places, Locked
  <2>4. writers' \in [Threads -> Seq(Writers)]
    <3>1. writers' = SetTop(t, w)
      BY <1>7 DEF Acquire
    <3> HIDE DEF w
    <3> QED
      BY <2>1, <2>3, <3>1, Moves
  <2>5. owner' \in [AllIds -> Threads \cup {NoThread}]
    BY <1>7, LockTyped DEF Acquire
  <2> QED
    BY <1>7, <2>4, <2>5 DEF Acquire, sites, initVars
<1>8. CASE Argument(t) \/ TooManyArguments(t)
  <2> DEFINE w == Top(t)
  <2>1. writers[t] # <<>> /\ w.at = "arguments" /\ w \in Writers
    BY <1>8, TopIs DEF Argument, TooManyArguments, At
  <2>2. stream' = [stream EXCEPT ![w.logger] = Part(t, w.stmt, w.part + 1, @)]
    BY <1>8 DEF Argument, TooManyArguments, Part
  <2>3. [w EXCEPT !.part = @ + 1] \in Writers
    BY <2>1, PartCounted
  <2>4. writers' = SetTop(t, [w EXCEPT !.part = @ + 1]) \/ writers' = [writers EXCEPT ![t] = <<>>]
    BY <1>8 DEF Argument, TooManyArguments
  <2> HIDE DEF w
  <2>5. writers' \in [Threads -> Seq(Writers)]
    BY <2>1, <2>3, <2>4, Moves, Empties
  <2>6. stream' \in [AllIds -> Messages]
    <3>1. w.stmt \in Statements /\ w.part + 1 \in Nat /\ w.logger \in AllIds
      BY <2>1, WriterFields
    <3>2. Part(t, w.stmt, w.part + 1, stream[w.logger]) \in Messages
      BY <3>1, PartTyped
    <3> QED
      BY <2>2, <3>1, <3>2
  <2> QED
    BY <1>8, <2>5, <2>6 DEF Argument, TooManyArguments, locks, sites, initVars
<1>9. CASE Rest(t)
  <2> DEFINE w == Top(t)
             v == [w EXCEPT !.at = "stream", !.proceed = Proceeds(w.logger, w.stmt.level)]
  <2>1. writers[t] # <<>> /\ w.at = "arguments" /\ w \in Writers
    BY <1>9, TopIs DEF Rest, At
  <2>2. v \in Writers
    <3>1. Proceeds(w.logger, w.stmt.level) \in BOOLEAN
      BY ProceedsIsBoolean
    <3> QED
      BY <2>1, <3>1 DEF Writers, Places, Locked
  <2>3. \/ writers' = SetTop(t, v) /\ UNCHANGED <<stream, owner>>
        \/ /\ writers' = [writers EXCEPT ![t] = <<>>]
           /\ stream' = [stream EXCEPT ![w.logger] = <<>>]
           /\ owner' = Unlocked(w.logger)
    BY <1>9 DEF Rest
  <2> HIDE DEF v
  <2>4. writers' \in [Threads -> Seq(Writers)]
    BY <2>1, <2>2, <2>3, Moves, Empties
  <2>5. stream' \in [AllIds -> Messages] /\ owner' \in [AllIds -> Threads \cup {NoThread}]
    <3>1. CASE UNCHANGED <<stream, owner>>
      BY <3>1
    <3>2. CASE stream' = [stream EXCEPT ![w.logger] = <<>>] /\ owner' = Unlocked(w.logger)
      <4>1. <<>> \in Messages
        BY MessagesJoin
      <4> QED
        BY <3>2, <4>1, LockTyped
    <3> QED
      BY <2>3, <3>1, <3>2
  <2> QED
    BY <1>9, <2>4, <2>5 DEF Rest, sites, initVars
<1>10. CASE Construct(t)
  <2> DEFINE id == Top(t).stmt.ids[Top(t).k]
             w == [Top(t) EXCEPT !.logger = id, !.at = AfterConstruct(Top(t)),
                                 !.proceed = Proceeds(id, Top(t).stmt.level)]
  <2>1. writers[t] # <<>> /\ Top(t).at = "construct" /\ Top(t) \in Writers
    BY <1>10, TopIs DEF Construct, At
  <2>2. id \in AllIds /\ id # NoLogger
    BY <2>1, WriterFields, StatementFacts, StatementsAssumption
  <2>3. w \in Writers
    <3>1. Proceeds(id, Top(t).stmt.level) \in BOOLEAN
      BY ProceedsIsBoolean
    <3>2. AfterConstruct(Top(t)) \in {"stream", "process"}
      BY DEF AfterConstruct
    <3> HIDE DEF id
    <3> QED
      BY <2>1, <2>2, <3>1, <3>2 DEF Writers, Places, Locked
  <2>4. writers' = SetTop(t, w)
    BY <1>10 DEF Construct
  <2>5. registered' \subseteq AllIds
    BY <1>10, <2>2 DEF Construct
  <2>6. owner' \in [AllIds -> Threads \cup {NoThread}]
    BY <1>10, LockTyped DEF Construct
  <2> HIDE DEF w
  <2>7. writers' \in [Threads -> Seq(Writers)]
    BY <2>1, <2>3, <2>4, Moves
  <2> QED
    BY <1>10, <2>5, <2>6, <2>7 DEF Construct, sites, initVars
<1>11. CASE ConstructUnknown(t)
  <2> DEFINE w == [Top(t) EXCEPT !.logger = NoLogger, !.proceed = FALSE,
                                 !.at = AfterConstruct(Top(t))]
             v == OwnMessage("Debug")
  <2>1. writers[t] # <<>> /\ Top(t).at = "construct" /\ Top(t) \in Writers
    BY <1>11, TopIs DEF ConstructUnknown, At
  <2>2. w \in Writers
    <3>1. AfterConstruct(Top(t)) \in {"stream", "process"}
      BY DEF AfterConstruct
    <3> QED
      BY <2>1, <3>1 DEF Writers, Places, Locked
  <2>3. writers' = [SetTop(t, w) EXCEPT ![t] = Append(@, v)]
    BY <1>11 DEF ConstructUnknown
  <2>4. v \in Writers
    BY NewWriters
  <2> HIDE DEF w, v
  <2>5. writers' \in [Threads -> Seq(Writers)]
    BY <2>1, <2>2, <2>3, <2>4, Calls
  <2> QED
    BY <1>11, <2>5 DEF ConstructUnknown, locks, sites, initVars
<1>12. CASE Stream(t)
  <2> DEFINE w == Top(t)
  <2>1. writers[t] # <<>> /\ w.at = "stream" /\ w \in Writers
    BY <1>12, TopIs DEF Stream, At
  <2>2. [w EXCEPT !.part = @ + 1] \in Writers /\ [w EXCEPT !.at = "process"] \in Writers
    <3>1. [w EXCEPT !.at = "process"] \in Writers
      BY <2>1 DEF Writers, Places, Locked
    <3> QED
      BY <2>1, <3>1, PartCounted
  <2>3. \/ /\ stream' = [stream EXCEPT ![w.logger] = Part(t, w.stmt, w.part + 1, @)]
           /\ writers' = SetTop(t, [w EXCEPT !.part = @ + 1])
        \/ writers' = SetTop(t, [w EXCEPT !.at = "process"]) /\ UNCHANGED stream
    BY <1>12 DEF Stream, Part
  <2> HIDE DEF w
  <2>4. writers' \in [Threads -> Seq(Writers)]
    BY <2>1, <2>2, <2>3, Moves
  <2>5. stream' \in [AllIds -> Messages]
    <3>1. w.stmt \in Statements /\ w.part + 1 \in Nat
      BY <2>1, WriterFields
    <3>2. ASSUME NEW id \in AllIds PROVE Part(t, w.stmt, w.part + 1, stream[id]) \in Messages
      BY <3>1, PartTyped
    <3>3. CASE w.logger \in AllIds /\ stream' = [stream EXCEPT ![w.logger] = Part(t, w.stmt, w.part + 1, @)]
      BY <3>2, <3>3
    <3>4. CASE w.logger \notin AllIds /\ stream' = [stream EXCEPT ![w.logger] = Part(t, w.stmt, w.part + 1, @)]
      BY <3>4
    <3> QED
      BY <2>3, <3>3, <3>4
  <2> QED
    BY <1>12, <2>4, <2>5 DEF Stream, locks, sites, initVars
<1>13. CASE Process(t)
  <2> DEFINE w == Top(t)
             text == IF w.firstDispatched THEN stream[w.logger] \o w.saved ELSE stream[w.logger]
             v == [w EXCEPT !.at = "dispatch", !.message = text, !.firstDispatched = TRUE,
                            !.saved = IF w.firstDispatched THEN @ ELSE text]
  <2>1. writers[t] # <<>> /\ w.at = "process" /\ w \in Writers
    BY <1>13, TopIs DEF Process, At
  <2>2. CASE w.proceed
    <3> w.logger \in AllIds /\ w.saved \in Messages /\ w.logger # NoLogger
      BY <2>1, <2>2, WriterFields
    <3>1. text \in Messages
      BY MessagesJoin
    <3>2. stream' = [stream EXCEPT ![w.logger] = text] /\ writers' = SetTop(t, v)
      BY <1>13, <2>2 DEF Process
    <3> HIDE DEF text
    <3>3. v \in Writers
      BY <2>1, <3>1 DEF Writers, Places, Locked
    <3> HIDE DEF v
    <3>4. writers' \in [Threads -> Seq(Writers)]
      BY <2>1, <3>2, <3>3, Moves
    <3> QED
      BY <1>13, <3>1, <3>2, <3>4 DEF Process, locks, sites, initVars
  <2>3. CASE ~w.proceed
    <3>1. [w EXCEPT !.at = "release"] \in Writers
      BY <2>1 DEF Writers, Places, Locked
    <3>2. UNCHANGED stream /\ writers' = SetTop(t, [w EXCEPT !.at = "release"])
      BY <1>13, <2>3 DEF Process
    <3>3. writers' \in [Threads -> Seq(Writers)]
      BY <2>1, <3>1, <3>2, Moves
    <3> QED
      BY <1>13, <3>2, <3>3 DEF Process, locks, sites, initVars
  <2> QED
    BY <2>2, <2>3
<1>14. CASE Dispatch(t)
  <2> DEFINE w == [Top(t) EXCEPT !.at = "callbacks", !.left = Callbacks]
  <2>1. writers[t] # <<>> /\ Top(t).at = "dispatch" /\ Top(t) \in Writers
    BY <1>14, TopIs DEF Dispatch, At
  <2>2. w \in Writers
    BY <2>1 DEF Writers, Places, Locked
  <2>3. writers' = SetTop(t, w)
    BY <1>14 DEF Dispatch
  <2> HIDE DEF w
  <2>4. writers' \in [Threads -> Seq(Writers)]
    BY <2>1, <2>2, <2>3, Moves
  <2> QED
    BY <1>14, <2>4 DEF Dispatch, sites, initVars
<1>15. CASE Callback(t)
  <2>1. writers[t] # <<>> /\ Top(t).at = "callbacks" /\ Top(t) \in Writers
    BY <1>15, TopIs DEF Callback, At
  <2>2. PICK c \in Top(t).left : writers' = SetTop(t, [Top(t) EXCEPT !.left = @ \ {c}])
    BY <1>15 DEF Callback
  <2>3. [Top(t) EXCEPT !.left = @ \ {c}] \in Writers
    BY <2>1 DEF Writers
  <2>4. writers' \in [Threads -> Seq(Writers)]
    BY <2>1, <2>2, <2>3, Moves
  <2> QED
    BY <1>15, <2>4 DEF Callback, locks, sites, initVars
<1>16. CASE Dispatched(t)
  <2> DEFINE w == [Top(t) EXCEPT !.at = "release"]
  <2>1. writers[t] # <<>> /\ Top(t).at = "callbacks" /\ Top(t) \in Writers
    BY <1>16, TopIs DEF Dispatched, At
  <2>2. w \in Writers
    BY <2>1 DEF Writers, Places, Locked
  <2>3. writers' = SetTop(t, w)
    BY <1>16 DEF Dispatched
  <2> HIDE DEF w
  <2>4. writers' \in [Threads -> Seq(Writers)]
    BY <2>1, <2>2, <2>3, Moves
  <2> QED
    BY <1>16, <2>4 DEF Dispatched, sites, initVars
<1>17. CASE Release(t)
  <2> DEFINE w == [Top(t) EXCEPT !.at = IF Fatal(Top(t)) THEN "abort" ELSE "next", !.proceed = FALSE]
             v == OwnMessage("Warning")
  <2>1. writers[t] # <<>> /\ Top(t).at = "release" /\ Top(t) \in Writers
    BY <1>17, TopIs DEF Release, At
  <2>2. w \in Writers /\ v \in Writers
    <3>1. (IF Fatal(Top(t)) THEN "abort" ELSE "next") \in {"abort", "next"}
      OBVIOUS
    <3>2. w \in Writers
      BY <2>1, <3>1 DEF Writers, Places
    <3> QED
      BY <3>2, NewWriters
  <2>3. writers' = [SetTop(t, w) EXCEPT ![t] = Append(@, v)] \/ writers' = SetTop(t, w)
    BY <1>17 DEF Release
  <2>4. \/ UNCHANGED <<stream, owner>>
        \/ stream' = [stream EXCEPT ![Top(t).logger] = <<>>] /\ owner' = Unlocked(Top(t).logger)
    BY <1>17 DEF Release
  <2> HIDE DEF w, v
  <2>5. writers' \in [Threads -> Seq(Writers)]
    BY <2>1, <2>2, <2>3, Moves, Calls
  <2>6. stream' \in [AllIds -> Messages] /\ owner' \in [AllIds -> Threads \cup {NoThread}]
    <3>1. <<>> \in Messages
      BY MessagesJoin
    <3>2. CASE UNCHANGED <<stream, owner>>
      BY <3>2
    <3>3. CASE stream' = [stream EXCEPT ![Top(t).logger] = <<>>] /\ owner' = Unlocked(Top(t).logger)
      BY <3>1, <3>3, LockTyped
    <3> QED
      BY <2>4, <3>2, <3>3
  <2> QED
    BY <1>17, <2>5, <2>6 DEF Release, sites, initVars
<1>18. CASE Abort(t)
  BY <1>18 DEF Abort, locks, sites, initVars
<1>19. CASE NextLogger(t)
  <2> DEFINE w == [Top(t) EXCEPT !.k = @ + 1, !.at = "construct"]
  <2>1. writers[t] # <<>> /\ Top(t).at = "next" /\ Top(t) \in Writers /\ writers[t] \in Seq(Writers)
    BY <1>19, TopIs DEF NextLogger, At
  <2>2. CASE Top(t).k < Len(Top(t).stmt.ids) /\ writers' = SetTop(t, w)
    <3>1. Top(t).k + 1 \in 1..Len(Top(t).stmt.ids) /\ Top(t).k + 1 \in Nat
      <4>1. Top(t).k \in Nat /\ Top(t).stmt \in Statements
        BY <2>1, WriterFields
      <4>2. Len(Top(t).stmt.ids) \in Nat
        BY <4>1, StatementFacts
      <4>3. Top(t).k < Len(Top(t).stmt.ids)
        BY <2>2
      <4> HIDE DEF w
      <4> QED
        BY <4>1, <4>2, <4>3
    <3>2. w \in Writers
      BY <2>1, <3>1 DEF Writers, Places, Unwritten
    <3> HIDE DEF w
    <3>3. writers' \in [Threads -> Seq(Writers)]
      BY <2>1, <2>2, <3>2, Moves
    <3> QED
      BY <1>19, <3>3 DEF NextLogger, locks, sites, initVars
  <2>3. CASE writers' = [writers EXCEPT ![t] = Front(@)]
    <3>1. Front(writers[t]) \in Seq(Writers)
      BY <2>1, FrontIs
    <3>2. writers' \in [Threads -> Seq(Writers)]
      BY <2>3, <3>1
    <3> QED
      BY <1>19, <3>2 DEF NextLogger, locks, sites, initVars
  <2> QED
    BY <1>19, <2>2, <2>3 DEF NextLogger
<1> QED
  BY <1>1, <1>2, <1>3, <1>4, <1>5, <1>6, <1>7, <1>8, <1>9, <1>10, <1>11, <1>12, <1>13,
     <1>14, <1>15, <1>16, <1>17, <1>18, <1>19 DEF Thread

-----------------------------------------------------------------------------
(* Locks.                                                                  *)

\* A step of a thread that does not run Logger::Init().
LEMMA ThreadStep ==
  ASSUME TypeOK, TypeOK', LocksKept, NEW t \in Threads, t # init,
         writers' = [writers EXCEPT ![t] = writers'[t]],
         StackKept(t, writers'[t], stream', owner', dispatcher'),
         Apart(t, stream, stream', owner, owner', dispatcher, dispatcher'),
         FreeIsEmpty', UNCHANGED <<init, replacing>>
  PROVE  LocksKept'
<1>1. writers \in [Threads -> Seq(Writers)] /\ NoThread \notin Threads
  BY LoggingAssumption DEF TypeOK
<1>2. ASSUME NEW u \in Threads PROVE StackKept(u, writers'[u], stream', owner', dispatcher')
  <2>1. CASE u = t
    BY <2>1
  <2>2. CASE u # t
    <3>1. writers'[u] = writers[u] /\ writers[u] \in Seq(Writers)
      BY <1>1, <2>2
    <3>2. StackKept(u, writers[u], stream, owner, dispatcher)
      BY DEF LocksKept, WritersKept
    <3>3. ASSUME NEW i \in 1..Len(writers[u])
          PROVE  /\ WriterKept(u, writers[u][i], stream', owner', dispatcher')
                 /\ i < Len(writers[u]) => Suspended(writers[u][i])
      <4>1. writers[u][i] \in Writers
        BY <3>1
      <4>2. /\ WriterKept(u, writers[u][i], stream, owner, dispatcher)
            /\ i < Len(writers[u]) => Suspended(writers[u][i])
        BY <3>2 DEF StackKept
      <4> QED
        BY <2>2, <4>1, <4>2, Undisturbed
    <3> QED
      BY <3>1, <3>3 DEF StackKept
  <2> QED
    BY <2>1, <2>2
<1>3. InitKept'
  <2>1. init \in Threads => writers'[init] = writers[init]
    BY <1>1
  <2>2. replacing # NoLogger => owner'[replacing] = owner[replacing] /\ stream'[replacing] = stream[replacing]
    BY <1>1 DEF LocksKept, InitKept, TypeOK, Apart
  <2> QED
    BY <2>1, <2>2 DEF LocksKept, InitKept
<1> QED
  BY <1>2, <1>3 DEF LocksKept, WritersKept

\* Its last Writer moves,
LEMMA MoveStep ==
  ASSUME TypeOK, TypeOK', LocksKept, NEW t \in Threads, writers[t] # <<>>, t # init,
         NEW w \in Writers, writers' = SetTop(t, w),
         WriterKept(t, w, stream', owner', dispatcher'),
         Apart(t, stream, stream', owner, owner', dispatcher, dispatcher'),
         FreeIsEmpty', UNCHANGED <<init, replacing>>
  PROVE  LocksKept'
<1>1. writers \in [Threads -> Seq(Writers)] /\ writers[t] \in Seq(Writers)
      /\ writers' = [writers EXCEPT ![t] = Topped(writers[t], w)]
  BY TopIs DEF TypeOK
<1>2. writers'[t] = Topped(writers[t], w)
  BY <1>1
<1>3. StackKept(t, Topped(writers[t], w), stream', owner', dispatcher')
  <2>1. StackKept(t, writers[t], stream, owner, dispatcher)
    BY DEF LocksKept, WritersKept
  <2> QED
    BY <1>1, <2>1, StackMoves
<1>4. writers' = [writers EXCEPT ![t] = writers'[t]]
  BY <1>1, <1>2, Zenon
<1>5. StackKept(t, writers'[t], stream', owner', dispatcher')
  BY <1>2, <1>3, Zenon
<1> QED
  BY <1>4, <1>5, ThreadStep

\* or all are gone.
LEMMA EmptyStep ==
  ASSUME TypeOK, TypeOK', LocksKept, NEW t \in Threads, t # init,
         writers' = [writers EXCEPT ![t] = <<>>],
         Apart(t, stream, stream', owner, owner', dispatcher, dispatcher'),
         FreeIsEmpty', UNCHANGED <<init, replacing>>
  PROVE  LocksKept'
<1>1. writers'[t] = <<>>
  BY DEF TypeOK
<1>2. writers' = [writers EXCEPT ![t] = writers'[t]]
  BY <1>1
<1>3. StackKept(t, writers'[t], stream', owner', dispatcher')
  BY <1>1, EmptySeq DEF StackKept
<1> QED
  BY <1>2, <1>3, ThreadStep

\* A step of the thread that does: none of its Writers has a lock.
LEMMA InitStep ==
  ASSUME TypeOK, LocksKept, NEW t \in Threads, t = init, UNCHANGED writers,
         Apart(t, stream, stream', owner, owner', dispatcher, dispatcher')
  PROVE  WritersKept'
<1>1. ASSUME NEW u \in Threads, NEW i \in 1..Len(writers[u])
      PROVE  /\ WriterKept(u, writers[u][i], stream', owner', dispatcher')
             /\ i < Len(writers[u]) => Suspended(writers[u][i])
  <2>1. writers[u] \in Seq(Writers) /\ writers[u][i] \in Writers
    BY DEF TypeOK
  <2>2. /\ WriterKept(u, writers[u][i], stream, owner, dispatcher)
        /\ i < Len(writers[u]) => Suspended(writers[u][i])
    BY DEF LocksKept, WritersKept, StackKept
  <2>3. u = t /\ i = Len(writers[u]) => Suspended(writers[u][i])
    <3> SUFFICES ASSUME u = t, i = Len(writers[u]) PROVE Suspended(writers[u][i])
      OBVIOUS
    <3>1. writers[u][i].at = "init"
      BY DEF LocksKept, InitKept, WaitsForInit
    <3> QED
      BY <2>2, <3>1 DEF Suspended, WriterKept, Holds, Locked
  <2>4. u # t \/ Suspended(writers[u][i])
    <3>1. i = Len(writers[u]) \/ i < Len(writers[u])
      BY <2>1
    <3> QED
      BY <2>2, <2>3, <3>1
  <2> QED
    BY <2>1, <2>2, <2>4, Undisturbed
<1> QED
  BY <1>1 DEF WritersKept, StackKept

\* What touches one logger, free or locked by t.
LEMMA OneLogger ==
  ASSUME FreeIsEmpty, NEW t, NEW id \in AllIds, owner[id] \in {t, NoThread},
         \A i \in AllIds : i # id => owner'[i] = owner[i] /\ stream'[i] = stream[i],
         owner'[id] = NoThread => stream'[id] = <<>>, UNCHANGED dispatcher
  PROVE  Apart(t, stream, stream', owner, owner', dispatcher, dispatcher') /\ FreeIsEmpty'
  BY DEF FreeIsEmpty, Apart

\* What touches none.
LEMMA NoLoggerTouched ==
  ASSUME FreeIsEmpty, NEW t, UNCHANGED <<stream, owner>>,
         dispatcher \in {t, NoThread} \/ UNCHANGED dispatcher
  PROVE  Apart(t, stream, stream', owner, owner', dispatcher, dispatcher') /\ FreeIsEmpty'
  BY DEF FreeIsEmpty, Apart

LEMMA TopKept ==
  ASSUME TypeOK, LocksKept, NEW t \in Threads, writers[t] # <<>>
  PROVE  /\ WriterKept(t, Top(t), stream, owner, dispatcher)
         /\ init = t => Top(t).at = "init" /\ ~Top(t).stmt.sys
<1>1. Len(writers[t]) \in 1..Len(writers[t])
  BY DEF TypeOK
<1> QED
  BY <1>1 DEF LocksKept, WritersKept, StackKept, Top, InitKept, WaitsForInit

LEMMA ClosedIsUnlocked ==
  ASSUME TypeOK, ThreadSafe
  PROVE  /\ \A id \in AllIds : Unlocked(id)[id] = NoThread
         /\ \A id, i \in AllIds : i # id => Unlocked(id)[i] = owner[i]
         /\ \A t \in Threads : \A id \in AllIds :
              Lock(t, id) => /\ owner[id] = NoThread /\ owner'[id] = t
                             /\ \A i \in AllIds : i # id => owner'[i] = owner[i]
  BY DEF TypeOK, Unlocked, Lock

LEMMA OwnIsKept ==
  ASSUME NEW t, NEW level, NEW streams, NEW owners, NEW dispatchedBy
  PROVE  WriterKept(t, OwnMessage(level), streams, owners, dispatchedBy)
<1> PICK s : OwnMessage(level) = NewWriter(s, "construct")
  BY DEF OwnMessage
<1> QED
  BY DEF NewWriter, WriterKept, Gathered, Holds, Locked, Unwritten

LEMMA MinLess ==
  ASSUME NEW a \in Nat, NEW b \in Nat, NEW n \in Nat, n < Min({a, b})
  PROVE  n < a /\ n < b
<1>1. \E x \in {a, b} : \A y \in {a, b} : x =< y
  <2>1. CASE a =< b
    BY <2>1
  <2>2. CASE b =< a
    BY <2>2
  <2> QED
    BY <2>1, <2>2
<1>2. Min({a, b}) \in {a, b} /\ \A y \in {a, b} : Min({a, b}) =< y
  BY <1>1 DEF Min
<1> QED
  BY <1>2

\* Each step keeps the locks and what is gathered under them.
LEMMA LocksStep ==
  ASSUME ThreadSafe, TypeOK, TypeOK', LocksKept, NEW t \in Threads, Thread(t)
  PROVE  LocksKept'
<1>0. /\ NoThread \notin Threads /\ "no" \notin Threads /\ "done" \notin Threads
      /\ NoLogger \notin AllIds /\ FreeIsEmpty
  BY LoggingAssumption, StatementsAssumption DEF LocksKept
<1>1. CASE Begin(t)
  <2>1. PICK s \in AllStatements, at \in {"verbosity", "init", "acquire"} :
          writers' = [writers EXCEPT ![t] = << NewWriter(s, at) >>]
    <3>1. todo[t] \in Seq(AllStatements) /\ todo[t] # <<>>
      BY <1>1 DEF Begin, TypeOK
    <3>2. Head(todo[t]) \in AllStatements
      BY <3>1
    <3> QED
      BY <1>1, <3>2 DEF Begin
  <2> DEFINE w == NewWriter(s, at)
  <2>2. writers'[t] = <<w>>
    BY <2>1 DEF TypeOK
  <2>3. WriterKept(t, w, stream, owner, dispatcher)
    BY DEF WriterKept, Gathered, Holds, Locked, Unwritten, NewWriter
  <2> HIDE DEF w
  <2>4. StackKept(t, <<w>>, stream, owner, dispatcher)
    BY <2>3 DEF StackKept
  <2>5. t # init
    BY <1>1 DEF Begin, LocksKept, InitKept, WaitsForInit
  <2>6. Apart(t, stream, stream', owner, owner', dispatcher, dispatcher') /\ FreeIsEmpty'
    BY <1>0, <1>1, NoLoggerTouched DEF Begin, locks
  <2>7. StackKept(t, writers'[t], stream', owner', dispatcher')
    BY <1>1, <2>2, <2>4 DEF Begin, locks
  <2>8. writers' = [writers EXCEPT ![t] = writers'[t]]
    BY <2>1, <2>2 DEF w
  <2> QED
    BY <1>1, <2>5, <2>6, <2>7, <2>8, ThreadStep DEF Begin, initVars
<1>2. CASE SetVerbosity(t)
  <2>1. t # init
    BY <1>2, TopKept DEF SetVerbosity, At
  <2>2. Apart(t, stream, stream', owner, owner', dispatcher, dispatcher') /\ FreeIsEmpty'
    BY <1>0, <1>2, NoLoggerTouched DEF SetVerbosity, locks
  <2> QED
    BY <1>2, <2>1, <2>2, EmptyStep DEF SetVerbosity, initVars
<1>3. CASE InitOnce(t)
  <2>1. writers[t] # <<>> /\ Top(t).at = "init" /\ Top(t) \in Writers
    BY <1>3, TopIs DEF InitOnce, At
  <2>2. Apart(t, stream, stream', owner, owner', dispatcher, dispatcher') /\ FreeIsEmpty'
    BY <1>0, <1>3, NoLoggerTouched DEF InitOnce, locks
  <2>3. UNCHANGED <<stream, owner, dispatcher>>
    BY <1>3 DEF InitOnce, locks
  <2>4. CASE (Top(t).stmt.sys \/ init = "done")
             /\ writers' = SetTop(t, [Top(t) EXCEPT !.at = "site"]) /\ UNCHANGED initVars
    <3>1. PICK w \in Writers : w = Top(t)
      BY <2>1
    <3> DEFINE v == [w EXCEPT !.at = "site"]
    <3>2. v \in Writers
      BY <2>1, <3>1 DEF Writers, Places, Unwritten
    <3>3. t # init
      BY <1>0, <2>1, <2>4, TopKept
    <3>4. WriterKept(t, w, stream, owner, dispatcher) /\ w.at = "init"
      BY <2>1, <3>1, TopKept
    <3>5. WriterKept(t, v, stream, owner, dispatcher)
      BY <3>4 DEF WriterKept, Gathered, Holds, Locked, Unwritten, Writers
    <3>6. writers' = SetTop(t, v)
      BY <2>4, <3>1
    <3> HIDE DEF v
    <3>7. WriterKept(t, v, stream', owner', dispatcher')
      BY <2>3, <3>5
    <3> QED
      BY <2>1, <2>2, <2>4, <3>2, <3>3, <3>6, <3>7, MoveStep DEF initVars
  <2>5. CASE ~Top(t).stmt.sys /\ init = "no" /\ init' = t /\ UNCHANGED <<writers, replacing>>
    <3>1. replacing = NoLogger
      BY <1>0, <2>5 DEF LocksKept, InitKept
    <3>2. WaitsForInit(writers[t])
      BY <2>1, <2>5 DEF WaitsForInit, Top
    <3>3. InitKept'
      BY <2>5, <3>1, <3>2 DEF InitKept
    <3>4. WritersKept'
      BY <2>3, <2>5 DEF LocksKept, WritersKept
    <3> QED
      BY <2>2, <3>3, <3>4 DEF LocksKept
  <2> QED
    BY <1>3, <2>4, <2>5 DEF InitOnce
<1>4. CASE BeginReconfigure(t)
  <2>1. PICK id \in pending : Lock(t, id) /\ replacing' = id
    BY <1>4 DEF BeginReconfigure
  <2>2. id \in AllIds /\ t = init /\ UNCHANGED <<writers, stream, dispatcher, init>>
    BY <1>4, <2>1 DEF BeginReconfigure, TypeOK
  <2>3. owner[id] = NoThread /\ owner'[id] = t /\ \A i \in AllIds : i # id => owner'[i] = owner[i]
    BY <2>1, <2>2, ClosedIsUnlocked
  <2>4. Apart(t, stream, stream', owner, owner', dispatcher, dispatcher') /\ FreeIsEmpty'
    BY <1>0, <2>2, <2>3, OneLogger
  <2>5. WritersKept'
    BY <2>2, <2>4, InitStep
  <2>6. InitKept'
    BY <1>0, <2>1, <2>2, <2>3 DEF LocksKept, InitKept, FreeIsEmpty
  <2> QED
    BY <2>4, <2>5, <2>6 DEF LocksKept
<1>5. CASE EndReconfigure(t)
  <2>1. /\ t = init /\ replacing # NoLogger /\ replacing \in AllIds /\ replacing' = NoLogger
        /\ owner' = Unlocked(replacing) /\ UNCHANGED <<writers, stream, dispatcher>>
        /\ init' = "done" \/ init' = init
    BY <1>5 DEF EndReconfigure, TypeOK
  <2>2. owner[replacing] = t /\ stream[replacing] = <<>>
    BY <2>1 DEF LocksKept, InitKept
  <2>3. Apart(t, stream, stream', owner, owner', dispatcher, dispatcher') /\ FreeIsEmpty'
    BY <1>0, <2>1, <2>2, ClosedIsUnlocked, OneLogger
  <2>4. WritersKept'
    BY <2>1, <2>3, InitStep
  <2>5. InitKept'
    BY <1>0, <2>1 DEF LocksKept, InitKept
  <2> QED
    BY <2>3, <2>4, <2>5 DEF LocksKept
<1>6. CASE Site(t)
  <2>1. writers[t] # <<>> /\ Top(t).at = "site" /\ Top(t) \in Writers
    BY <1>6, TopIs DEF Site, At
  <2>2. Apart(t, stream, stream', owner, owner', dispatcher, dispatcher') /\ FreeIsEmpty'
    BY <1>0, <1>6, NoLoggerTouched DEF Site, locks
  <2>3. UNCHANGED <<stream, owner, dispatcher>> /\ UNCHANGED <<init, replacing>> /\ t # init
    BY <1>6, <2>1, TopKept DEF Site, locks, initVars
  <2>4. PICK w \in Writers : w = Top(t)
    BY <2>1
  <2> DEFINE v == [w EXCEPT !.at = "construct"]
  <2>5. v \in Writers
    BY <2>1, <2>4 DEF Writers, Places, Unwritten
  <2>6. WriterKept(t, v, stream, owner, dispatcher)
    BY <2>1, <2>4, TopKept DEF WriterKept, Gathered, Holds, Locked, Unwritten, Writers
  <2>7. writers' = SetTop(t, v) \/ writers' = [writers EXCEPT ![t] = <<>>]
    BY <1>6, <2>4 DEF Site
  <2> HIDE DEF v
  <2>8. WriterKept(t, v, stream', owner', dispatcher')
    BY <2>3, <2>6
  <2> QED
    BY <2>1, <2>2, <2>3, <2>5, <2>7, <2>8, MoveStep, EmptyStep
<1>7. CASE Acquire(t)
  <2>1. writers[t] # <<>> /\ Top(t).at = "acquire" /\ Top(t) \in Writers
    BY <1>7, TopIs DEF Acquire, At
  <2>2. PICK w \in Writers : w = Top(t)
    BY <2>1
  <2> DEFINE id == w.stmt.ids[1]
             v == [w EXCEPT !.logger = id, !.at = "arguments"]
  <2>3. id \in AllIds /\ w.stmt \in AllStatements /\ w.stmt \in Statements /\ w.k = 1 /\ Member(w.stmt)
    BY <2>1, <2>2, WriterFields, StatementFacts
  <2>4. /\ writers' = SetTop(t, v) /\ Lock(t, id) /\ UNCHANGED <<stream, dispatcher>>
        /\ UNCHANGED <<init, replacing>> /\ t # init
    BY <1>7, <2>1, <2>2, TopKept DEF Acquire, initVars
  <2> HIDE DEF id
  <2>5. owner[id] = NoThread /\ owner'[id] = t /\ \A i \in AllIds : i # id => owner'[i] = owner[i]
    BY <2>3, <2>4, ClosedIsUnlocked
  <2>6. Apart(t, stream, stream', owner, owner', dispatcher, dispatcher') /\ FreeIsEmpty'
    BY <1>0, <2>3, <2>4, <2>5, OneLogger
  <2>7. v \in Writers
    BY <1>0, <2>1, <2>2, <2>3 DEF Writers, Places, Locked
  <2>8. WriterKept(t, w, stream, owner, dispatcher) /\ w.at = "acquire"
    BY <2>1, <2>2, TopKept
  <2>9. WriterKept(t, v, stream', owner', dispatcher')
    <3>1. Said(t, w.stmt)[0] = <<>> /\ w.stmt.args \in Nat /\ stream'[id] = <<>>
      BY <1>0, <2>3, <2>4, <2>5, SaidGrows, StatementsAssumption DEF FreeIsEmpty
    <3>2. w.part = 0 /\ ~w.proceed /\ ~w.firstDispatched /\ w.saved \in {<<>>, Said(t, w.stmt)[w.stmt.parts]}
      BY <2>3, <2>8, WriterFields DEF WriterKept, Gathered, Holds, Locked, Unwritten
    <3>3. /\ v.stmt = w.stmt /\ v.at = "arguments" /\ v.part = 0 /\ ~v.proceed /\ ~v.firstDispatched
          /\ v.saved = w.saved /\ v.k = 1 /\ v.logger = id
      BY <2>3, <3>2 DEF Writers
    <3> HIDE DEF v
    <3> QED
      BY <2>5, <3>1, <3>2, <3>3 DEF WriterKept, Gathered, Holds, Locked, Unwritten
  <2> HIDE DEF v
  <2> QED
    BY <2>1, <2>4, <2>6, <2>7, <2>9, MoveStep
<1>8. CASE Argument(t)
  <2>1. writers[t] # <<>> /\ Top(t).at = "arguments" /\ Top(t) \in Writers
    BY <1>8, TopIs DEF Argument, At
  <2>2. PICK w \in Writers : w = Top(t)
    BY <2>1
  <2> DEFINE id == w.logger
             v == [w EXCEPT !.part = @ + 1]
  <2>3. /\ id \in AllIds /\ w.stmt \in AllStatements /\ w.stmt \in Statements /\ w.at = "arguments"
        /\ w.k = 1 /\ Member(w.stmt) /\ w.part \in Nat
    BY <2>1, <2>2, WriterFields
  <2>4. /\ writers' = SetTop(t, v) /\ UNCHANGED <<owner, dispatcher>>
        /\ UNCHANGED <<init, replacing>> /\ t # init
        /\ stream' = [stream EXCEPT ![id] = Part(t, w.stmt, w.part + 1, @)]
        /\ w.part < Min({w.stmt.specs, w.stmt.args})
    BY <1>8, <2>1, <2>2, TopKept DEF Argument, initVars, locks, Part
  <2>5. WriterKept(t, w, stream, owner, dispatcher)
    BY <2>1, <2>2, TopKept
  <2>6. owner[id] = t
    BY <1>0, <2>3, <2>5 DEF WriterKept, Holds, Locked
  <2>7. /\ stream'[id] = Part(t, w.stmt, w.part + 1, stream[id])
        /\ \A i \in AllIds : i # id => stream'[i] = stream[i]
    BY <2>3, <2>4 DEF TypeOK
  <2> HIDE DEF id
  <2>8. Apart(t, stream, stream', owner, owner', dispatcher, dispatcher') /\ FreeIsEmpty'
    BY <1>0, <2>3, <2>4, <2>6, <2>7, OneLogger
  <2>9. v \in Writers
    BY PartCounted
  <2>10. WriterKept(t, v, stream', owner', dispatcher')
    <3>1. w.stmt.args \in Nat /\ w.stmt.specs \in Nat /\ w.stmt.parts = w.stmt.args + 1
      BY <2>3, StatementsAssumption
    <3>2. w.part < w.stmt.args
      BY <2>3, <2>4, <3>1, MinLess
    <3>3. w.part \in 0..(w.stmt.parts - 1) /\ w.part + 1 <= w.stmt.args
      BY <2>3, <3>1, <3>2
    <3>4. stream[id] = Said(t, w.stmt)[w.part]
      BY <2>3, <2>5 DEF WriterKept, Gathered, id
    <3>5. stream'[id] = Said(t, w.stmt)[w.part + 1]
      BY <2>3, <2>7, <3>3, <3>4, SaidGrows
    <3>6. /\ v.stmt = w.stmt /\ v.at = "arguments" /\ v.part = w.part + 1 /\ v.proceed = w.proceed
          /\ v.firstDispatched = w.firstDispatched /\ v.saved = w.saved /\ v.k = 1 /\ v.logger = id
      BY <2>3 DEF Writers, id
    <3>7. ~w.firstDispatched /\ w.saved \in {<<>>, Said(t, w.stmt)[w.stmt.parts]} /\ (w.proceed => Holds(w))
      BY <2>3, <2>5 DEF WriterKept, Gathered
    <3> HIDE DEF v
    <3> QED
      BY <1>0, <2>3, <2>4, <2>6, <3>3, <3>5, <3>6, <3>7 DEF WriterKept, Gathered, Holds, Locked, Unwritten
  <2> HIDE DEF v
  <2> QED
    BY <2>1, <2>4, <2>8, <2>9, <2>10, MoveStep
<1>9. CASE TooManyArguments(t)
  <2>1. writers[t] # <<>> /\ Top(t).at = "arguments" /\ Top(t) \in Writers
    BY <1>9, TopIs DEF TooManyArguments, At
  <2>2. PICK w \in Writers : w = Top(t)
    BY <2>1
  <2>3. w.logger \in AllIds /\ owner[w.logger] = t
    BY <2>1, <2>2, TopKept, WriterFields DEF WriterKept, Holds, Locked
  <2>4. /\ writers' = [writers EXCEPT ![t] = <<>>] /\ UNCHANGED <<owner, dispatcher>>
        /\ UNCHANGED <<init, replacing>> /\ t # init
        /\ \A i \in AllIds : i # w.logger => stream'[i] = stream[i]
    BY <1>9, <2>1, <2>2, TopKept DEF TooManyArguments, initVars, locks, TypeOK
  <2>5. Apart(t, stream, stream', owner, owner', dispatcher, dispatcher') /\ FreeIsEmpty'
    BY <1>0, <2>3, <2>4, OneLogger
  <2> QED
    BY <2>4, <2>5, EmptyStep
<1>10. CASE Rest(t)
  <2>1. writers[t] # <<>> /\ Top(t).at = "arguments" /\ Top(t) \in Writers
    BY <1>10, TopIs DEF Rest, At
  <2>2. PICK w \in Writers : w = Top(t)
    BY <2>1
  <2> DEFINE id == w.logger
             proceeds == Proceeds(w.logger, w.stmt.level)
             v == [w EXCEPT !.at = "stream", !.proceed = proceeds]
  <2>3. /\ id \in AllIds /\ w.stmt \in AllStatements /\ w.stmt \in Statements /\ w.at = "arguments"
        /\ w.k = 1 /\ Member(w.stmt) /\ w.part \in Nat
    BY <2>1, <2>2, WriterFields
  <2>4. WriterKept(t, w, stream, owner, dispatcher) /\ owner[id] = t
    BY <1>0, <2>1, <2>2, <2>3, TopKept DEF WriterKept, Holds, Locked
  <2>5. /\ UNCHANGED dispatcher /\ UNCHANGED <<init, replacing>> /\ t # init
        /\ w.part = w.stmt.args
    BY <1>10, <2>1, <2>2, TopKept DEF Rest, initVars
  <2>6. CASE /\ stream' = [stream EXCEPT ![id] = <<>>] /\ owner' = Unlocked(id)
             /\ writers' = [writers EXCEPT ![t] = <<>>]
    <3>1. /\ stream'[id] = <<>> /\ \A i \in AllIds : i # id => stream'[i] = stream[i]
          /\ \A i \in AllIds : i # id => owner'[i] = owner[i]
      BY <2>3, <2>6, ClosedIsUnlocked DEF TypeOK
    <3>2. Apart(t, stream, stream', owner, owner', dispatcher, dispatcher') /\ FreeIsEmpty'
      BY <1>0, <2>3, <2>4, <2>5, <3>1, OneLogger
    <3> QED
      BY <2>5, <2>6, <3>2, EmptyStep
  <2>7. CASE writers' = SetTop(t, v) /\ UNCHANGED <<stream, owner>>
    <3>1. Apart(t, stream, stream', owner, owner', dispatcher, dispatcher') /\ FreeIsEmpty'
      BY <1>0, <2>5, <2>7, NoLoggerTouched
    <3>2. proceeds \in BOOLEAN
      BY ProceedsIsBoolean
    <3> HIDE DEF proceeds
    <3>3. v \in Writers
      BY <1>0, <2>3, <3>2 DEF Writers, Places, Locked
    <3>4. w.part <= w.stmt.parts
      BY <2>3, <2>5, StatementsAssumption
    <3>5. /\ v.stmt = w.stmt /\ v.at = "stream" /\ v.part = w.part /\ v.logger = id
          /\ v.firstDispatched = w.firstDispatched /\ v.saved = w.saved /\ v.k = 1
      BY <2>3 DEF Writers
    <3>6. /\ ~w.firstDispatched /\ w.saved \in {<<>>, Said(t, w.stmt)[w.stmt.parts]}
          /\ stream[id] = Said(t, w.stmt)[w.part]
      BY <2>3, <2>4 DEF WriterKept, Gathered
    <3> HIDE DEF v, id
    <3>7. WriterKept(t, v, stream, owner, dispatcher)
      BY <1>0, <2>3, <2>4, <3>4, <3>5, <3>6 DEF WriterKept, Gathered, Holds, Locked, Unwritten
    <3>8. WriterKept(t, v, stream', owner', dispatcher')
      BY <2>5, <2>7, <3>7
    <3> QED
      BY <2>1, <2>5, <2>7, <3>1, <3>3, <3>8, MoveStep
  <2> QED
    BY <1>10, <2>2, <2>6, <2>7 DEF Rest
<1>11. CASE Construct(t)
  <2>1. writers[t] # <<>> /\ Top(t).at = "construct" /\ Top(t) \in Writers
    BY <1>11, TopIs DEF Construct, At
  <2>2. PICK w \in Writers : w = Top(t)
    BY <2>1
  <2> DEFINE id == w.stmt.ids[w.k]
             place == AfterConstruct(w)
             proceeds == Proceeds(id, w.stmt.level)
             v == [w EXCEPT !.logger = id, !.at = place, !.proceed = proceeds]
  <2>3. /\ id \in AllIds /\ w.stmt \in Statements /\ w.at = "construct" /\ proceeds \in BOOLEAN
        /\ place = IF w.k = 1 THEN "stream" ELSE "process"
    BY <2>1, <2>2, WriterFields, StatementFacts, ProceedsIsBoolean DEF AfterConstruct
  <2>4. /\ writers' = SetTop(t, v) /\ Lock(t, id) /\ UNCHANGED <<stream, dispatcher>>
        /\ UNCHANGED <<init, replacing>> /\ t # init
    BY <1>11, <2>1, <2>2, TopKept DEF Construct, initVars
  <2> HIDE DEF id, place, proceeds
  <2>5. owner[id] = NoThread /\ owner'[id] = t /\ \A i \in AllIds : i # id => owner'[i] = owner[i]
    BY <2>3, <2>4, ClosedIsUnlocked
  <2>6. Apart(t, stream, stream', owner, owner', dispatcher, dispatcher') /\ FreeIsEmpty'
    BY <1>0, <2>3, <2>4, <2>5, OneLogger
  <2>7. place \in {"stream", "process"}
    BY <2>3
  <2>8. v \in Writers
    BY <1>0, <2>3, <2>7 DEF Writers, Places, Locked
  <2>9. WriterKept(t, w, stream, owner, dispatcher)
    BY <2>1, <2>2, TopKept
  <2>10. WriterKept(t, v, stream', owner', dispatcher')
    <3>1. Said(t, w.stmt)[0] = <<>> /\ w.stmt.parts \in Nat /\ stream'[id] = <<>>
      BY <1>0, <2>3, <2>4, <2>5, SaidGrows, StatementFacts DEF FreeIsEmpty
    <3>2. /\ w.k = 1 => w.part = 0 /\ ~w.firstDispatched
          /\ w.saved \in {<<>>, Said(t, w.stmt)[w.stmt.parts]}
      BY <2>3, <2>9 DEF WriterKept, Gathered, Unwritten
    <3>3. /\ v.stmt = w.stmt /\ v.at = place /\ v.part = w.part /\ v.logger = id
          /\ v.firstDispatched = w.firstDispatched /\ v.saved = w.saved /\ v.k = w.k
      BY DEF Writers
    <3> HIDE DEF v
    <3> QED
      BY <1>0, <2>3, <2>5, <2>7, <3>1, <3>2, <3>3 DEF WriterKept, Gathered, Holds, Locked, Unwritten
  <2> HIDE DEF v
  <2> QED
    BY <2>1, <2>4, <2>6, <2>8, <2>10, MoveStep
<1>12. CASE ConstructUnknown(t)
  <2>1. writers[t] # <<>> /\ Top(t).at = "construct" /\ Top(t) \in Writers
    BY <1>12, TopIs DEF ConstructUnknown, At
  <2>2. PICK w \in Writers : w = Top(t)
    BY <2>1
  <2> DEFINE place == AfterConstruct(w)
             v == [w EXCEPT !.logger = NoLogger, !.proceed = FALSE, !.at = place]
             own == OwnMessage("Debug")
             q == Topped(writers[t], v)
  <2>3. place = IF w.k = 1 THEN "stream" ELSE "process"
    BY DEF AfterConstruct
  <2>4. /\ writers' = [SetTop(t, v) EXCEPT ![t] = Append(@, own)]
        /\ UNCHANGED <<stream, owner, dispatcher>> /\ UNCHANGED <<init, replacing>> /\ t # init
    BY <1>12, <2>1, <2>2, TopKept DEF ConstructUnknown, initVars, locks
  <2>5. Apart(t, stream, stream', owner, owner', dispatcher, dispatcher') /\ FreeIsEmpty'
    BY <1>0, <2>4, NoLoggerTouched
  <2> HIDE DEF place
  <2>6. v \in Writers /\ Suspended(v)
    BY <2>3 DEF Writers, Places, Locked, Suspended, Holds
  <2>7. WriterKept(t, v, stream, owner, dispatcher)
    BY <2>1, <2>2, <2>3, TopKept DEF WriterKept, Gathered, Holds, Locked, Unwritten, Writers
  <2>8. own \in Writers /\ WriterKept(t, own, stream, owner, dispatcher)
    BY NewWriters, OwnIsKept
  <2> HIDE DEF v, own
  <2>9. writers' = [writers EXCEPT ![t] = Append(q, own)]
    BY <2>1, <2>4, <2>6, <2>8, Calls
  <2>10. Apart(t, stream, stream, owner, owner, dispatcher, dispatcher)
    BY DEF Apart
  <2>11. StackKept(t, q, stream, owner, dispatcher) /\ q \in Seq(Writers) /\ q # <<>> /\ q[Len(q)] = v
    <3>1. writers[t] \in Seq(Writers) /\ StackKept(t, writers[t], stream, owner, dispatcher)
      BY DEF TypeOK, LocksKept, WritersKept
    <3>2. /\ q \in Seq(Writers) /\ q # <<>> /\ Len(q) = Len(writers[t])
          /\ q[Len(writers[t])] = v
      BY <2>1, <2>6, <3>1, ToppedIs
    <3>3. StackKept(t, q, stream, owner, dispatcher)
      BY <2>1, <2>6, <2>7, <2>10, <3>1, StackMoves
    <3> QED
      BY <3>2, <3>3
  <2> HIDE DEF q
  <2>12. StackKept(t, Append(q, own), stream, owner, dispatcher)
    BY <2>6, <2>8, <2>11, StackCalls
  <2>13. writers'[t] = Append(q, own)
    BY <2>9 DEF TypeOK
  <2>14. writers' = [writers EXCEPT ![t] = writers'[t]]
    BY <2>9, <2>13
  <2>15. StackKept(t, writers'[t], stream', owner', dispatcher')
    BY <2>4, <2>12, <2>13
  <2> QED
    BY <2>4, <2>5, <2>14, <2>15, ThreadStep
<1>13. CASE Stream(t)
  <2>1. writers[t] # <<>> /\ Top(t).at = "stream" /\ Top(t) \in Writers
    BY <1>13, TopIs DEF Stream, At
  <2>2. PICK w \in Writers : w = Top(t)
    BY <2>1
  <2>3. /\ UNCHANGED <<owner, dispatcher>> /\ UNCHANGED <<init, replacing>> /\ t # init
        /\ WriterKept(t, w, stream, owner, dispatcher) /\ w.at = "stream"
    BY <1>13, <2>1, <2>2, TopKept DEF Stream, initVars, locks
  <2>4. CASE /\ w.proceed /\ w.part < w.stmt.parts
             /\ stream' = [stream EXCEPT ![w.logger] = Part(t, w.stmt, w.part + 1, @)]
             /\ writers' = SetTop(t, [w EXCEPT !.part = @ + 1])
    <3> DEFINE id == w.logger
               v == [w EXCEPT !.part = @ + 1]
    <3>1. id \in AllIds /\ owner[id] = t /\ w.stmt \in Statements
      BY <2>3, <2>4, WriterFields DEF WriterKept, Holds
    <3>2. /\ stream'[id] = Part(t, w.stmt, w.part + 1, stream[id])
          /\ \A i \in AllIds : i # id => stream'[i] = stream[i]
      BY <2>4, <3>1 DEF TypeOK
    <3>3. v \in Writers /\ writers' = SetTop(t, v)
      BY <2>4, PartCounted
    <3>4. w.part \in 0..(w.stmt.parts - 1) /\ w.part + 1 <= w.stmt.parts /\ w.part \in Nat
      BY <2>4, <3>1, StatementFacts, WriterFields
    <3>5. /\ stream[id] = Said(t, w.stmt)[w.part] /\ w.k = 1 /\ ~w.firstDispatched
          /\ w.saved \in {<<>>, Said(t, w.stmt)[w.stmt.parts]}
      BY <2>3, <2>4 DEF WriterKept, Gathered
    <3>6. stream'[id] = Said(t, w.stmt)[w.part + 1]
      BY <3>1, <3>2, <3>4, <3>5, SaidGrows
    <3>7. /\ v.stmt = w.stmt /\ v.at = "stream" /\ v.part = w.part + 1 /\ v.logger = id
          /\ v.firstDispatched = w.firstDispatched /\ v.saved = w.saved /\ v.k = w.k
      BY <2>3 DEF Writers
    <3> HIDE DEF v, id
    <3>8. Apart(t, stream, stream', owner, owner', dispatcher, dispatcher') /\ FreeIsEmpty'
      BY <1>0, <2>3, <3>1, <3>2, OneLogger
    <3>9. WriterKept(t, v, stream', owner', dispatcher')
      BY <1>0, <2>3, <3>1, <3>4, <3>5, <3>6, <3>7 DEF WriterKept, Gathered, Holds, Locked, Unwritten
    <3> QED
      BY <2>1, <2>3, <3>3, <3>8, <3>9, MoveStep
  <2>5. CASE /\ ~(w.proceed /\ w.part < w.stmt.parts)
             /\ writers' = SetTop(t, [w EXCEPT !.at = "process"]) /\ UNCHANGED stream
    <3> DEFINE v == [w EXCEPT !.at = "process"]
    <3>1. Apart(t, stream, stream', owner, owner', dispatcher, dispatcher') /\ FreeIsEmpty'
      BY <1>0, <2>3, <2>5, NoLoggerTouched
    <3>2. v \in Writers
      BY <2>3 DEF Writers, Places, Locked
    <3>3. w.proceed => w.part = w.stmt.parts
      BY <2>3, <2>5, StatementFacts, WriterFields DEF WriterKept, Gathered
    <3>4. /\ v.stmt = w.stmt /\ v.at = "process" /\ v.logger = w.logger /\ v.proceed = w.proceed
          /\ v.firstDispatched = w.firstDispatched /\ v.saved = w.saved /\ v.k = w.k
      BY DEF Writers
    <3> HIDE DEF v
    <3>5. WriterKept(t, v, stream, owner, dispatcher)
      BY <2>3, <3>3, <3>4 DEF WriterKept, Gathered, Holds, Locked, Unwritten
    <3>6. WriterKept(t, v, stream', owner', dispatcher')
      BY <2>3, <2>5, <3>5
    <3>7. writers' = SetTop(t, v)
      BY <2>5 DEF v
    <3> QED
      BY <2>1, <2>3, <3>1, <3>2, <3>6, <3>7, MoveStep
  <2> QED
    BY <1>13, <2>2, <2>4, <2>5 DEF Stream, Part
<1>14. CASE Process(t)
  <2>1. writers[t] # <<>> /\ Top(t).at = "process" /\ Top(t) \in Writers
    BY <1>14, TopIs DEF Process, At
  <2>2. PICK w \in Writers : w = Top(t)
    BY <2>1
  <2> DEFINE id == w.logger
             text == IF w.firstDispatched THEN stream[id] \o w.saved ELSE stream[id]
             saved == IF w.firstDispatched THEN w.saved ELSE text
             v == [w EXCEPT !.at = "dispatch", !.message = text, !.firstDispatched = TRUE,
                            !.saved = saved]
             u == [w EXCEPT !.at = "release"]
             whole == Said(t, w.stmt)[w.stmt.parts]
  <2>3. /\ UNCHANGED <<owner, dispatcher>> /\ UNCHANGED <<init, replacing>> /\ t # init
        /\ WriterKept(t, w, stream, owner, dispatcher) /\ w.at = "process"
    BY <1>14, <2>1, <2>2, TopKept DEF Process, initVars, locks
  <2>4. CASE w.proceed /\ stream' = [stream EXCEPT ![id] = text] /\ writers' = SetTop(t, v)
    <3>1. id \in AllIds /\ owner[id] = t /\ w.stmt \in Statements /\ Holds(w) /\ w.saved \in Messages
          /\ id # NoLogger
      BY <2>3, <2>4, WriterFields DEF WriterKept, Holds
    <3>2. /\ w.saved \in {<<>>, whole} /\ w.k \in Nat \ {0} /\ (w.k = 1 => ~w.firstDispatched)
          /\ stream[id] = IF w.k = 1 THEN whole ELSE <<>>
      BY <2>3, <2>4, <3>1, WriterFields, StatementFacts DEF WriterKept, Gathered
    <3>3. text = IF w.k = 1 THEN whole ELSE IF w.firstDispatched THEN w.saved ELSE <<>>
      <4>1. <<>> \o w.saved = w.saved
        BY <3>1, MessagesJoin, ConcatEmptySeq
      <4> QED
        BY <3>2, <4>1
    <3>4. text \in Messages
      <4>1. stream[id] \in Messages
        BY <3>1 DEF TypeOK
      <4> QED
        BY <3>1, <4>1, MessagesJoin
    <3>5. stream' = [stream EXCEPT ![id] = text] /\ \A i \in AllIds : i # id => stream'[i] = stream[i]
      BY <2>4 DEF TypeOK
    <3> HIDE DEF text, whole, id
    <3>6. saved \in {<<>>, whole} /\ saved \in Messages
      BY <3>1, <3>2, <3>3, <3>4
    <3>7. Apart(t, stream, stream', owner, owner', dispatcher, dispatcher') /\ FreeIsEmpty'
      BY <1>0, <2>3, <3>1, <3>5, OneLogger
    <3>8. text = whole \/ (text = <<>> /\ w.k > 1)
      BY <3>2, <3>3
    <3> HIDE DEF saved
    <3>9. v \in Writers
      BY <2>3, <3>1, <3>4, <3>6 DEF Writers, Places, Locked, id
    <3>10. /\ v.stmt = w.stmt /\ v.at = "dispatch" /\ v.logger = id /\ v.proceed = w.proceed
           /\ v.saved = saved /\ v.k = w.k /\ v.message = text
      BY DEF Writers, id
    <3> HIDE DEF v
    <3>11. WriterKept(t, v, stream', owner', dispatcher')
      BY <2>3, <3>1, <3>6, <3>8, <3>10 DEF WriterKept, Gathered, Holds, Locked, Unwritten, whole
    <3> QED
      BY <2>1, <2>3, <2>4, <3>7, <3>9, <3>11, MoveStep
  <2>5. CASE ~w.proceed /\ writers' = SetTop(t, u) /\ UNCHANGED stream
    <3>1. Apart(t, stream, stream', owner, owner', dispatcher, dispatcher') /\ FreeIsEmpty'
      BY <1>0, <2>3, <2>5, NoLoggerTouched
    <3>2. u \in Writers
      BY <2>3 DEF Writers, Places, Locked
    <3>3. /\ u.stmt = w.stmt /\ u.at = "release" /\ u.logger = w.logger /\ ~u.proceed
          /\ u.firstDispatched = w.firstDispatched /\ u.saved = w.saved /\ u.k = w.k
      BY <2>5 DEF Writers
    <3> HIDE DEF u
    <3>4. WriterKept(t, u, stream, owner, dispatcher)
      BY <2>3, <3>3 DEF WriterKept, Gathered, Holds, Locked, Unwritten
    <3>5. WriterKept(t, u, stream', owner', dispatcher')
      BY <2>3, <2>5, <3>4
    <3> QED
      BY <2>1, <2>3, <2>5, <3>1, <3>2, <3>5, MoveStep
  <2> QED
    BY <1>14, <2>2, <2>4, <2>5 DEF Process
<1>15. CASE Dispatch(t)
  <2>1. writers[t] # <<>> /\ Top(t).at = "dispatch" /\ Top(t) \in Writers
    BY <1>15, TopIs DEF Dispatch, At
  <2>2. PICK w \in Writers : w = Top(t)
    BY <2>1
  <2> DEFINE v == [w EXCEPT !.at = "callbacks", !.left = Callbacks]
  <2>3. /\ UNCHANGED <<stream, owner>> /\ UNCHANGED <<init, replacing>> /\ t # init
        /\ dispatcher = NoThread /\ dispatcher' = t /\ writers' = SetTop(t, v)
        /\ WriterKept(t, w, stream, owner, dispatcher) /\ w.at = "dispatch"
    BY <1>15, <2>1, <2>2, TopKept DEF Dispatch, initVars
  <2>4. Apart(t, stream, stream', owner, owner', dispatcher, dispatcher') /\ FreeIsEmpty'
    BY <1>0, <2>3, NoLoggerTouched
  <2>5. v \in Writers
    BY <2>3 DEF Writers, Places, Locked
  <2>6. WriterKept(t, v, stream, owner, t)
    BY <2>3 DEF WriterKept, Gathered, Holds, Locked, Unwritten, Writers
  <2> HIDE DEF v
  <2>7. WriterKept(t, v, stream', owner', dispatcher')
    BY <2>3, <2>6
  <2> QED
    BY <2>1, <2>3, <2>4, <2>5, <2>7, MoveStep
<1>16. CASE Callback(t)
  <2>1. writers[t] # <<>> /\ Top(t).at = "callbacks" /\ Top(t) \in Writers
    BY <1>16, TopIs DEF Callback, At
  <2>2. PICK w \in Writers : w = Top(t)
    BY <2>1
  <2>3. PICK c \in w.left : writers' = SetTop(t, [w EXCEPT !.left = @ \ {c}])
    BY <1>16, <2>2 DEF Callback
  <2> DEFINE v == [w EXCEPT !.left = @ \ {c}]
  <2>4. /\ UNCHANGED <<stream, owner, dispatcher>> /\ UNCHANGED <<init, replacing>> /\ t # init
        /\ WriterKept(t, w, stream, owner, dispatcher) /\ w.at = "callbacks"
    BY <1>16, <2>1, <2>2, TopKept DEF Callback, initVars, locks
  <2>5. Apart(t, stream, stream', owner, owner', dispatcher, dispatcher') /\ FreeIsEmpty'
    BY <1>0, <2>4, NoLoggerTouched
  <2>6. v \in Writers
    BY DEF Writers
  <2>7. WriterKept(t, v, stream, owner, dispatcher)
    BY <2>4 DEF WriterKept, Gathered, Holds, Locked, Unwritten, Writers
  <2> HIDE DEF v
  <2>8. WriterKept(t, v, stream', owner', dispatcher')
    BY <2>4, <2>7
  <2>9. writers' = SetTop(t, v)
    BY <2>3 DEF v
  <2> QED
    BY <2>1, <2>4, <2>5, <2>6, <2>8, <2>9, MoveStep
<1>17. CASE Dispatched(t)
  <2>1. writers[t] # <<>> /\ Top(t).at = "callbacks" /\ Top(t) \in Writers
    BY <1>17, TopIs DEF Dispatched, At
  <2>2. PICK w \in Writers : w = Top(t)
    BY <2>1
  <2> DEFINE v == [w EXCEPT !.at = "release"]
  <2>3. /\ UNCHANGED <<stream, owner>> /\ UNCHANGED <<init, replacing>> /\ t # init
        /\ dispatcher' = NoThread /\ writers' = SetTop(t, v)
        /\ WriterKept(t, w, stream, owner, dispatcher) /\ w.at = "callbacks"
    BY <1>17, <2>1, <2>2, TopKept DEF Dispatched, initVars
  <2>4. dispatcher = t
    BY <2>3 DEF WriterKept
  <2>5. Apart(t, stream, stream', owner, owner', dispatcher, dispatcher') /\ FreeIsEmpty'
    BY <1>0, <2>3, <2>4, NoLoggerTouched
  <2>6. v \in Writers
    BY <2>3 DEF Writers, Places, Locked
  <2>7. WriterKept(t, v, stream, owner, NoThread)
    BY <2>3 DEF WriterKept, Gathered, Holds, Locked, Unwritten, Writers
  <2> HIDE DEF v
  <2>8. WriterKept(t, v, stream', owner', dispatcher')
    BY <2>3, <2>7
  <2> QED
    BY <2>1, <2>3, <2>5, <2>6, <2>8, MoveStep
<1>18. CASE Release(t)
  <2>1. writers[t] # <<>> /\ Top(t).at = "release" /\ Top(t) \in Writers
    BY <1>18, TopIs DEF Release, At
  <2>2. PICK w \in Writers : w = Top(t)
    BY <2>1
  <2> DEFINE place == IF Fatal(w) THEN "abort" ELSE "next"
             v == [w EXCEPT !.at = place, !.proceed = FALSE]
             own == OwnMessage("Warning")
             q == Topped(writers[t], v)
  <2>3. /\ UNCHANGED dispatcher /\ UNCHANGED <<init, replacing>> /\ t # init
        /\ WriterKept(t, w, stream, owner, dispatcher) /\ w.at = "release"
        /\ place \in {"abort", "next"}
    BY <1>18, <2>1, <2>2, TopKept DEF Release, initVars
  <2>4. writers' = [SetTop(t, v) EXCEPT ![t] = Append(@, own)] \/ writers' = SetTop(t, v)
    BY <1>18, <2>2 DEF Release
  <2>5. Apart(t, stream, stream', owner, owner', dispatcher, dispatcher') /\ FreeIsEmpty'
    <3>1. CASE w.logger # NoLogger
      <4>1. w.logger \in AllIds /\ owner[w.logger] = t
        BY <2>3, <3>1, WriterFields DEF WriterKept, Holds, Locked
      <4>2. stream' = [stream EXCEPT ![w.logger] = <<>>] /\ owner' = Unlocked(w.logger)
        BY <1>18, <2>2, <3>1 DEF Release, GivesBack
      <4>3. /\ stream'[w.logger] = <<>> /\ \A i \in AllIds : i # w.logger => stream'[i] = stream[i]
            /\ \A i \in AllIds : i # w.logger => owner'[i] = owner[i]
        BY <4>1, <4>2, ClosedIsUnlocked DEF TypeOK
      <4> QED
        BY <1>0, <2>3, <4>1, <4>3, OneLogger
    <3>2. CASE w.logger = NoLogger
      <4>1. UNCHANGED <<stream, owner>>
        BY <1>18, <2>2, <3>2 DEF Release, GivesBack
      <4> QED
        BY <1>0, <2>3, <4>1, NoLoggerTouched
    <3> QED
      BY <3>1, <3>2
  <2> HIDE DEF place
  <2>6. v \in Writers /\ Suspended(v)
    BY <2>3 DEF Writers, Places, Locked, Suspended, Holds
  <2>7. WriterKept(t, v, stream', owner', dispatcher')
    BY <2>3 DEF WriterKept, Gathered, Holds, Locked, Unwritten, Writers
  <2>8. own \in Writers /\ WriterKept(t, own, stream', owner', dispatcher')
    BY NewWriters, OwnIsKept
  <2> HIDE DEF v, own
  <2>9. CASE writers' = SetTop(t, v)
    BY <2>1, <2>3, <2>5, <2>6, <2>7, <2>9, MoveStep
  <2>10. CASE writers' = [SetTop(t, v) EXCEPT ![t] = Append(@, own)]
    <3>1. writers' = [writers EXCEPT ![t] = Append(q, own)]
      BY <2>1, <2>6, <2>8, <2>10, Calls
    <3>2. writers[t] \in Seq(Writers) /\ StackKept(t, writers[t], stream, owner, dispatcher)
      BY DEF TypeOK, LocksKept, WritersKept
    <3>3. q \in Seq(Writers) /\ q # <<>> /\ Len(q) = Len(writers[t]) /\ q[Len(writers[t])] = v
      BY <2>1, <2>6, <3>2, ToppedIs
    <3>4. StackKept(t, q, stream', owner', dispatcher')
      BY <2>1, <2>5, <2>6, <2>7, <3>2, StackMoves
    <3>5. q[Len(q)] = v
      BY <3>3
    <3> HIDE DEF q
    <3>6. StackKept(t, Append(q, own), stream', owner', dispatcher')
      BY <2>6, <2>8, <3>3, <3>4, <3>5, StackCalls
    <3>7. writers'[t] = Append(q, own)
      BY <3>1 DEF TypeOK
    <3>8. writers' = [writers EXCEPT ![t] = writers'[t]]
      BY <3>1, <3>7
    <3>9. StackKept(t, writers'[t], stream', owner', dispatcher')
      BY <3>6, <3>7
    <3> QED
      BY <2>3, <2>5, <3>8, <3>9, ThreadStep
  <2> QED
    BY <2>4, <2>9, <2>10
<1>19. CASE Abort(t)
  <2>1. UNCHANGED <<writers, stream, owner, dispatcher, init, replacing>>
    BY <1>19 DEF Abort, locks, initVars
  <2> QED
    BY <2>1 DEF LocksKept, WritersKept, FreeIsEmpty, InitKept
<1>20. CASE NextLogger(t)
  <2>1. writers[t] # <<>> /\ Top(t).at = "next" /\ Top(t) \in Writers /\ writers[t] \in Seq(Writers)
    BY <1>20, TopIs DEF NextLogger, At
  <2>2. PICK w \in Writers : w = Top(t)
    BY <2>1
  <2>3. /\ UNCHANGED <<stream, owner, dispatcher>> /\ UNCHANGED <<init, replacing>> /\ t # init
        /\ WriterKept(t, w, stream, owner, dispatcher) /\ w.at = "next"
    BY <1>20, <2>1, <2>2, TopKept DEF NextLogger, initVars, locks
  <2>4. Apart(t, stream, stream', owner, owner', dispatcher, dispatcher') /\ FreeIsEmpty'
    BY <1>0, <2>3, NoLoggerTouched
  <2>5. CASE w.k < Len(w.stmt.ids) /\ writers' = SetTop(t, [w EXCEPT !.k = @ + 1, !.at = "construct"])
    <3> DEFINE k == w.k + 1
               v == [w EXCEPT !.k = k, !.at = "construct"]
    <3>1. k \in 1..Len(w.stmt.ids) /\ k \in Nat /\ k # 1
      BY <2>5, WriterFields, StatementFacts
    <3>2. writers' = SetTop(t, v)
      BY <2>5
    <3> HIDE DEF k
    <3>3. v \in Writers
      BY <2>3, <3>1 DEF Writers, Places, Unwritten
    <3>4. ~w.proceed
      BY <2>3 DEF WriterKept, Holds, Locked
    <3>5. WriterKept(t, v, stream, owner, dispatcher)
      BY <2>3, <3>1, <3>4 DEF WriterKept, Gathered, Holds, Locked, Unwritten, Writers
    <3> HIDE DEF v
    <3>6. WriterKept(t, v, stream', owner', dispatcher')
      BY <2>3, <3>5
    <3> QED
      BY <2>1, <2>3, <2>4, <3>2, <3>3, <3>6, MoveStep
  <2>6. CASE writers' = [writers EXCEPT ![t] = Front(@)]
    <3>1. StackKept(t, writers[t], stream, owner, dispatcher)
      BY DEF LocksKept, WritersKept
    <3>2. StackKept(t, Front(writers[t]), stream, owner, dispatcher)
      BY <2>1, <3>1, StackReturns
    <3>3. writers'[t] = Front(writers[t])
      BY <2>6 DEF TypeOK
    <3>4. writers' = [writers EXCEPT ![t] = writers'[t]]
      BY <2>6, <3>3
    <3>5. StackKept(t, writers'[t], stream', owner', dispatcher')
      BY <2>3, <3>2, <3>3
    <3> QED
      BY <2>3, <2>4, <3>4, <3>5, ThreadStep
  <2> QED
    BY <1>20, <2>2, <2>5, <2>6 DEF NextLogger
<1> QED
  BY <1>1, <1>2, <1>3, <1>4, <1>5, <1>6, <1>7, <1>8, <1>9, <1>10, <1>11, <1>12, <1>13,
     <1>14, <1>15, <1>16, <1>17, <1>18, <1>19, <1>20 DEF Thread

-----------------------------------------------------------------------------
(* Sites.                                                                  *)

\* One more than a, in a phase of n.
Phases(a, n) ==
  /\ a % n \in 0..(n - 1) /\ a \div n \in Nat
  /\ (a + 1) % n = IF (a % n) + 1 = n THEN 0 ELSE (a % n) + 1
  /\ (a + 1) \div n = IF (a % n) + 1 = n THEN (a \div n) + 1 ELSE a \div n

LEMMA NextInPhase ==
  ASSUME NEW a \in Nat, NEW n \in Nat \ {0}
  PROVE  Phases(a, n)
<1> DEFINE r == a % n
           q == a \div n
           r2 == (a + 1) % n
           q2 == (a + 1) \div n
<1>1. r \in 0..(n - 1) /\ q \in Nat /\ r2 \in 0..(n - 1) /\ q2 \in Nat
  OBVIOUS
<1>2. a = n * q + r
  OBVIOUS
<1>3. a + 1 = n * q2 + r2
  OBVIOUS
<1> HIDE DEF r, q, r2, q2
<1>4. n * (q2 - q) = r + 1 - r2
  BY <1>1, <1>2, <1>3
<1>5. q2 - q <= 1
  <2> SUFFICES ASSUME q2 - q >= 2 PROVE FALSE
    BY <1>1
  <2>1. n * (q2 - q) >= n * 2
    BY <1>1
  <2> QED
    BY <1>1, <1>4, <2>1
<1>6. q2 - q >= 0
  <2> SUFFICES ASSUME q2 - q <= -1 PROVE FALSE
    BY <1>1
  <2>1. n * (q2 - q) <= n * (-1)
    BY <1>1
  <2> QED
    BY <1>1, <1>4, <2>1
<1>7. q2 - q = 0 \/ q2 - q = 1
  BY <1>1, <1>5, <1>6
<1>8. CASE q2 - q = 0
  <2>1. r2 = r + 1 /\ q2 = q
    BY <1>1, <1>4, <1>8
  <2> QED
    BY <1>1, <2>1 DEF r, q, r2, q2, Phases
<1>9. CASE q2 - q = 1
  <2>1. r2 = r + 1 - n /\ q2 = q + 1
    BY <1>1, <1>4, <1>9
  <2>2. r + 1 = n /\ r2 = 0
    BY <1>1, <2>1
  <2> QED
    BY <1>1, <2>1, <2>2 DEF r, q, r2, q2, Phases
<1> QED
  BY <1>7, <1>8, <1>9

\* A remainder is its own.
LEMMA RemainderOfRemainder ==
  ASSUME NEW a \in Nat, NEW n \in Nat \ {0}
  PROVE  (a % n) % n = a % n
<1> DEFINE r == a % n
<1>1. r \in 0..(n - 1)
  OBVIOUS
<1> HIDE DEF r
<1>2. r % n = r
  BY <1>1
<1> QED
  BY <1>2 DEF r

LEMMA SiteCounts ==
  ASSUME NEW occasion, NEW n \in Nat, NEW h \in Nat, NEW seen \in Nat, NEW lines \in Nat,
         SiteCounted(occasion, n, h, seen, lines)
  PROVE  SiteCounted(occasion, n, Count(occasion, h, n), seen + 1,
                     IF Hits(occasion, h, n) THEN lines + 1 ELSE lines)
<1>1. CASE occasion = "every"
  <2> SUFFICES ASSUME n \in 1..KMax
               PROVE  SiteCounted("every", n, Count("every", h, n), seen + 1,
                                  IF Hits("every", h, n) THEN lines + 1 ELSE lines)
    BY <1>1 DEF SiteCounted
  <2>1. KMax \in Nat \ {0} /\ n \in Nat \ {0}
    BY SiteAssumption
  <2>2. h <= KMax /\ h % n = seen % n /\ lines = seen \div n
    BY <1>1 DEF SiteCounted
  <2> DEFINE g == IF h < KMax THEN h ELSE KMax % n
  <2>3. g \in Nat /\ g < KMax /\ g % n = seen % n
    <3>1. CASE h < KMax
      BY <2>2, <3>1
    <3>2. CASE h = KMax
      <4>1. KMax % n \in 0..(n - 1) /\ (KMax % n) % n = KMax % n
        BY <2>1, NextInPhase, RemainderOfRemainder DEF Phases
      <4> QED
        BY <2>1, <2>2, <3>2, <4>1
    <3> QED
      BY <2>1, <2>2, <3>1, <3>2
  <2>4. validateHitCounts(h, n) = g + 1
    BY <2>1, <2>3 DEF validateHitCounts
  <2> HIDE DEF g
  <2>5. Phases(g, n) /\ Phases(seen, n)
    BY <2>1, <2>3, NextInPhase
  <2>6. (g + 1) % n = (seen + 1) % n
    BY <2>3, <2>5, Zenon DEF Phases
  <2>7. (seen + 1) \div n = IF (seen + 1) % n = 0 THEN lines + 1 ELSE lines
    <3> DEFINE r == seen % n
    <3>1. r \in 0..(n - 1) /\ (r + 1 = n => (seen + 1) % n = 0)
          /\ (r + 1 # n => (seen + 1) % n = r + 1)
      BY <2>5, Zenon DEF Phases
    <3>2. r + 1 # 0
      BY <3>1
    <3>3. (seen + 1) % n = 0 <=> r + 1 = n
      BY <3>1, <3>2, Zenon
    <3>4. (seen + 1) \div n = IF r + 1 = n THEN lines + 1 ELSE lines
      BY <2>2, <2>5, Zenon DEF Phases
    <3> QED
      BY <3>3, <3>4, Zenon
  <2>8. Count("every", h, n) = g + 1 /\ (Hits("every", h, n) <=> (seen + 1) % n = 0)
    BY <2>1, <2>4, <2>6 DEF Count, Hits
  <2> QED
    BY <2>1, <2>3, <2>6, <2>7, <2>8 DEF SiteCounted
<1>2. CASE occasion = "after"
  BY <1>2 DEF SiteCounted, Count, Hits
<1>3. CASE occasion = "times"
  BY <1>3 DEF SiteCounted, Count, Hits
<1> QED
  BY <1>1, <1>2, <1>3 DEF SiteCounted

LEMMA SitesStep ==
  ASSUME TypeOK, SitesKept, NEW t \in Threads, Thread(t)
  PROVE  SitesKept'
<1>1. CASE Site(t)
  <2>1. writers[t] # <<>> /\ Top(t).at = "site" /\ Top(t) \in Writers
    BY <1>1, TopIs DEF Site, At
  <2>2. PICK u \in AllStatements : u = Top(t).stmt
    BY <2>1, WriterFields
  <2>3. PICK may \in MayWrite(u) :
          written' = [written EXCEPT ![u.site] = IF may THEN @ + 1 ELSE @]
    BY <1>1, <2>2 DEF Site
  <2>4. /\ counters' = [counters EXCEPT ![u.site] = Count(u.occasion, @, u.n)]
        /\ visits' = [visits EXCEPT ![u.site] = @ + 1]
    BY <1>1, <2>2 DEF Site
  <2>5. ASSUME NEW s \in AllStatements
        PROVE  SiteCounted(s.occasion, s.n, counters'[s.site], visits'[s.site], written'[s.site])
    <3> DEFINE h == counters[s.site]
               seen == visits[s.site]
               lines == written[s.site]
    <3>1. s.site \in Sites /\ s.n \in Nat
      BY StatementsAssumption DEF Sites
    <3>2. h \in Nat /\ seen \in Nat /\ lines \in Nat
      BY <3>1 DEF TypeOK
    <3>3. SiteCounted(s.occasion, s.n, h, seen, lines)
      BY DEF SitesKept
    <3>4. CASE s.site # u.site
      <4>1. counters'[s.site] = h /\ visits'[s.site] = seen /\ written'[s.site] = lines
        BY <2>3, <2>4, <3>1, <3>4 DEF TypeOK
      <4> QED
        BY <3>3, <4>1
    <3>5. CASE s.site = u.site
      <4>1. s.occasion = u.occasion /\ s.n = u.n
        BY <3>5, StatementsAssumption
      <4>2. /\ counters'[s.site] = Count(s.occasion, h, s.n) /\ visits'[s.site] = seen + 1
            /\ written'[s.site] = IF may THEN lines + 1 ELSE lines
        BY <2>3, <2>4, <3>1, <3>5, <4>1 DEF TypeOK
      <4>3. CASE s.occasion = "verbose"
        BY <4>3 DEF SiteCounted
      <4>4. CASE s.occasion # "verbose"
        <5>1. may = Hits(s.occasion, h, s.n)
          BY <2>3, <3>5, <4>1, <4>4 DEF MayWrite
        <5>2. written'[s.site] = IF Hits(s.occasion, h, s.n) THEN lines + 1 ELSE lines
          BY <4>2, <5>1, Zenon
        <5> HIDE DEF h, seen, lines
        <5>3. SiteCounted(s.occasion, s.n, Count(s.occasion, h, s.n), seen + 1,
                          IF Hits(s.occasion, h, s.n) THEN lines + 1 ELSE lines)
          BY <3>1, <3>2, <3>3, SiteCounts
        <5> QED
          BY <4>2, <5>2, <5>3
      <4> QED
        BY <4>3, <4>4
    <3> QED
      BY <3>4, <3>5
  <2> QED
    BY <2>5 DEF SitesKept
<1>2. CASE UNCHANGED <<counters, visits, written>>
  BY <1>2 DEF SitesKept
<1>3. Site(t) \/ UNCHANGED <<counters, visits, written>>
  BY DEF Thread, Begin, SetVerbosity, InitOnce, BeginReconfigure, EndReconfigure, Acquire,
         Argument, TooManyArguments, Rest, Construct, ConstructUnknown, Stream, Process,
         Dispatch, Callback, Dispatched, Release, Abort, NextLogger, sites
<1> QED
  BY <1>1, <1>2, <1>3

-----------------------------------------------------------------------------
(* Messages in lines.                                                      *)

Mark == <<"mark">>
AllTokens == LineTokens \cup Tokens \cup {Mark}

\* The texts of the configuration are made of tokens of lines.
LEMMA TextsFit ==
  ASSUME TextsApart, NEW id \in AllIds
  PROVE  /\ Format[id] \in Seq(LineTokens) /\ <<id>> \in LineTokens /\ <<id>> # Percent
         /\ ValuesFit(Values, LineTokens) /\ CustomsFit(Customs, LineTokens)
<1>1. Format[id] \in Seq(LineTokens) /\ <<id>> \in LineTokens /\ <<id>> # Percent
  <2>1. Format[id] \in Seq(Range(Format[id])) /\ <<id>> # Percent
    BY TextsAssumption
  <2>2. Range(Format[id]) \subseteq LineTokens /\ <<id>> \in LineTokens
    <3>1. \A x \in Range(Format[id]) \cup { <<id>> } : x \in LineTokens
      BY DEF LineTokens
    <3> QED
      BY <3>1
  <2> QED
    BY <2>1, <2>2, SeqMonotonic
<1>2. ValuesFit(Values, LineTokens)
  <2> SUFFICES ASSUME NEW name \in Flagged \ {"msg"}
               PROVE  Values[name] \in Seq(LineTokens) /\ EndsPlain(Values[name])
    BY DEF ValuesFit
  <2>1. Values[name] \in Seq(Range(Values[name])) /\ EndsPlain(Values[name])
    BY TextsAssumption DEF TextsApart
  <2>2. Range(Values[name]) \subseteq LineTokens
    <3> SUFFICES ASSUME NEW x \in Range(Values[name]) PROVE x \in LineTokens
      OBVIOUS
    <3>1. x \in UNION {Range(Values[n]) : n \in Flagged \ {"msg"}}
      OBVIOUS
    <3> QED
      BY <3>1 DEF LineTokens
  <2> QED
    BY <2>1, <2>2, SeqMonotonic
<1>3. CustomsFit(Customs, LineTokens)
  <2>1. Len(Customs) \in Nat /\ DOMAIN Customs = 1..Len(Customs)
    BY TextsAssumption
  <2>2. ASSUME NEW i \in 1..Len(Customs)
        PROVE  Customs[i][2] \in Seq(LineTokens) /\ EndsPlain(Customs[i][2])
    <3>1. PICK c \in Range(Customs) : c = Customs[i]
      BY <2>1 DEF Range
    <3>2. c[2] \in Seq(Range(c[2])) /\ EndsPlain(c[2])
      BY TextsAssumption DEF TextsApart
    <3>3. Range(c[2]) \subseteq LineTokens
      <4> SUFFICES ASSUME NEW x \in Range(c[2]) PROVE x \in LineTokens
        OBVIOUS
      <4>1. x \in UNION {Range(d[2]) : d \in Range(Customs)}
        OBVIOUS
      <4> QED
        BY <4>1 DEF LineTokens
    <3>4. c[2] \in Seq(LineTokens)
      BY <3>2, <3>3, SeqMonotonic
    <3> QED
      BY <3>1, <3>2, <3>4
  <2> QED
    BY <2>1, <2>2 DEF CustomsFit
<1> QED
  BY <1>1, <1>2, <1>3

\* And the messages are free of what is searched for after them.
LEMMA MessagesFree ==
  ASSUME TextsApart, NEW message \in Messages
  PROVE  /\ \A m \in {<<Mark>>, message} : m \in Seq(AllTokens)
         /\ \A i \in 1..Len(Customs) : FreeOf({<<Mark>>, message}, AllTokens, Customs[i][1])
<1>1. <<Mark>> \in Seq(AllTokens) /\ message \in Seq(AllTokens)
  <2>1. Mark \in AllTokens /\ Tokens \subseteq AllTokens
    BY DEF AllTokens
  <2>2. <<Mark>> \in Seq(AllTokens)
    BY <2>1
  <2>3. message \in Seq(Tokens)
    BY MessagesJoin
  <2> QED
    BY <2>1, <2>2, <2>3, SeqMonotonic
<1>2. ASSUME NEW i \in 1..Len(Customs)
      PROVE  FreeOf({<<Mark>>, message}, AllTokens, Customs[i][1])
  <2>1. DOMAIN Customs = 1..Len(Customs) /\ Customs # <<>>
    <3>1. Customs \in Seq(Range(Customs))
      BY TextsAssumption
    <3> QED
      BY <1>2, <3>1
  <2>2. PICK c \in Range(Customs) : c = Customs[i]
    BY <2>1 DEF Range
  <2>3. EndsPlain(message)
    BY <2>1 DEF Messages, TextsApart, QuotesEndPlain
  <2>4. Occurrences(message, c[1]) = {}
    <3>1. Spec_(c[1]) \notin Tokens
      <4>1. \A s \in AllStatements : Spec_(c[1]) \notin Range(s.quote)
        BY DEF TextsApart
      <4>2. Spec_(c[1]) \notin Threads \X Nat
        BY <2>1 DEF TextsApart, Spec_
      <4> QED
        BY <4>1, <4>2 DEF Tokens
    <3>2. \A j \in DOMAIN message : message[j] \in Tokens
      <4>1. PICK text \in Seq(Tokens) : text = message
        BY MessagesJoin
      <4> QED
        BY <4>1
    <3> QED
      BY <3>1, <3>2 DEF Occurrences
  <2>5. EndsPlain(<<Mark>>) /\ Occurrences(<<Mark>>, c[1]) = {}
    BY DEF EndsPlain, Occurrences, Mark, Percent, Spec_
  <2> QED
    BY <1>1, <2>2, <2>3, <2>4, <2>5 DEF FreeOf
<1> QED
  BY <1>1, <1>2

\* What a line with a message is, given that with the mark in its place.
StandsIn(message, said, line, fmt) ==
  LET p == PlaceIn(line, Mark)
  IN  /\ Has(fmt, "msg") <=> p > 0
      /\ said = IF p = 0 THEN line
                ELSE SubSeq(line, 1, p - 1) \o message \o SubSeq(line, p + 1, Len(line))

LEMMA MessageIsKept ==
  ASSUME TextsApart, NEW id \in AllIds, NEW level, NEW message \in Messages
  PROVE  StandsIn(message, LineOf(Format[id], level, Values, id, Customs, message),
                  LineOf(Format[id], level, Values, id, Customs, <<Mark>>), Format[id])
<1> DEFINE T == LineTokens
           U == AllTokens
           Ms == {<<Mark>>, message}
           fmt == Format[id]
           said == LineOf(fmt, level, Values, id, Customs, message)
           line == LineOf(fmt, level, Values, id, Customs, <<Mark>>)
           p == PlaceIn(line, Mark)
<1>1. /\ fmt \in Seq(T) /\ <<id>> \in T /\ <<id>> # Percent
      /\ ValuesFit(Values, T) /\ CustomsFit(Customs, T) /\ T \subseteq U
  BY TextsFit DEF AllTokens
<1>2. /\ \A m \in Ms : m \in Seq(U)
      /\ \A i \in 1..Len(Customs) : FreeOf(Ms, U, Customs[i][1])
  BY MessagesFree
<1>3. Mark \in U /\ \A x \in T : x # Mark
  BY DEF AllTokens, TextsApart, Mark
<1>4. <<Mark>> \in Ms /\ message \in Ms
  OBVIOUS
<1> HIDE DEF T, U, Ms, fmt
<1>5. IF Has(fmt, "msg") THEN HasAll(fmt, level, Values, id, Customs, Ms, T)
      ELSE HasNone(fmt, level, Values, id, Customs, Ms, T)
  BY <1>1, <1>2, LineIs
<1>6. CASE Has(fmt, "msg")
  <2>1. PICK f \in Seq(T), b \in Seq(T) : line = Around(f, <<Mark>>, b) /\ said = Around(f, message, b)
    BY <1>4, <1>5, <1>6 DEF HasAll
  <2>2. Lacks(f, Mark) /\ Lacks(b, Mark)
    BY <1>3 DEF Lacks
  <2>3. f \in Seq(U) /\ b \in Seq(U) /\ message \in Seq(U) /\ Len(f) \in Nat
    BY <1>1, <1>2, <1>4, SeqMonotonic
  <2> HIDE DEF said, line
  <2>4. Parted(line, f, Mark, b)
    <3>1. \A g, h \in Seq(U) :
            Lacks(g, Mark) /\ Lacks(h, Mark) /\ line = Around(g, <<Mark>>, h) => Parted(line, g, Mark, h)
      BY <1>3, PlaceOfMark
    <3> QED
      BY <2>1, <2>2, <2>3, <3>1
  <2>5. p > 0 /\ p # 0 /\ p - 1 = Len(f) /\ p + 1 = Len(f) + 2
    BY <2>3, <2>4 DEF Parted
  <2>6. said = Joined(Joined(f, message), b)
    BY <2>1, <2>3, JoinedAssociative DEF Around
  <2>7. said = SubSeq(line, 1, p - 1) \o message \o SubSeq(line, p + 1, Len(line))
    BY <2>4, <2>5, <2>6 DEF Joined, Parted
  <2>8. StandsIn(message, said, line, fmt)
    BY <1>6, <2>5, <2>7 DEF StandsIn
  <2> QED
    BY <2>8 DEF said, line, fmt
<1>7. CASE ~Has(fmt, "msg")
  <2>1. PICK s \in Seq(T) : line = s /\ said = s
    BY <1>4, <1>5, <1>7 DEF HasNone
  <2> HIDE DEF said, line
  <2>2. {i \in 1..Len(line) : line[i] = Mark} = {}
    BY <1>3, <2>1
  <2>3. p = 0
    BY <2>2 DEF SelectInSeq, PlaceIn
  <2>4. StandsIn(message, said, line, fmt)
    BY <1>7, <2>1, <2>3 DEF StandsIn
  <2> QED
    BY <2>4 DEF said, line, fmt
<1> QED
  BY <1>6, <1>7

-----------------------------------------------------------------------------
(* The invariant.                                                          *)

LEMMA InitInv == Init => IInv
<1> SUFFICES ASSUME Init PROVE IInv
  OBVIOUS
<1>1. TypeOK
  BY InitTyped
<1>2. LocksKept
  <2>1. WritersKept
    BY EmptySeq DEF Init, WritersKept, StackKept
  <2>2. FreeIsEmpty
    BY DEF Init, FreeIsEmpty
  <2>3. InitKept
    BY StatementsAssumption DEF Init, InitKept
  <2> QED
    BY <2>1, <2>2, <2>3 DEF LocksKept
<1>3. SitesKept
  <2> SUFFICES ASSUME NEW s \in AllStatements
               PROVE  SiteCounted(s.occasion, s.n, counters[s.site], visits[s.site], written[s.site])
    BY DEF SitesKept
  <2>1. s.site \in Sites /\ s.n \in Nat
    BY StatementsAssumption DEF Sites
  <2>2. counters[s.site] = 0 /\ visits[s.site] = 0 /\ written[s.site] = 0
    BY <2>1 DEF Init
  <2>3. s.n \in 1..KMax => 0 \div s.n = 0
    OBVIOUS
  <2>4. SiteCounted(s.occasion, s.n, 0, 0, 0)
    BY <2>1, <2>3, SiteAssumption DEF SiteCounted
  <2> QED
    BY <2>2, <2>4
<1> QED
  BY <1>1, <1>2, <1>3 DEF IInv

LEMMA NextInv == IInv /\ [Next]_vars => IInv'
<1> SUFFICES ASSUME IInv, [Next]_vars PROVE IInv'
  OBVIOUS
<1>1. CASE UNCHANGED vars
  BY <1>1 DEF vars, locks, sites, initVars, IInv, TypeOK, LocksKept, WritersKept, FreeIsEmpty,
              InitKept, SitesKept
<1>2. ASSUME NEW t \in Threads, Thread(t) PROVE IInv'
  <2>1. TypeOK'
    BY <1>2, TypeStep DEF IInv
  <2>2. ThreadSafe => LocksKept'
    BY <1>2, <2>1, LocksStep DEF IInv
  <2>3. SitesKept'
    BY <1>2, SitesStep DEF IInv
  <2> QED
    BY <2>1, <2>2, <2>3 DEF IInv
<1> QED
  BY <1>1, <1>2 DEF Next

\* The locks that are held, what is gathered under them, and the counters of the sites.
THEOREM Invariance == Spec => []IInv
<1> QED
  BY InitInv, NextInv, PTL DEF Spec

\* The last Writer of a thread, where an invariant looks at it.
LEMMA AtKept ==
  ASSUME IInv, ThreadSafe, NEW t \in Threads, NEW i \in DOMAIN writers[t]
  PROVE  /\ writers[t][i] \in Writers
         /\ WriterKept(t, writers[t][i], stream, owner, dispatcher)
         /\ i # Len(writers[t]) => Suspended(writers[t][i])
<1>1. writers[t] \in Seq(Writers) /\ i \in 1..Len(writers[t])
  BY DEF IInv, TypeOK
<1>2. i = Len(writers[t]) \/ i < Len(writers[t])
  BY <1>1
<1> QED
  BY <1>1, <1>2 DEF IInv, LocksKept, WritersKept, StackKept

LEMMA TopAtKept ==
  ASSUME IInv, ThreadSafe, NEW t \in Threads, At(t, "callbacks")
  PROVE  /\ Top(t) \in Writers /\ Top(t).at = "callbacks"
         /\ WriterKept(t, Top(t), stream, owner, dispatcher)
  BY TopIs, TopKept DEF At, IInv

\* With the locks, every message that is given to the callbacks of the library is that of
\* one statement, whole and in order, however many threads write to a logger: the lock
\* that initializeLogger() takes and the destructor of Writer gives back covers the stream
\* from the first part to the last.
THEOREM MessagesStayWhole == ASSUME ThreadSafe PROVE Spec => []MessagesAreWhole
<1>1. IInv => MessagesAreWhole
  BY TopAtKept DEF MessagesAreWhole, WriterKept, Gathered
<1> QED
  BY <1>1, Invariance, PTL

\* With the locks, two threads are never in the callbacks at the same time. Without them
\* they are: that is the build of the repository.
THEOREM CallbacksStayApart == ASSUME ThreadSafe PROVE Spec => []DispatchIsExclusive
<1>1. IInv => DispatchIsExclusive
  <2> SUFFICES ASSUME IInv, NEW t \in Threads, NEW u \in Threads,
                      At(t, "callbacks"), At(u, "callbacks")
               PROVE  t = u
    BY DEF DispatchIsExclusive
  <2>1. dispatcher = t /\ dispatcher = u
    BY TopAtKept DEF WriterKept
  <2> QED
    BY <2>1
<1> QED
  BY <1>1, Invariance, PTL

\* With the locks, Logger::Init() replaces no configurations that a Writer still reads: the
\* thread that runs it has the lock of that logger and no Writer that has one.
THEOREM ConfigurationsStay == ASSUME ThreadSafe PROVE Spec => []ConfigurationsAreStable
<1>1. IInv => ConfigurationsAreStable
  <2> SUFFICES ASSUME IInv, NEW t \in Threads, NEW i \in DOMAIN writers[t],
                      writers[t][i].proceed, writers[t][i].logger = replacing
               PROVE  FALSE
    BY DEF ConfigurationsAreStable
  <2>1. PICK w \in Writers : w = writers[t][i]
    BY AtKept
  <2>2. WriterKept(t, w, stream, owner, dispatcher) /\ Holds(w) /\ owner[w.logger] = t
    BY <2>1, AtKept DEF WriterKept
  <2>3. i = Len(writers[t])
    BY <2>1, <2>2, AtKept DEF Suspended
  <2>4. w.logger = replacing /\ replacing # NoLogger
    BY <2>1, <2>2 DEF Holds
  <2>5. init = t /\ writers[t][Len(writers[t])].at = "init"
    BY <2>2, <2>4 DEF IInv, LocksKept, InitKept, WaitsForInit
  <2> QED
    BY <2>1, <2>2, <2>3, <2>5 DEF Holds, Locked
<1> QED
  BY <1>1, Invariance, PTL

\* LOG_EVERY_N writes every n-th line for ever, although its counter starts anew at
\* kMaxLogPerCounter, LOG_AFTER_N all but the first n lines, and LOG_N_TIMES the first n,
\* whichever threads pass the site: the lock of the counters makes a visit one step.
THEOREM OccasionsStay == Spec => []OccasionsKept
<1>1. IInv => OccasionsKept
  BY DEF IInv, SitesKept, SiteCounted, OccasionsKept
<1> QED
  BY <1>1, Invariance, PTL

\* With the locks or without, a message stands in its line as it is, whatever it says: what
\* is searched for in a line before the message is there is not searched for again. Values
\* and, before custom specifiers, messages that end with a % are the exception.
THEOREM MessagesStandVerbatim == ASSUME TextsApart PROVE Spec => []MessageIsVerbatim
<1>1. IInv => MessageIsVerbatim
  <2> SUFFICES ASSUME IInv, NEW t \in Threads, At(t, "callbacks")
               PROVE  StandsIn(Top(t).message, Line(Top(t), Top(t).message), Line(Top(t), <<Mark>>),
                               Format[Top(t).logger])
    BY DEF MessageIsVerbatim, StandsIn, PlaceIn, Mark
  <2>1. PICK w \in Writers : w = Top(t) /\ w.at = "callbacks"
    BY TopIs DEF At, IInv
  <2>2. w.logger \in AllIds /\ w.message \in Messages
    BY <2>1, WriterFields
  <2>3. \A m : Line(w, m) = LineOf(Format[w.logger], w.stmt.level, Values, w.logger, Customs, m)
    BY DEF Line, LineOf, FormatOf
  <2>4. StandsIn(w.message, LineOf(Format[w.logger], w.stmt.level, Values, w.logger, Customs, w.message),
                 LineOf(Format[w.logger], w.stmt.level, Values, w.logger, Customs, <<Mark>>),
                 Format[w.logger])
    BY <2>2, MessageIsKept
  <2> QED
    BY <2>1, <2>3, <2>4
<1> QED
  BY <1>1, Invariance, PTL

=============================================================================
