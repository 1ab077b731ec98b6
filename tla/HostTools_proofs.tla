---------------------------- MODULE HostTools_proofs ----------------------------
(***************************************************************************)
(* The host side of a build, proved for every task file, every goal, any   *)
(* size of the stack and every image asked for within 32 bits: the order   *)
(* in which tools/build.c runs commands, and that tools/parted.c and       *)
(* tools/mkdosfs.c make images that hold what they describe.  At the end   *)
(* the pure functions of utils.c and buf.c: where the comparisons and the  *)
(* addition are right, and where they are not, for all words; and that     *)
(* what buf.c writes it can read again, on ports where char is unsigned;   *)
(* where it is signed, UTF-8 is not read.                                  *)
(***************************************************************************)
EXTENDS HostTools, Utils, Buf, SequenceTheorems, WellFoundedInduction, TLAPS

Below == {p \in Nat \X Nat : p[1] < p[2]}

\* The order of the naturals is well founded.
LEMMA BelowWellFounded == IsWellFoundedOn(Below, Nat)
<1>1. OpToRel(<, Nat) = Below
  BY DEF OpToRel, Below
<1> QED BY <1>1, NatLessThanWellFounded

\* Every set of numbers has a least one.
LEMMA LeastOne ==
    ASSUME NEW S \in SUBSET Nat, S # {}
    PROVE  Image!Min(S) \in S /\ \A n \in S : Image!Min(S) <= n
<1>1. PICK x \in S : \A y \in S : ~(<<y, x>> \in Below)
  BY BelowWellFounded, WFMin
<1>2. ASSUME NEW y \in S PROVE x <= y
  <2>1. x \in Nat /\ y \in Nat
    OBVIOUS
  <2>2. ~(y < x)
    BY <1>1, <2>1 DEF Below
  <2> QED BY <2>1, <2>2
<1>3. \E y \in S : \A n \in S : y <= n
  BY <1>2
<1>4. LET y == CHOOSE y \in S : \A n \in S : y <= n
      IN  y \in S /\ \A n \in S : y <= n
  BY <1>3, Zenon
<1> QED BY <1>4, Zenon DEF Image!Min

\* Induction, for a set.
LEMMA Induction ==
    ASSUME NEW S, 0 \in S, \A n \in Nat : n \in S => n + 1 \in S
    PROVE  Nat \subseteq S
<1> SUFFICES ASSUME Nat \ S # {} PROVE FALSE
  OBVIOUS
<1>1. Image!Min(Nat \ S) \in Nat \ S /\ \A n \in Nat \ S : Image!Min(Nat \ S) <= n
  BY LeastOne
<1> DEFINE x == Image!Min(Nat \ S)
<1>2. x \in Nat \ S /\ \A n \in Nat \ S : x <= n
  BY <1>1
<1> HIDE DEF x
<1>3. x # 0 /\ x - 1 \in Nat
  BY <1>2
<1> QED BY <1>2, <1>3

-------------------------------------------------------------------------------
\* What the parser has found is a sequence of tasks whose dependencies are one.
IsSeq(s) == s \in Seq(Range(s))

IsTask(task) ==
    /\ task = [k \in {"id", "label", "command", "args", "dependsOn"} |-> task[k]]
    /\ IsSeq(task.dependsOn)

TaskSeq(ts) == IsSeq(ts) /\ \A i \in DOMAIN ts : IsTask(ts[i])

\* A sequence that is one longer.
LEMMA AppendIsSeq ==
    ASSUME NEW s, IsSeq(s), NEW v
    PROVE  /\ IsSeq(Append(s, v)) /\ Len(Append(s, v)) = Len(s) + 1
           /\ Append(s, v)[Len(s) + 1] = v
           /\ \A i \in 1 .. Len(s) : Append(s, v)[i] = s[i]
           /\ Range(Append(s, v)) = Range(s) \cup {v}
<1> DEFINE t == Append(s, v)
<1>1. s \in Seq(Range(s) \cup {v}) /\ t \in Seq(Range(s) \cup {v})
  BY DEF IsSeq
<1>2. /\ Len(s) \in Nat /\ DOMAIN s = 1 .. Len(s)
      /\ Len(t) = Len(s) + 1 /\ DOMAIN t = 1 .. Len(t) /\ t[Len(s) + 1] = v
      /\ \A i \in 1 .. Len(s) : t[i] = s[i]
  BY <1>1
<1>3. Range(t) = Range(s) \cup {v}
  BY <1>2 DEF Range
<1> QED BY <1>1, <1>2, <1>3 DEF IsSeq

\* A callback leaves a task a task.
LEMMA FillTask ==
    ASSUME NEW task, IsTask(task), NEW key, NEW deep \in BOOLEAN, NEW value,
           NEW new, new = Fill(task, key, deep, value)
    PROVE  IsTask(new)
<1>1. IsSeq(Append(task.dependsOn, value))
  BY AppendIsSeq DEF IsTask
<1> QED BY <1>1 DEF Fill, IsTask

\* The callback adds at most one task and changes at most one.
LEMMA GatherTasks ==
    ASSUME TaskSeq(tasks), NEW s
    PROVE  TaskSeq(bld__gather_tasks(s))
<1> DEFINE id == s[4].from
           with == WithTask(id)
           new == [i \in DOMAIN with |->
                     IF with[i].id = id THEN Fill(with[i], s[5].name, Len(s) > 5, s[Len(s)].value)
                     ELSE with[i]]
<1>1. TaskSeq(with)
  <2>1. CASE \E i \in DOMAIN tasks : tasks[i].id = id
    BY <2>1 DEF WithTask
  <2>2. CASE ~ \E i \in DOMAIN tasks : tasks[i].id = id
    <3>1. with = Append(tasks, NewTask(id))
      BY <2>2 DEF WithTask
    <3>2. IsSeq(tasks)
      BY DEF TaskSeq
    <3>3. /\ IsSeq(with) /\ Len(with) = Len(tasks) + 1 /\ with[Len(tasks) + 1] = NewTask(id)
          /\ \A i \in 1 .. Len(tasks) : with[i] = tasks[i]
      BY <3>1, <3>2, AppendIsSeq
    <3>4. DOMAIN tasks = 1 .. Len(tasks) /\ DOMAIN with = 1 .. Len(tasks) + 1 /\ Len(tasks) \in Nat
      BY <3>2, <3>3 DEF IsSeq
    <3>5. IsTask(NewTask(id))
      <4>1. IsSeq(<<>>) /\ NewTask(id).dependsOn = <<>>
        BY DEF IsSeq, NewTask
      <4>2. NewTask(id) = [k \in {"id", "label", "command", "args", "dependsOn"} |->
                              NewTask(id)[k]]
        BY DEF NewTask
      <4> QED BY <4>1, <4>2 DEF IsTask
    <3>6. ASSUME NEW i \in DOMAIN with
          PROVE  with[i] = IF i = Len(tasks) + 1 THEN NewTask(id) ELSE tasks[i]
      BY <3>3, <3>4
    <3> HIDE DEF with
    <3> QED BY <3>3, <3>4, <3>5, <3>6 DEF TaskSeq
  <2> QED BY <2>1, <2>2
<1>2. TaskSeq(new)
  <2> HIDE DEF with
  <2>1. DOMAIN with = 1 .. Len(with) /\ Len(with) \in Nat
    BY <1>1 DEF TaskSeq, IsSeq
  <2>2. IsSeq(new)
    BY <2>1 DEF IsSeq, Range
  <2>3. ASSUME NEW i \in DOMAIN new PROVE IsTask(new[i])
    <3>1. IsTask(with[i])
      BY <1>1 DEF TaskSeq
    <3>2. CASE with[i].id = id
      <4>1. new[i] = Fill(with[i], s[5].name, Len(s) > 5, s[Len(s)].value)
        BY <3>2
      <4>2. (Len(s) > 5) \in BOOLEAN
        OBVIOUS
      <4> HIDE DEF new
      <4> QED BY <4>1, <4>2, <3>1, FillTask
    <3>3. CASE with[i].id # id
      <4>1. new[i] = with[i]
        BY <3>3
      <4> QED BY <4>1, <3>1
    <3> QED BY <3>2, <3>3
  <2> HIDE DEF new
  <2> QED BY <2>2, <2>3 DEF TaskSeq
<1>3. bld__gather_tasks(s) = new \/ bld__gather_tasks(s) = tasks
  BY DEF bld__gather_tasks
<1> QED BY <1>2, <1>3

\* A step of the parser changes the tasks by the callback only.
LEMMA ParserKeepsTasks == TaskSeq(tasks) /\ json__get => TaskSeq(tasks')
<1> SUFFICES ASSUME TaskSeq(tasks), json__get PROVE TaskSeq(tasks')
  OBVIOUS
<1>1. \/ tasks' = tasks
      \/ \E s : tasks' = bld__gather_tasks(s)
  BY DEF json__get, Leave, Deliver, Goon, Complete, Open, json__pop, Separator, String,
         Literal, Space, Unknown, json__add_member
<1> QED BY <1>1, GatherTasks

-------------------------------------------------------------------------------
\* The first n tasks that have the label, as Labelled collects them.
Collects(f, label, n) ==
    f = [i \in 0 .. n |->
            IF i = 0 THEN <<>>
            ELSE IF tasks[i].label = label THEN Append(f[i - 1], i) ELSE f[i - 1]]

\* It can collect any number of them.
LEMMA CollectsExists ==
    ASSUME NEW label, NEW k \in Nat
    PROVE  \E f : Collects(f, label, k)
<1> DEFINE S == {n \in Nat : \E f : Collects(f, label, n)}
<1>1. 0 \in S
  <2>1. Collects([i \in 0 .. 0 |-> <<>>], label, 0)
    BY DEF Collects
  <2> QED BY <2>1
<1>2. ASSUME NEW n \in Nat, n \in S PROVE n + 1 \in S
  <2>1. PICK f : Collects(f, label, n)
    BY <1>2
  <2> DEFINE more == IF tasks[n + 1].label = label THEN Append(f[n], n + 1) ELSE f[n]
             g == [i \in 0 .. n + 1 |-> IF i = n + 1 THEN more ELSE f[i]]
  <2>2. ASSUME NEW i \in 0 .. n + 1
        PROVE  g[i] = IF i = 0 THEN <<>>
                      ELSE IF tasks[i].label = label THEN Append(g[i - 1], i) ELSE g[i - 1]
    <3>1. CASE i = n + 1
      <4>1. g[i] = more /\ g[i - 1] = f[n]
        BY <3>1
      <4> QED BY <4>1, <3>1
    <3>2. CASE i \in 0 .. n
      <4>1. g[i] = f[i] /\ (i # 0 => g[i - 1] = f[i - 1])
        BY <3>2
      <4> QED BY <4>1, <3>2, <2>1 DEF Collects
    <3> QED BY <3>1, <3>2
  <2>3. Collects(g, label, n + 1)
    BY <2>2 DEF Collects
  <2> QED BY <2>3
<1>3. Nat \subseteq S
  <2> HIDE DEF S
  <2> QED BY <1>1, <1>2, Induction
<1> QED BY <1>3

\* The tasks with a label are tasks.
LEMMA LabelledTasks ==
    ASSUME TaskSeq(tasks), NEW label
    PROVE  Labelled(label) \in Seq(DOMAIN tasks)
<1>1. DOMAIN tasks = 1 .. Len(tasks) /\ Len(tasks) \in Nat
  BY DEF TaskSeq, IsSeq
<1>2. ASSUME NEW f, Collects(f, label, Len(tasks))
      PROVE  f[Len(tasks)] \in Seq(DOMAIN tasks)
  <2> DEFINE S == {n \in Nat : n <= Len(tasks) => f[n] \in Seq(DOMAIN tasks)}
  <2>1. /\ f[0] = <<>>
        /\ \A i \in 0 .. Len(tasks) : i > 0 =>
              f[i] = IF tasks[i].label = label THEN Append(f[i - 1], i) ELSE f[i - 1]
    <3>1. 0 \in 0 .. Len(tasks)
      BY <1>1
    <3>2. \A i \in 0 .. Len(tasks) :
              f[i] = IF i = 0 THEN <<>>
                     ELSE IF tasks[i].label = label THEN Append(f[i - 1], i) ELSE f[i - 1]
      BY <1>2, Zenon DEF Collects
    <3> QED BY <3>1, <3>2
  <2>2. 0 \in S
    <3>1. <<>> \in Seq(DOMAIN tasks)
      OBVIOUS
    <3> QED BY <2>1, <3>1
  <2>3. ASSUME NEW n \in Nat, n \in S PROVE n + 1 \in S
    <3> SUFFICES ASSUME n + 1 <= Len(tasks) PROVE f[n + 1] \in Seq(DOMAIN tasks)
      OBVIOUS
    <3>1. f[n] \in Seq(DOMAIN tasks)
      BY <2>3, <1>1
    <3>2. f[n + 1] = IF tasks[n + 1].label = label THEN Append(f[n], n + 1) ELSE f[n]
      <4>1. n + 1 \in 0 .. Len(tasks) /\ n + 1 > 0 /\ (n + 1) - 1 = n
        BY <1>1
      <4> QED BY <4>1, <2>1
    <3>3. n + 1 \in DOMAIN tasks
      BY <1>1
    <3>4. Append(f[n], n + 1) \in Seq(DOMAIN tasks)
      BY <3>1, <3>3
    <3> QED BY <3>1, <3>2, <3>4
  <2>4. Nat \subseteq S
    <3> HIDE DEF S
    <3> QED BY <2>2, <2>3, Induction
  <2> QED BY <2>4, <1>1
<1>3. \E f : Collects(f, label, Len(tasks))
  BY <1>1, CollectsExists
<1> QED BY <1>2, <1>3 DEF Labelled, Collects

-------------------------------------------------------------------------------
\* The first k of some sequences, one behind the other.
Flattens(f, seqs, k) ==
    f = [i \in 1 .. k |-> IF i = 1 THEN seqs[i] ELSE f[i - 1] \o seqs[i]]

\* They always exist.
LEMMA FlattensExists ==
    ASSUME NEW seqs, NEW k \in Nat
    PROVE  \E f : Flattens(f, seqs, k)
<1> DEFINE S == {n \in Nat : \E f : Flattens(f, seqs, n)}
<1>1. 0 \in S
  <2>1. Flattens([i \in 1 .. 0 |-> seqs], seqs, 0)
    BY DEF Flattens
  <2> QED BY <2>1
<1>2. ASSUME NEW n \in Nat, n \in S PROVE n + 1 \in S
  <2>1. PICK f : Flattens(f, seqs, n)
    BY <1>2
  <2> DEFINE more == IF n = 0 THEN seqs[1] ELSE f[n] \o seqs[n + 1]
             g == [i \in 1 .. n + 1 |-> IF i = n + 1 THEN more ELSE f[i]]
  <2>2. ASSUME NEW i \in 1 .. n + 1
        PROVE  g[i] = IF i = 1 THEN seqs[i] ELSE g[i - 1] \o seqs[i]
    <3>1. CASE i = n + 1
      <4>1. g[i] = more /\ (i # 1 => n \in 1 .. n + 1 /\ i - 1 = n /\ g[n] = f[n])
        BY <3>1
      <4> QED BY <4>1, <3>1
    <3>2. CASE i \in 1 .. n
      <4>1. g[i] = f[i] /\ (i # 1 => g[i - 1] = f[i - 1])
        BY <3>2
      <4>2. \A j \in 1 .. n : f[j] = IF j = 1 THEN seqs[j] ELSE f[j - 1] \o seqs[j]
        BY <2>1, Zenon DEF Flattens
      <4> QED BY <4>1, <4>2, <3>2
    <3> QED BY <3>1, <3>2
  <2>3. Flattens(g, seqs, n + 1)
    BY <2>2 DEF Flattens
  <2> QED BY <2>3
<1>3. Nat \subseteq S
  <2> HIDE DEF S
  <2> QED BY <1>1, <1>2, Induction
<1> QED BY <1>3

\* Sequences of tasks, one behind the other, are one.
LEMMA FlattenSeqs ==
    ASSUME NEW T, NEW seqs \in Seq(Seq(T))
    PROVE  FlattenSeq(seqs) \in Seq(T)
<1>1. CASE Len(seqs) = 0
  <2>1. seqs = <<>> /\ <<>> \in Seq(T)
    BY <1>1
  <2> QED BY <2>1, <1>1 DEF FlattenSeq
<1>2. CASE Len(seqs) # 0
  <2>1. Len(seqs) \in Nat /\ Len(seqs) >= 1 /\ \A i \in 1 .. Len(seqs) : seqs[i] \in Seq(T)
    BY <1>2
  <2>2. ASSUME NEW f, Flattens(f, seqs, Len(seqs)) PROVE f[Len(seqs)] \in Seq(T)
    <3> DEFINE S == {n \in Nat : n + 1 <= Len(seqs) => f[n + 1] \in Seq(T)}
    <3>1. \A i \in 1 .. Len(seqs) : f[i] = IF i = 1 THEN seqs[i] ELSE f[i - 1] \o seqs[i]
      BY <2>2, Zenon DEF Flattens
    <3>2. 0 \in S
      BY <3>1, <2>1
    <3>3. ASSUME NEW n \in Nat, n \in S PROVE n + 1 \in S
      <4> SUFFICES ASSUME (n + 1) + 1 <= Len(seqs) PROVE f[(n + 1) + 1] \in Seq(T)
        OBVIOUS
      <4>1. f[n + 1] \in Seq(T)
        BY <3>3, <2>1
      <4>2. /\ (n + 1) + 1 \in 1 .. Len(seqs) /\ (n + 1) + 1 # 1
            /\ ((n + 1) + 1) - 1 = n + 1
        BY <2>1
      <4>3. f[(n + 1) + 1] = f[n + 1] \o seqs[(n + 1) + 1] /\ seqs[(n + 1) + 1] \in Seq(T)
        BY <4>2, <3>1, <2>1
      <4> QED BY <4>1, <4>3
    <3>4. Len(seqs) - 1 \in S
      <4>1. Nat \subseteq S
        <5> HIDE DEF S
        <5> QED BY <3>2, <3>3, Induction
      <4> QED BY <4>1, <2>1
    <3> QED BY <3>4, <2>1
  <2>3. \E f : Flattens(f, seqs, Len(seqs))
    BY <2>1, FlattensExists
  <2> QED BY <2>2, <2>3, <1>2 DEF FlattenSeq, Flattens
<1> QED BY <1>1, <1>2

\* What a task depends on are tasks, as often as they are named.
LEMMA DependenciesTasks ==
    ASSUME TaskSeq(tasks), NEW t \in DOMAIN tasks
    PROVE  Dependencies(t) \in Seq(DOMAIN tasks)
<1> DEFINE seqs == [i \in DOMAIN tasks[t].dependsOn |-> Labelled(tasks[t].dependsOn[i])]
<1>1. IsSeq(tasks[t].dependsOn)
  BY DEF TaskSeq, IsTask
<1>2. \A i \in DOMAIN tasks[t].dependsOn :
          Labelled(tasks[t].dependsOn[i]) \in Seq(DOMAIN tasks)
  BY LabelledTasks
<1>3. seqs \in Seq(Seq(DOMAIN tasks))
  <2>1. /\ Len(tasks[t].dependsOn) \in Nat
        /\ DOMAIN tasks[t].dependsOn = 1 .. Len(tasks[t].dependsOn)
    BY <1>1 DEF IsSeq
  <2> QED BY <2>1, <1>2
<1> HIDE DEF seqs
<1>4. FlattenSeq(seqs) \in Seq(DOMAIN tasks)
  BY <1>3, FlattenSeqs
<1> QED BY <1>4 DEF Dependencies, seqs

-------------------------------------------------------------------------------
\* Once the file is read, tasks and dependencies stay what they are.
LEMMA SameTasks ==
    ASSUME tasks' = tasks
    PROVE  /\ \A label : Labelled(label)' = Labelled(label)
           /\ \A t : Dependencies(t)' = Dependencies(t)
           /\ TaskSeq(tasks)' <=> TaskSeq(tasks)
<1>1. \A label : Labelled(label)' = Labelled(label)
  BY DEF Labelled
<1>2. \A t : Dependencies(t)' = Dependencies(t)
  BY <1>1 DEF Dependencies
<1>3. TaskSeq(tasks)' <=> TaskSeq(tasks)
  OBVIOUS
<1> QED BY <1>1, <1>2, <1>3

Goal1 == Head(Labelled(Goal))

\* Every task that has run comes once, and behind all it depends on.
LogInOrder ==
    /\ log \in Seq(DOMAIN tasks)
    /\ \A i, j \in DOMAIN log : i # j => log[i] # log[j]
    /\ \A i \in DOMAIN log : \A d \in Range(Dependencies(log[i])) :
          \E j \in 1 .. i - 1 : log[j] = d

\* The calls are on the way from the goal down: each is for the next dependency of
\* its caller, and what a caller has done of its dependencies has run.
CallsNested ==
    /\ calls \in Seq([task : DOMAIN tasks, todo : Seq(DOMAIN tasks)]) /\ calls # <<>>
    /\ calls[1].task = Goal1
    /\ \A i \in DOMAIN calls :
          /\ Range(calls[i].todo) \subseteq Range(Dependencies(calls[i].task))
          /\ Range(Dependencies(calls[i].task)) \subseteq Range(calls[i].todo) \cup Range(log)
    /\ \A i \in 2 .. Len(calls) :
          calls[i - 1].todo # <<>> /\ Head(calls[i - 1].todo) = calls[i].task

\* The goal comes last: while calls go on it has not run.
Making ==
    /\ CallsNested
    /\ result = 0
    /\ Goal1 \notin Range(log)
    /\ done = Range(log) \cup (IF phase = "run" THEN {Last(calls).task} ELSE {})
    /\ phase = "run" => Last(calls).todo = <<>> /\ Last(calls).task \notin Range(log)

BuildInv ==
    /\ TaskSeq(tasks)
    /\ LogInOrder
    /\ phase \in {"parse", "make", "run", "end"}
    /\ phase = "parse" => calls = <<>> /\ log = <<>> /\ done = {} /\ result = 0
    /\ phase \in {"make", "run"} => Making
    /\ phase = "end" => (result = 0 <=> Goal1 \in Range(log))

\* It is enough.
LEMMA BuildInvRunsInOrder == BuildInv => RunsInOrder
<1> SUFFICES ASSUME BuildInv PROVE RunsInOrder
  OBVIOUS
<1>1. DOMAIN log = 1 .. Len(log) /\ Len(log) \in Nat
  BY DEF BuildInv, LogInOrder
<1>2. phase = "run" => \A d \in Range(Dependencies(Last(calls).task)) : d \in Range(log)
  <2> SUFFICES ASSUME phase = "run"
               PROVE  Range(Dependencies(Last(calls).task)) \subseteq Range(log)
    OBVIOUS
  <2>1. Making
    BY DEF BuildInv
  <2>2. Len(calls) \in DOMAIN calls /\ Last(calls) = calls[Len(calls)]
    BY <2>1 DEF Making, CallsNested, Last
  <2>3. Last(calls).todo = <<>> /\ Range(<<>>) = {}
    BY <2>1 DEF Making, Range
  <2> QED BY <2>1, <2>2, <2>3 DEF Making, CallsNested
<1>3. phase = "end" => (result = 0 <=> \E i \in DOMAIN log : log[i] = Head(Labelled(Goal)))
  BY DEF BuildInv, Range, Goal1
<1> QED BY <1>1, <1>2, <1>3 DEF RunsInOrder, BuildInv, LogInOrder

\* It holds when the build program starts.
LEMMA BuildInvInit == HostInit => BuildInv
<1> SUFFICES ASSUME HostInit PROVE BuildInv
  OBVIOUS
<1>1. tasks = <<>> /\ log = <<>> /\ phase = "parse" /\ calls = <<>> /\ done = {} /\ result = 0
  BY DEF HostInit, ParseInit, MakeInit
<1>2. TaskSeq(tasks)
  BY <1>1 DEF TaskSeq, IsSeq
<1>3. LogInOrder
  BY <1>1 DEF LogInOrder
<1> QED BY <1>1, <1>2, <1>3 DEF BuildInv

-------------------------------------------------------------------------------
\* The calls as numbered records.
LEMMA CallsFacts ==
    ASSUME CallsNested
    PROVE  /\ Len(calls) \in Nat /\ Len(calls) >= 1 /\ DOMAIN calls = 1 .. Len(calls)
           /\ Last(calls) = calls[Len(calls)]
           /\ \A i \in 1 .. Len(calls) :
                 /\ calls[i] \in [task : DOMAIN tasks, todo : Seq(DOMAIN tasks)]
                 /\ calls[i].task \in DOMAIN tasks
                 /\ calls[i].todo \in Seq(DOMAIN tasks)
<1> DEFINE C == [task : DOMAIN tasks, todo : Seq(DOMAIN tasks)]
<1>1. calls \in Seq(C) /\ calls # <<>>
  BY DEF CallsNested
<1>2. \A c \in C : c.task \in DOMAIN tasks /\ c.todo \in Seq(DOMAIN tasks)
  OBVIOUS
<1>3. /\ Len(calls) \in Nat /\ Len(calls) >= 1 /\ DOMAIN calls = 1 .. Len(calls)
      /\ \A i \in 1 .. Len(calls) : calls[i] \in C
  <2> HIDE DEF C
  <2> QED BY <1>1
<1>4. Last(calls) = calls[Len(calls)]
  BY DEF Last
<1>5. \A i \in 1 .. Len(calls) : calls[i].task \in DOMAIN tasks /\ calls[i].todo \in Seq(DOMAIN tasks)
  <2> HIDE DEF C
  <2> QED BY <1>2, <1>3
<1> QED BY <1>3, <1>4, <1>5

\* A call is for a dependency of its caller's task.
LEMMA CallersWait ==
    ASSUME CallsNested, NEW i \in 2 .. Len(calls)
    PROVE  calls[i].task \in Range(Dependencies(calls[i - 1].task))
<1>1. i \in DOMAIN calls /\ i - 1 \in DOMAIN calls
  BY CallsFacts
<1>2. /\ calls[i - 1].todo \in Seq(DOMAIN tasks) /\ calls[i - 1].todo # <<>>
      /\ Head(calls[i - 1].todo) = calls[i].task
  BY <1>1, CallsFacts DEF CallsNested
<1>3. calls[i].task \in Range(calls[i - 1].todo)
  BY <1>2 DEF Range
<1> QED BY <1>1, <1>3 DEF CallsNested

\* If the goal's command were about to run in a call inside the goal's own, all its
\* dependencies would have run, and so the chain of calls down to it, and itself.
LEMMA GoalLast ==
    ASSUME Making, LogInOrder, phase = "run", Len(calls) # 1
    PROVE  Last(calls).task # Goal1
<1> SUFFICES ASSUME Last(calls).task = Goal1 PROVE FALSE
  OBVIOUS
<1> DEFINE n == Len(calls)
           S == {k \in Nat : k + 2 <= n => calls[k + 2].task \in Range(log)}
<1>1. n \in Nat /\ n >= 2 /\ DOMAIN calls = 1 .. n /\ Last(calls) = calls[n]
  BY CallsFacts DEF Making
<1>2. 0 \in S
  <2>1. calls[2].task \in Range(Dependencies(Goal1))
    <3>1. 2 \in 2 .. Len(calls) /\ 2 - 1 = 1 /\ CallsNested /\ calls[1].task = Goal1
      <4>1. CallsNested /\ calls[1].task = Goal1
        BY DEF Making, CallsNested
      <4> QED BY <4>1, <1>1
    <3> QED BY <3>1, CallersWait
  <2>2. Range(Dependencies(Goal1)) \subseteq Range(log)
    <3>1. calls[n].todo = <<>> /\ Range(<<>>) = {}
      BY <1>1 DEF Making, Range
    <3> QED BY SMTT(60), <3>1, <1>1 DEF Making, CallsNested
  <2> QED BY <2>1, <2>2
<1>3. ASSUME NEW k \in Nat, k \in S PROVE k + 1 \in S
  <2> SUFFICES ASSUME (k + 1) + 2 <= n PROVE calls[(k + 1) + 2].task \in Range(log)
    OBVIOUS
  <2>1. calls[k + 2].task \in Range(log)
    BY <1>3, <1>1
  <2>2. calls[(k + 1) + 2].task \in Range(Dependencies(calls[k + 2].task))
    <3>1. (k + 1) + 2 \in 2 .. Len(calls) /\ ((k + 1) + 2) - 1 = k + 2 /\ CallsNested
      BY <1>1 DEF Making
    <3> QED BY <3>1, CallersWait
  <2>3. \A i \in DOMAIN log : \A d \in Range(Dependencies(log[i])) :
            \E j \in DOMAIN log : log[j] = d
    BY DEF LogInOrder
  <2> QED BY ZenonT(60), <2>1, <2>2, <2>3 DEF Range
<1>4. n - 2 \in S
  <2>1. Nat \subseteq S
    <3> HIDE DEF S
    <3> QED BY <1>2, <1>3, Induction
  <2>2. n - 2 \in Nat
    BY <1>1
  <2> HIDE DEF S
  <2> QED BY <2>1, <2>2
<1>5. calls[n].task \in Range(log)
  <2>1. n - 2 \in Nat /\ (n - 2) + 2 = n /\ n <= n
    BY <1>1
  <2> QED BY <1>4, <2>1
<1> QED BY <1>5, <1>1 DEF Making

\* A call for the next dependency of the innermost.
LEMMA EnterNested ==
    ASSUME TaskSeq(tasks), CallsNested, tasks' = tasks, log' = log, Last(calls).todo # <<>>,
           NEW t, t = Head(Last(calls).todo),
           calls' = Append(calls, [task |-> t, todo |-> Dependencies(t)])
    PROVE  CallsNested'
<1> DEFINE n == Len(calls)
           call == [task |-> t, todo |-> Dependencies(t)]
<1>1. /\ n \in Nat /\ n >= 1 /\ DOMAIN calls = 1 .. n /\ Last(calls) = calls[n]
      /\ calls[n].todo \in Seq(DOMAIN tasks)
  BY CallsFacts
<1>2. t \in DOMAIN tasks
  BY <1>1
<1>3. Dependencies(t) \in Seq(DOMAIN tasks)
  BY <1>2, DependenciesTasks
<1>4. /\ calls' \in Seq([task : DOMAIN tasks, todo : Seq(DOMAIN tasks)])
      /\ calls' # <<>> /\ Len(calls') = n + 1 /\ DOMAIN calls' = 1 .. n + 1
      /\ calls'[n + 1] = call
      /\ \A i \in 1 .. n : calls'[i] = calls[i]
  <2> DEFINE C == [task : DOMAIN tasks, todo : Seq(DOMAIN tasks)]
  <2>1. call \in C /\ calls \in Seq(C) /\ calls' = Append(calls, call)
    BY <1>2, <1>3 DEF CallsNested
  <2> HIDE DEF C, call
  <2>2. /\ calls' \in Seq(C) /\ calls' # <<>> /\ Len(calls') = n + 1
        /\ DOMAIN calls' = 1 .. n + 1 /\ calls'[n + 1] = call
        /\ \A i \in 1 .. n : calls'[i] = calls[i]
    BY <2>1, <1>1
  <2> QED BY <2>2 DEF C
<1>5. \A u : Dependencies(u)' = Dependencies(u)
  BY SameTasks
<1>6. Goal1' = Goal1
  BY SameTasks DEF Goal1
<1>7. calls'[1].task = Goal1'
  BY <1>6, <1>4, <1>1 DEF CallsNested
<1>8. ASSUME NEW i \in DOMAIN calls'
      PROVE  /\ Range(calls'[i].todo) \subseteq Range(Dependencies(calls'[i].task))
             /\ Range(Dependencies(calls'[i].task)) \subseteq Range(calls'[i].todo) \cup Range(log')
  <2>1. CASE i = n + 1
    <3>1. calls'[i].todo = Dependencies(t) /\ calls'[i].task = t
      BY <2>1, <1>4
    <3> QED BY <3>1
  <2>2. CASE i \in 1 .. n
    <3>1. calls'[i] = calls[i] /\ i \in DOMAIN calls
      BY <2>2, <1>4, <1>1
    <3>2. /\ Range(calls[i].todo) \subseteq Range(Dependencies(calls[i].task))
          /\ Range(Dependencies(calls[i].task)) \subseteq Range(calls[i].todo) \cup Range(log)
      BY <3>1 DEF CallsNested
    <3> QED BY <3>1, <3>2
  <2>3. i = n + 1 \/ i \in 1 .. n
    BY <1>4, <1>1
  <2> QED BY <2>1, <2>2, <2>3
<1>9. ASSUME NEW i \in 2 .. Len(calls')
      PROVE  calls'[i - 1].todo # <<>> /\ Head(calls'[i - 1].todo) = calls'[i].task
  <2>1. CASE i = n + 1
    BY <2>1, <1>4, <1>1
  <2>2. CASE i \in 2 .. n
    <3>1. calls'[i] = calls[i] /\ calls'[i - 1] = calls[i - 1]
      BY <2>2, <1>4, <1>1
    <3> QED BY <3>1, <2>2 DEF CallsNested
  <2> QED BY <2>1, <2>2, <1>4, <1>1
<1> HIDE DEF n, call
<1> QED BY <1>4, <1>5, <1>7, <1>8, <1>9 DEF CallsNested

\* The outermost call has no caller.
LEMMA OutermostHasNone ==
    ASSUME CallsNested
    PROVE  Back = <<>> <=> Len(calls) = 1
<1> DEFINE C == [task : DOMAIN tasks, todo : Seq(DOMAIN tasks)]
           rest == Front(calls)
<1>1. calls \in Seq(C) /\ Len(calls) \in Nat /\ Len(calls) >= 1
  BY CallsFacts DEF CallsNested
<1>2. rest \in Seq(C) /\ Len(rest) = Len(calls) - 1 /\ DOMAIN rest = 1 .. Len(calls) - 1
  <2> HIDE DEF C
  <2>1. Len(calls) - 1 \in 0 .. Len(calls)
    BY <1>1
  <2>2. SubSeq(calls, 1, Len(calls) - 1) \in Seq(C)
    BY <1>1, <2>1
  <2>3. Len(SubSeq(calls, 1, Len(calls) - 1)) = Len(calls) - 1
    <3> DEFINE n == Len(calls) - 1
    <3>1. n \in Nat /\ n <= Len(calls)
      BY <1>1
    <3> HIDE DEF n
    <3>2. Len(SubSeq(calls, 1, n)) = n
      BY <1>1, <3>1
    <3> QED BY <3>2 DEF n
  <2> QED BY <2>2, <2>3 DEF Front
<1>3. rest # <<>> => DOMAIN Back = DOMAIN rest
  BY DEF Back
<1>4. rest = <<>> => Back = <<>>
  BY DEF Back
<1> HIDE DEF rest, C
<1>5. rest = <<>> <=> Len(calls) = 1
  BY <1>1, <1>2
<1>6. Len(calls) # 1 => Back # <<>>
  <2> SUFFICES ASSUME Len(calls) # 1, Back = <<>> PROVE FALSE
    OBVIOUS
  <2>1. DOMAIN Back = 1 .. Len(calls) - 1
    BY <1>2, <1>3, <1>5
  <2>2. 1 \in 1 .. Len(calls) - 1
    <3> DEFINE n == Len(calls)
    <3>1. n \in Nat /\ n >= 1 /\ n # 1
      BY <1>1
    <3> HIDE DEF n
    <3>2. 1 \in 1 .. n - 1
      BY <3>1
    <3> QED BY <3>2 DEF n
  <2>3. DOMAIN Back = {}
    OBVIOUS
  <2> QED BY <2>1, <2>2, <2>3
<1> QED BY <1>4, <1>5, <1>6

\* The innermost call is over and its task has run: its caller goes on behind it.
LEMMA ReturnNested ==
    ASSUME CallsNested, tasks' = tasks, Range(log) \subseteq Range(log'),
           Last(calls).task \in Range(log'), calls' = Back, Back # <<>>
    PROVE  CallsNested'
<1> DEFINE n == Len(calls) - 1
<1>1. /\ Len(calls) \in Nat /\ DOMAIN calls = 1 .. n + 1 /\ Last(calls) = calls[n + 1]
      /\ Front(calls) = SubSeq(calls, 1, n)
  BY CallsFacts DEF Front
<1>2. n \in Nat /\ n >= 1 /\ Front(calls) # <<>>
  <2>1. Front(calls) # <<>>
    BY DEF Back
  <2> QED BY <2>1, <1>1 DEF CallsNested
<1>3. /\ Front(calls) \in Seq([task : DOMAIN tasks, todo : Seq(DOMAIN tasks)])
      /\ Len(Front(calls)) = n /\ \A i \in 1 .. n : Front(calls)[i] = calls[i]
  <2> DEFINE C == [task : DOMAIN tasks, todo : Seq(DOMAIN tasks)]
  <2>1. calls \in Seq(C)
    BY DEF CallsNested
  <2> HIDE DEF C
  <2>2. /\ Front(calls) \in Seq(C) /\ Len(Front(calls)) = n
        /\ \A i \in 1 .. n : Front(calls)[i] = calls[i]
    BY <2>1, <1>1, <1>2
  <2> QED BY <2>2 DEF C
<1>4. calls' = [Front(calls) EXCEPT ![n].todo = Tail(@)]
  BY <1>2, <1>3 DEF Back
<1>5. /\ calls[n].todo \in Seq(DOMAIN tasks) /\ calls[n].todo # <<>>
      /\ Head(calls[n].todo) = calls[n + 1].task
  <2>1. n \in 1 .. Len(calls) /\ n + 1 \in 2 .. Len(calls) /\ (n + 1) - 1 = n
    BY <1>1, <1>2
  <2> QED BY <2>1, CallsFacts DEF CallsNested
<1>6. Tail(calls[n].todo) \in Seq(DOMAIN tasks)
  <2> DEFINE s == calls[n].todo
  <2>1. s \in Seq(DOMAIN tasks) /\ s # <<>>
    BY <1>5
  <2> HIDE DEF s
  <2>2. Tail(s) \in Seq(DOMAIN tasks)
    BY <2>1
  <2> QED BY <2>2 DEF s
<1>7. /\ calls' \in Seq([task : DOMAIN tasks, todo : Seq(DOMAIN tasks)]) /\ calls' # <<>>
      /\ Len(calls') = n /\ DOMAIN calls' = 1 .. n
      /\ calls'[n].todo = Tail(calls[n].todo) /\ calls'[n].task = calls[n].task
      /\ \A i \in 1 .. n : i # n => calls'[i] = calls[i]
  <2> DEFINE C == [task : DOMAIN tasks, todo : Seq(DOMAIN tasks)]
             call == [Front(calls)[n] EXCEPT !.todo = Tail(@)]
  <2>1. Front(calls)[n] = calls[n] /\ calls[n] \in C
    BY <1>1, <1>2, <1>3, CallsFacts
  <2>2. call \in C /\ call.todo = Tail(calls[n].todo) /\ call.task = calls[n].task
    BY <2>1, <1>6
  <2>3. calls' = [Front(calls) EXCEPT ![n] = call]
    BY <1>4
  <2>4. Front(calls) \in Seq(C) /\ Len(Front(calls)) = n
    BY <1>3
  <2> HIDE DEF C, call
  <2>5. /\ calls' \in Seq(C) /\ calls' # <<>> /\ Len(calls') = n /\ DOMAIN calls' = 1 .. n
        /\ calls'[n] = call /\ \A i \in 1 .. n : i # n => calls'[i] = calls[i]
    BY <2>2, <2>3, <2>4, <1>2, <1>3
  <2> QED BY <2>2, <2>5 DEF C
<1>8. \A u : Dependencies(u)' = Dependencies(u)
  BY SameTasks
<1>9. Goal1' = Goal1
  BY SameTasks DEF Goal1
<1>10. calls'[1].task = Goal1'
  <2>1. calls[1].task = Goal1
    BY DEF CallsNested
  <2>2. calls'[1].task = calls[1].task
    BY <1>7, <1>2
  <2> QED BY <2>1, <2>2, <1>9
<1>11. /\ Range(Tail(calls[n].todo)) \subseteq Range(calls[n].todo)
       /\ Range(calls[n].todo) \subseteq Range(Tail(calls[n].todo)) \cup {calls[n + 1].task}
  <2> DEFINE s == calls[n].todo
  <2>1. s \in Seq(DOMAIN tasks) /\ s # <<>> /\ Head(s) = calls[n + 1].task
    BY <1>5
  <2> HIDE DEF s
  <2>2. /\ Len(s) \in Nat /\ Len(s) >= 1 /\ DOMAIN s = 1 .. Len(s) /\ s[1] = calls[n + 1].task
        /\ DOMAIN Tail(s) = 1 .. Len(s) - 1
        /\ \A i \in 1 .. Len(s) - 1 : Tail(s)[i] = s[i + 1]
    BY <2>1
  <2>3. Range(Tail(s)) \subseteq Range(s)
    BY <2>2 DEF Range
  <2>4. ASSUME NEW i \in 1 .. Len(s), i # 1 PROVE s[i] \in Range(Tail(s))
    <3>1. i - 1 \in 1 .. Len(s) - 1 /\ (i - 1) + 1 = i
      BY <2>2, <2>4
    <3>2. Tail(s)[i - 1] = s[i]
      BY <3>1, <2>2
    <3> QED BY <3>1, <3>2, <2>2 DEF Range
  <2>5. Range(s) \subseteq Range(Tail(s)) \cup {calls[n + 1].task}
    BY <2>2, <2>4 DEF Range
  <2> QED BY <2>3, <2>5 DEF s
<1>12. ASSUME NEW i \in DOMAIN calls'
       PROVE  /\ Range(calls'[i].todo) \subseteq Range(Dependencies(calls'[i].task))
              /\ Range(Dependencies(calls'[i].task)) \subseteq Range(calls'[i].todo) \cup Range(log')
  <2>1. /\ Range(calls[i].todo) \subseteq Range(Dependencies(calls[i].task))
        /\ Range(Dependencies(calls[i].task)) \subseteq Range(calls[i].todo) \cup Range(log)
    <3>1. i \in 1 .. n
      BY <1>7
    <3>2. i \in DOMAIN calls
      <4> HIDE DEF n
      <4> QED BY <3>1, <1>1, <1>2
    <3> QED BY <3>2 DEF CallsNested
  <2>2. CASE i = n
    BY <2>1, <2>2, <1>7, <1>11, <1>1
  <2>3. CASE i # n
    <3>1. calls'[i] = calls[i]
      BY <2>3, <1>7
    <3> QED BY <3>1, <2>1
  <2> QED BY <2>2, <2>3
<1>13. ASSUME NEW i \in 2 .. Len(calls')
       PROVE  calls'[i - 1].todo # <<>> /\ Head(calls'[i - 1].todo) = calls'[i].task
  <2>1. calls'[i - 1] = calls[i - 1] /\ calls'[i].task = calls[i].task
    <3>1. i - 1 \in 1 .. n /\ i - 1 # n /\ i \in 1 .. n
      BY <1>7, <1>2
    <3>2. calls'[i].task = calls[i].task
      BY <3>1, <1>7
    <3> QED BY <3>1, <3>2, <1>7
  <2>2. calls[i - 1].todo # <<>> /\ Head(calls[i - 1].todo) = calls[i].task
    <3>1. i \in 2 .. Len(calls)
      BY <1>7, <1>1, <1>2
    <3> QED BY <3>1 DEF CallsNested
  <2> QED BY <2>1, <2>2
<1> HIDE DEF n
<1> QED BY <1>7, <1>8, <1>10, <1>12, <1>13 DEF CallsNested

-------------------------------------------------------------------------------
\* The calls end with a result: on failure the goal has not run.
LEMMA EndInv ==
    ASSUME BuildInv, tasks' = tasks, log' = log, phase' = "end",
           NEW code, code # 0, result' = code, Goal1 \notin Range(log)
    PROVE  BuildInv'
<1>1. Goal1' = Goal1 /\ (\A u : Dependencies(u)' = Dependencies(u)) /\ TaskSeq(tasks)'
  BY SameTasks DEF Goal1, BuildInv
<1>2. LogInOrder'
  BY <1>1 DEF BuildInv, LogInOrder
<1> QED BY <1>1, <1>2 DEF BuildInv

\* A call returns when its task has run, to its caller or to main.
LEMMA ReturnInv ==
    ASSUME BuildInv, Making, tasks' = tasks, LogInOrder', Return,
           Range(log') = Range(log) \cup {Last(calls).task}, done' = Range(log'),
           Last(calls).task = Goal1 => Len(calls) = 1
    PROVE  BuildInv'
<1>1. Goal1' = Goal1 /\ TaskSeq(tasks)'
  BY SameTasks DEF Goal1, BuildInv
<1>2. calls' = Back /\ result' = result /\ result = 0
  BY DEF Return, Making
<1>3. CASE Back = <<>>
  <2>1. phase' = "end"
    BY <1>3 DEF Return
  <2>2. Last(calls).task = Goal1
    <3>1. CallsNested
      BY DEF Making
    <3>2. Len(calls) = 1
      BY <3>1, <1>3, OutermostHasNone
    <3>3. Last(calls) = calls[1] /\ calls[1].task = Goal1
      BY <3>1, <3>2 DEF CallsNested, Last
    <3> QED BY <3>3
  <2> QED BY <1>1, <1>2, <2>1, <2>2 DEF BuildInv
<1>4. CASE Back # <<>>
  <2>1. phase' = "make"
    BY <1>4, <1>2 DEF Return
  <2>2. CallsNested'
    <3>1. CallsNested
      BY DEF Making
    <3> QED BY <3>1, <1>2, <1>4, ReturnNested
  <2>3. Len(calls) # 1
    BY <1>4, OutermostHasNone DEF Making
  <2>4. Goal1 \notin Range(log')
    BY <2>3 DEF Making
  <2>5. Making'
    BY <2>1, <2>2, <2>4, <1>1, <1>2 DEF Making
  <2> QED BY <1>1, <2>1, <2>5 DEF BuildInv
<1> QED BY <1>3, <1>4

\* A task is looked at: the calls go on inside it, end, or overflow the stack.
LEMMA EnterInv ==
    ASSUME BuildInv, phase = "make", tasks' = tasks, Last(calls).todo # <<>>,
           Enter(Head(Last(calls).todo))
    PROVE  BuildInv'
<1> DEFINE t == Head(Last(calls).todo)
<1>1. Making /\ TaskSeq(tasks) /\ LogInOrder
  BY DEF BuildInv
<1>2. CASE End(1) \/ End(Overflow)
  BY <1>1, <1>2, EndInv DEF End, Overflow, Making
<1>3. CASE /\ calls' = Append(calls, [task |-> t, todo |-> Dependencies(t)])
           /\ phase' = "make" /\ UNCHANGED <<result, done, log>>
  <2>1. CallsNested'
    BY <1>1, <1>3, EnterNested DEF Making
  <2>2. Goal1' = Goal1 /\ (\A u : Dependencies(u)' = Dependencies(u)) /\ TaskSeq(tasks)'
    BY SameTasks, <1>1 DEF Goal1
  <2>3. LogInOrder'
    BY <1>1, <1>3, <2>2 DEF LogInOrder
  <2>4. Making'
    BY <1>1, <1>3, <2>1, <2>2 DEF Making
  <2> QED BY <1>3, <2>2, <2>3, <2>4 DEF BuildInv
<1> QED BY <1>2, <1>3 DEF Enter

\* The goal is looked up and called for.
LEMMA MakeInv == BuildInv /\ bld__make => BuildInv'
<1> SUFFICES ASSUME BuildInv, bld__make PROVE BuildInv'
  OBVIOUS
<1>1. /\ phase = "parse" /\ tasks' = tasks /\ TaskSeq(tasks)
      /\ calls = <<>> /\ log = <<>> /\ done = {} /\ result = 0
  BY DEF bld__make, BuildInv
<1>2. Range(log) = {}
  BY <1>1 DEF Range
<1>3. CASE End(-1) \/ End(Overflow)
  BY <1>1, <1>2, <1>3, EndInv DEF End, Overflow
<1>4. CASE /\ Labelled(Goal) # <<>>
           /\ calls' = Append(calls, [task |-> Goal1, todo |-> Dependencies(Goal1)])
           /\ phase' = "make" /\ UNCHANGED <<result, done, log>>
  <2> DEFINE call == [task |-> Goal1, todo |-> Dependencies(Goal1)]
             C == [task : DOMAIN tasks, todo : Seq(DOMAIN tasks)]
  <2>1. Goal1 \in DOMAIN tasks
    <3>1. Labelled(Goal) \in Seq(DOMAIN tasks)
      BY <1>1, LabelledTasks
    <3> QED BY <3>1, <1>4 DEF Goal1
  <2>2. call \in C /\ call.task = Goal1 /\ call.todo = Dependencies(Goal1)
    BY <1>1, <2>1, DependenciesTasks
  <2>3. calls' = <<call>>
    BY <1>1, <1>4
  <2>4. Goal1' = Goal1 /\ (\A u : Dependencies(u)' = Dependencies(u)) /\ TaskSeq(tasks)'
    BY <1>1, SameTasks DEF Goal1
  <2> HIDE DEF call, C
  <2>5. /\ calls' \in Seq(C) /\ calls' # <<>> /\ Len(calls') = 1 /\ DOMAIN calls' = {1}
        /\ calls'[1] = call
    BY <2>2, <2>3
  <2>6. CallsNested'
    <3>1. calls' \in Seq([task : DOMAIN tasks', todo : Seq(DOMAIN tasks')])
      BY <2>5, <1>1 DEF C
    <3>2. 2 .. Len(calls') = {}
      BY <2>5
    <3> QED BY <3>1, <3>2, <2>2, <2>4, <2>5 DEF CallsNested
  <2>7. LogInOrder'
    BY <1>1, <1>4 DEF LogInOrder
  <2>8. Making'
    BY <1>1, <1>2, <1>4, <2>4, <2>6 DEF Making
  <2> QED BY <1>4, <2>4, <2>7, <2>8 DEF BuildInv
<1> QED BY <1>1, <1>3, <1>4 DEF bld__make, Enter, Goal1

\* bld__depends calls itself for the next dependency, or starts the command.
LEMMA DependsInv == BuildInv /\ bld__depends => BuildInv'
<1> SUFFICES ASSUME BuildInv, bld__depends PROVE BuildInv'
  OBVIOUS
<1>1. /\ phase = "make" /\ tasks' = tasks /\ Making /\ LogInOrder /\ TaskSeq(tasks)
      /\ done = Range(log)
  BY DEF bld__depends, BuildInv, Making
<1>2. CASE Last(calls).todo # <<>>
  BY <1>1, <1>2, EnterInv DEF bld__depends
<1>3. Goal1' = Goal1 /\ (\A u : Dependencies(u)' = Dependencies(u)) /\ TaskSeq(tasks)'
  BY <1>1, SameTasks DEF Goal1
<1>4. ASSUME log' = log PROVE LogInOrder'
  BY <1>1, <1>3, <1>4 DEF LogInOrder
<1>5. CASE Last(calls).todo = <<>> /\ Last(calls).task \in done
  <2>1. Return /\ UNCHANGED <<done, log>>
    BY <1>5 DEF bld__depends, StartCommand
  <2>2. Last(calls).task # Goal1
    BY <1>1, <1>5 DEF Making
  <2> QED BY <1>1, <1>4, <1>5, <2>1, <2>2, ReturnInv
<1>6. CASE Last(calls).todo = <<>> /\ Last(calls).task \notin done
  <2>1. phase' = "run" /\ done' = done \cup {Last(calls).task} /\ UNCHANGED <<result, calls, log>>
    BY <1>6 DEF bld__depends, StartCommand
  <2>2. CallsNested'
    BY <1>1, <1>3, <2>1 DEF Making, CallsNested
  <2>3. Making'
    BY <1>1, <1>3, <1>6, <2>1, <2>2 DEF Making
  <2> QED BY <1>3, <1>4, <2>1, <2>3 DEF BuildInv
<1> QED BY <1>2, <1>5, <1>6

\* The command of the innermost call has ended.
LEMMA ExecInv == ASSUME NEW succeeds \in BOOLEAN PROVE BuildInv /\ bld__exec(succeeds) => BuildInv'
<1> SUFFICES ASSUME BuildInv, bld__exec(succeeds) PROVE BuildInv'
  OBVIOUS
<1> DEFINE t == Last(calls).task
<1>1. /\ phase = "run" /\ tasks' = tasks /\ Making /\ LogInOrder /\ TaskSeq(tasks)
      /\ t \notin Range(log) /\ Last(calls).todo = <<>> /\ done = Range(log) \cup {t}
  BY DEF bld__exec, BuildInv, Making
<1>2. CASE End(-1)
  BY <1>1, <1>2, EndInv DEF End, Making
<1>3. CASE Return /\ log' = Append(log, t) /\ UNCHANGED done
  <2>1. (\A u : Dependencies(u)' = Dependencies(u))
    BY <1>1, SameTasks
  <2>2. CallsNested /\ t \in DOMAIN tasks /\ Len(calls) \in DOMAIN calls /\ t = calls[Len(calls)].task
    BY <1>1, CallsFacts DEF Making
  <2>3. Range(Dependencies(t)) \subseteq Range(log)
    <3>1. Range(<<>>) = {} /\ Last(calls) = calls[Len(calls)]
      BY <2>2, CallsFacts DEF Range
    <3> QED BY <3>1, <2>2, <1>1 DEF CallsNested
  <2> HIDE DEF t
  <2>4. /\ log \in Seq(DOMAIN tasks) /\ Len(log) \in Nat /\ DOMAIN log = 1 .. Len(log)
        /\ log' \in Seq(DOMAIN tasks) /\ DOMAIN log' = 1 .. Len(log) + 1
        /\ log'[Len(log) + 1] = t /\ \A i \in 1 .. Len(log) : log'[i] = log[i]
    BY <1>1, <1>3, <2>2 DEF LogInOrder
  <2>5. Range(log') = Range(log) \cup {t}
    BY <2>4 DEF Range
  <2>6. \A i, j \in DOMAIN log' : i # j => log'[i] # log'[j]
    BY <2>4, <1>1 DEF LogInOrder, Range
  <2>7. ASSUME NEW i \in DOMAIN log', NEW d \in Range(Dependencies(log'[i]))
        PROVE  \E j \in 1 .. i - 1 : log'[j] = d
    <3>1. CASE i = Len(log) + 1
      <4>1. PICK j \in DOMAIN log : log[j] = d
        BY <3>1, <2>3, <2>4 DEF Range
      <4> QED BY <4>1, <3>1, <2>4
    <3>2. CASE i \in 1 .. Len(log)
      <4>1. i \in DOMAIN log /\ log'[i] = log[i]
        BY <3>2, <2>4
      <4>2. PICK j \in 1 .. i - 1 : log[j] = d
        BY <4>1, <1>1 DEF LogInOrder
      <4> QED BY <4>2, <3>2, <2>4
    <3> QED BY <3>1, <3>2, <2>4
  <2>8. LogInOrder'
    BY <1>1, <2>1, <2>4, <2>6, <2>7 DEF LogInOrder
  <2>9. t = Goal1 => Len(calls) = 1
    BY <1>1, GoalLast DEF t
  <2> QED BY <1>1, <1>3, <2>5, <2>8, <2>9, ReturnInv DEF t
<1> QED BY <1>2, <1>3 DEF bld__exec

\* A step of the parser finds tasks, and nothing has run yet.
LEMMA ParseStepInv == BuildInv /\ Parse => BuildInv'
<1> SUFFICES ASSUME BuildInv, Parse PROVE BuildInv'
  OBVIOUS
<1>1. /\ phase = "parse" /\ phase' = phase /\ calls' = calls /\ log' = log /\ done' = done
      /\ result' = result /\ log = <<>>
  BY DEF Parse, BuildInv
<1>2. TaskSeq(tasks')
  BY ParserKeepsTasks DEF Parse, BuildInv
<1>3. LogInOrder'
  BY <1>1 DEF LogInOrder
<1> QED BY <1>1, <1>2, <1>3 DEF BuildInv

\* Every step keeps it.
LEMMA BuildInvNext == BuildInv /\ [HostNext]_allVars => BuildInv'
<1> SUFFICES ASSUME BuildInv, [HostNext]_allVars PROVE BuildInv'
  OBVIOUS
<1>1. CASE Parse
  BY <1>1, ParseStepInv
<1>2. CASE bld__make
  BY <1>2, MakeInv
<1>3. CASE bld__depends
  BY <1>3, DependsInv
<1>4. CASE CommandEnds
  <2>1. PICK succeeds \in BOOLEAN : bld__exec(succeeds)
    BY <1>4 DEF CommandEnds, ImageMade
  <2> QED BY <2>1, ExecInv
<1>5. CASE UNCHANGED vars
  <2>1. Goal1' = Goal1 /\ (\A u : Dependencies(u)' = Dependencies(u)) /\ tasks' = tasks
    BY <1>5, SameTasks DEF vars, Goal1
  <2>2. /\ phase' = phase /\ calls' = calls /\ log' = log /\ done' = done /\ result' = result
    BY <1>5 DEF vars
  <2>3. LogInOrder' <=> LogInOrder
    BY <2>1, <2>2 DEF LogInOrder
  <2>4. CallsNested' <=> CallsNested
    BY <2>1, <2>2 DEF CallsNested
  <2>5. Making' <=> Making
    BY <2>1, <2>2, <2>4 DEF Making
  <2> QED BY <2>1, <2>2, <2>3, <2>5 DEF BuildInv
<1> QED BY <1>1, <1>2, <1>3, <1>4, <1>5 DEF HostNext, CommandGoesOn, allVars, vars

-------------------------------------------------------------------------------
\* A command runs only after every command it depends on has succeeded, and at most
\* once; what bld__make returns says whether the goal was made (bld__depends,
\* bld__exec).
THEOREM CommandsInOrder == HostSpec => []RunsInOrder
<1>1. BuildInv => RunsInOrder
  BY BuildInvRunsInOrder
<1> QED BY <1>1, BuildInvInit, BuildInvNext, PTL DEF HostSpec

-------------------------------------------------------------------------------
\* What mkdosfs reads from its command line: the sectors per cluster and the rest.
Spcs == {1, 2, 4, 8, 16, 32, 64, 128}
Requests(V) ==
    [ok : BOOLEAN, outfile : BOOLEAN, blocks : Nat, offset : Nat, fat : {0, 12, 16, 32},
     spc : {0} \cup Spcs, boot : V, label : V]
-------------------------------------------------------------------------------
\* What establish_bpb starts from.
IsSettings(g) ==
    /\ g.total \in Nat /\ g.offset \in Nat /\ g.aligned \in BOOLEAN /\ g.byUser \in BOOLEAN
    /\ g.fat \in {0, 12, 16, 32} /\ g.spc \in Spcs
    /\ IF g.fat = 32 THEN g.root = 0 /\ g.reserved = 32
       ELSE g.root \in {112, 224, 240, 512} /\ g.reserved = 1

\* The settings are made of numbers, whatever the options are.
LEMMA SettingsTyped ==
    ASSUME NEW V, NEW r \in Requests(V), NEW used \in Nat
    PROVE  /\ IsSettings(Image!Settings(r, used))
           /\ Image!Settings(r, used).total = Image!TotalSectors(used)
           /\ Image!Settings(r, used).offset = r.offset
<1> DEFINE total == Image!TotalSectors(used)
           m == Image!Medium(total)
           width == IF r.fat = 0 /\ used >= 1048576 THEN 32 ELSE r.fat
<1>0. total \in Nat
  BY DEF Image!TotalSectors
<1> HIDE DEF total
<1>1. m[2] \in {1, 2, 4} /\ m[3] \in {112, 224, 240, 512}
  <2>1. \A f \in Image!Floppies : f[2] \in {1, 2, 4} /\ f[3] \in {112, 224, 240, 512}
    BY DEF Image!Floppies
  <2> QED BY <2>1 DEF Image!Medium
<1>2. Image!Fat32ClusterSize(total) \in Spcs
  BY DEF Image!Fat32ClusterSize, Spcs
<1>3. /\ r.fat \in {0, 12, 16, 32} /\ r.spc \in {0} \cup Spcs /\ r.offset \in Nat
      /\ width \in {0, 12, 16, 32}
  BY DEF Requests
<1> HIDE DEF m, width
<1> DEFINE g == Image!Settings(r, used)
<1>4. /\ g.total = total /\ g.fat = width /\ g.byUser = (r.fat # 0) /\ g.aligned = (total > 8192)
      /\ g.root = (IF width = 32 THEN 0 ELSE m[3])
      /\ g.spc = (IF r.spc # 0 THEN r.spc
                  ELSE IF width = 32 THEN Image!Fat32ClusterSize(total) ELSE m[2])
      /\ g.reserved = (IF width = 32 THEN 32 ELSE 1) /\ g.offset = r.offset
  BY DEF Image!Settings, m, width, total
<1> HIDE DEF g
<1>5. g.spc \in Spcs
  BY <1>1, <1>2, <1>3, <1>4 DEF Spcs
<1> QED BY <1>0, <1>1, <1>3, <1>4, <1>5 DEF IsSettings, g, total

\* Two tables of fl sectors that hold the clusters of the estimate hold those there are.
LEMMA EstimateEnough ==
    ASSUME NEW data \in Int, NEW s \in Spcs, NEW fl \in Nat, NEW n \in Nat,
           n * s <= data - 2 * fl
    PROVE  /\ LET e == (2 * (data * 512 + 6)) \div (2 * s * 512 + 6) IN
              fl * 512 >= ((e + 2) * 3 + 1) \div 2 => n + 2 <= (fl * 1024) \div 3
           /\ LET e == (data * 512 + 8) \div (s * 512 + 4) IN
              fl * 512 >= (e + 2) * 2 => n + 2 <= fl * 256
           /\ LET e == (data * 512 + 16) \div (s * 512 + 8) IN
              fl * 512 >= (e + 2) * 4 => n + 2 <= fl * 128
  BY DEF Spcs

\* Rounding up makes no less, and nothing negative of what is not.
LEMMA RoundUp ==
    ASSUME NEW a \in Int, NEW b \in Spcs \cup {512}
    PROVE  /\ Image!cdiv(a, b) \in Int /\ Image!cdiv(a, b) * b >= a
           /\ a >= 0 => Image!cdiv(a, b) \in Nat
  BY DEF Image!cdiv, Spcs

\* An aligned size is not smaller than the size.
LEMMA AlignUp ==
    ASSUME NEW g, IsSettings(g), NEW a \in Int, NEW s \in Spcs
    PROVE  /\ Image!align_object(g, a, s) \in Int
           /\ Image!align_object(g, a, s) >= a
<1>1. Image!cdiv(a, s) \in Int /\ Image!cdiv(a, s) * s >= a
  BY RoundUp
<1>2. Image!cdiv(a, s) * s \in Int
  BY <1>1 DEF Spcs
<1> QED BY <1>1, <1>2 DEF Image!align_object, IsSettings

\* The smaller of two numbers.
LEMMA LeastOfTwo ==
    ASSUME NEW a \in Int, NEW b \in Int
    PROVE  /\ Image!Min({a, b}) \in Int
           /\ Image!Min({a, b}) <= a /\ Image!Min({a, b}) <= b
<1> DEFINE m == CHOOSE x \in {a, b} : \A y \in {a, b} : x <= y
<1>1. \E x \in {a, b} : \A y \in {a, b} : x <= y
  OBVIOUS
<1>2. m \in {a, b} /\ \A y \in {a, b} : m <= y
  BY <1>1, Zenon
<1>3. Image!Min({a, b}) = m
  BY DEF Image!Min
<1> HIDE DEF m
<1> QED BY <1>2, <1>3

\* Clusters that are found good fit beside the tables, and the tables have entries
\* for them.
LEMMA ClustersFit ==
    ASSUME NEW g, IsSettings(g), NEW bits \in {12, 16, 32}, NEW s \in Spcs
    PROVE  LET n == Image!Clusters(g, bits, s)
               fl == Image!FatLength(g, bits, s)
           IN  /\ n \in Nat /\ fl \in Int
               /\ n # 0 => /\ n * s <= Image!DataSectors(g, bits, s) - 2 * fl
                           /\ n + 2 <= Image!TableEntries(bits, fl)
                           /\ n <= Image!MaxClusters(bits)
                           /\ fl >= 1
                           /\ n = (Image!DataSectors(g, bits, s) - 2 * fl) \div s
<1> DEFINE n == Image!Clusters(g, bits, s)
           fl == Image!FatLength(g, bits, s)
           data == Image!DataSectors(g, bits, s)
           e == Image!Estimate(g, bits, s)
           room == (data - 2 * fl) \div s
           bytes == Image!TableBytes(bits, e + 2)
<1>1. data \in Int
  <2>1. Image!RootSectors(g, s) \in Int
    <3>1. Image!cdiv(g.root * 32, 512) \in Int
      BY DEF Image!cdiv, IsSettings
    <3> QED BY <3>1, AlignUp DEF Image!RootSectors
  <2>2. Image!align_object(g, g.reserved, s) \in Int
    BY AlignUp DEF IsSettings
  <2> QED BY <2>1, <2>2 DEF IsSettings, Image!DataSectors
<1>2. e = (IF bits = 12 THEN (2 * (data * 512 + 6)) \div (2 * s * 512 + 6)
           ELSE IF bits = 16 THEN (data * 512 + 8) \div (s * 512 + 4)
           ELSE (data * 512 + 16) \div (s * 512 + 8))
  BY DEF Image!Estimate
<1>3. bytes = (IF bits = 12 THEN ((e + 2) * 3 + 1) \div 2
               ELSE IF bits = 16 THEN (e + 2) * 2 ELSE (e + 2) * 4)
  BY DEF Image!TableBytes
<1>4. fl = Image!align_object(g, Image!cdiv(bytes, 512), s)
  BY DEF Image!FatLength
<1> HIDE DEF data, e, bytes, fl
<1>5. e \in Int /\ bytes \in Int
  BY <1>1, <1>2, <1>3 DEF Spcs
<1>6. fl \in Int /\ fl * 512 >= bytes
  <2> DEFINE c == Image!cdiv(bytes, 512)
  <2>1. c \in Int /\ c * 512 >= bytes
    BY <1>5, RoundUp
  <2> HIDE DEF c
  <2>2. fl \in Int /\ fl >= c
    BY <2>1, <1>4, AlignUp DEF c
  <2>3. fl * 512 >= c * 512
    BY <2>1, <2>2
  <2> QED BY <1>5, <2>1, <2>2, <2>3
<1>7. room \in Int /\ room * s <= data - 2 * fl
  BY <1>1, <1>6 DEF Spcs
<1>8. n = (IF room \in Image!MinClusters(g, bits) ..
                       Image!Min({Image!TableEntries(bits, fl), Image!MaxClusters(bits)})
           THEN room ELSE 0)
  BY DEF Image!Clusters, data, fl
<1> HIDE DEF room, n
<1>9. Image!MinClusters(g, bits) \in Nat \ {0}
  BY DEF Image!MinClusters
<1>10. Image!MaxClusters(bits) \in Int
  BY DEF Image!MaxClusters
<1>11. Image!TableEntries(bits, fl) =
          (IF bits = 12 THEN (fl * 1024) \div 3 ELSE IF bits = 16 THEN fl * 256 ELSE fl * 128)
  BY DEF Image!TableEntries
<1>12. Image!TableEntries(bits, fl) \in Int /\ (Image!TableEntries(bits, fl) >= 1 => fl >= 1)
  BY <1>6, <1>11
<1>13. n \in Nat /\ (n # 0 => /\ n = room
                              /\ n <= Image!TableEntries(bits, fl)
                              /\ n <= Image!MaxClusters(bits))
  <2> DEFINE t == Image!TableEntries(bits, fl)
             c == Image!MaxClusters(bits)
             most == Image!Min({t, c})
  <2>1. most \in Int /\ most <= t /\ most <= c
    BY <1>10, <1>12, LeastOfTwo
  <2> HIDE DEF t, c, most
  <2>2. room \in Image!MinClusters(g, bits) .. most
           => room \in Nat \ {0} /\ room <= t /\ room <= c
    BY <1>7, <1>9, <1>10, <1>12, <2>1 DEF t, c
  <2>3. n = IF room \in Image!MinClusters(g, bits) .. most THEN room ELSE 0
    BY <1>8 DEF most, t, c
  <2> QED BY <2>2, <2>3 DEF t, c
<1>14. ASSUME n # 0
       PROVE  n * s <= data - 2 * fl /\ fl >= 1 /\ n + 2 <= Image!TableEntries(bits, fl)
  <2>1. n * s <= data - 2 * fl /\ fl \in Nat /\ fl >= 1
    BY <1>6, <1>7, <1>11, <1>12, <1>13, <1>14
  <2>2. fl * 512 >= bytes
    BY <1>6
  <2>3. CASE bits = 12
    BY <2>1, <2>2, <2>3, <1>1, <1>2, <1>3, <1>11, <1>13, EstimateEnough
  <2>4. CASE bits = 16
    BY <2>1, <2>2, <2>4, <1>1, <1>2, <1>3, <1>11, <1>13, EstimateEnough
  <2>5. CASE bits = 32
    BY <2>1, <2>2, <2>5, <1>1, <1>2, <1>3, <1>11, <1>13, EstimateEnough
  <2> QED BY <2>1, <2>3, <2>4, <2>5
<1> QED BY <1>6, <1>13, <1>14 DEF n, fl, data, room

\* The layout of a volume: mkdosfs leaves its areas one behind the other, the root
\* directory of whole sectors, and entries for every cluster.
LayoutSound(l) ==
    /\ l.fat \in {12, 16, 32} /\ l.spc \in Spcs
    /\ l.clusters \in Nat \ {0} /\ l.reserved \in Nat \ {0} /\ l.spf \in Nat \ {0}
    /\ l.total \in Nat /\ l.offset \in Nat /\ l.rootEntries \in Nat
    /\ Image!RootLength(l) \in Nat \ {0} /\ Image!DataStart(l) \in Nat
    /\ Image!DataStart(l) + l.clusters * l.spc <= l.total
    /\ l.clusters + 2 <= Image!TableEntries(l.fat, l.spf)
    /\ l.clusters <= Image!MaxClusters(l.fat)
    /\ IF l.fat = 32
       THEN /\ l.rootEntries = 0 /\ l.info = 1 /\ l.backup = 6 /\ l.reserved >= 32
            /\ l.clusters = (l.total - l.reserved - 2 * l.spf) \div l.spc
       ELSE l.rootEntries = 16 * Image!RootLength(l)

\* A cluster size with clusters makes a volume whose areas fit.
LEMMA LayoutIsSound ==
    ASSUME NEW g, IsSettings(g), NEW bits \in {12, 16, 32}, NEW s \in Spcs,
           bits = 32 <=> g.fat = 32, Image!Clusters(g, bits, s) # 0
    PROVE  LET l == Image!Layout(g, s, bits)
           IN  LayoutSound(l) /\ l.total = g.total /\ l.offset = g.offset
<1> DEFINE n == Image!Clusters(g, bits, s)
           fl == Image!FatLength(g, bits, s)
           data == Image!DataSectors(g, bits, s)
           reserved == Image!align_object(g, g.reserved, s)
           root == Image!RootSectors(g, s)
           l == Image!Layout(g, s, bits)
<1>1. /\ n \in Nat \ {0} /\ fl \in Nat \ {0} /\ n * s <= data - 2 * fl
      /\ n + 2 <= Image!TableEntries(bits, fl) /\ n <= Image!MaxClusters(bits)
      /\ n = (data - 2 * fl) \div s
  BY ClustersFit
<1>2. data = g.total - reserved - (IF bits = 32 THEN 0 ELSE root)
  BY DEF Image!DataSectors
<1>3. reserved \in Nat \ {0} /\ (bits = 32 => reserved >= 32)
  BY AlignUp DEF IsSettings
<1>4. bits # 32 => /\ root \in Nat \ {0} /\ g.root \in {112, 224, 240, 512}
                   /\ ~g.aligned => root * 16 = g.root
  <2> SUFFICES ASSUME bits # 32
               PROVE  /\ root \in Nat \ {0} /\ g.root \in {112, 224, 240, 512}
                      /\ ~g.aligned => root * 16 = g.root
    OBVIOUS
  <2>1. g.root \in {112, 224, 240, 512} /\ g.aligned \in BOOLEAN
    BY DEF IsSettings
  <2> DEFINE c == Image!cdiv(g.root * 32, 512)
  <2>2. c \in Nat \ {0} /\ c * 16 = g.root
    BY <2>1 DEF Image!cdiv
  <2> HIDE DEF c
  <2>3. root \in Int /\ root >= c
    BY <2>2, AlignUp DEF Image!RootSectors, c
  <2>4. ~g.aligned => root = c
    BY DEF Image!RootSectors, Image!align_object, c
  <2> QED BY <2>1, <2>2, <2>3, <2>4
<1>5. /\ l.fat = bits /\ l.spc = s /\ l.clusters = n /\ l.reserved = reserved /\ l.spf = fl
      /\ l.rootEntries = (IF g.aligned THEN root * 16 ELSE g.root)
      /\ l.total = g.total /\ l.offset = g.offset
      /\ l.info = (IF bits = 32 THEN 1 ELSE 0) /\ l.backup = (IF bits = 32 THEN 6 ELSE 0)
  BY DEF Image!Layout
<1>6. g.total \in Nat /\ g.offset \in Nat /\ (bits = 32 => g.root = 0) /\ g.aligned \in BOOLEAN
  BY DEF IsSettings
<1>7. bits = 32 => root = 0
  <2> SUFFICES ASSUME bits = 32 PROVE root = 0
    OBVIOUS
  <2>1. Image!cdiv(0, 512) = 0 /\ Image!cdiv(0, s) * s = 0
    BY DEF Image!cdiv, Spcs
  <2>2. g.root * 32 = 0
    BY <1>6
  <2> QED BY <2>1, <2>2 DEF Image!RootSectors, Image!align_object, root
<1> HIDE DEF n, fl, data, reserved, root, l
<1>8. l.rootEntries = (IF bits = 32 THEN 0 ELSE 16 * root)
  BY <1>4, <1>5, <1>6, <1>7
<1>9. Image!RootLength(l) = IF bits = 32 THEN s ELSE root
  BY <1>4, <1>5, <1>8 DEF Image!RootLength, Image!cdiv
<1>10. Image!DataStart(l) = reserved + 2 * fl + (IF bits = 32 THEN 0 ELSE root)
  BY <1>1, <1>3, <1>5, <1>9 DEF Image!DataStart, Image!RootStart, Image!FatStart
<1>11. s \in Nat \ {0} /\ n * s \in Nat
  BY <1>1 DEF Spcs
<1>12. LayoutSound(l)
  <2>1. /\ l.fat \in {12, 16, 32} /\ l.spc \in Spcs
        /\ l.clusters \in Nat \ {0} /\ l.reserved \in Nat \ {0} /\ l.spf \in Nat \ {0}
        /\ l.total \in Nat /\ l.offset \in Nat
    BY <1>1, <1>3, <1>5, <1>6
  <2>2. Image!RootLength(l) \in Nat \ {0} /\ Image!DataStart(l) \in Nat
    <3>1. s \in Nat \ {0} /\ (bits # 32 => root \in Nat \ {0})
      BY <1>4, <1>11
    <3>2. fl \in Nat /\ reserved \in Nat
      BY <1>1, <1>3
    <3>3. CASE bits = 32
      BY <3>1, <3>2, <3>3, <1>9, <1>10
    <3>4. CASE bits # 32
      BY <3>1, <3>2, <3>4, <1>9, <1>10
    <3> QED BY <3>3, <3>4
  <2>3. l.rootEntries \in Nat
    BY <1>4, <1>8
  <2>4. l.clusters * l.spc = n * s
    BY <1>5
  <2>5. Image!DataStart(l) + n * s <= l.total
    <3> DEFINE ns == n * s
    <3>1. ns \in Nat /\ ns <= data - 2 * fl
      BY <1>1, <1>11
    <3> HIDE DEF ns
    <3>2. Image!DataStart(l) + ns <= l.total
      BY <1>1, <1>2, <1>3, <1>4, <1>5, <1>6, <1>10, <3>1
    <3> QED BY <3>2 DEF ns
  <2>6. l.clusters + 2 <= Image!TableEntries(l.fat, l.spf)
        /\ l.clusters <= Image!MaxClusters(l.fat)
    BY <1>1, <1>5
  <2>7. bits = 32 => l.clusters = (l.total - l.reserved - 2 * l.spf) \div l.spc
    BY <1>1, <1>2, <1>3, <1>5, <1>6
  <2> QED BY <2>1, <2>2, <2>3, <2>4, <2>5, <2>6, <2>7, <1>3, <1>5, <1>8, <1>9 DEF LayoutSound
<1> QED BY <1>5, <1>12 DEF l

\* establish_bpb finds a sound layout or none.
LEMMA EstablishSound ==
    ASSUME NEW V, NEW r \in Requests(V), NEW used \in Nat
    PROVE  LET l == Image!establish_bpb(r, used)
           IN  /\ l.fat \in {0, 12, 16, 32}
               /\ l.fat = 0 => l = Image!NoLayout
               /\ l.fat # 0 => LayoutSound(l) /\ l.total = Image!TotalSectors(used) /\ l.offset = r.offset
<1> DEFINE g == Image!Settings(r, used)
           bits == IF g.fat = 0 THEN {12, 16} ELSE {g.fat}
           good == {s \in {k \in {1, 2, 4, 8, 16, 32, 64, 128} : k >= g.spc} :
                       \E b \in bits : Image!Clusters(g, b, s) # 0}
           size == Image!ClusterSize(g)
           l == Image!Choose(g, size)
           b == IF g.fat # 0 THEN g.fat
                ELSE IF Image!Clusters(g, 16, size) > Image!Clusters(g, 12, size) THEN 16 ELSE 12
<1>1. IsSettings(g) /\ g.total = Image!TotalSectors(used) /\ g.offset = r.offset
  BY SettingsTyped
<1>2. Image!establish_bpb(r, used) = l
  BY DEF Image!establish_bpb
<1>3. size = (IF good = {} THEN 0 ELSE Image!Min(good))
  BY DEF Image!ClusterSize
<1>4. l = (IF size = 0 THEN Image!NoLayout ELSE Image!Layout(g, size, b))
  BY DEF Image!Choose
<1>5. good \in SUBSET Spcs /\ good \in SUBSET Nat
  BY DEF Spcs
<1>6. \A s \in good : \E c \in bits : Image!Clusters(g, c, s) # 0
  OBVIOUS
<1> HIDE DEF g, good, size
<1>7. CASE good = {}
  <2>1. l = Image!NoLayout
    BY <1>3, <1>4, <1>7
  <2> QED BY <2>1, <1>2 DEF Image!NoLayout
<1>8. CASE good # {}
  <2>1. size \in good
    BY <1>3, <1>5, <1>8, LeastOne
  <2>2. size \in Spcs /\ size # 0
    BY <2>1, <1>5 DEF Spcs
  <2>3. g.fat \in {0, 12, 16, 32}
    BY <1>1 DEF IsSettings
  <2>4. /\ b \in {12, 16, 32} /\ (b = 32 <=> g.fat = 32)
        /\ Image!Clusters(g, b, size) # 0
    <3>1. CASE g.fat # 0
      BY <3>1, <2>1, <2>3, <1>6
    <3>2. CASE g.fat = 0
      <4>1. Image!Clusters(g, 12, size) \in Nat /\ Image!Clusters(g, 16, size) \in Nat
        BY <1>1, <2>2, ClustersFit
      <4>2. Image!Clusters(g, 12, size) # 0 \/ Image!Clusters(g, 16, size) # 0
        BY <3>2, <2>1, <1>6
      <4> QED BY <3>2, <4>1, <4>2
    <3> QED BY <3>1, <3>2
  <2> HIDE DEF b
  <2>5. l = Image!Layout(g, size, b)
    BY <1>4, <2>2
  <2>6. LayoutSound(l) /\ l.total = Image!TotalSectors(used) /\ l.offset = r.offset
    BY <2>2, <2>4, <2>5, <1>1, LayoutIsSound
  <2>7. l.fat \in {12, 16, 32}
    BY <2>6 DEF LayoutSound
  <2> HIDE DEF l
  <2> QED BY <2>6, <2>7, <1>2
<1> QED BY <1>7, <1>8

\* f folds over the subsets of 1 .. n, the largest number last.
IsFold(f, n, R, base, step) ==
    /\ f \in [SUBSET (1 .. n) -> R]
    /\ \A s \in SUBSET (1 .. n) :
          IF s = {} THEN f[s] = base
          ELSE /\ Image!Max(s) \in 1 .. n
               /\ f[s] = step[<<f[s \ {Image!Max(s)}], Image!Max(s)>>]

\* A fold over subsets of 1 .. n, the largest first, exists.
LEMMA FoldExists ==
    ASSUME NEW n \in Nat, NEW R, NEW base \in R, NEW step \in [R \X (1 .. n) -> R]
    PROVE  \E f : IsFold(f, n, R, base, step)
<1> DEFINE P(k) == \E f : IsFold(f, k, R, base, step)
           S == {k \in Nat : k <= n => P(k)}
<1>1. P(0)
  <2> DEFINE f == [s \in SUBSET (1 .. 0) |-> base]
  <2>1. f \in [SUBSET (1 .. 0) -> R] /\ \A s \in SUBSET (1 .. 0) : s = {} /\ f[s] = base
    OBVIOUS
  <2> HIDE DEF f
  <2> QED BY <2>1, Zenon DEF IsFold
<1>2. ASSUME NEW k \in Nat, k + 1 <= n, P(k) PROVE P(k + 1)
  <2>1. PICK g : IsFold(g, k, R, base, step)
    BY <1>2
  <2> DEFINE f == [s \in SUBSET (1 .. k + 1) |->
                      IF k + 1 \in s THEN step[<<g[s \ {k + 1}], k + 1>>] ELSE g[s]]
  <2>2. ASSUME NEW s \in SUBSET (1 .. k + 1)
        PROVE  /\ s \ {k + 1} \in SUBSET (1 .. k)
               /\ k + 1 \notin s => s \in SUBSET (1 .. k)
               /\ k + 1 \in s => Image!Max(s) = k + 1
    <3>1. s \ {k + 1} \in SUBSET (1 .. k) /\ (k + 1 \notin s => s \in SUBSET (1 .. k))
      OBVIOUS
    <3>2. ASSUME k + 1 \in s PROVE Image!Max(s) = k + 1
      <4>1. \A y \in s : y \in Nat /\ k + 1 >= y
        OBVIOUS
      <4>2. \A x \in s : (\A y \in s : x >= y) => x = k + 1
        BY <3>2, <4>1
      <4> QED BY <3>2, <4>1, <4>2, Zenon DEF Image!Max
    <3> QED BY <3>1, <3>2
  <2>3. /\ 1 .. k \subseteq 1 .. k + 1 /\ k + 1 \notin 1 .. k
        /\ 1 .. k \subseteq 1 .. n /\ k + 1 \in 1 .. n /\ k + 1 \in 1 .. k + 1
    BY <1>2
  <2>4. /\ g \in [SUBSET (1 .. k) -> R]
        /\ \A s \in SUBSET (1 .. k) :
              IF s = {} THEN g[s] = base
              ELSE /\ Image!Max(s) \in 1 .. k
                   /\ g[s] = step[<<g[s \ {Image!Max(s)}], Image!Max(s)>>]
    BY <2>1, Zenon DEF IsFold
  <2>5. f \in [SUBSET (1 .. k + 1) -> R]
    <3> SUFFICES ASSUME NEW s \in SUBSET (1 .. k + 1)
                 PROVE (IF k + 1 \in s THEN step[<<g[s \ {k + 1}], k + 1>>] ELSE g[s]) \in R
      OBVIOUS
    <3>1. CASE k + 1 \in s
      <4>1. g[s \ {k + 1}] \in R
        BY <2>2, <2>4
      <4> QED BY <3>1, <4>1, <2>3
    <3>2. CASE k + 1 \notin s
      BY <2>2, <2>4, <3>2
    <3> QED BY <3>1, <3>2
  <2>6. \A s \in SUBSET (1 .. k) : f[s] = g[s]
    BY <2>3
  <2>7. ASSUME NEW s \in SUBSET (1 .. k + 1)
        PROVE  IF s = {} THEN f[s] = base
               ELSE /\ Image!Max(s) \in 1 .. k + 1
                    /\ f[s] = step[<<f[s \ {Image!Max(s)}], Image!Max(s)>>]
    <3>1. CASE k + 1 \in s
      <4>1. f[s] = step[<<g[s \ {k + 1}], k + 1>>]
        BY <3>1
      <4> HIDE DEF f
      <4>2. s # {} /\ Image!Max(s) = k + 1 /\ f[s \ {k + 1}] = g[s \ {k + 1}]
        BY <3>1, <2>2, <2>6
      <4> QED BY <4>1, <4>2, <2>3
    <3>2. CASE k + 1 \notin s
      <4>1. s \in SUBSET (1 .. k)
        BY <2>2, <3>2
      <4> HIDE DEF f
      <4>2. f[s] = g[s] /\ \A i \in s : s \ {i} \in SUBSET (1 .. k)
        BY <4>1, <2>6
      <4>3. f[s \ {Image!Max(s)}] = g[s \ {Image!Max(s)}]
        BY <4>1, <2>6
      <4> QED BY <4>1, <4>2, <4>3, <2>3, <2>4
    <3> QED BY <3>1, <3>2
  <2> HIDE DEF f
  <2>8. IsFold(f, k + 1, R, base, step)
    BY <2>5, <2>7, Zenon DEF IsFold
  <2> QED BY <2>8
<1> HIDE DEF P
<1>3. 0 \in S /\ \A k \in Nat : k \in S => k + 1 \in S
  BY <1>1, <1>2
<1> HIDE DEF S
<1>4. Nat \subseteq S
  BY <1>3, Induction
<1>5. P(n)
  BY <1>4 DEF S
<1> QED BY <1>5 DEF P

\* The largest of 1 .. k + 1.
LEMMA UpToNext ==
    ASSUME NEW n \in Nat, NEW k \in 0 .. n - 1
    PROVE  /\ 1 .. k + 1 \in SUBSET (1 .. n) /\ 1 .. k + 1 # {}
           /\ Image!Max(1 .. k + 1) = k + 1
           /\ (1 .. k + 1) \ {k + 1} = 1 .. k
<1>1. \A x \in 1 .. k + 1 : (\A y \in 1 .. k + 1 : x >= y) <=> x = k + 1
  OBVIOUS
<1>2. k + 1 \in 1 .. k + 1
  OBVIOUS
<1>3. Image!Max(1 .. k + 1) = k + 1
  BY <1>1, <1>2, Zenon DEF Image!Max
<1>4. 1 .. k + 1 \in SUBSET (1 .. n)
  OBVIOUS
<1>5. (1 .. k + 1) \ {k + 1} = 1 .. k
  OBVIOUS
<1> QED BY <1>2, <1>3, <1>4, <1>5

\* What a fold comes to, when every step keeps it in R.
LEMMA FoldEnds ==
    ASSUME NEW n \in Nat, NEW R, NEW it, it[{}] \in R,
           \A k \in 0 .. n - 1 : it[1 .. k] \in R => it[1 .. k + 1] \in R
    PROVE  it[1 .. n] \in R
<1> DEFINE S == {k \in Nat : k <= n => it[1 .. k] \in R}
<1>1. 0 \in S
  <2>1. 1 .. 0 = {}
    OBVIOUS
  <2> QED BY <2>1
<1>2. ASSUME NEW k \in Nat, k \in S PROVE k + 1 \in S
  <2> SUFFICES ASSUME k + 1 <= n PROVE it[1 .. k + 1] \in R
    OBVIOUS
  <2>1. it[1 .. k] \in R /\ k \in 0 .. n - 1
    BY <1>2
  <2> QED BY <2>1
<1> HIDE DEF S
<1>3. Nat \subseteq S
  BY <1>1, <1>2, Induction
<1> QED BY <1>3 DEF S

\* An argument changes one field, to a value of its type.
LEMMA ArgumentRequest ==
    ASSUME NEW V, NEW r \in Requests(V), NEW a,
           \A o \in {"blocks", "offset"} \cap DOMAIN a : a[o] \in Int,
           Image!Is(a, "boot") => a.boot \in V, Image!Is(a, "n") => a.n.named \in V
    PROVE  Image!Argument(r, a) \in Requests(V)
<1>1. r \in Requests(V)
  OBVIOUS
<1>2. /\ [r EXCEPT !.ok = FALSE] \in Requests(V)
      /\ [r EXCEPT !.outfile = TRUE] \in Requests(V)
  BY DEF Requests
<1>3. \A v \in Nat : /\ [r EXCEPT !.blocks = v] \in Requests(V)
                     /\ [r EXCEPT !.offset = v] \in Requests(V)
  BY DEF Requests
<1>4. \A v \in {12, 16, 32} : [r EXCEPT !.fat = v] \in Requests(V)
  BY DEF Requests
<1>5. \A v \in {1, 2, 4, 8, 16, 32, 64, 128} : [r EXCEPT !.spc = v] \in Requests(V)
  BY DEF Requests, Spcs
<1>6. \A v \in V : /\ [r EXCEPT !.boot = v] \in Requests(V)
                   /\ [r EXCEPT !.label = v] \in Requests(V)
  BY DEF Requests
<1>7. /\ Image!Is(a, "blocks") => a.blocks \in Int
      /\ Image!Is(a, "offset") => a.offset \in Int
  BY DEF Image!Is
<1> HIDE DEF Requests
<1>8. /\ Image!OutFile(r) \in Requests(V) /\ Image!Otherwise(r, FALSE, r) \in Requests(V)
      /\ \A n \in Int : Image!Blocks(r, n) \in Requests(V) /\ Image!Offset(r, n) \in Requests(V)
      /\ \A n : /\ Image!FatWidth(r, n) \in Requests(V)
                /\ Image!SectorsPerCluster(r, n) \in Requests(V)
      /\ \A l : l.named \in V => Image!Name(r, l) \in Requests(V)
  <2>1. \A n \in Int : n >= 0 => n \in Nat
    OBVIOUS
  <2> QED BY <2>1, <1>2, <1>3, <1>4, <1>5, <1>6, Zenon
       DEF Image!OutFile, Image!Otherwise, Image!Blocks, Image!Offset, Image!FatWidth,
           Image!SectorsPerCluster, Image!Name
<1> QED BY <1>6, <1>7, <1>8, Zenon DEF Image!Argument

\* Whatever the arguments are.
LEMMA RequestTyped ==
    ASSUME NEW args, Len(args) \in Nat, DOMAIN args = 1 .. Len(args),
           Integers(args, {"blocks", "offset"})
    PROVE  \E V : Image!ParseArgs(args) \in Requests(V)
<1> DEFINE V == {"none", FALSE} \cup {args[i].boot : i \in DOMAIN args}
                 \cup {args[i].n.named : i \in DOMAIN args}
           n == Len(args)
           step == [q \in Requests(V) \X (1 .. n) |-> Image!Argument(q[1], args[q[2]])]
           Folded(f) ==
              f = [s \in SUBSET (1 .. n) |->
                      IF s = {} THEN Image!Defaults
                      ELSE Image!Argument(f[s \ {Image!Max(s)}], args[Image!Max(s)])]
           it == CHOOSE f : Folded(f)
<1>0. n \in Nat /\ DOMAIN args = 1 .. n
  OBVIOUS
<1>1. Image!Defaults \in Requests(V)
  BY DEF Image!Defaults, Requests
<1>2. \A r \in Requests(V), i \in 1 .. n : Image!Argument(r, args[i]) \in Requests(V)
  <2> TAKE r \in Requests(V), i \in 1 .. n
  <2>1. \A o \in {"blocks", "offset"} \cap DOMAIN args[i] : args[i][o] \in Int
    BY <1>0 DEF Integers
  <2>2. args[i].boot \in V /\ args[i].n.named \in V
    BY <1>0
  <2> HIDE DEF V
  <2> QED BY <2>1, <2>2, ArgumentRequest
<1> HIDE DEF V, n
<1>3. step \in [Requests(V) \X (1 .. n) -> Requests(V)]
  BY <1>2, Zenon
<1>4. \E f : Folded(f)
  <2>1. PICK f : IsFold(f, n, Requests(V), Image!Defaults, step)
    <3> HIDE DEF step
    <3> QED BY <1>0, <1>1, <1>3, FoldExists
  <2>2. /\ f \in [SUBSET (1 .. n) -> Requests(V)]
        /\ \A s \in SUBSET (1 .. n) :
              IF s = {} THEN f[s] = Image!Defaults
              ELSE /\ Image!Max(s) \in 1 .. n
                   /\ f[s] = step[<<f[s \ {Image!Max(s)}], Image!Max(s)>>]
    <3> HIDE DEF step
    <3> QED BY <2>1, Zenon DEF IsFold
  <2>3. ASSUME NEW s \in SUBSET (1 .. n), s # {}
        PROVE  f[s] = Image!Argument(f[s \ {Image!Max(s)}], args[Image!Max(s)])
    <3>1. s \ {Image!Max(s)} \in SUBSET (1 .. n)
      OBVIOUS
    <3>2. f[s \ {Image!Max(s)}] \in Requests(V) /\ Image!Max(s) \in 1 .. n
      BY <2>2, <2>3, <3>1
    <3>3. f[s] = step[<<f[s \ {Image!Max(s)}], Image!Max(s)>>]
      <4> HIDE DEF step
      <4> QED BY <2>2, <2>3
    <3> QED BY <3>2, <3>3
  <2>4. f = [s \in SUBSET (1 .. n) |-> f[s]]
    BY <2>2
  <2>5. \A s \in SUBSET (1 .. n) :
           f[s] = IF s = {} THEN Image!Defaults
                  ELSE Image!Argument(f[s \ {Image!Max(s)}], args[Image!Max(s)])
    <3> HIDE DEF step
    <3> QED BY <2>2, <2>3
  <2>6. Folded(f)
    BY <2>4, <2>5, Zenon
  <2> QED BY <2>6
<1>5. Folded(it)
  BY <1>4, Zenon
<1>6. Image!ParseArgs(args) = it[1 .. n]
  BY <1>0, Zenon DEF Image!ParseArgs, Image!FoldLeft, Image!MapThenFoldSet
<1> HIDE DEF it
<1>7. \A s \in SUBSET (1 .. n) :
           it[s] = IF s = {} THEN Image!Defaults
                  ELSE Image!Argument(it[s \ {Image!Max(s)}], args[Image!Max(s)])
  BY <1>5, Zenon
<1> HIDE DEF Folded, step
<1>8. it[{}] \in Requests(V)
  BY <1>1, <1>7
<1>9. ASSUME NEW k \in 0 .. n - 1, it[1 .. k] \in Requests(V)
      PROVE  it[1 .. k + 1] \in Requests(V)
  <2>1. /\ 1 .. k + 1 \in SUBSET (1 .. n) /\ 1 .. k + 1 # {}
        /\ Image!Max(1 .. k + 1) = k + 1
        /\ (1 .. k + 1) \ {k + 1} = 1 .. k
    BY <1>0, UpToNext
  <2>2. it[1 .. k + 1] = Image!Argument(it[1 .. k], args[k + 1])
    BY <2>1, <1>7, Zenon
  <2> QED BY <2>2, <1>0, <1>2, <1>9
<1> QED BY <1>0, <1>6, <1>8, <1>9, FoldEnds

-------------------------------------------------------------------------------
\* What the arguments of parted make, when boot records and partitions are from V.
\* What parted reads from its command line.
Partitions(V) == {p \in V : p.start \in Nat /\ p.end \in Nat /\ p.start <= p.end}
PartedRequests(V) ==
    [ok : BOOLEAN, outfile : BOOLEAN, boot : V, parts : Seq(Partitions(V))]

\* An argument of parted changes one field, to a value of its type.
LEMMA PartedArgumentRequest ==
    ASSUME NEW V, NEW r \in PartedRequests(V), NEW a,
           Image!Is(a, "mkpart") =>
              a.mkpart \in V /\ a.mkpart.start \in Int /\ a.mkpart.end \in Int,
           Image!Is(a, "boot") => a.boot \in V
    PROVE  Image!PartedArgument(r, a) \in PartedRequests(V)
<1> DEFINE W == Partitions(V)
<1>1. \A p \in W : Append(r.parts, p) \in Seq(W)
  <2> HIDE DEF W
  <2>1. r.parts \in Seq(W)
    BY DEF PartedRequests, W
  <2> QED BY <2>1
<1>2. \A v \in V : [r EXCEPT !.boot = v] \in PartedRequests(V)
  BY DEF PartedRequests
<1>3. /\ [r EXCEPT !.ok = FALSE] \in PartedRequests(V)
      /\ [r EXCEPT !.outfile = TRUE] \in PartedRequests(V)
  BY DEF PartedRequests
<1>4. \A p \in W : [r EXCEPT !.parts = Append(@, p)] \in PartedRequests(V)
  <2> TAKE p \in W
  <2> HIDE DEF W
  <2>1. \A q \in Seq(W) : [r EXCEPT !.parts = q] \in PartedRequests(V)
    BY DEF PartedRequests, W
  <2> QED BY <2>1, <1>1
<1>5. \A p \in V : p.start \in Int /\ p.end \in Int /\ p.start >= 0 /\ p.end >= p.start => p \in W
  BY DEF Partitions
<1> HIDE DEF W, PartedRequests
<1> QED BY <1>2, <1>3, <1>4, <1>5, Zenon
     DEF Image!PartedArgument, Image!ParsePartition, Image!Otherwise, Image!OutFile

\* The partitions parted is asked for have numbers, the end not in front of the start.
LEMMA PartsTyped ==
    ASSUME NEW args, Len(args) \in Nat, DOMAIN args = 1 .. Len(args),
           \A i \in DOMAIN args : Image!Is(args[i], "mkpart") =>
              args[i].mkpart.start \in Int /\ args[i].mkpart.end \in Int
    PROVE  \E V : Image!ParsePartedArgs(args) \in PartedRequests(V)
<1> DEFINE V == {"none"} \cup {args[i].boot : i \in DOMAIN args}
                \cup {args[i].mkpart : i \in DOMAIN args}
           R == PartedRequests(V)
           n == Len(args)
           step == [q \in R \X (1 .. n) |-> Image!PartedArgument(q[1], args[q[2]])]
           Folded(f) ==
              f = [s \in SUBSET (1 .. n) |->
                      IF s = {} THEN Image!NothingAsked
                      ELSE Image!PartedArgument(f[s \ {Image!Max(s)}], args[Image!Max(s)])]
           it == CHOOSE f : Folded(f)
<1>0. n \in Nat /\ DOMAIN args = 1 .. n
  OBVIOUS
<1>1. Image!NothingAsked \in R
  <2>1. <<>> \in Seq(Partitions(V))
    OBVIOUS
  <2> QED BY <2>1 DEF Image!NothingAsked, PartedRequests
<1>2. \A r \in R, i \in 1 .. n : Image!PartedArgument(r, args[i]) \in R
  <2> TAKE r \in R, i \in 1 .. n
  <2>1. args[i].boot \in V /\ args[i].mkpart \in V
    BY <1>0
  <2> HIDE DEF V
  <2> QED BY <2>1, <1>0, PartedArgumentRequest
<1> HIDE DEF V, n, R
<1>3. step \in [R \X (1 .. n) -> R]
  BY <1>2, Zenon
<1>4. \E f : Folded(f)
  <2>1. PICK f : IsFold(f, n, R, Image!NothingAsked, step)
    <3> HIDE DEF step
    <3> QED BY <1>0, <1>1, <1>3, FoldExists
  <2>2. /\ f \in [SUBSET (1 .. n) -> R]
        /\ \A s \in SUBSET (1 .. n) :
              IF s = {} THEN f[s] = Image!NothingAsked
              ELSE /\ Image!Max(s) \in 1 .. n
                   /\ f[s] = step[<<f[s \ {Image!Max(s)}], Image!Max(s)>>]
    <3> HIDE DEF step
    <3> QED BY <2>1, Zenon DEF IsFold
  <2>3. ASSUME NEW s \in SUBSET (1 .. n), s # {}
        PROVE  f[s] = Image!PartedArgument(f[s \ {Image!Max(s)}], args[Image!Max(s)])
    <3>1. s \ {Image!Max(s)} \in SUBSET (1 .. n)
      OBVIOUS
    <3>2. f[s \ {Image!Max(s)}] \in R /\ Image!Max(s) \in 1 .. n
      BY <2>2, <2>3, <3>1
    <3>3. f[s] = step[<<f[s \ {Image!Max(s)}], Image!Max(s)>>]
      <4> HIDE DEF step
      <4> QED BY <2>2, <2>3
    <3> QED BY <3>2, <3>3
  <2>4. f = [s \in SUBSET (1 .. n) |-> f[s]]
    BY <2>2
  <2>5. \A s \in SUBSET (1 .. n) :
           f[s] = IF s = {} THEN Image!NothingAsked
                  ELSE Image!PartedArgument(f[s \ {Image!Max(s)}], args[Image!Max(s)])
    <3> HIDE DEF step
    <3> QED BY <2>2, <2>3
  <2>6. Folded(f)
    BY <2>4, <2>5, Zenon
  <2> QED BY <2>6
<1>5. Folded(it)
  BY <1>4, Zenon
<1>6. Image!ParsePartedArgs(args) = it[1 .. n]
  BY <1>0, Zenon DEF Image!ParsePartedArgs, Image!FoldLeft, Image!MapThenFoldSet
<1> HIDE DEF it
<1>7. \A s \in SUBSET (1 .. n) :
           it[s] = IF s = {} THEN Image!NothingAsked
                  ELSE Image!PartedArgument(it[s \ {Image!Max(s)}], args[Image!Max(s)])
  BY <1>5, Zenon
<1> HIDE DEF Folded, step
<1>8. it[{}] \in R
  BY <1>1, <1>7
<1>9. ASSUME NEW k \in 0 .. n - 1, it[1 .. k] \in R
      PROVE  it[1 .. k + 1] \in R
  <2>1. /\ 1 .. k + 1 \in SUBSET (1 .. n) /\ 1 .. k + 1 # {}
        /\ Image!Max(1 .. k + 1) = k + 1
        /\ (1 .. k + 1) \ {k + 1} = 1 .. k
    BY <1>0, UpToNext
  <2>2. it[1 .. k + 1] = Image!PartedArgument(it[1 .. k], args[k + 1])
    BY <2>1, <1>7, Zenon
  <2> QED BY <2>2, <1>0, <1>2, <1>9
<1>10. it[1 .. n] \in R
  BY <1>0, <1>8, <1>9, FoldEnds
<1> QED BY <1>6, <1>10 DEF R

-------------------------------------------------------------------------------
\* What a sector holds after some writes.
SectorIn(lg, s) ==
    LET ws == {i \in DOMAIN lg : Image!Covers(lg[i], s)}
    IN  IF ws = {} THEN [is |-> "old"] ELSE lg[Image!Max(ws)].what

\* Writes at sectors.
IsLog(lg) ==
    /\ Len(lg) \in Nat /\ lg \in Seq(Range(lg))
    /\ \A i \in DOMAIN lg : lg[i].at \in Nat /\ lg[i].count \in Nat

\* A sector of the image is one of the log.
LEMMA SectorOfLog == \A s : Image!Sector(s) = SectorIn(writes, s)
  BY Zenon DEF Image!Sector, SectorIn

\* The greatest of a set of numbers with a bound.
LEMMA GreatestOne ==
    ASSUME NEW b \in Nat, NEW S \in SUBSET (0 .. b), S # {}
    PROVE  Image!Max(S) \in S /\ \A n \in S : Image!Max(S) >= n
<1> DEFINE D == {b - n : n \in S}
<1>1. D \in SUBSET Nat /\ D # {}
  <2>1. \A n \in S : n \in Nat /\ b - n \in Nat
    OBVIOUS
  <2> QED BY <2>1
<1>2. \E d \in D : \A e \in D : d <= e
  <2> HIDE DEF D
  <2> QED BY <1>1, LeastOne
<1>3. PICK m \in S : \A n \in S : b - m <= b - n
  BY <1>2
<1>4. \E x \in S : \A y \in S : x >= y
  <2>1. \A n \in S : m >= n
    BY <1>3
  <2> QED BY <2>1
<1>5. LET x == CHOOSE x \in S : \A y \in S : x >= y
      IN  x \in S /\ \A y \in S : x >= y
  BY <1>4, Zenon
<1> QED BY <1>5, Zenon DEF Image!Max

\* The last write to a sector counts.
LEMMA SectorAppend ==
    ASSUME NEW lg, IsLog(lg), NEW w, NEW s
    PROVE  SectorIn(Append(lg, w), s) = IF Image!Covers(w, s) THEN w.what ELSE SectorIn(lg, s)
<1> DEFINE n == Len(lg)
           new == Append(lg, w)
           ws == {i \in DOMAIN lg : Image!Covers(lg[i], s)}
           ws2 == {i \in DOMAIN new : Image!Covers(new[i], s)}
<1>1. n \in Nat /\ DOMAIN lg = 1 .. n /\ DOMAIN new = 1 .. n + 1
      /\ new[n + 1] = w /\ \A i \in 1 .. n : new[i] = lg[i]
  BY DEF IsLog
<1>2. SectorIn(new, s) = (IF ws2 = {} THEN [is |-> "old"] ELSE new[Image!Max(ws2)].what)
      /\ SectorIn(lg, s) = (IF ws = {} THEN [is |-> "old"] ELSE lg[Image!Max(ws)].what)
  BY DEF SectorIn
<1> HIDE DEF new, n
<1>3. ws \in SUBSET (1 .. n) /\ ws2 \in SUBSET (1 .. n + 1)
  BY <1>1
<1>4. CASE Image!Covers(w, s)
  <2>1. n + 1 \in ws2
    BY <1>1, <1>4
  <2>2. Image!Max(ws2) \in ws2 /\ Image!Max(ws2) >= n + 1
    <3> HIDE DEF ws2
    <3>1. n + 1 \in Nat
      BY <1>1
    <3>2. ws2 \in SUBSET (0 .. n + 1)
      BY <1>3
    <3> QED BY <3>1, <3>2, <2>1, GreatestOne
  <2>3. Image!Max(ws2) = n + 1
    <3> DEFINE m == Image!Max(ws2)
    <3> HIDE DEF m
    <3>1. m \in 1 .. n + 1 /\ m >= n + 1
      BY <1>3, <2>2 DEF m
    <3>2. m = n + 1
      BY <1>1, <3>1
    <3> QED BY <3>2 DEF m
  <2> HIDE DEF ws2
  <2> QED BY <1>1, <1>2, <1>4, <2>1, <2>3 DEF new
<1>5. CASE ~Image!Covers(w, s)
  <2>1. ws2 = ws
    BY <1>1, <1>5
  <2> HIDE DEF ws, ws2
  <2>2. CASE ws = {}
    BY <1>2, <1>5, <2>1, <2>2 DEF new
  <2>3. CASE ws # {}
    <3>0. ws \in SUBSET (0 .. n)
      BY <1>3
    <3>1. Image!Max(ws) \in 1 .. n
      BY <1>1, <1>3, <2>3, <3>0, GreatestOne
    <3> QED BY <1>1, <1>2, <1>5, <2>1, <2>3, <3>1 DEF new
  <2> QED BY <2>2, <2>3
<1> QED BY <1>4, <1>5

\* The sectors from a to a + c of the volume at o are overwritten, all others hold what
\* they held.
Overwritten(lg2, lg, o, a, c, what) ==
    /\ IsLog(lg2)
    /\ \A s \in Nat : SectorIn(lg2, o + s) =
          IF s >= a /\ s < a + c THEN what ELSE SectorIn(lg, o + s)
    /\ \A s \in Nat : s < o \/ s >= o + a + c => SectorIn(lg2, s) = SectorIn(lg, s)

\* A write to the volume at o.
LEMMA WriteAt ==
    ASSUME NEW lg, IsLog(lg), NEW o \in Nat, NEW a \in Nat, NEW c \in Nat, NEW what
    PROVE  Overwritten(Append(lg, Image!Written(o + a, c, what)), lg, o, a, c, what)
<1> DEFINE w == Image!Written(o + a, c, what)
<1>1. w.at = o + a /\ w.count = c /\ w.what = what
  BY DEF Image!Written
<1> HIDE DEF w
<1>2. \A s \in Nat : Image!Covers(w, o + s) <=> s >= a /\ s < a + c
  BY <1>1 DEF Image!Covers
<1>3. \A s \in Nat : s < o \/ s >= o + a + c => ~Image!Covers(w, s)
  BY <1>1 DEF Image!Covers
<1>4. IsLog(Append(lg, w))
  <2> DEFINE n == Len(lg)
             new == Append(lg, w)
  <2>1. n \in Nat /\ DOMAIN lg = 1 .. n /\ \A i \in 1 .. n : lg[i].at \in Nat /\ lg[i].count \in Nat
    BY DEF IsLog
  <2>2. lg \in Seq(Range(lg) \cup {w}) /\ w \in Range(lg) \cup {w}
    BY DEF IsLog
  <2>3. new \in Seq(Range(lg) \cup {w}) /\ Len(new) = n + 1 /\ DOMAIN new = 1 .. n + 1
        /\ new[n + 1] = w /\ \A i \in 1 .. n : new[i] = lg[i]
    BY <2>1, <2>2
  <2> HIDE DEF new, n
  <2>4. new \in Seq(Range(new))
    <3>1. \A i \in 1 .. n + 1 : new[i] \in Range(new)
      BY <2>3 DEF Range
    <3> QED BY <2>1, <2>3, <3>1
  <2>5. \A i \in 1 .. n + 1 : new[i].at \in Nat /\ new[i].count \in Nat
    BY <2>1, <2>3, <1>1
  <2> QED BY <2>1, <2>3, <2>4, <2>5 DEF IsLog, new
<1>5. \A s : SectorIn(Append(lg, w), s) = IF Image!Covers(w, s) THEN w.what ELSE SectorIn(lg, s)
  BY SectorAppend
<1>6. \A s \in Nat : SectorIn(Append(lg, w), o + s) =
                     IF s >= a /\ s < a + c THEN what ELSE SectorIn(lg, o + s)
  BY <1>1, <1>2, <1>5
<1>7. \A s \in Nat : s < o \/ s >= o + a + c => SectorIn(Append(lg, w), s) = SectorIn(lg, s)
  BY <1>3, <1>5
<1> QED BY <1>4, <1>6, <1>7 DEF w, Overwritten

-------------------------------------------------------------------------------
\* The file mkdosfs finds, and what parted has written to it.
There ==
    IF job.old = 0 /\ job.parted # <<>> THEN Image!ImageSectors(Image!Parts) ELSE job.old

Mbr == [is |-> "mbr", table |-> Image!PartitionTable(Image!Parts)]
Base ==
    IF job.parted = <<>> THEN <<>>
    ELSE <<Image!Written(0, 1, Mbr),
           Image!Written(Image!FooterAt(Image!Parts), 1, [is |-> "footer"])>>

\* The phases in which mkdosfs knows the layout; those after which the volume is wiped.
Made == {"wipe", "reserved", "entry", "entry1", "entry2", "label", "mount", "mounted"}
Wiped == Made \ {"wipe"}

\* The layout is the one for the job, and the volume lies in the file.
LayoutForJob ==
    /\ LayoutSound(layout)
    /\ layout.offset = Image!Request.offset /\ layout.total <= 268435456
    /\ IF Image!Request.blocks = 0 THEN layout.offset = 0
       ELSE layout.total = 2 * Image!Request.blocks
    /\ Image!SizeFollows => layout.offset + layout.total <= file + (file % 2)

JobInv ==
    /\ file \in Nat
    /\ imagePhase \in {"idle", "parted", "mkdosfs", "failed"} \cup Made
    /\ IF imagePhase = "idle" THEN file = 0 /\ writes = <<>>
       ELSE job \in Job
    /\ imagePhase = "parted" => file = job.old /\ writes = <<>> /\ job.parted # <<>>
    /\ imagePhase = "mkdosfs" => file = There /\ writes = Base
    /\ imagePhase \in {"idle", "parted", "mkdosfs"} => layout = Image!NoLayout
    /\ imagePhase \in Made => layout.fat # 0
    /\ layout.fat # 0 => job \in Job /\ LayoutForJob
    /\ imagePhase \in Made \cup {"mkdosfs"} /\ job.parted # <<>>
          => Image!Accepts(Image!ParsePartedArgs(job.parted))

\* A sector of the volume.
Holds(s) == SectorIn(writes, layout.offset + s)

\* The first sector of the tables, and that of the root directory.
Marks ==
    CASE imagePhase \in {"reserved", "entry"} -> Image!Zero
      [] imagePhase = "entry1" -> Image!Fat({0})
      [] imagePhase = "entry2" -> Image!Fat({0, 1})
      [] OTHER -> Image!Fat(IF layout.fat = 32 THEN {0, 1, 2} ELSE {0, 1})
Root ==
    IF imagePhase \in {"mount", "mounted"} /\ Image!Request.label
    THEN {Image!Label("zero"), Image!Label("any")} ELSE {Image!Zero}

\* A boot sector describes the volume, and a partition table is parted's.
TableOrBoot(sector, l) ==
    /\ sector.is = "boot" => sector = Image!Boot(l)
    /\ sector.is = "mbr" => sector = Mbr

\* Nothing outside the volume is written by mkdosfs, every boot sector describes the
\* volume, and no table is written but parted's.
OnlyVolume(lg, l) ==
    /\ IsLog(lg)
    /\ \A s \in Nat : s < l.offset \/ s >= l.offset + l.total => SectorIn(lg, s) = SectorIn(Base, s)
    /\ \A s : TableOrBoot(SectorIn(lg, s), l)

\* The tables and the directory hold what has been written so far, and zeros.
AreasHold(lg, l, marks, root) ==
    LET holds(s) == SectorIn(lg, l.offset + s)
    IN  /\ holds(Image!FatStart(l, 0)) = marks /\ holds(Image!FatStart(l, 1)) = marks
        /\ holds(Image!RootStart(l)) \in root
        /\ \A s \in Nat : /\ s >= l.reserved /\ s < Image!WipedSectors(l)
                          /\ s # Image!FatStart(l, 0) /\ s # Image!FatStart(l, 1)
                          /\ s # Image!RootStart(l)
              => holds(s) = Image!Zero

VolumeInv ==
    /\ imagePhase \in Made => OnlyVolume(writes, layout)
    /\ imagePhase \in Wiped => AreasHold(writes, layout, Marks, Root)
    /\ imagePhase \in Wiped \ {"reserved"} /\ layout.fat = 32 => Holds(1) = Image!Info(layout)
    /\ imagePhase = "entry2" => layout.fat = 32
    /\ imagePhase = "mounted" => fat = Image!NotMounted \/ fat = Image!fatInit(layout)

\* Where the areas are.
LEMMA Areas ==
    ASSUME NEW l, LayoutSound(l)
    PROVE  /\ l.offset \in Nat /\ l.total \in Nat /\ l.spf \in Nat \ {0} /\ l.reserved \in Nat \ {0}
           /\ l.clusters \in Nat \ {0} /\ l.fat \in {12, 16, 32}
           /\ Image!FatStart(l, 0) = l.reserved /\ Image!FatStart(l, 1) = l.reserved + l.spf
           /\ Image!RootStart(l) = l.reserved + 2 * l.spf
           /\ Image!RootLength(l) \in Nat \ {0}
           /\ Image!WipedSectors(l) =
                 l.reserved + 2 * l.spf + (IF l.fat = 32 THEN 1 ELSE Image!RootLength(l))
           /\ Image!WipedSectors(l) <= l.total
           /\ Image!WipedSectors(l) \in Nat
           /\ Image!DataStart(l) =
                 l.reserved + 2 * l.spf + (IF l.fat = 32 THEN 0 ELSE Image!RootLength(l))
           /\ l.fat = 32 => l.reserved >= 32 /\ l.info = 1 /\ l.backup = 6
<1>1. /\ l.offset \in Nat /\ l.total \in Nat /\ l.spf \in Nat \ {0} /\ l.reserved \in Nat \ {0}
      /\ l.clusters \in Nat \ {0} /\ l.fat \in {12, 16, 32}
      /\ Image!RootLength(l) \in Nat \ {0}
      /\ IF l.fat = 32 THEN l.rootEntries = 0 /\ l.reserved >= 32 /\ l.info = 1 /\ l.backup = 6
         ELSE l.rootEntries = 16 * Image!RootLength(l)
  BY DEF LayoutSound
<1>2. /\ Image!FatStart(l, 0) = l.reserved /\ Image!FatStart(l, 1) = l.reserved + l.spf
      /\ Image!RootStart(l) = l.reserved + 2 * l.spf
  BY <1>1 DEF Image!FatStart, Image!RootStart
<1>3. Image!DataStart(l) =
                 l.reserved + 2 * l.spf + (IF l.fat = 32 THEN 0 ELSE Image!RootLength(l))
  BY <1>2 DEF Image!DataStart
<1>4. l.clusters * l.spc \in Nat \ {0}
  BY DEF LayoutSound, Spcs
<1>5. Image!DataStart(l) + 1 <= l.total
  <2> DEFINE k == l.clusters * l.spc
             d == Image!DataStart(l)
  <2>1. d + k <= l.total /\ k \in Nat \ {0} /\ d \in Nat
    BY <1>4 DEF LayoutSound
  <2> HIDE DEF k, d
  <2>2. d + 1 <= l.total
    BY <1>1, <2>1
  <2> QED BY <2>2 DEF d
<1>6. Image!WipedSectors(l) =
                 l.reserved + 2 * l.spf + (IF l.fat = 32 THEN 1 ELSE Image!RootLength(l))
  <2>1. CASE l.fat = 32
    BY <1>1, <2>1 DEF Image!WipedSectors
  <2>2. CASE l.fat # 32
    BY <1>1, <2>2 DEF Image!WipedSectors
  <2> QED BY <2>1, <2>2
<1>7. Image!WipedSectors(l) <= l.total /\ Image!WipedSectors(l) \in Nat
  BY <1>1, <1>3, <1>5, <1>6
<1> QED BY <1>1, <1>2, <1>3, <1>6, <1>7

\* The invariant is enough.
LEMMA VolumeFits == JobInv => LayoutFits
<1> SUFFICES ASSUME JobInv, layout.fat # 0
             PROVE  Image!LayoutFits
  BY DEF LayoutFits, Image!LayoutFits
<1> DEFINE l == layout
<1>1. LayoutForJob
  BY DEF JobInv
<1>2. /\ Image!DataStart(l) + l.clusters * l.spc <= l.total
      /\ Image!SizeFollows => l.offset + l.total <= file + (file % 2)
  BY <1>1 DEF LayoutForJob, LayoutSound
<1>3. /\ l.clusters + 2 <= Image!TableEntries(l.fat, l.spf) /\ l.clusters <= Image!MaxClusters(l.fat)
      /\ l.clusters \in Nat /\ l.fat \in {12, 16, 32} /\ l.spf \in Nat
  BY <1>1 DEF LayoutForJob, LayoutSound
<1>4. Image!TableEntries(l.fat, l.spf) \in Int
  BY <1>3 DEF Image!TableEntries
<1>5. l.clusters + 1 < Image!TableEntries(l.fat, l.spf)
  BY <1>3, <1>4
<1>6. l.fat = 32 => l.backup < l.reserved
  BY <1>1, Areas DEF LayoutForJob
<1>7. l.clusters + 1 < (IF l.fat = 12 THEN 4086 ELSE IF l.fat = 16 THEN 65526 ELSE 268435446)
  <2>1. l.fat = 12 => l.clusters <= 4084
    BY <1>3 DEF Image!MaxClusters
  <2>2. l.fat = 16 => l.clusters <= 65524
    BY <1>3 DEF Image!MaxClusters
  <2>3. l.fat = 32 => l.clusters < 268435445
    <3> SUFFICES ASSUME l.fat = 32 PROVE l.clusters < 268435445
      OBVIOUS
    <3>1. l.clusters <= l.clusters * l.spc
      BY <1>1, <1>3 DEF LayoutForJob, LayoutSound, Spcs
    <3>2. /\ Image!DataStart(l) = l.reserved + 2 * l.spf /\ l.reserved >= 32 /\ l.spf \in Nat
          /\ l.reserved \in Nat
      BY <1>1, Areas DEF LayoutForJob
    <3>3. l.total <= 268435456 /\ l.total \in Nat
      BY <1>1, Areas DEF LayoutForJob
    <3> DEFINE k == l.clusters * l.spc
    <3>4. k \in Int
      BY <1>1, <1>3 DEF LayoutForJob, LayoutSound, Spcs
    <3>5. Image!DataStart(l) + k <= l.total /\ l.clusters <= k
      BY <1>2, <3>1
    <3> HIDE DEF k
    <3> QED BY <1>3, <3>2, <3>3, <3>4, <3>5
  <2> QED BY <1>3, <2>1, <2>2, <2>3
<1> QED BY <1>2, <1>5, <1>6, <1>7 DEF Image!LayoutFits

-------------------------------------------------------------------------------
\* Numbers that are finitely many have a bound.
LEMMA Bounded ==
    ASSUME NEW f, NEW n \in Nat, \A i \in 1 .. n : f[i] \in Nat
    PROVE  \E b \in Nat : \A i \in 1 .. n : f[i] <= b
<1> DEFINE S == {k \in Nat : k <= n => \E b \in Nat : \A i \in 1 .. k : f[i] <= b}
<1>1. 0 \in S
  OBVIOUS
<1>2. ASSUME NEW k \in Nat, k \in S PROVE k + 1 \in S
  <2> SUFFICES ASSUME k + 1 <= n PROVE \E b \in Nat : \A i \in 1 .. k + 1 : f[i] <= b
    OBVIOUS
  <2>1. PICK b \in Nat : \A i \in 1 .. k : f[i] <= b
    BY <1>2
  <2>2. f[k + 1] \in Nat
    OBVIOUS
  <2> DEFINE c == b + f[k + 1]
  <2>3. c \in Nat
    BY <2>2
  <2>4. \A i \in 1 .. k + 1 : f[i] <= c
    <3> TAKE i \in 1 .. k + 1
    <3>1. f[i] \in Nat /\ (i = k + 1 \/ i \in 1 .. k)
      OBVIOUS
    <3> QED BY <3>1, <2>1, <2>2
  <2> HIDE DEF c
  <2> QED BY <2>3, <2>4
<1> HIDE DEF S
<1>3. Nat \subseteq S
  BY <1>1, <1>2, Induction
<1>4. n \in S
  BY <1>3
<1> QED BY <1>4 DEF S

\* The partitions parted accepts lie behind the boot record and in front of the footer.
LEMMA PartsFit ==
    ASSUME NEW j \in Job, Image!Accepts(Image!ParsePartedArgs(j.parted))
    PROVE  LET parts == Image!ParsePartedArgs(j.parted).parts
               n == Len(parts)
           IN  /\ n \in Nat \ {0} /\ DOMAIN parts = 1 .. n
               /\ \A i \in 1 .. n : /\ parts[i].start \in Nat /\ parts[i].end \in Nat
                                    /\ parts[i].start >= 1 /\ parts[i].start <= parts[i].end
                                    /\ parts[i].start + parts[i].end <= Image!ImageSize(parts)
                                    /\ \A k \in 1 .. i - 1 : parts[k].end <= parts[i].start
               /\ Image!ImageSize(parts) \in Nat
<1> DEFINE parts == Image!ParsePartedArgs(j.parted).parts
           n == Len(parts)
<1>1. PICK V : Image!ParsePartedArgs(j.parted) \in PartedRequests(V)
  BY JobAssumption, PartsTyped
<1>2. parts \in Seq(Partitions(V))
  BY <1>1 DEF PartedRequests
<1>3. parts # <<>> /\ Image!InOrder(parts)
  BY DEF Image!Accepts
<1> HIDE DEF parts
<1>4. n \in Nat \ {0} /\ DOMAIN parts = 1 .. n /\ \A i \in 1 .. n : parts[i] \in Partitions(V)
  BY <1>2, <1>3
<1> HIDE DEF n
<1>5. \A i \in 1 .. n : /\ parts[i].start \in Nat /\ parts[i].end \in Nat
                        /\ parts[i].start <= parts[i].end
  BY <1>4 DEF Partitions
<1>6. \A i \in 1 .. n : parts[i].start >= (IF i = 1 THEN 1 ELSE parts[i - 1].end)
  BY <1>3, <1>4 DEF Image!InOrder
<1>7. \A i \in 1 .. n : parts[i].start >= 1
  <2> DEFINE S == {k \in Nat : k + 1 <= n => parts[k + 1].start >= 1}
  <2>1. 0 \in S
    BY <1>4, <1>6
  <2>2. ASSUME NEW k \in Nat, k \in S PROVE k + 1 \in S
    <3> SUFFICES ASSUME k + 2 <= n PROVE parts[k + 2].start >= 1
      BY <1>4
    <3>1. k + 1 \in 1 .. n /\ k + 2 \in 1 .. n /\ (k + 2) - 1 = k + 1 /\ k + 2 # 1
      BY <1>4
    <3>2. parts[k + 1].start >= 1
      BY <2>2, <3>1
    <3>3. parts[k + 2].start >= parts[k + 1].end
      BY <3>1, <1>6
    <3> QED BY <3>1, <3>2, <3>3, <1>5
  <2> HIDE DEF S
  <2>3. Nat \subseteq S
    BY <2>1, <2>2, Induction
  <2> TAKE i \in 1 .. n
  <2>4. i - 1 \in S /\ (i - 1) + 1 = i
    BY <1>4, <2>3
  <2> QED BY <1>4, <2>4 DEF S
<1> DEFINE f == [i \in 1 .. n |-> parts[i].start + parts[i].end]
           T == {0} \cup {parts[i].start + parts[i].end : i \in DOMAIN parts}
<1>8. PICK b \in Nat : \A i \in 1 .. n : f[i] <= b
  <2>1. n \in Nat /\ \A i \in 1 .. n : f[i] \in Nat
    BY <1>4, <1>5
  <2> HIDE DEF f
  <2> QED BY <2>1, Bounded
<1>9. T \in SUBSET (0 .. b) /\ T # {}
  <2>1. \A i \in 1 .. n : parts[i].start + parts[i].end \in 0 .. b
    BY <1>5, <1>8
  <2> QED BY <2>1, <1>4
<1>10. Image!ImageSize(parts) = Image!Max(T)
  BY DEF Image!ImageSize
<1>11. Image!Max(T) \in T /\ \A v \in T : Image!Max(T) >= v
  <2> HIDE DEF T
  <2> QED BY <1>9, GreatestOne
<1>12. \A i \in 1 .. n : parts[i].start + parts[i].end \in T
  BY <1>4
<1> HIDE DEF T
<1>13. Image!Max(T) \in Nat
  <2> DEFINE m == Image!Max(T)
  <2>1. m \in 0 .. b
    BY <1>9, <1>11
  <2> HIDE DEF m
  <2>2. m \in Nat
    BY <2>1
  <2> QED BY <2>2 DEF m
<1>14. \A i \in 1 .. n : parts[i].start + parts[i].end <= Image!Max(T)
  BY <1>5, <1>11, <1>12, <1>13
<1>15. \A i \in 1 .. n : \A k \in 1 .. i - 1 : parts[k].end <= parts[i].start
  <2> DEFINE S == {d \in Nat : \A k \in 1 .. n :
                                  k + 1 + d <= n => parts[k].end <= parts[k + 1 + d].start}
  <2>1. 0 \in S
    <3> SUFFICES ASSUME NEW k \in 1 .. n, k + 1 <= n PROVE parts[k].end <= parts[k + 1].start
      BY <1>4
    <3>1. k + 1 \in 1 .. n /\ (k + 1) - 1 = k /\ k + 1 # 1
      BY <1>4
    <3>2. parts[k + 1].start >= parts[k].end
      BY <3>1, <1>6
    <3> QED BY <3>1, <3>2, <1>5
  <2>2. ASSUME NEW d \in Nat, d \in S PROVE d + 1 \in S
    <3> SUFFICES ASSUME NEW k \in 1 .. n, k + 1 + (d + 1) <= n
                 PROVE  parts[k].end <= parts[k + 1 + (d + 1)].start
      BY <1>4
    <3> DEFINE m == k + 1 + d
    <3>1. m \in 1 .. n /\ m + 1 \in 1 .. n /\ (m + 1) - 1 = m /\ m + 1 # 1
          /\ k + 1 + (d + 1) = m + 1
      BY <1>4
    <3>2. parts[k].end <= parts[m].start
      BY <2>2, <3>1, <1>4
    <3> HIDE DEF m
    <3>3. parts[m + 1].start >= parts[m].end
      BY <3>1, <1>6
    <3> QED BY <3>1, <3>2, <3>3, <1>5
  <2> HIDE DEF S
  <2>3. Nat \subseteq S
    BY <2>1, <2>2, Induction
  <2> TAKE i \in 1 .. n
  <2> TAKE k \in 1 .. i - 1
  <2>4. (i - k) - 1 \in S /\ k + 1 + ((i - k) - 1) = i /\ k \in 1 .. n
    BY <1>4, <2>3
  <2> QED BY <1>4, <2>4 DEF S
<1> QED BY <1>4, <1>5, <1>7, <1>10, <1>13, <1>14, <1>15 DEF parts, n

\* Cylinder, head and sector tell where a partition starts while cylinders fit a byte.
LEMMA ChsTells ==
    ASSUME NEW size \in Nat, NEW first \in Nat
    PROVE  LET g == Image!calculate_geometry(size)
               c == Image!Chs(g, first)
           IN  first \div (g.heads * g.spt) < 256 =>
                  (c.cyl * g.heads + c.head) * g.spt + c.sect - 1 = first
<1> DEFINE g == Image!calculate_geometry(size)
           c == Image!Chs(g, first)
           h == g.heads
           s == g.spt
<1>1. s \in {17, 31, 63} /\ h \in Nat \ {0}
  <2> DEFINE z == Image!Min({size, 65535 * 16 * 255})
             sm == Image!SmallDiskGeometry(z)
  <2>1. z \in Int
    BY LeastOfTwo
  <2> HIDE DEF z
  <2>2. sm.spt \in {17, 31, 63} /\ sm.heads \in Nat \ {0}
    <3> DEFINE k == ((z \div 17) + 1023) \div 1024
               m == Image!Max({4, k})
    <3>1. k \in Int
      BY <2>1
    <3> HIDE DEF k
    <3>2. m \in Nat \ {0}
      <4>1. \E x \in {4, k} : \A y \in {4, k} : x >= y
        BY <3>1
      <4>2. LET x == CHOOSE x \in {4, k} : \A y \in {4, k} : x >= y
            IN  x \in {4, k} /\ \A y \in {4, k} : x >= y
        BY <4>1, Zenon
      <4>3. m \in {4, k} /\ m >= 4
        BY <4>2 DEF Image!Max
      <4> HIDE DEF m
      <4> QED BY <3>1, <4>3
    <3>3. sm.heads \in {16, m} /\ sm.spt \in {17, 31, 63}
      BY DEF Image!SmallDiskGeometry, k
    <3> HIDE DEF m
    <3> QED BY <3>2, <3>3
  <2> HIDE DEF sm
  <2> QED BY <2>2 DEF Image!calculate_geometry, sm, z
<1> HIDE DEF g
<1> DEFINE t == h * s
           rest == first % t
           cyl == first \div t
<1>2. t \in Nat \ {0}
  BY <1>1
<1>3. c.head = rest \div s /\ c.sect = 1 + (rest % s) /\ c.cyl = cyl % 256
  BY DEF Image!Chs
<1> HIDE DEF t, c, h, s
<1>4. rest \in Nat /\ cyl \in Nat /\ first = t * cyl + rest
  BY <1>2
<1> HIDE DEF rest, cyl
<1>5. rest = s * (rest \div s) + (rest % s) /\ rest \div s \in Nat /\ rest % s \in Nat
  BY <1>1, <1>4
<1>6. cyl < 256 => c.cyl = cyl
  BY <1>3, <1>4
<1> SUFFICES ASSUME cyl < 256 PROVE (c.cyl * h + c.head) * s + c.sect - 1 = first
  BY DEF cyl, t, c, h, s, g
<1> DEFINE q == rest \div s
           m == rest % s
<1>7. q \in Nat /\ m \in Nat /\ rest = s * q + m /\ c.head = q /\ c.sect = 1 + m
  BY <1>3, <1>5
<1> HIDE DEF q, m
<1>8. (cyl * h + q) * s + (1 + m) - 1 = cyl * (h * s) + (s * q + m)
  BY <1>1, <1>4, <1>7
<1>9. t * cyl = cyl * (h * s)
  BY <1>1, <1>2, <1>4 DEF t
<1> QED BY <1>4, <1>6, <1>7, <1>8, <1>9

-------------------------------------------------------------------------------
\* One element behind another.
LEMMA Pair == ASSUME NEW a, NEW b PROVE Append(<<a>>, b) = <<a, b>>
<1> DEFINE s == Append(<<a>>, b)
           t == <<a, b>>
<1>1. <<a>> \in Seq({a, b}) /\ Len(<<a>>) = 1 /\ <<a>>[1] = a
  OBVIOUS
<1>2. s \in Seq({a, b}) /\ Len(s) = 2 /\ s[1] = a /\ s[2] = b
  BY <1>1
<1>3. t \in Seq({a, b}) /\ Len(t) = 2 /\ t[1] = a /\ t[2] = b
  OBVIOUS
<1> HIDE DEF s, t
<1>4. \A i \in 1 .. Len(s) : s[i] = t[i]
  BY <1>2, <1>3
<1>5. s = t
  BY <1>2, <1>3, <1>4, SeqEqual
<1> QED BY <1>5 DEF s, t

\* The table and the footer as parted writes them.
LEMMA BaseSectors ==
    ASSUME job \in Job, job.parted # <<>>, Image!Accepts(Image!ParsePartedArgs(job.parted))
    PROVE  /\ IsLog(Base)
           /\ SectorIn(Base, 0) = Mbr
           /\ SectorIn(Base, Image!FooterAt(Image!Parts)) = [is |-> "footer"]
           /\ \A s, l : TableOrBoot(SectorIn(Base, s), l)
<1> DEFINE footer == Image!FooterAt(Image!Parts)
           w1 == Image!Written(0, 1, Mbr)
           w2 == Image!Written(footer, 1, [is |-> "footer"])
<1>1. footer \in Nat /\ footer >= 1
  <2>1. Image!ImageSize(Image!Parts) \in Nat
    BY PartsFit DEF Image!Parts
  <2> QED BY <2>1 DEF Image!FooterAt
<1>2. Base = <<w1, w2>>
  BY DEF Base
<1>3. /\ w1.at = 0 /\ w1.count = 1 /\ w1.what = Mbr
      /\ w2.at = footer /\ w2.count = 1 /\ w2.what = [is |-> "footer"]
  BY DEF Image!Written
<1> HIDE DEF footer, w1, w2
<1>4. IsLog(Base)
  <2>1. Base \in Seq({w1, w2}) /\ Len(Base) = 2 /\ DOMAIN Base = {1, 2}
        /\ Base[1] = w1 /\ Base[2] = w2
    BY <1>2
  <2>2. Range(Base) = {w1, w2}
    BY <2>1 DEF Range
  <2> QED BY <1>1, <1>3, <2>1, <2>2 DEF IsLog
<1>5. IsLog(<<>>) /\ IsLog(<<w1>>)
  <2>1. <<>> \in Seq(Range(<<>>)) /\ Len(<<>>) = 0 /\ DOMAIN <<>> = {}
    OBVIOUS
  <2>2. <<w1>> \in Seq({w1}) /\ Len(<<w1>>) = 1 /\ DOMAIN <<w1>> = {1} /\ <<w1>>[1] = w1
    OBVIOUS
  <2>3. Range(<<w1>>) = {w1}
    BY <2>2 DEF Range
  <2> QED BY <1>3, <2>1, <2>2, <2>3 DEF IsLog
<1>6. \A s : SectorIn(<<>>, s) = [is |-> "old"]
  BY DEF SectorIn
<1>7. \A s : SectorIn(Base, s) = IF Image!Covers(w2, s) THEN [is |-> "footer"]
                                 ELSE IF Image!Covers(w1, s) THEN Mbr ELSE [is |-> "old"]
  <2>1. Append(<<>>, w1) = <<w1>>
    OBVIOUS
  <2>0. Append(<<w1>>, w2) = Base
    <3>1. Append(<<w1>>, w2) = <<w1, w2>>
      BY Pair
    <3> QED BY <1>2, <3>1
  <2>2. \A s : SectorIn(<<w1>>, s) = IF Image!Covers(w1, s) THEN w1.what ELSE SectorIn(<<>>, s)
    <3>1. \A s : SectorIn(Append(<<>>, w1), s)
                   = IF Image!Covers(w1, s) THEN w1.what ELSE SectorIn(<<>>, s)
      BY <1>5, SectorAppend
    <3> QED BY <2>1, <3>1, Zenon
  <2>3. \A s : SectorIn(Base, s) = IF Image!Covers(w2, s) THEN w2.what ELSE SectorIn(<<w1>>, s)
    <3>1. \A s : SectorIn(Append(<<w1>>, w2), s)
                   = IF Image!Covers(w2, s) THEN w2.what ELSE SectorIn(<<w1>>, s)
      BY <1>5, SectorAppend
    <3> QED BY <2>0, <3>1, Zenon
  <2> QED BY <2>2, <2>3, <1>3, <1>6
<1>8. ~Image!Covers(w2, 0) /\ Image!Covers(w1, 0) /\ Image!Covers(w2, footer)
  BY <1>1, <1>3 DEF Image!Covers
<1>9. \A s, l : TableOrBoot(SectorIn(Base, s), l)
  BY <1>7 DEF Mbr, TableOrBoot
<1>10. SectorIn(Base, 0) = Mbr /\ SectorIn(Base, footer) = [is |-> "footer"]
  BY <1>7, <1>8
<1> QED BY <1>4, <1>9, <1>10, Zenon DEF footer

\* The table and the footer stay: a volume that fits in a partition ends in front of the
\* footer and starts behind the table.
LEMMA KeepsPartitions == JobInv /\ VolumeInv => PartitionsKept
<1> DEFINE parts == Image!Parts
           n == Len(parts)
           footer == Image!FooterAt(parts)
           mbr == Image!Sector(0)
           inside == \E i \in DOMAIN parts :
                        /\ parts[i].start = Image!Request.offset
                        /\ 2 * Image!Request.blocks <= parts[i].end
           g == Image!calculate_geometry(Image!ImageSize(parts))
           AsChs(chs, sector) ==
              sector \div (g.heads * g.spt) < 256 =>
                 (chs.cyl * g.heads + chs.head) * g.spt + chs.sect - 1 = sector
<1> SUFFICES ASSUME JobInv, VolumeInv, imagePhase \notin {"idle", "parted", "failed"},
                    job.parted # <<>>
             PROVE  /\ inside => mbr.is = "mbr" /\ Image!Sector(footer).is = "footer"
                    /\ mbr.is = "mbr" => \A i \in DOMAIN mbr.table :
                          LET e == mbr.table[i]
                          IN  /\ 1 <= e.start /\ e.start <= e.end
                              /\ e.start + e.end < footer
                              /\ \A k \in 1 .. i - 1 : mbr.table[k].end <= e.start
                              /\ AsChs(e.start_chs, e.start) /\ AsChs(e.end_chs, e.end)
  BY Zenon DEF PartitionsKept, Image!PartitionsKept
<1>1. /\ job \in Job /\ imagePhase \in Made \cup {"mkdosfs"}
      /\ Image!Accepts(Image!ParsePartedArgs(job.parted))
  BY DEF JobInv
<1>2. /\ n \in Nat \ {0} /\ DOMAIN parts = 1 .. n
      /\ \A i \in 1 .. n : /\ parts[i].start \in Nat /\ parts[i].end \in Nat
                           /\ parts[i].start >= 1 /\ parts[i].start <= parts[i].end
                           /\ parts[i].start + parts[i].end <= Image!ImageSize(parts)
                           /\ \A k \in 1 .. i - 1 : parts[k].end <= parts[i].start
      /\ Image!ImageSize(parts) \in Nat
  BY <1>1, PartsFit DEF Image!Parts
<1>3. footer = Image!ImageSize(parts) + 1
  BY DEF Image!FooterAt
<1>4. /\ SectorIn(Base, 0) = Mbr
      /\ SectorIn(Base, footer) = [is |-> "footer"]
      /\ \A s : TableOrBoot(SectorIn(Base, s), layout)
  BY <1>1, BaseSectors
<1>5. Mbr.is = "mbr" /\ Mbr.table = Image!PartitionTable(parts)
  BY DEF Mbr
<1>6. \A s : Image!Sector(s) = SectorIn(writes, s)
  BY SectorOfLog
<1>7. \A i \in 1 .. n : Image!PartitionTable(parts)[i] =
         [start |-> parts[i].start, end |-> parts[i].end,
          start_chs |-> Image!Chs(g, parts[i].start), end_chs |-> Image!Chs(g, parts[i].end)]
  BY <1>2 DEF Image!PartitionTable
<1>8. DOMAIN Image!PartitionTable(parts) = 1 .. n
  BY <1>2 DEF Image!PartitionTable
<1>9. \A c \in Nat : AsChs(Image!Chs(g, c), c)
  BY <1>2, ChsTells
<1> HIDE DEF parts, n, footer, g
<1>10. ASSUME NEW k \in 1 .. n, parts[k].start = Image!Request.offset,
              2 * Image!Request.blocks <= parts[k].end
       PROVE  mbr.is = "mbr" /\ Image!Sector(footer).is = "footer"
  <2>1. CASE imagePhase = "mkdosfs"
    BY <2>1, <1>4, <1>5, <1>6 DEF JobInv
  <2>2. CASE imagePhase \in Made
    <3>1. LayoutForJob
      BY <2>2 DEF JobInv
    <3>2. layout.offset = Image!Request.offset /\ layout.offset \in Nat /\ layout.total \in Nat
      BY <3>1, Areas DEF LayoutForJob
    <3>3. parts[k].start >= 1 /\ parts[k].start \in Nat /\ parts[k].end \in Nat
          /\ parts[k].start + parts[k].end <= Image!ImageSize(parts)
      BY <1>2
    <3>4. layout.total = 2 * Image!Request.blocks
      BY <1>10, <3>1, <3>2, <3>3 DEF LayoutForJob
    <3>5. layout.offset >= 1 /\ layout.offset + layout.total < footer /\ footer \in Nat
      BY <1>2, <1>3, <1>10, <3>2, <3>3, <3>4
    <3>6. \A s \in Nat : s < layout.offset \/ s >= layout.offset + layout.total =>
                SectorIn(writes, s) = SectorIn(Base, s)
      BY <2>2 DEF VolumeInv, OnlyVolume
    <3>7. SectorIn(writes, 0) = Mbr /\ SectorIn(writes, footer) = [is |-> "footer"]
      BY <3>2, <3>5, <3>6, <1>4
    <3> QED BY <3>7, <1>5, <1>6
  <2> QED BY <1>1, <2>1, <2>2
<1>11. mbr.is = "mbr" => mbr = Mbr
  <2>1. CASE imagePhase = "mkdosfs"
    BY <2>1, <1>4, <1>6 DEF JobInv
  <2>2. CASE imagePhase \in Made
    BY <2>2, <1>6 DEF VolumeInv, OnlyVolume, TableOrBoot
  <2> QED BY <1>1, <2>1, <2>2
<1> DEFINE table == Image!PartitionTable(parts)
           Good(t, i) ==
              LET e == t[i]
              IN  /\ 1 <= e.start /\ e.start <= e.end
                  /\ e.start + e.end < footer
                  /\ \A k \in 1 .. i - 1 : t[k].end <= e.start
                  /\ AsChs(e.start_chs, e.start) /\ AsChs(e.end_chs, e.end)
<1> HIDE DEF mbr, AsChs
<1>16. ASSUME NEW i \in 1 .. n
        PROVE  /\ table[i].start = parts[i].start /\ table[i].end = parts[i].end
               /\ table[i].start_chs = Image!Chs(g, parts[i].start)
               /\ table[i].end_chs = Image!Chs(g, parts[i].end)
  <2> DEFINE e == table[i]
  <2>1. e = [start |-> parts[i].start, end |-> parts[i].end,
             start_chs |-> Image!Chs(g, parts[i].start), end_chs |-> Image!Chs(g, parts[i].end)]
    BY <1>7, Zenon
  <2> HIDE DEF e
  <2>2. /\ e.start = parts[i].start /\ e.end = parts[i].end
        /\ e.start_chs = Image!Chs(g, parts[i].start)
        /\ e.end_chs = Image!Chs(g, parts[i].end)
    BY <2>1
  <2> QED BY <2>2 DEF e
<1>12. ASSUME NEW i \in 1 .. n PROVE Good(table, i)
  <2>1. /\ table[i].start = parts[i].start /\ table[i].end = parts[i].end
        /\ table[i].start_chs = Image!Chs(g, parts[i].start)
        /\ table[i].end_chs = Image!Chs(g, parts[i].end)
    BY <1>16
  <2>2. ASSUME NEW k \in 1 .. i - 1 PROVE table[k].end = parts[k].end
    <3>1. k \in 1 .. n
      BY <1>2
    <3> QED BY <3>1, <1>16
  <2> HIDE DEF table
  <2>3. AsChs(table[i].start_chs, table[i].start) /\ AsChs(table[i].end_chs, table[i].end)
    BY <2>1, <1>2, <1>9
  <2> QED BY <1>2, <1>3, <2>1, <2>2, <2>3
<1>13. mbr.is = "mbr" => mbr.table = table
  BY <1>5, <1>11
<1> HIDE DEF table
<1>14. mbr.is = "mbr" => \A i \in DOMAIN mbr.table : Good(mbr.table, i)
  <2> HIDE DEF Good
  <2> QED BY <1>8, <1>12, <1>13 DEF table
<1>15. inside => mbr.is = "mbr" /\ Image!Sector(footer).is = "footer"
  BY <1>2, <1>10
<1> QED BY <1>14, <1>15, Zenon

\* What fat.c reads from the boot sector is what mkdosfs computed.
LEMMA FreshMounts == JobInv /\ VolumeInv => FreshVolumeMounts
<1> DEFINE l == layout
<1> SUFFICES ASSUME JobInv, VolumeInv, imagePhase = "mounted", fat.type # 0, ~Image!Misread(layout)
             PROVE  LET marks == Image!Fat(IF l.fat = 32 THEN {0, 1, 2} ELSE {0, 1})
                        root == IF Image!Request.label
                                THEN {Image!Label("zero"), Image!Label("any")} ELSE {Image!Zero}
                    IN  /\ fat.type = l.fat /\ fat.fatsize = l.spf
                        /\ fat.filestart = Image!DataStart(l) /\ fat.rootstart = Image!RootStart(l)
                        /\ \A i \in 0 .. 1 :
                              /\ Image!Sector(Image!At(Image!FatStart(l, i))) = marks
                              /\ \A s \in 1 .. l.spf - 1 :
                                    Image!Sector(Image!At(Image!FatStart(l, i) + s)) = Image!Zero
                        /\ Image!Sector(Image!At(Image!RootStart(l))) \in root
                        /\ l.fat # 32 =>
                              \A s \in 1 .. Image!RootLength(l) - 1 :
                                 Image!Sector(Image!At(Image!RootStart(l) + s)) = Image!Zero
                        /\ l.fat = 32 =>
                              /\ fat.num_clusters <= l.clusters + 2
                              /\ fat.fsinfosector # 0
                              /\ Image!Sector(Image!At(fat.fsinfosector)).free = l.clusters - 1
  BY Zenon DEF FreshVolumeMounts, Image!FreshVolumeMounts
<1>1. LayoutForJob /\ LayoutSound(l)
  BY DEF JobInv, LayoutForJob, Made
<1>2. \A s : Image!Sector(Image!At(s)) = Holds(s)
  BY SectorOfLog DEF Image!At, Holds
<1>3. /\ l.offset \in Nat /\ l.total \in Nat /\ l.spf \in Nat \ {0} /\ l.reserved \in Nat \ {0}
      /\ l.clusters \in Nat \ {0} /\ l.fat \in {12, 16, 32}
      /\ Image!FatStart(l, 0) = l.reserved /\ Image!FatStart(l, 1) = l.reserved + l.spf
      /\ Image!RootStart(l) = l.reserved + 2 * l.spf
      /\ Image!RootLength(l) \in Nat \ {0}
      /\ Image!WipedSectors(l) =
            l.reserved + 2 * l.spf + (IF l.fat = 32 THEN 1 ELSE Image!RootLength(l))
      /\ Image!DataStart(l) =
            l.reserved + 2 * l.spf + (IF l.fat = 32 THEN 0 ELSE Image!RootLength(l))
      /\ l.fat = 32 => l.reserved >= 32 /\ l.info = 1
  BY <1>1, Areas
<1>4. fat = Image!fatInit(l)
  BY DEF VolumeInv, Image!NotMounted
<1> DEFINE f == Image!fatInit(l)
<1>5. Image!FatType(l) = l.fat
  BY DEF Image!Misread
<1>6. /\ f.type = l.fat /\ f.fatsize = l.spf /\ f.rootstart = l.spf * 2 + l.reserved
      /\ f.filestart = l.spf * 2 + l.reserved + (l.rootEntries \div 16)
      /\ f.num_clusters = (l.total - l.reserved - 2 * l.spf) \div l.spc
      /\ f.fsinfosector = (IF l.fat = 32 /\ Image!Sector(l.offset + l.info).is = "info"
                           THEN l.info ELSE 0)
  BY <1>5 DEF Image!fatInit
<1> HIDE DEF f
<1>7. f.rootstart = Image!RootStart(l) /\ f.filestart = Image!DataStart(l)
  <2>1. CASE l.fat = 32
    <3>1. l.rootEntries = 0
      BY <1>1, <2>1 DEF LayoutSound
    <3> QED BY <1>3, <1>6, <2>1, <3>1
  <2>2. CASE l.fat # 32
    <3>1. l.rootEntries = 16 * Image!RootLength(l)
      BY <1>1, <2>2 DEF LayoutSound
    <3>2. l.rootEntries \div 16 = Image!RootLength(l)
      BY <1>3, <3>1
    <3> QED BY <1>3, <1>6, <2>2, <3>2
  <2> QED BY <2>1, <2>2
<1>8. /\ Holds(Image!FatStart(l, 0)) = Marks /\ Holds(Image!FatStart(l, 1)) = Marks
      /\ Holds(Image!RootStart(l)) \in Root
      /\ \A s \in Nat : /\ s >= l.reserved /\ s < Image!WipedSectors(l)
                        /\ s # Image!FatStart(l, 0) /\ s # Image!FatStart(l, 1)
                        /\ s # Image!RootStart(l)
                => Holds(s) = Image!Zero
      /\ l.fat = 32 => Holds(1) = Image!Info(l)
  BY DEF VolumeInv, Wiped, Made, AreasHold, Holds
<1>9. Marks = Image!Fat(IF l.fat = 32 THEN {0, 1, 2} ELSE {0, 1})
  BY DEF Marks
<1>10. Root = IF Image!Request.label
              THEN {Image!Label("zero"), Image!Label("any")} ELSE {Image!Zero}
  BY DEF Root
<1>11. \A i \in 0 .. 1 : \A s \in 1 .. l.spf - 1 : Holds(Image!FatStart(l, i) + s) = Image!Zero
  <2> TAKE i \in 0 .. 1
  <2> TAKE s \in 1 .. l.spf - 1
  <2> DEFINE p == Image!FatStart(l, i) + s
  <2>1. /\ p \in Nat /\ p >= l.reserved /\ p < Image!WipedSectors(l)
        /\ p # Image!FatStart(l, 0) /\ p # Image!FatStart(l, 1) /\ p # Image!RootStart(l)
    <3>1. CASE i = 0
      BY <1>3, <3>1
    <3>2. CASE i = 1
      BY <1>3, <3>2
    <3> QED BY <3>1, <3>2
  <2> HIDE DEF p
  <2>2. Holds(p) = Image!Zero
    BY <2>1, <1>8
  <2> QED BY <2>2 DEF p
<1>12. l.fat # 32 =>
          \A s \in 1 .. Image!RootLength(l) - 1 : Holds(Image!RootStart(l) + s) = Image!Zero
  <2> SUFFICES ASSUME l.fat # 32, NEW s \in 1 .. Image!RootLength(l) - 1
               PROVE  Holds(Image!RootStart(l) + s) = Image!Zero
    OBVIOUS
  <2> DEFINE p == Image!RootStart(l) + s
  <2>1. /\ p \in Nat /\ p >= l.reserved /\ p < Image!WipedSectors(l)
        /\ p # Image!FatStart(l, 0) /\ p # Image!FatStart(l, 1) /\ p # Image!RootStart(l)
    BY <1>3
  <2> HIDE DEF p
  <2>2. Holds(p) = Image!Zero
    BY <2>1, <1>8
  <2> QED BY <2>2 DEF p
<1>13. l.fat = 32 => /\ f.num_clusters <= l.clusters + 2
                     /\ f.fsinfosector # 0
                     /\ Image!Sector(Image!At(f.fsinfosector)).free = l.clusters - 1
  <2> SUFFICES ASSUME l.fat = 32
               PROVE  /\ f.num_clusters <= l.clusters + 2
                      /\ f.fsinfosector # 0
                      /\ Image!Sector(Image!At(f.fsinfosector)).free = l.clusters - 1
    OBVIOUS
  <2>1. f.num_clusters = l.clusters
    BY <1>1, <1>6 DEF LayoutSound
  <2>2. Image!Sector(l.offset + 1) = Image!Info(l)
    BY <1>2, <1>8 DEF Image!At
  <2>3. Image!Info(l).is = "info" /\ Image!Info(l).free = l.clusters - 1
    BY DEF Image!Info
  <2>4. f.fsinfosector = 1
    BY <1>3, <1>6, <2>2, <2>3
  <2>5. Image!Sector(Image!At(1)).free = l.clusters - 1
    BY <2>2, <2>3 DEF Image!At
  <2> QED BY <1>3, <2>1, <2>4, <2>5
<1>14. \A i \in 0 .. 1 : Holds(Image!FatStart(l, i)) = Marks
  <2>1. \A i \in 0 .. 1 : i = 0 \/ i = 1
    OBVIOUS
  <2> QED BY <1>8, <2>1
<1> QED BY <1>2, <1>4, <1>6, <1>7, <1>8, <1>9, <1>10, <1>11, <1>12, <1>13, <1>14, Zenon DEF f

-------------------------------------------------------------------------------
\* Writes behind those of a log.
LEMMA Writes ==
    ASSUME NEW lg, IsLog(lg), NEW a, NEW b, NEW c
    PROVE  /\ lg \o <<>> = lg
           /\ lg \o <<a>> = Append(lg, a)
           /\ lg \o (<<a>> \o <<>>) = Append(lg, a)
           /\ lg \o <<a, b>> = Append(Append(lg, a), b)
           /\ lg \o (<<a>> \o <<b, c>>) = Append(Append(Append(lg, a), b), c)
<1> DEFINE S == Range(lg) \cup {a, b, c}
<1>1. lg \in Seq(S) /\ a \in S /\ b \in S /\ c \in S
  BY DEF IsLog
<1> HIDE DEF S
<1>2. <<a>> \o <<>> = <<a>>
  BY <1>1
<1>3. lg \o <<>> = lg /\ lg \o <<a>> = Append(lg, a) /\ lg \o <<a, b>> = Append(Append(lg, a), b)
  BY <1>1
<1>4. <<a>> \in Seq(S) /\ <<b, c>> \in Seq(S)
  BY <1>1
<1>5. lg \o (<<a>> \o <<b, c>>) = (lg \o <<a>>) \o <<b, c>>
  BY <1>1, <1>4, ConcatAssociative
<1>6. Append(lg, a) \in Seq(S)
  BY <1>1
<1>7. Append(lg, a) \o <<b, c>> = Append(Append(Append(lg, a), b), c)
  BY <1>1, <1>6
<1> QED BY <1>2, <1>3, <1>5, <1>7

\* A write to sectors of the volume.
LEMMA WriteInside ==
    ASSUME NEW l, LayoutSound(l), NEW lg, OnlyVolume(lg, l), NEW a \in Nat, NEW c \in Nat,
           a + c <= l.total, NEW what, what.is = "boot" => what = Image!Boot(l), what.is # "mbr"
    PROVE  LET lg2 == Append(lg, Image!Written(l.offset + a, c, what))
           IN  OnlyVolume(lg2, l) /\ Overwritten(lg2, lg, l.offset, a, c, what)
<1> DEFINE w == Image!Written(l.offset + a, c, what)
           lg2 == Append(lg, w)
<1>1. l.offset \in Nat /\ l.total \in Nat /\ IsLog(lg)
  BY Areas DEF OnlyVolume
<1>2. Overwritten(lg2, lg, l.offset, a, c, what)
  BY <1>1, WriteAt
<1>3. \A s : SectorIn(lg2, s) = IF Image!Covers(w, s) THEN what ELSE SectorIn(lg, s)
  <2>1. w.what = what
    BY DEF Image!Written
  <2> HIDE DEF w
  <2> QED BY <1>1, <2>1, SectorAppend
<1> HIDE DEF lg2, w
<1>4. \A s : TableOrBoot(SectorIn(lg2, s), l)
  BY <1>3 DEF OnlyVolume, TableOrBoot
<1>5. \A s \in Nat : s < l.offset \/ s >= l.offset + l.total => SectorIn(lg2, s) = SectorIn(Base, s)
  <2> TAKE s \in Nat
  <2> HAVE s < l.offset \/ s >= l.offset + l.total
  <2>1. SectorIn(lg2, s) = SectorIn(lg, s)
    BY <1>1, <1>2 DEF Overwritten
  <2> QED BY <2>1 DEF OnlyVolume
<1>6. IsLog(lg2)
  BY <1>2 DEF Overwritten
<1>7. OnlyVolume(lg2, l)
  BY <1>4, <1>5, <1>6 DEF OnlyVolume
<1> QED BY <1>2, <1>7 DEF lg2, w

\* At the start there is nothing.
LEMMA ImageInit == HostInit => JobInv /\ VolumeInv
<1> SUFFICES ASSUME HostInit PROVE JobInv /\ VolumeInv
  OBVIOUS
<1>1. /\ imagePhase = "idle" /\ file = 0 /\ writes = <<>> /\ layout = Image!NoLayout
  BY DEF HostInit, Image!Init
<1>2. layout.fat = 0
  BY <1>1 DEF Image!NoLayout
<1>3. JobInv
  BY <1>1, <1>2 DEF JobInv, Made
<1>4. VolumeInv
  BY <1>1 DEF VolumeInv, Made, Wiped
<1> QED BY <1>3, <1>4

\* A program that ends with an error leaves what there is.
LEMMA FailInv ==
    ASSUME JobInv, VolumeInv, NEW p, p \notin {"idle", "mounted"}, Image!Fail(p)
    PROVE  JobInv' /\ VolumeInv'
<1>1. /\ imagePhase = p /\ imagePhase' = "failed"
      /\ UNCHANGED <<job, file, writes, layout, fat>>
  BY DEF Image!Fail, Image!From
<1>2. JobInv'
  BY <1>1 DEF JobInv, Made, LayoutForJob, Image!Request, Image!SizeFollows
<1>3. VolumeInv'
  BY <1>1 DEF VolumeInv, Made, Wiped
<1> QED BY <1>2, <1>3

\* The caller asks for an image.
LEMMA BeginInv == JobInv /\ VolumeInv /\ Image!Begin => JobInv' /\ VolumeInv'
<1> SUFFICES ASSUME JobInv, VolumeInv, Image!Begin PROVE JobInv' /\ VolumeInv'
  OBVIOUS
<1>1. /\ imagePhase = "idle" /\ job' \in Job /\ file' = job'.old
      /\ imagePhase' = (IF job'.parted = <<>> THEN "mkdosfs" ELSE "parted")
      /\ UNCHANGED <<writes, layout, fat>>
  BY DEF Image!Begin
<1>2. writes = <<>> /\ layout = Image!NoLayout /\ layout.fat = 0
  BY <1>1 DEF JobInv, Image!NoLayout
<1>3. job'.old \in Nat
  BY <1>1, JobAssumption
<1>4. job'.parted = <<>> => There' = job'.old /\ Base' = <<>>
  BY DEF There, Base
<1>5. JobInv'
  BY <1>1, <1>2, <1>3, <1>4 DEF JobInv, Made
<1>6. VolumeInv'
  BY <1>1 DEF VolumeInv, Made, Wiped
<1> QED BY <1>5, <1>6

\* parted writes the table and the footer.
LEMMA MakePartsInv == JobInv /\ VolumeInv /\ Image!MakeParts => JobInv' /\ VolumeInv'
<1> SUFFICES ASSUME JobInv, VolumeInv, Image!MakeParts PROVE JobInv' /\ VolumeInv'
  OBVIOUS
<1> DEFINE size == IF job.old = 0 THEN Image!ImageSectors(Image!Parts) ELSE job.old
<1>1. imagePhase = "parted" /\ job \in Job /\ job.parted # <<>> /\ layout = Image!NoLayout
  BY DEF JobInv, Image!MakeParts
<1>2. CASE Image!Fail("parted")
  BY <1>2, FailInv
<1>3. CASE /\ Image!Accepts(Image!ParsePartedArgs(job.parted))
           /\ Image!From("parted", "mkdosfs")
           /\ file' = size /\ writes' = Base /\ UNCHANGED <<layout, fat>>
  <2>1. imagePhase' = "mkdosfs" /\ job' = job /\ layout' = layout
    BY <1>3 DEF Image!From
  <2>2. size = There /\ size \in Nat
    <3>1. Image!ImageSize(Image!Parts) \in Nat
      BY <1>1, <1>3, PartsFit DEF Image!Parts
    <3>2. job.old \in Nat
      BY <1>1, JobAssumption
    <3> QED BY <1>1, <3>1, <3>2 DEF There, Image!ImageSectors
  <2>3. There' = There /\ Base' = Base
    BY <2>1 DEF There, Base, Mbr, Image!Parts
  <2>4. layout.fat = 0
    BY <1>1 DEF Image!NoLayout
  <2> HIDE DEF size
  <2>5. JobInv'
    BY <1>1, <1>3, <2>1, <2>2, <2>3, <2>4 DEF JobInv, Made
  <2>6. VolumeInv'
    BY <2>1 DEF VolumeInv, Made, Wiped
  <2> QED BY <2>5, <2>6
<1> QED BY <1>1, <1>2, <1>3 DEF Image!MakeParts, Base, Mbr

\* mkdosfs decides on the layout.
LEMMA OpenTargetInv == JobInv /\ VolumeInv /\ Image!OpenTarget => JobInv' /\ VolumeInv'
<1> SUFFICES ASSUME JobInv, VolumeInv, Image!OpenTarget PROVE JobInv' /\ VolumeInv'
  OBVIOUS
<1> DEFINE r == Image!Request
           size == IF file = 0 THEN 2 * r.blocks + r.offset ELSE file
           used == Image!UsedSectors(r, size)
           total == Image!TotalSectors(used)
           l == Image!establish_bpb(r, used)
<1>1. /\ imagePhase = "mkdosfs" /\ job \in Job /\ file = There /\ writes = Base /\ file \in Nat
      /\ job.parted # <<>> => Image!Accepts(Image!ParsePartedArgs(job.parted))
  BY DEF JobInv, Image!OpenTarget, Made
<1>2. CASE Image!Fail("mkdosfs")
  BY <1>2, FailInv
<1>3. CASE /\ r.ok /\ r.outfile /\ l.fat # 0 /\ Image!From("mkdosfs", "wipe")
           /\ file' = size /\ layout' = l /\ UNCHANGED <<writes, fat>>
  <2>1. imagePhase' = "wipe" /\ job' = job /\ writes' = writes
    BY <1>3 DEF Image!From
  <2>2. PICK V : r \in Requests(V)
    BY <1>1, JobAssumption, RequestTyped DEF Image!Request
  <2>3. r.blocks \in Nat /\ r.offset \in Nat
    BY <2>2 DEF Requests
  <2>4. total <= 268435456
    <3>1. total = VolumeOf(job)
      BY <1>1, Zenon DEF VolumeOf, There, Image!Request, Image!Parts
    <3> QED BY <1>1, <1>3, <3>1, JobAssumption DEF Image!Request, MaxSectors
  <2> HIDE DEF r
  <2>5. size \in Nat
    BY <1>1, <2>3
  <2>6. /\ used = IF r.blocks # 0 THEN 2 * r.blocks ELSE IF r.offset = 0 THEN size ELSE 0
        /\ total = IF r.blocks # 0 THEN 2 * r.blocks
                   ELSE IF r.offset = 0 THEN size + (size % 2) ELSE 0
    <3>1. CASE r.blocks # 0
      <4>1. (2 * r.blocks) % 2 = 0
        BY <2>3
      <4> QED BY <3>1, <2>3, <4>1 DEF Image!UsedSectors, Image!TotalSectors
    <3>2. CASE r.blocks = 0
      BY <3>2, <2>3, <2>5 DEF Image!UsedSectors, Image!TotalSectors
    <3> QED BY <3>1, <3>2
  <2>7. total \in Nat /\ used \in Nat
    BY <2>3, <2>5, <2>6
  <2>8. LayoutSound(l) /\ l.total = total /\ l.offset = r.offset
    <3> HIDE DEF used
    <3> QED BY <1>3, <2>2, <2>7, EstablishSound
  <2> HIDE DEF l
  <2>9. total # 0
    <3>1. l.total # 0
      <4>1. Image!WipedSectors(l) <= l.total /\ l.reserved \in Nat \ {0} /\ l.spf \in Nat
            /\ Image!WipedSectors(l) =
                  l.reserved + 2 * l.spf + (IF l.fat = 32 THEN 1 ELSE Image!RootLength(l))
            /\ Image!RootLength(l) \in Nat
        BY <2>8, Areas
      <4> QED BY <4>1
    <3> QED BY <3>1, <2>8
  <2>10. IF r.blocks = 0 THEN r.offset = 0 ELSE total = 2 * r.blocks
    BY <2>6, <2>9
  <2>11. Image!SizeFollows => r.offset + total <= size + (size % 2)
    <3>1. CASE r.blocks = 0
      BY <2>6, <2>10, <2>5, <3>1
    <3>2. CASE r.blocks # 0
      <4> SUFFICES ASSUME job.old = 0, job.parted = <<>>
                   PROVE  r.offset + total <= size + (size % 2)
        BY <3>2 DEF Image!SizeFollows, r
      <4>1. size = 2 * r.blocks + r.offset
        BY <1>1 DEF There
      <4> HIDE DEF size
      <4> QED BY <2>3, <2>5, <2>10, <3>2, <4>1
    <3> QED BY <3>1, <3>2
  <2> HIDE DEF total, used, size
  <2>12. LayoutForJob'
    <3>1. Image!Request' = r /\ Image!SizeFollows' = Image!SizeFollows
      BY <2>1 DEF r, Image!Request, Image!SizeFollows
    <3> QED BY <1>3, <2>4, <2>8, <2>10, <2>11, <3>1 DEF LayoutForJob
  <2>13. JobInv'
    BY <1>1, <1>3, <2>1, <2>5, <2>12 DEF JobInv, Made
  <2>14. OnlyVolume(Base, l)
    <3>1. /\ IsLog(Base)
          /\ \A s : TableOrBoot(SectorIn(Base, s), l)
      <4>1. CASE job.parted # <<>>
        BY <1>1, <4>1, BaseSectors
      <4>2. CASE job.parted = <<>>
        <5>1. Base = <<>>
          BY <4>2 DEF Base
        <5>2. \A s : SectorIn(<<>>, s) = [is |-> "old"]
          BY DEF SectorIn
        <5>3. IsLog(<<>>)
          <6>1. <<>> \in Seq(Range(<<>>)) /\ Len(<<>>) = 0 /\ DOMAIN <<>> = {}
            OBVIOUS
          <6> QED BY <6>1 DEF IsLog
        <5> QED BY <5>1, <5>2, <5>3 DEF TableOrBoot
      <4> QED BY <4>1, <4>2
    <3> QED BY <3>1 DEF OnlyVolume
  <2>15. OnlyVolume(writes, layout)'
    <3>1. Base' = Base
      BY <2>1 DEF Base, Mbr, Image!Parts
    <3>2. Mbr' = Mbr
      BY <2>1 DEF Mbr, Image!Parts
    <3> QED BY <1>1, <1>3, <2>1, <2>14, <3>1, <3>2 DEF OnlyVolume, TableOrBoot
  <2>16. VolumeInv'
    BY <2>1, <2>15 DEF VolumeInv, Wiped, Made
  <2> QED BY <2>13, <2>16
<1> HIDE DEF l, total, used, size
<1> QED BY <1>1, <1>2, <1>3 DEF Image!OpenTarget, l, used, size

\* mkdosfs overwrites the areas in front of the clusters with zeros.
LEMMA WipeInv == JobInv /\ VolumeInv /\ Image!wipe_target => JobInv' /\ VolumeInv'
<1> SUFFICES ASSUME JobInv, VolumeInv, Image!wipe_target PROVE JobInv' /\ VolumeInv'
  OBVIOUS
<1> DEFINE l == layout
           n == Image!WipedSectors(l)
           w == Image!Written(l.offset + 0, n, Image!Zero)
<1>1. imagePhase = "wipe" /\ imagePhase' = "reserved" /\ UNCHANGED <<job, file, layout, fat>>
      /\ writes' = writes \o <<Image!Written(l.offset + 0, n, Image!Zero)>>
  BY DEF Image!wipe_target, Image!From, Image!Write, Image!At
<1>2. LayoutSound(l) /\ OnlyVolume(writes, l)
  BY <1>1 DEF JobInv, LayoutForJob, VolumeInv, Made
<1>3. writes' = Append(writes, w)
  BY <1>1, <1>2, Writes DEF OnlyVolume
<1>4. Image!Zero.is # "boot" /\ Image!Zero.is # "mbr"
  BY DEF Image!Zero
<1>5. n \in Nat /\ n <= l.total /\ 0 + n <= l.total
  BY <1>2, Areas
<1>6. OnlyVolume(writes', l) /\ Overwritten(writes', writes, l.offset, 0, n, Image!Zero)
  <2> HIDE DEF n
  <2> QED BY <1>2, <1>3, <1>4, <1>5, WriteInside DEF w
<1>7. /\ Image!FatStart(l, 0) \in 0 .. n - 1 /\ Image!FatStart(l, 1) \in 0 .. n - 1
      /\ Image!RootStart(l) \in 0 .. n - 1
  BY <1>2, Areas
<1>8. AreasHold(writes', l, Image!Zero, {Image!Zero})
  <2> HIDE DEF n
  <2>1. \A s \in 0 .. n - 1 : SectorIn(writes', l.offset + s) = Image!Zero
    BY <1>5, <1>6 DEF Overwritten
  <2>2. \A s \in Nat : s < n => s \in 0 .. n - 1
    BY <1>5
  <2> QED BY <1>7, <2>1, <2>2 DEF AreasHold, n
<1>9. Marks' = Image!Zero /\ Root' = {Image!Zero}
  BY <1>1 DEF Marks, Root
<1>10. JobInv'
  BY <1>1 DEF JobInv, Made, LayoutForJob, Image!Request, Image!SizeFollows
<1>11. Base' = Base /\ Mbr' = Mbr
  BY <1>1 DEF Base, Mbr, Image!Parts
<1>12. VolumeInv'
  BY <1>1, <1>6, <1>8, <1>9, <1>11 DEF VolumeInv, Wiped, Made, OnlyVolume, TableOrBoot, AreasHold
<1> QED BY <1>10, <1>12

-------------------------------------------------------------------------------
\* A step that writes to the volume leaves what is known of the job.
LEMMA KeepsJob ==
    ASSUME JobInv, imagePhase \in Made, imagePhase' \in Made, UNCHANGED <<job, file, layout>>
    PROVE  /\ JobInv' /\ Base' = Base /\ Mbr' = Mbr /\ Image!Request' = Image!Request
           /\ LayoutSound(layout) /\ layout.fat \in {12, 16, 32}
<1>1. JobInv'
  BY DEF JobInv, Made, LayoutForJob, Image!Request, Image!SizeFollows
<1>2. Base' = Base /\ Mbr' = Mbr /\ Image!Request' = Image!Request
  BY DEF Base, Mbr, Image!Parts, Image!Request
<1>3. LayoutSound(layout)
  BY DEF JobInv, Made, LayoutForJob
<1>4. layout.fat \in {12, 16, 32}
  BY <1>3 DEF LayoutSound
<1> QED BY <1>1, <1>2, <1>3, <1>4

\* mkdosfs writes the boot sector, on FAT32 also its copy and the sector with the count of
\* the free clusters.
LEMMA WriteReservedInv == JobInv /\ VolumeInv /\ Image!write_reserved => JobInv' /\ VolumeInv'
<1> SUFFICES ASSUME JobInv, VolumeInv, Image!write_reserved PROVE JobInv' /\ VolumeInv'
  OBVIOUS
<1> DEFINE l == layout
           boot == IF Image!BootFile = "foreign" THEN [is |-> "foreign"] ELSE Image!Boot(l)
           w0 == Image!Written(l.offset + 0, 1, boot)
           w1 == Image!Written(l.offset + l.info, 1, Image!Info(l))
           w2 == Image!Written(l.offset + l.backup, 1, boot)
<1>1. CASE Image!Fail("reserved")
  BY <1>1, FailInv
<1>2. CASE /\ Image!From("reserved", "entry") /\ UNCHANGED <<file, layout, fat>>
           /\ writes' = writes \o (<<w0>> \o (IF l.fat = 32 THEN <<w1, w2>> ELSE <<>>))
  <2>1. imagePhase = "reserved" /\ imagePhase' = "entry" /\ UNCHANGED <<job, file, layout, fat>>
    BY <1>2 DEF Image!From
  <2>2. /\ JobInv' /\ Base' = Base /\ Mbr' = Mbr /\ LayoutSound(l)
    BY <2>1, KeepsJob DEF Made
  <2>3. OnlyVolume(writes, l) /\ AreasHold(writes, l, Image!Zero, {Image!Zero})
    BY <2>1 DEF VolumeInv, Made, Wiped, Marks, Root
  <2>4. /\ l.offset \in Nat /\ l.total \in Nat /\ l.spf \in Nat \ {0} /\ l.reserved \in Nat \ {0}
        /\ Image!FatStart(l, 0) = l.reserved /\ Image!FatStart(l, 1) = l.reserved + l.spf
        /\ Image!RootStart(l) = l.reserved + 2 * l.spf
        /\ l.reserved + 2 * l.spf < Image!WipedSectors(l)
        /\ Image!WipedSectors(l) <= l.total /\ Image!WipedSectors(l) \in Nat
        /\ l.fat = 32 => l.reserved >= 32 /\ l.info = 1 /\ l.backup = 6
    <3>1. /\ Image!WipedSectors(l) =
                l.reserved + 2 * l.spf + (IF l.fat = 32 THEN 1 ELSE Image!RootLength(l))
          /\ Image!RootLength(l) \in Nat \ {0}
          /\ l.spf \in Nat \ {0} /\ l.reserved \in Nat \ {0}
      BY <2>2, Areas
    <3>2. l.reserved + 2 * l.spf < Image!WipedSectors(l)
      BY <3>1
    <3> QED BY <2>2, <3>2, Areas
  <2>5. (boot.is = "boot" => boot = Image!Boot(l)) /\ boot.is # "mbr"
    BY DEF Image!Boot
  <2>6. Image!Info(l).is # "boot" /\ Image!Info(l).is # "mbr"
    BY DEF Image!Info
  <2> DEFINE lg0 == Append(writes, w0)
             lg1 == Append(lg0, w1)
             lg2 == Append(lg1, w2)
  <2> HIDE DEF boot
  <2>7. OnlyVolume(lg0, l) /\ Overwritten(lg0, writes, l.offset, 0, 1, boot)
    <3>1. 0 + 1 <= l.total
      BY <2>4
    <3> QED BY <2>2, <2>3, <2>5, <3>1, WriteInside
  <2>8. CASE l.fat # 32
    <3>1. writes' = lg0
      BY <1>2, <2>3, <2>8, Writes DEF OnlyVolume
    <3> HIDE DEF lg0
    <3>2. AreasHold(lg0, l, Image!Zero, {Image!Zero})
      <4>1. \A s \in Nat : s >= l.reserved =>
               SectorIn(lg0, l.offset + s) = SectorIn(writes, l.offset + s)
        BY <2>4, <2>7 DEF Overwritten
      <4> QED BY <2>3, <2>4, <4>1 DEF AreasHold
    <3>3. VolumeInv'
      BY <2>1, <2>2, <2>7, <2>8, <3>1, <3>2
      DEF VolumeInv, OnlyVolume, TableOrBoot, AreasHold, Wiped, Made, Marks, Root
    <3> QED BY <2>2, <3>3
  <2>9. CASE l.fat = 32
    <3>1. writes' = lg2
      BY <1>2, <2>3, <2>9, Writes DEF OnlyVolume
    <3> HIDE DEF lg0
    <3>2. OnlyVolume(lg1, l) /\ Overwritten(lg1, lg0, l.offset, 1, 1, Image!Info(l))
      <4>1. 1 + 1 <= l.total /\ w1 = Image!Written(l.offset + 1, 1, Image!Info(l))
        BY <2>4, <2>9
      <4> HIDE DEF w1
      <4> QED BY <2>2, <2>6, <2>7, <4>1, WriteInside
    <3> HIDE DEF lg1
    <3>3. OnlyVolume(lg2, l) /\ Overwritten(lg2, lg1, l.offset, 6, 1, boot)
      <4>1. 6 + 1 <= l.total /\ w2 = Image!Written(l.offset + 6, 1, boot)
        BY <2>4, <2>9
      <4> HIDE DEF w2
      <4> QED BY <2>2, <2>5, <3>2, <4>1, WriteInside
    <3> HIDE DEF lg2
    <3>4. AreasHold(lg2, l, Image!Zero, {Image!Zero})
      <4>1. \A s \in Nat : s >= l.reserved =>
               SectorIn(lg2, l.offset + s) = SectorIn(writes, l.offset + s)
        BY <2>4, <2>7, <2>9, <3>2, <3>3 DEF Overwritten
      <4> QED BY <2>3, <2>4, <4>1 DEF AreasHold
    <3>5. SectorIn(lg2, l.offset + 1) = Image!Info(l)
      BY <3>2, <3>3 DEF Overwritten
    <3>6. VolumeInv'
      BY <2>1, <2>2, <3>1, <3>3, <3>4, <3>5
      DEF VolumeInv, OnlyVolume, TableOrBoot, AreasHold, Wiped, Made, Marks, Root, Holds
    <3> QED BY <2>2, <3>6
  <2> QED BY <2>8, <2>9
<1>3. Image!At(0) = l.offset + 0 /\ Image!At(l.info) = l.offset + l.info
      /\ Image!At(l.backup) = l.offset + l.backup
  BY DEF Image!At
<1> QED BY <1>1, <1>2, <1>3, Zenon DEF Image!write_reserved, Image!Write

\* mkdosfs sets an entry: its sector is written to both tables.
LEMMA SetFatEntriesInv == JobInv /\ VolumeInv /\ Image!SetFatEntries => JobInv' /\ VolumeInv'
<1> SUFFICES ASSUME JobInv, VolumeInv, Image!SetFatEntries PROVE JobInv' /\ VolumeInv'
  OBVIOUS
<1> DEFINE l == layout
           first == Image!Sector(Image!At(Image!FatStart(l, 0)))
<1>1. PICK c \in 0 .. 2 :
        /\ imagePhase = <<"entry", "entry1", "entry2">>[c + 1]
        /\ Image!set_fat_entry(c)
        /\ imagePhase' = <<"entry1", IF l.fat = 32 THEN "entry2" ELSE "label", "label">>[c + 1]
        /\ job' = job
  BY DEF Image!SetFatEntries
<1> DEFINE new == Image!Fat(IF first.is = "fat" THEN first.marks \cup {c} ELSE {c})
           w1 == Image!Written(l.offset + Image!FatStart(l, 0), 1, new)
           w2 == Image!Written(l.offset + Image!FatStart(l, 1), 1, new)
<1>2. /\ imagePhase \in {"entry", "entry1", "entry2"}
      /\ imagePhase = "entry" => c = 0 /\ imagePhase' = "entry1"
      /\ imagePhase = "entry1" =>
            c = 1 /\ imagePhase' = IF l.fat = 32 THEN "entry2" ELSE "label"
      /\ imagePhase = "entry2" => c = 2 /\ imagePhase' = "label"
  <2>1. c = 0 \/ c = 1 \/ c = 2
    OBVIOUS
  <2> QED BY <1>1, <2>1
<1>3. UNCHANGED <<job, file, layout, fat>> /\ writes' = writes \o <<w1, w2>>
  <2>1. writes' = writes \o [i \in 1 .. 2 |->
            Image!Written(Image!At(Image!FatStart(l, i - 1)), 1, new)]
    BY <1>1, Zenon DEF Image!set_fat_entry, Image!Write
  <2>2. UNCHANGED <<job, file, layout, fat>>
    BY <1>1 DEF Image!set_fat_entry, Image!Write
  <2> DEFINE f == [i \in 1 .. 2 |-> Image!Written(Image!At(Image!FatStart(l, i - 1)), 1, new)]
  <2>3. f = <<w1, w2>>
    <3>1. f[1] = w1 /\ f[2] = w2 /\ f = [i \in 1 .. 2 |-> f[i]]
      BY DEF Image!At
    <3> HIDE DEF f, w1, w2
    <3>2. f = [i \in 1 .. 2 |-> IF i = 1 THEN w1 ELSE w2]
      <4>1. \A i \in 1 .. 2 : f[i] = IF i = 1 THEN w1 ELSE w2
        BY <3>1
      <4> QED BY <3>1, <4>1
    <3>3. [i \in 1 .. 2 |-> IF i = 1 THEN w1 ELSE w2] = <<w1, w2>>
      OBVIOUS
    <3> QED BY <3>2, <3>3
  <2> QED BY <2>1, <2>2, <2>3
<1> HIDE DEF first
<1>4. /\ JobInv' /\ Base' = Base /\ Mbr' = Mbr /\ LayoutSound(l)
  BY <1>2, <1>3, KeepsJob DEF Made
<1>5. OnlyVolume(writes, l) /\ AreasHold(writes, l, Marks, {Image!Zero})
  BY <1>2 DEF VolumeInv, Made, Wiped, Root
<1>6. first = Marks
  BY <1>5, SectorOfLog DEF first, AreasHold, Image!At
<1>7. new = Marks' /\ Root' = {Image!Zero} /\ new.is # "boot" /\ new.is # "mbr"
      /\ (imagePhase' = "entry2" => l.fat = 32)
  <2>1. CASE imagePhase = "entry"
    <3>1. Marks = Image!Zero /\ c = 0 /\ imagePhase' = "entry1"
      BY <1>2, <2>1 DEF Marks
    <3>2. first.is # "fat"
      BY <1>6, <3>1 DEF Image!Zero
    <3>3. new = Image!Fat({0})
      BY <3>1, <3>2
    <3> QED BY <3>1, <3>3 DEF Marks, Root, Image!Fat
  <2>2. CASE imagePhase = "entry1"
    <3>1. Marks = Image!Fat({0}) /\ c = 1 /\ imagePhase' = IF l.fat = 32 THEN "entry2" ELSE "label"
      BY <1>2, <2>2 DEF Marks
    <3>2. first.is = "fat" /\ first.marks = {0}
      BY <1>6, <3>1 DEF Image!Fat
    <3>3. new = Image!Fat({0, 1})
      <4>1. {0} \cup {1} = {0, 1}
        OBVIOUS
      <4> QED BY <3>1, <3>2, <4>1
    <3> QED BY <1>3, <3>1, <3>3 DEF Marks, Root, Image!Fat
  <2>3. CASE imagePhase = "entry2"
    <3>1. Marks = Image!Fat({0, 1}) /\ c = 2 /\ imagePhase' = "label" /\ l.fat = 32
      BY <1>2, <2>3 DEF Marks, VolumeInv
    <3>2. first.is = "fat" /\ first.marks = {0, 1}
      BY <1>6, <3>1 DEF Image!Fat
    <3>3. new = Image!Fat({0, 1, 2})
      <4>1. {0, 1} \cup {2} = {0, 1, 2}
        OBVIOUS
      <4> QED BY <3>1, <3>2, <4>1
    <3> QED BY <1>3, <3>1, <3>3 DEF Marks, Root, Image!Fat
  <2> QED BY <1>2, <2>1, <2>2, <2>3
<1>8. /\ l.offset \in Nat /\ l.total \in Nat /\ l.spf \in Nat \ {0} /\ l.reserved \in Nat \ {0}
      /\ Image!FatStart(l, 0) = l.reserved /\ Image!FatStart(l, 1) = l.reserved + l.spf
      /\ Image!RootStart(l) = l.reserved + 2 * l.spf
      /\ l.fat = 32 => l.reserved >= 32
      /\ l.reserved + 2 * l.spf <= l.total
  <2>1. /\ Image!WipedSectors(l) =
                l.reserved + 2 * l.spf + (IF l.fat = 32 THEN 1 ELSE Image!RootLength(l))
        /\ Image!RootLength(l) \in Nat \ {0} /\ Image!WipedSectors(l) <= l.total
        /\ l.spf \in Nat \ {0} /\ l.reserved \in Nat \ {0} /\ l.total \in Nat
    BY <1>4, Areas
  <2>2. l.reserved + 2 * l.spf <= l.total
    BY <2>1
  <2> QED BY <1>4, <2>2, Areas
<1> DEFINE p0 == Image!FatStart(l, 0)
           p1 == Image!FatStart(l, 1)
           lg1 == Append(writes, w1)
           lg2 == Append(lg1, w2)
<1>9. writes' = lg2
  <2>1. IsLog(writes)
    BY <1>5 DEF OnlyVolume
  <2> HIDE DEF w1, w2
  <2>2. writes \o <<w1, w2>> = lg2
    BY <2>1, Writes
  <2> QED BY <1>3, <2>2
<1> HIDE DEF new
<1>10. OnlyVolume(lg1, l) /\ Overwritten(lg1, writes, l.offset, p0, 1, new)
  <2>1. p0 \in Nat /\ p0 + 1 <= l.total
    BY <1>8
  <2> HIDE DEF p0
  <2> QED BY <1>4, <1>5, <1>7, <2>1, WriteInside DEF p0
<1> HIDE DEF lg1
<1>11. OnlyVolume(lg2, l) /\ Overwritten(lg2, lg1, l.offset, p1, 1, new)
  <2>1. p1 \in Nat /\ p1 + 1 <= l.total
    BY <1>8
  <2> HIDE DEF p1
  <2> QED BY <1>4, <1>7, <1>10, <2>1, WriteInside DEF p1
<1> HIDE DEF lg2
<1>12. /\ SectorIn(lg2, l.offset + p0) = new /\ SectorIn(lg2, l.offset + p1) = new
       /\ \A s \in Nat : s # p0 /\ s # p1 =>
             SectorIn(lg2, l.offset + s) = SectorIn(writes, l.offset + s)
  <2>1. p0 \in Nat /\ p1 \in Nat /\ p0 # p1
    BY <1>8
  <2> HIDE DEF p0, p1
  <2> QED BY <1>10, <1>11, <2>1 DEF Overwritten
<1>13. AreasHold(lg2, l, new, {Image!Zero})
  <2>1. Image!RootStart(l) \in Nat /\ Image!RootStart(l) # p0 /\ Image!RootStart(l) # p1
    BY <1>8
  <2>2. SectorIn(lg2, l.offset + Image!RootStart(l)) = SectorIn(writes, l.offset + Image!RootStart(l))
    BY <1>12, <2>1
  <2> QED BY <1>5, <1>12, <2>2 DEF AreasHold
<1>14. l.fat = 32 => SectorIn(lg2, l.offset + 1) = Image!Info(l)
  <2> SUFFICES ASSUME l.fat = 32 PROVE SectorIn(lg2, l.offset + 1) = Image!Info(l)
    OBVIOUS
  <2>1. SectorIn(writes, l.offset + 1) = Image!Info(l)
    BY <1>2 DEF VolumeInv, Wiped, Made, Holds
  <2>2. 1 # p0 /\ 1 # p1
    BY <1>8
  <2> QED BY <1>12, <2>1, <2>2
<1>15. imagePhase' \in Wiped \ {"reserved", "mounted"}
  BY <1>2 DEF Wiped, Made
<1>16. /\ (OnlyVolume(writes, layout))' /\ (AreasHold(writes, layout, Marks, Root))'
       /\ (layout.fat = 32 => Holds(1) = Image!Info(layout))'
  BY <1>3, <1>4, <1>7, <1>9, <1>11, <1>13, <1>14 DEF OnlyVolume, TableOrBoot, AreasHold, Holds
<1>17. VolumeInv'
  BY <1>3, <1>7, <1>15, <1>16 DEF VolumeInv
<1> QED BY <1>4, <1>17

-------------------------------------------------------------------------------
\* mkdosfs writes the label to the root directory.
LEMMA AddVolumeLabelInv == JobInv /\ VolumeInv /\ Image!add_volume_label => JobInv' /\ VolumeInv'
<1> SUFFICES ASSUME JobInv, VolumeInv, Image!add_volume_label PROVE JobInv' /\ VolumeInv'
  OBVIOUS
<1> DEFINE l == layout
           p == Image!RootStart(l)
<1>1. PICK rest \in {"zero", "any"} :
        writes' = writes \o (IF Image!Request.label
                             THEN <<Image!Written(l.offset + p, 1, Image!Label(rest))>> ELSE <<>>)
  BY Zenon DEF Image!add_volume_label, Image!Write, Image!At
<1>2. imagePhase = "label" /\ imagePhase' = "mount" /\ UNCHANGED <<job, file, layout, fat>>
  BY DEF Image!add_volume_label, Image!From, Image!Write
<1>3. /\ JobInv' /\ Base' = Base /\ Mbr' = Mbr /\ Image!Request' = Image!Request /\ LayoutSound(l)
  BY <1>2, KeepsJob DEF Made
<1>4. OnlyVolume(writes, l) /\ AreasHold(writes, l, Marks, {Image!Zero}) /\ Marks' = Marks
      /\ (l.fat = 32 => SectorIn(writes, l.offset + 1) = Image!Info(l))
  BY <1>2 DEF VolumeInv, Made, Wiped, Root, Marks, Holds
<1>5. CASE ~Image!Request.label
  <2>1. writes' = writes
    BY <1>1, <1>4, <1>5, Writes DEF OnlyVolume
  <2>2. Root' = {Image!Zero}
    BY <1>3, <1>5 DEF Root
  <2>3. VolumeInv'
    BY <1>2, <1>3, <1>4, <2>1, <2>2 DEF VolumeInv, OnlyVolume, TableOrBoot, AreasHold, Wiped, Made, Holds
  <2> QED BY <1>3, <2>3
<1>6. CASE Image!Request.label
  <2> DEFINE w == Image!Written(l.offset + p, 1, Image!Label(rest))
             lg == Append(writes, w)
  <2>1. writes' = lg
    BY <1>1, <1>4, <1>6, Writes DEF OnlyVolume
  <2>2. Root' = {Image!Label("zero"), Image!Label("any")}
    BY <1>2, <1>3, <1>6 DEF Root
  <2>3. /\ l.spf \in Nat \ {0} /\ l.reserved \in Nat \ {0} /\ l.total \in Nat
        /\ Image!FatStart(l, 0) = l.reserved /\ Image!FatStart(l, 1) = l.reserved + l.spf
        /\ p = l.reserved + 2 * l.spf /\ p + 1 <= l.total
        /\ l.fat = 32 => l.reserved >= 32
    <3>1. /\ Image!WipedSectors(l) =
                  l.reserved + 2 * l.spf + (IF l.fat = 32 THEN 1 ELSE Image!RootLength(l))
          /\ Image!RootLength(l) \in Nat \ {0} /\ Image!WipedSectors(l) <= l.total
          /\ l.spf \in Nat \ {0} /\ l.reserved \in Nat \ {0} /\ l.total \in Nat
          /\ p = l.reserved + 2 * l.spf
      BY <1>3, Areas
    <3>2. p + 1 <= l.total
      <4> HIDE DEF p
      <4>1. l.reserved + 2 * l.spf + 1 <= Image!WipedSectors(l) /\ Image!WipedSectors(l) \in Int
        BY <3>1
      <4> QED BY <3>1, <4>1
    <3> QED BY <1>3, <3>1, <3>2, Areas
  <2>4. OnlyVolume(lg, l) /\ Overwritten(lg, writes, l.offset, p, 1, Image!Label(rest))
    <3>1. p \in Nat
      BY <2>3
    <3>2. Image!Label(rest).is # "boot" /\ Image!Label(rest).is # "mbr"
      BY DEF Image!Label
    <3> HIDE DEF p
    <3> QED BY <1>3, <1>4, <2>3, <3>1, <3>2, WriteInside
  <2> HIDE DEF lg
  <2>5. /\ SectorIn(lg, l.offset + p) = Image!Label(rest)
        /\ \A s \in Nat : s # p => SectorIn(lg, l.offset + s) = SectorIn(writes, l.offset + s)
    <3>1. p \in Nat
      BY <2>3
    <3> HIDE DEF p
    <3> QED BY <2>4, <3>1 DEF Overwritten
  <2>6. AreasHold(lg, l, Marks, {Image!Label("zero"), Image!Label("any")})
    <3>1. /\ Image!FatStart(l, 0) \in Nat /\ Image!FatStart(l, 0) # p
          /\ Image!FatStart(l, 1) \in Nat /\ Image!FatStart(l, 1) # p
      BY <2>3
    <3>2. /\ SectorIn(lg, l.offset + Image!FatStart(l, 0))
                = SectorIn(writes, l.offset + Image!FatStart(l, 0))
          /\ SectorIn(lg, l.offset + Image!FatStart(l, 1))
                = SectorIn(writes, l.offset + Image!FatStart(l, 1))
      BY <2>5, <3>1
    <3> QED BY <1>4, <2>5, <3>2 DEF AreasHold
  <2>7. l.fat = 32 => SectorIn(lg, l.offset + 1) = Image!Info(l)
    BY <1>4, <2>3, <2>5
  <2>8. VolumeInv'
    BY <1>2, <1>3, <1>4, <2>1, <2>2, <2>4, <2>6, <2>7
    DEF VolumeInv, OnlyVolume, TableOrBoot, AreasHold, Wiped, Made, Holds
  <2> QED BY <1>3, <2>8
<1> QED BY <1>5, <1>6

\* fat.c reads the boot sector of the volume, or finds none.
LEMMA MountInv == JobInv /\ VolumeInv /\ Image!Mount => JobInv' /\ VolumeInv'
<1> SUFFICES ASSUME JobInv, VolumeInv, Image!Mount PROVE JobInv' /\ VolumeInv'
  OBVIOUS
<1> DEFINE boot == Image!Sector(Image!VolumeAt)
<1>1. /\ imagePhase = "mount" /\ imagePhase' = "mounted" /\ UNCHANGED <<job, file, writes, layout>>
      /\ fat' = IF boot.is = "boot" THEN Image!fatInit(boot.bpb) ELSE Image!NotMounted
  BY Zenon DEF Image!Mount, Image!From
<1>2. /\ JobInv' /\ Base' = Base /\ Mbr' = Mbr /\ Image!Request' = Image!Request
  BY <1>1, KeepsJob DEF Made
<1>3. OnlyVolume(writes, layout) /\ AreasHold(writes, layout, Marks, Root)
      /\ (layout.fat = 32 => Holds(1) = Image!Info(layout))
      /\ Marks' = Marks /\ Root' = Root
  BY <1>1, <1>2 DEF VolumeInv, Made, Wiped, Root, Marks
<1>4. boot.is = "boot" => boot = Image!Boot(layout)
  <2>1. boot = SectorIn(writes, Image!VolumeAt)
    BY SectorOfLog
  <2> HIDE DEF boot
  <2> QED BY <1>3, <2>1 DEF OnlyVolume, TableOrBoot
<1>5. Image!Boot(layout).bpb = layout
  BY DEF Image!Boot
<1>6. fat' = Image!NotMounted \/ fat' = Image!fatInit(layout)
  <2> HIDE DEF boot
  <2>1. CASE boot.is = "boot"
    <3>1. boot.bpb = layout
      BY <1>4, <1>5, <2>1
    <3> QED BY <1>1, <2>1, <3>1
  <2>2. CASE boot.is # "boot"
    BY <1>1, <2>2
  <2> QED BY <2>1, <2>2
<1>7. (fat = Image!NotMounted \/ fat = Image!fatInit(layout))'
  BY ZenonT(60), <1>1, <1>6 DEF Image!NotMounted, Image!fatInit, Image!Sector
<1>8. VolumeInv'
  BY <1>1, <1>2, <1>3, <1>7 DEF VolumeInv, OnlyVolume, TableOrBoot, AreasHold, Wiped, Made, Holds
<1> QED BY <1>2, <1>8

\* The rest of the build leaves the image alone.
LEMMA ImageKept == JobInv /\ VolumeInv /\ UNCHANGED imageVars => JobInv' /\ VolumeInv'
<1> SUFFICES ASSUME JobInv, VolumeInv, UNCHANGED imageVars PROVE JobInv' /\ VolumeInv'
  OBVIOUS
<1>1. UNCHANGED <<job, imagePhase, file, writes, layout, fat>>
  BY DEF imageVars
<1>2. /\ Image!Request' = Image!Request /\ Image!Parts' = Image!Parts
      /\ Image!SizeFollows' = Image!SizeFollows
  BY <1>1 DEF Image!Request, Image!Parts, Image!SizeFollows
<1>3. Mbr' = Mbr /\ Base' = Base /\ There' = There
  BY <1>1, <1>2 DEF Mbr, Base, There
<1>4. JobInv'
  BY <1>1, <1>2, <1>3 DEF JobInv, LayoutForJob
<1>5. Marks' = Marks /\ Root' = Root
  BY <1>1, <1>2 DEF Marks, Root
<1>6. (fat = Image!NotMounted \/ fat = Image!fatInit(layout))'
         <=> (fat = Image!NotMounted \/ fat = Image!fatInit(layout))
  BY <1>1 DEF Image!NotMounted, Image!fatInit, Image!Sector
<1>7. VolumeInv'
  BY <1>1, <1>3, <1>5, <1>6 DEF VolumeInv, OnlyVolume, TableOrBoot, AreasHold, Holds
<1> QED BY <1>4, <1>7

\* Every step keeps the invariant.
LEMMA ImageNext == JobInv /\ VolumeInv /\ [HostNext]_allVars => JobInv' /\ VolumeInv'
<1> SUFFICES ASSUME JobInv, VolumeInv, [HostNext]_allVars PROVE JobInv' /\ VolumeInv'
  OBVIOUS
<1>1. CASE UNCHANGED imageVars
  BY <1>1, ImageKept
<1>2. CASE CommandGoesOn
  <2>1. Image!Next
    BY <1>2 DEF CommandGoesOn
  <2> QED BY <2>1, BeginInv, MakePartsInv, OpenTargetInv, WipeInv, WriteReservedInv,
             SetFatEntriesInv, AddVolumeLabelInv, MountInv DEF Image!Next
<1> QED BY <1>1, <1>2 DEF HostNext, allVars

\* The image tools only ever make what the invariant says.
LEMMA ImageInvariant == HostSpec => [](JobInv /\ VolumeInv)
<1>1. HostInit => JobInv /\ VolumeInv
  BY ImageInit
<1>2. JobInv /\ VolumeInv /\ [HostNext]_allVars => (JobInv /\ VolumeInv)'
  BY ImageNext
<1> QED BY <1>1, <1>2, PTL DEF HostSpec

\* For every size, offset, width and cluster size JobAssumption admits (volumes of at least
\* 33 sectors, or 32 where FAT32 is asked for, and numbers within 32 bits), the tables, the
\* directory and the clusters mkdosfs lays out lie inside the volume and the file, and
\* every cluster has an entry that is no end mark (establish_bpb).
THEOREM VolumesFit == HostSpec => []LayoutFits
<1>1. JobInv => LayoutFits
  BY VolumeFits
<1> QED BY <1>1, ImageInvariant, PTL

\* For every job JobAssumption admits: whatever mkdosfs writes to a volume that fits in one
\* of the partitions, the footer and the table stay as parted wrote them, and the table has
\* the partitions asked for in order, each behind the sectors where the one before ends.
THEOREM TablesKept == HostSpec => []PartitionsKept
<1>1. JobInv /\ VolumeInv => PartitionsKept
  BY KeepsPartitions
<1> QED BY <1>1, ImageInvariant, PTL

\* A volume that fatInit of fat.c takes for the type it is has its areas where mkdosfs has
\* put them, two equal tables with the reserved entries and an empty directory.
THEOREM NewVolumesMount == HostSpec => []FreshVolumeMounts
<1>1. JobInv /\ VolumeInv => FreshVolumeMounts
  BY FreshMounts
<1> QED BY <1>1, ImageInvariant, PTL

-------------------------------------------------------------------------------
\* A 64 bit integer as an unsigned number.
Value(x) == Unsigned(x[0]) + 4294967296 * Unsigned(x[1])

Int64 == [0 .. 1 -> Word]

\* u_lt, u_le, u_ge and u_gt order words with the same sign as unsigned numbers.
THEOREM UnsignedOrder ==
    ASSUME NEW a \in Word, NEW b \in Word, a < 0 <=> b < 0
    PROVE  /\ u_lt(a, b) <=> Unsigned(a) < Unsigned(b)
           /\ u_le(a, b) <=> Unsigned(a) <= Unsigned(b)
           /\ u_ge(a, b) <=> Unsigned(a) >= Unsigned(b)
           /\ u_gt(a, b) <=> Unsigned(a) > Unsigned(b)
BY SMT DEF Word, Unsigned, u_eq, u_lt, u_le, u_ge, u_gt

\* Of two words with different signs the one without is the smaller, but each of
\* them is "greater" than the other: u_lt returns 0 for both orders.
THEOREM MixedSignsUnordered ==
    ASSUME NEW a \in Word, NEW b \in Word, a >= 0, b < 0
    PROVE  /\ Unsigned(a) < Unsigned(b)
           /\ ~u_lt(a, b) /\ ~u_lt(b, a)
           /\ u_gt(a, b) /\ u_gt(b, a)
BY SMT DEF Word, Unsigned, u_eq, u_lt, u_gt

-------------------------------------------------------------------------------
IsHalf(h) == h \in Nat /\ h <= 65535

\* A word is its two halves.
LEMMA Halves ==
    ASSUME NEW a \in Word
    PROVE  /\ IsHalf(Low(a)) /\ IsHalf(High(a))
           /\ Unsigned(a) = Low(a) + 65536 * High(a)
<1>1. CASE a >= 0
  <2>1. /\ a = 65536 * (a \div 65536) + (a % 65536)
        /\ IsHalf(a % 65536) /\ a \div 65536 \in Int
        /\ 0 <= a \div 65536 /\ a \div 65536 <= 32767
    BY SMT, <1>1 DEF Word, IsHalf
  <2>2. (a \div 65536) % 65536 = a \div 65536
    BY SMT, <2>1 DEF IsHalf
  <2> QED BY SMT, <1>1, <2>1, <2>2 DEF Unsigned, Low, High, IsHalf
<1>2. CASE a < 0
  <2>1. /\ a = 65536 * (a \div 65536) + (a % 65536)
        /\ IsHalf(a % 65536) /\ a \div 65536 \in Int
        /\ -32768 <= a \div 65536 /\ a \div 65536 <= -1
    BY SMT, <1>2 DEF Word, IsHalf
  <2>2. (a \div 65536) % 65536 = a \div 65536 + 65536
    BY SMT, <2>1 DEF IsHalf
  <2> QED BY SMT, <1>2, <2>1, <2>2 DEF Unsigned, Low, High, IsHalf
<1> QED BY SMT, <1>1, <1>2 DEF Word

\* The sum of two words is right but for the carry.
LEMMA WordSum ==
    ASSUME NEW a \in Word, NEW b \in Word
    PROVE  LET sum == Unsigned(a) + Unsigned(b)
           IN  /\ AddWords(a, b) \in Word
               /\ Unsigned(AddWords(a, b)) =
                      IF sum < 4294967296 THEN sum ELSE sum - 4294967296
<1> DEFINE low == Low(a) + Low(b)
           carry == low \div 65536
           high == High(a) + High(b) + carry
           u == (low % 65536) + 65536 * (high % 65536)
           sum == Unsigned(a) + Unsigned(b)
<1>1. /\ Low(a) \in Nat /\ Low(a) <= 65535 /\ High(a) \in Nat /\ High(a) <= 65535
      /\ Low(b) \in Nat /\ Low(b) <= 65535 /\ High(b) \in Nat /\ High(b) <= 65535
      /\ Unsigned(a) = Low(a) + 65536 * High(a)
      /\ Unsigned(b) = Low(b) + 65536 * High(b)
  BY SMT, Halves DEF IsHalf
<1>2. /\ low % 65536 \in Nat /\ low % 65536 <= 65535
      /\ carry \in Nat /\ carry <= 1
      /\ low = 65536 * carry + (low % 65536)
  BY SMT, <1>1
<1>3. high \in Nat /\ sum = (low % 65536) + 65536 * high /\ high <= 131071
  <2> HIDE DEF carry
  <2> QED BY SMT, <1>1, <1>2
<1> HIDE DEF high
<1>4. high % 65536 = IF high < 65536 THEN high ELSE high - 65536
  BY SMT, <1>3
<1>5. u \in Nat /\ u <= 4294967295
      /\ u = IF sum < 4294967296 THEN sum ELSE sum - 4294967296
  <2> HIDE DEF low, sum
  <2> QED BY SMT, <1>2, <1>3, <1>4
<1>6. AddWords(a, b) = Signed(u)
  BY SMT DEF AddWords, high
<1> HIDE DEF u
<1>7. Signed(u) \in Word /\ Unsigned(Signed(u)) = u
  BY SMT, <1>5 DEF Signed, Unsigned, Word
<1> QED BY SMT, <1>5, <1>6, <1>7

\* i64_add adds modulo 2^64 as long as the low words make no carry.
THEOREM AddsWithoutCarry ==
    ASSUME NEW a \in Int64, NEW b \in Int64,
           Unsigned(a[0]) + Unsigned(b[0]) < 4294967296
    PROVE  /\ i64_add(a, b) \in Int64
           /\ Value(i64_add(a, b)) =
                  IF Value(a) + Value(b) < 18446744073709551616 THEN Value(a) + Value(b)
                  ELSE Value(a) + Value(b) - 18446744073709551616
<1>1. /\ i64_add(a, b)[0] = AddWords(a[0], b[0]) /\ i64_add(a, b)[1] = AddWords(a[1], b[1])
      /\ a[0] \in Word /\ a[1] \in Word /\ b[0] \in Word /\ b[1] \in Word
  BY SMT DEF i64_add, Int64
<1>2. \A w \in Word : Unsigned(w) \in Nat /\ Unsigned(w) <= 4294967295
  BY SMT DEF Word, Unsigned
<1>3. /\ AddWords(a[0], b[0]) \in Word /\ AddWords(a[1], b[1]) \in Word
      /\ Unsigned(AddWords(a[0], b[0])) = Unsigned(a[0]) + Unsigned(b[0])
      /\ Unsigned(AddWords(a[1], b[1])) =
            IF Unsigned(a[1]) + Unsigned(b[1]) < 4294967296 THEN Unsigned(a[1]) + Unsigned(b[1])
            ELSE Unsigned(a[1]) + Unsigned(b[1]) - 4294967296
  BY SMT, <1>1, <1>2, WordSum
<1>4. i64_add(a, b) \in Int64
  BY SMT, <1>1, <1>3 DEF i64_add, Int64
<1> QED BY SMT, <1>1, <1>2, <1>3, <1>4 DEF Value

\* With a carry the result is 2^32 too small (modulo 2^64).
THEOREM CarryLost ==
    ASSUME NEW a \in Int64, NEW b \in Int64,
           Unsigned(a[0]) + Unsigned(b[0]) >= 4294967296,
           Unsigned(a[1]) + Unsigned(b[1]) < 4294967296
    PROVE  Value(i64_add(a, b)) = Value(a) + Value(b) - 4294967296
<1>1. /\ i64_add(a, b)[0] = AddWords(a[0], b[0]) /\ i64_add(a, b)[1] = AddWords(a[1], b[1])
      /\ a[0] \in Word /\ a[1] \in Word /\ b[0] \in Word /\ b[1] \in Word
  BY SMT DEF i64_add, Int64
<1>2. \A w \in Word : Unsigned(w) \in Nat /\ Unsigned(w) <= 4294967295
  BY SMT DEF Word, Unsigned
<1>3. /\ Unsigned(AddWords(a[0], b[0])) = Unsigned(a[0]) + Unsigned(b[0]) - 4294967296
      /\ Unsigned(AddWords(a[1], b[1])) = Unsigned(a[1]) + Unsigned(b[1])
  BY SMT, <1>1, <1>2, WordSum
<1> QED BY SMT, <1>1, <1>2, <1>3 DEF Value

-------------------------------------------------------------------------------
IsBuffer(b) == b.data \in Seq(0 .. 255) /\ b.size \in Nat /\ Len(b.data) <= b.size

\* Whatever was added, the data stays inside what is allocated, and so does the zero
\* that buf__getstr writes behind it.
THEOREM StaysAllocated ==
    ASSUME NEW b, IsBuffer(b), NEW byte \in Int
    PROVE  /\ IsBuffer(buf__add8(b, byte))
           /\ IsBuffer(buf__getstr(b))
           /\ Len(buf__getstr(b).data) < buf__getstr(b).size
<1>1. byte % 256 \in 0 .. 255
  OBVIOUS
<1>2. /\ Append(b.data, byte % 256) \in Seq(0 .. 255)
      /\ Len(Append(b.data, byte % 256)) = Len(b.data) + 1
      /\ Len(b.data) \in Nat
  BY <1>1 DEF IsBuffer
<1> HIDE <1>1
<1>3. IsBuffer(buf__add8(b, byte))
  BY SMT, <1>2 DEF IsBuffer, buf__add8
<1>4. CASE Len(b.data) < b.size
  BY SMT, <1>3, <1>4 DEF IsBuffer, buf__getstr
<1>5. CASE ~(Len(b.data) < b.size)
  <2>1. /\ buf__getstr(b).data = b.data
        /\ buf__getstr(b).size = b.size + 512
    BY <1>5 DEF buf__getstr, buf__add8, IsBuffer
  <2> QED BY SMT, <1>2, <1>3, <2>1 DEF IsBuffer
<1> QED BY <1>4, <1>5

-------------------------------------------------------------------------------

\* What is written for n is read as n, to its last byte.
ReadsBack(n) ==
    buf__utf8tocp(buf__add_utf8(n)) = CodePoint(Len(buf__add_utf8(n)), n)

\* Six bits put behind the mark of a trailing byte are found there again.
LEMMA Trailing ==
    ASSUME NEW n \in Nat, NEW unit \in Nat \ {0}
    PROVE  Trail(n, unit) % 64 = Bits(n, unit, 64) /\ Bits(n, unit, 64) \in 0 .. 63
<1>1. n \div unit \in Int
  BY SMT
<1> QED BY SMT, <1>1 DEF Trail, Bits

\* ASCII is written as itself and read as itself.
LEMMA OneByte ==
    ASSUME NEW n \in Nat, n < 128
    PROVE  ReadsBack(n)
<1>1. buf__add_utf8(n) = <<n>> /\ Char(n) = n /\ Size(n) = 1
  BY SMT DEF buf__add_utf8, Char, Size
<1>2. Decoded(<<n>>) = n
  BY SMT, <1>1 DEF Decoded
<1> QED BY SMT, <1>1, <1>2 DEF buf__utf8tocp, ReadsBack

\* Five bits and six: below 2^11; buf__utf8tocp takes the form that buf__add_utf8 used.
LEMMA TwoBytes ==
    ASSUME CHAR_MIN = 0, NEW n \in Nat, 128 <= n, n < 2048
    PROVE  ReadsBack(n)
<1> DEFINE v == 192 + Bits(n, 64, 32)
           b == <<v, Trail(n, 1)>>
<1>1. buf__add_utf8(n) = b
  BY SMT DEF buf__add_utf8
<1>2. n = Bits(n, 64, 32) * 64 + Bits(n, 1, 64) /\ v \in 192 .. 223 /\ v % 32 = Bits(n, 64, 32)
  BY SMT DEF Bits
<1>3. Char(v) = v /\ Size(v) = 2
  BY SMT, <1>2 DEF Char, Size
<1>4. Decoded(b) = n
  BY SMT, <1>2, <1>3, Trailing DEF Decoded, Six
<1> QED BY SMT, <1>1, <1>3, <1>4 DEF buf__utf8tocp, ReadsBack

\* Four bits and twice six: below 2^16; buf__utf8tocp takes the form that buf__add_utf8 used.
LEMMA ThreeBytes ==
    ASSUME CHAR_MIN = 0, NEW n \in Nat, 2048 <= n, n < 65536
    PROVE  ReadsBack(n)
<1> DEFINE v == 224 + Bits(n, 4096, 16)
           b == <<v, Trail(n, 64), Trail(n, 1)>>
<1>1. buf__add_utf8(n) = b
  BY SMT DEF buf__add_utf8
<1>2. /\ n = Bits(n, 4096, 16) * 4096 + Bits(n, 64, 64) * 64 + Bits(n, 1, 64)
      /\ v \in 224 .. 239 /\ v % 16 = Bits(n, 4096, 16)
  BY SMT DEF Bits
<1>3. Char(v) = v /\ Size(v) = 3
  BY SMT, <1>2 DEF Char, Size
<1>4. Decoded(b) = n
  BY SMT, <1>2, <1>3, Trailing DEF Decoded, Six
<1> QED BY SMT, <1>1, <1>3, <1>4 DEF buf__utf8tocp, ReadsBack

\* Three bits and three times six: below 2^21; buf__utf8tocp takes the form that buf__add_utf8 used.
LEMMA FourBytes ==
    ASSUME CHAR_MIN = 0, NEW n \in Nat, 65536 <= n, n < 2097152
    PROVE  ReadsBack(n)
<1> DEFINE v == 240 + Bits(n, 262144, 8)
           b == <<v, Trail(n, 4096), Trail(n, 64), Trail(n, 1)>>
<1>1. buf__add_utf8(n) = b
  BY SMT DEF buf__add_utf8
<1>2. /\ n = Bits(n, 262144, 8) * 262144 + Bits(n, 4096, 64) * 4096
                 + Bits(n, 64, 64) * 64 + Bits(n, 1, 64)
      /\ v \in 240 .. 247 /\ v % 8 = Bits(n, 262144, 8)
  BY SMT DEF Bits
<1>3. Char(v) = v /\ Size(v) = 4
  BY SMT, <1>2 DEF Char, Size
<1>4. Decoded(b) = n
  BY SMT, <1>2, <1>3, Trailing DEF Decoded, Six
<1> QED BY SMT, <1>1, <1>3, <1>4 DEF buf__utf8tocp, ReadsBack

\* Two bits and four times six: below 2^26; buf__utf8tocp takes the form that buf__add_utf8 used.
LEMMA FiveBytes ==
    ASSUME CHAR_MIN = 0, NEW n \in Nat, 2097152 <= n, n < 67108864
    PROVE  ReadsBack(n)
<1> DEFINE v == 248 + Bits(n, 16777216, 4)
           b == <<v, Trail(n, 262144), Trail(n, 4096), Trail(n, 64), Trail(n, 1)>>
<1>1. buf__add_utf8(n) = b
  BY SMT DEF buf__add_utf8
<1>2. /\ n = Bits(n, 16777216, 4) * 16777216 + Bits(n, 262144, 64) * 262144
                 + Bits(n, 4096, 64) * 4096 + Bits(n, 64, 64) * 64 + Bits(n, 1, 64)
      /\ v \in 248 .. 251 /\ v % 4 = Bits(n, 16777216, 4)
  BY SMT DEF Bits
<1>3. Char(v) = v /\ Size(v) = 5
  BY SMT, <1>2 DEF Char, Size
<1>4. Decoded(b) = n
  BY SMT, <1>2, <1>3, Trailing DEF Decoded, Six
<1> QED BY SMT, <1>1, <1>3, <1>4 DEF buf__utf8tocp, ReadsBack

\* Two bits and five times six: the numbers above, up to those with a sign; buf__utf8tocp takes the form that buf__add_utf8 used.
LEMMA SixBytes ==
    ASSUME CHAR_MIN = 0, NEW n \in Nat, 67108864 <= n, n <= 4294967295
    PROVE  ReadsBack(n)
<1> DEFINE v == 252 + Bits(n, 1073741824, 4)
           b == <<v, Trail(n, 16777216), Trail(n, 262144), Trail(n, 4096), Trail(n, 64),
                  Trail(n, 1)>>
<1>1. buf__add_utf8(n) = b
  BY SMT DEF buf__add_utf8
<1>2. /\ n = Bits(n, 1073741824, 4) * 1073741824 + Bits(n, 16777216, 64) * 16777216
                 + Bits(n, 262144, 64) * 262144 + Bits(n, 4096, 64) * 4096
                 + Bits(n, 64, 64) * 64 + Bits(n, 1, 64)
      /\ v \in 252 .. 255 /\ v % 4 = Bits(n, 1073741824, 4)
  BY SMT DEF Bits
<1>3. Char(v) = v /\ Size(v) = 6
  BY SMT, <1>2 DEF Char, Size
<1>4. Decoded(b) = n
  BY SMT, <1>2, <1>3, Trailing DEF Decoded, Six
<1> QED BY SMT, <1>1, <1>3, <1>4 DEF buf__utf8tocp, ReadsBack

\* With an unsigned char, buf__utf8tocp reads from what buf__add_utf8 wrote every
\* 32 bit number back, whole.
THEOREM Utf8RoundTrip ==
    ASSUME CHAR_MIN = 0, NEW n \in Nat, n <= 4294967295
    PROVE  ReadsBack(n)
<1>1. CASE n < 128
  BY SMT, <1>1, OneByte
<1>2. CASE 128 <= n /\ n < 2048
  BY SMT, <1>2, TwoBytes
<1>3. CASE 2048 <= n /\ n < 65536
  BY SMT, <1>3, ThreeBytes
<1>4. CASE 65536 <= n /\ n < 2097152
  BY SMT, <1>4, FourBytes
<1>5. CASE 2097152 <= n /\ n < 67108864
  BY SMT, <1>5, FiveBytes
<1>6. CASE 67108864 <= n
  BY SMT, <1>6, SixBytes
<1> QED BY SMT, <1>1, <1>2, <1>3, <1>4, <1>5, <1>6

\* With a signed char every lead byte is negative, hence below 128: each byte of a
\* code point above ASCII is read as a code point of its own, a negative one.
THEOREM SignedCharMisreads ==
    ASSUME CHAR_MIN = -128, NEW n \in Nat, 128 <= n, n <= 4294967295
    PROVE  LET cp == buf__add_utf8(n)[1] - 256
           IN  cp < 0 /\ buf__utf8tocp(buf__add_utf8(n)) = CodePoint(1, cp)
<1> DEFINE b == buf__add_utf8(n)
           v == b[1]
<1>1. b # <<>> /\ v \in Nat /\ v >= 192 /\ v <= 255 /\ Len(b) \in Nat /\ Len(b) >= 1
  BY SMT DEF buf__add_utf8, Bits
<1> HIDE DEF v
<1>2. Char(v) = v - 256 /\ Size(Char(v)) = 1
  BY SMT, <1>1 DEF Char, Size
<1>3. Decoded(b) = v - 256
  BY SMT, <1>2 DEF Decoded, v
<1>4. buf__utf8tocp(b) = CodePoint(1, v - 256)
  <2> HIDE DEF b
  <2> QED BY SMT, <1>1, <1>2, <1>3 DEF buf__utf8tocp, v
<1>5. v - 256 < 0
  BY SMT, <1>1
<1> QED BY SMT, <1>4, <1>5 DEF v

\* With an unsigned char a code point below 65536 that is no surrogate is read back
\* from UTF-16.
THEOREM Utf16RoundTrip ==
    ASSUME CHAR_MIN = 0, NEW n \in Nat, n < 65536, IsPlain(n)
    PROVE  buf__utf16tocp(buf__add_utf16(n)) = {CodePoint(2, n)}
<1> DEFINE b == buf__add_utf16(n)
<1>1. b = <<Bits(n, 1, 256), Bits(n, 256, 256)>>
  BY DEF buf__add_utf16, buf__add16
<1>2. n = Bits(n, 1, 256) + 256 * Bits(n, 256, 256)
  BY SMT DEF Bits
<1>3. Char(b[1]) + 256 * Char(b[2]) = n /\ Len(b) = 2
  BY SMT, <1>1, <1>2 DEF Char
<1> QED BY SMT, <1>3 DEF buf__utf16tocp

\* Zero leaves no text and all negative numbers the same: the sign.
THEOREM DigitsOnlyAboveZero ==
    ASSUME NEW n \in Int, n <= 0
    PROVE  buf__addint(n) = IF n = 0 THEN <<>> ELSE <<45>>
<1>1. CASE n = 0
  <2>1. buf__addint(n) = <<>> \o <<>>
    BY SMT, <1>1 DEF buf__addint
  <2> QED BY SMT, <1>1, <2>1
<1>2. CASE n < 0
  <2>1. buf__addint(n) = <<45>> \o <<>>
    <3>1. ~(n > 0)
      BY SMT, <1>2
    <3> QED BY Zenon, <1>2, <3>1 DEF buf__addint
  <2> QED BY SMT, <1>2, <2>1
<1> QED BY SMT, <1>1, <1>2

===============================================================================
