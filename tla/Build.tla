--------------------------------- MODULE Build ---------------------------------
(***************************************************************************)
(* tools/build.c: the tasks of the task file are run, those a task depends *)
(* on before it.  A command is a process of its own that succeeds or       *)
(* fails.                                                                  *)
(***************************************************************************)
EXTENDS TaskFile, Integers

CONSTANTS
    Goal,           \* label of the task to make, the second argument
    StackLimit      \* calls of bld__depends that fit on the C stack

VARIABLES
    phase,          \* "parse", "make", "run" while a command runs, then "end"
    result,         \* what bld__make returns
    calls,          \* the calls of bld__depends, [task, todo], the innermost last
    done,           \* the tasks whose done is set
    log             \* the tasks whose commands have succeeded, in order

vars == <<text, jsonVars, tasks, phase, result, calls, done, log>>

Overflow == -2      \* no result: the C stack is used up

MakeInit ==
    /\ phase = "parse"
    /\ result = 0
    /\ calls = <<>>
    /\ done = {}
    /\ log = <<>>

\* The tasks with a label, in the order of the file.
Labelled(label) ==
    LET upTo[n \in 0 .. Len(tasks)] ==
            IF n = 0 THEN <<>>
            ELSE IF tasks[n].label = label THEN Append(upTo[n - 1], n) ELSE upTo[n - 1]
    IN  upTo[Len(tasks)]

\* The calls of bld__depends a task makes: every task of every label it names.
Dependencies(t) ==
    FlattenSeq([i \in DOMAIN tasks[t].dependsOn |-> Labelled(tasks[t].dependsOn[i])])

End(code) == phase' = "end" /\ result' = code /\ calls' = <<>> /\ UNCHANGED <<done, log>>

\* bld__depends looks for t in the calls, but at the caller only.
Enter(t) ==
    IF calls # <<>> /\ Last(calls).task = t THEN End(1)
    ELSE IF Len(calls) = StackLimit THEN End(Overflow)
    ELSE calls' = Append(calls, [task |-> t, todo |-> Dependencies(t)])
         /\ phase' = "make" /\ UNCHANGED <<result, done, log>>

bld__make ==
    /\ phase = "parse" /\ Parsed
    /\ IF Labelled(Goal) = <<>> THEN End(-1) ELSE Enter(Head(Labelled(Goal)))
    /\ UNCHANGED <<text, jsonVars, tasks>>

\* The caller goes on with its next dependency.
Back == LET rest == Front(calls)
        IN  IF rest = <<>> THEN rest ELSE [rest EXCEPT ![Len(rest)].todo = Tail(@)]

Return == calls' = Back /\ phase' = (IF Back = <<>> THEN "end" ELSE "make") /\ UNCHANGED result

\* Mutant: the task is not looked up in what has been done.
StartCommand_Again(t) == phase' = "run" /\ done' = done \cup {t} /\ UNCHANGED <<result, calls, log>>

StartCommand(t) ==
    IF t \in done THEN Return /\ UNCHANGED <<done, log>>
    ELSE phase' = "run" /\ done' = done \cup {t} /\ UNCHANGED <<result, calls, log>>

bld__depends ==
    /\ phase = "make"
    /\ LET call == Last(calls)
       IN  IF call.todo # <<>> THEN Enter(Head(call.todo)) ELSE StartCommand(call.task)
    /\ UNCHANGED <<text, jsonVars, tasks>>

\* The command has ended; the first that fails ends every call.
bld__exec(succeeds) ==
    /\ phase = "run"
    /\ IF succeeds THEN Return /\ log' = Append(log, Last(calls).task) /\ UNCHANGED done
       ELSE End(-1)
    /\ UNCHANGED <<text, jsonVars, tasks>>

Parse == phase = "parse" /\ json__get /\ UNCHANGED <<text, phase, result, calls, done, log>>

-------------------------------------------------------------------------------
\* A command runs after every task its task depends on has succeeded, directly or
\* through others, and at most once; the goal is made when, and only when,
\* bld__make returns 0; nothing runs after a failure.  A task that depends on
\* itself never runs.
RunsInOrder ==
    /\ \A i, j \in DOMAIN log : i # j => log[i] # log[j]
    /\ \A i \in DOMAIN log : \A d \in Range(Dependencies(log[i])) :
          \E j \in 1 .. i - 1 : log[j] = d
    /\ phase = "run" => \A d \in Range(Dependencies(Last(calls).task)) : d \in Range(log)
    /\ phase = "end" =>
          (result = 0 <=> \E i \in DOMAIN log : log[i] = Head(Labelled(Goal)))

=============================================================================
