------------------------------- MODULE TaskFile -------------------------------
(***************************************************************************)
(* tools/build.c reads its tasks from .vscode/tasks.json: json__get scans  *)
(* the text for the next member of an object, json__visitor visits every   *)
(* value of the document, members before the object they belong to, and    *)
(* bld__gather_tasks picks the tasks' labels, commands, arguments and      *)
(* dependencies.                                                           *)
(*                                                                         *)
(* The text is a sequence of tokens [kind, value]: a punctuation character *)
(* or a space, a string, or another value, of one character ("digit") or   *)
(* more ("literal").  The end of an object's value is kept one character   *)
(* too early, which hides a last token of one character.                   *)
(***************************************************************************)
EXTENDS Naturals, Sequences, SequencesExt

CONSTANTS json__MAX_DEPTH

VARIABLES
    text,
    stack,      \* json__tree's stack, up to the object that is being filled
    obj,        \* index in stack of the object json__get looks for a member of
    at,         \* the next token
    name,       \* the last string this call of json__get has met
    tasks       \* what bld__gather_tasks has found

jsonVars == <<stack, obj, at, name>>

Container == {"{", "["}
Narrow(token) == token.kind \notin {"string", "literal"}

Object(type, state, title, from) ==
    [type |-> type, state |-> state, name |-> title, from |-> from, close |-> 0,
     childName |-> "", value |-> ""]

ParseInit ==
    /\ stack = <<Object("undefined", "init", "", 1)>>
    /\ obj = 1
    /\ at = 1
    /\ name = ""
    /\ tasks = <<>>

Top == stack[Len(stack)]
Token == text[at]

\* Where the loop over the tokens of an object ends.
Stop(o) ==
    IF o.type = "undefined" THEN Len(text) + 1
    ELSE IF Narrow(text[o.close - 1]) THEN o.close - 1 ELSE o.close

\* Mutant: every member ends where its value does.
Resume_NoCloser(child) ==
    IF child.type \in Container THEN child.close
    ELSE IF child.type = "string" THEN child.from + 1
    ELSE child.from + (IF child.from < Len(text) /\ Narrow(text[child.from + 1]) THEN 2 ELSE 1)

\* The scan goes on after a member; a value that is neither a string nor a
\* container takes the character behind it along.
Resume(child) ==
    IF child.type \in Container THEN child.close + 1
    ELSE IF child.type = "string" THEN child.from + 1
    ELSE child.from + (IF child.from < Len(text) /\ Narrow(text[child.from + 1]) THEN 2 ELSE 1)

-------------------------------------------------------------------------------
\* The callback: what a value tells about the task it belongs to, by the name of
\* the task's member that is or holds the value.
Fill(task, key, deep, value) ==
    IF key = "command" /\ task.command = "" THEN [task EXCEPT !.command = value]
    ELSE IF key = "label" THEN [task EXCEPT !.label = value]
    ELSE IF key \in {"args", "dependsOn"} /\ deep THEN [task EXCEPT ![key] = Append(@, value)]
    ELSE task

NewTask(id) == [id |-> id, label |-> "", command |-> "", args |-> <<>>, dependsOn |-> <<>>]

\* A task is known by where its value starts.
WithTask(id) ==
    IF \E i \in DOMAIN tasks : tasks[i].id = id THEN tasks ELSE Append(tasks, NewTask(id))

bld__gather_tasks(s) ==
    IF Len(s) > 4 /\ s[3].name = "tasks" /\ s[4].name = ""
    THEN [i \in DOMAIN WithTask(s[4].from) |->
            LET task == WithTask(s[4].from)[i]
            IN  IF task.id = s[4].from
                THEN Fill(task, s[5].name, Len(s) > 5, s[Len(s)].value) ELSE task]
    ELSE tasks

-------------------------------------------------------------------------------
\* json__get has met the end of obj or an error: the visitor leaves obj.
Leave ==
    /\ tasks' = bld__gather_tasks(SubSeq(stack, 1, obj))
    /\ obj' = IF obj <= 2 THEN 0 ELSE obj - 1
    /\ stack' = SubSeq(stack, 1, obj - 1)
    /\ at' = Resume(stack[obj])
    /\ name' = ""

\* json__get returns the top of s: the visitor enters a container and visits
\* another value.
Deliver(s) ==
    LET child == s[obj + 1]
        body == IF child.type = "{" THEN "object_body" ELSE "array_body"
    IN  /\ name' = ""
        /\ IF child.type \in Container
           THEN /\ stack' = [s EXCEPT ![obj + 1].state = body]
                /\ obj' = obj + 1
                /\ at' = child.from
                /\ UNCHANGED tasks
           ELSE /\ stack' = Front(s)
                /\ obj' = IF obj = 1 THEN 0 ELSE obj
                /\ at' = Resume(child)
                /\ tasks' = bld__gather_tasks(s)

\* The scan goes on with the next token, s and the name n.
Goon(s, n) == stack' = s /\ name' = n /\ at' = at + 1 /\ UNCHANGED <<obj, tasks>>

\* The top of s is complete, perhaps as the member json__get is called for.
Complete(s, n) == IF Len(s) = obj + 1 THEN Deliver(s) ELSE Goon(Front(s), n)

SetState(state) == [stack EXCEPT ![Len(stack)].state = state]

AfterMember(state) ==
    IF state \in {"array_body", "array_after_comma"} THEN "array_after_member"
    ELSE "object_after_member"

\* The top with a member named title, as json__prepare_member leaves it.
Holder(title) == [Top EXCEPT !.state = AfterMember(@), !.childName = title]

json__push(type) ==
    LET colon == Top.state = "object_after_colon"
        state == IF type = "{" THEN "object_body" ELSE "array_body"
    IN  Front(stack) \o <<Holder(IF colon THEN name ELSE Top.childName),
                          Object(type, state, IF colon THEN name ELSE "", at + 1)>>

Open ==
    /\ Token.kind \in Container
    /\ IF /\ \/ Top.state = "init" /\ Token.kind = "{"
             \/ Top.state \in {"object_after_colon", "array_body", "array_after_comma"}
          /\ Len(stack) <= json__MAX_DEPTH
       THEN Goon(json__push(Token.kind), name)
       ELSE Leave

Closes(kind) ==
    IF kind = "}" THEN {"object_body", "object_after_member", "object_after_comma"}
    ELSE {"array_body", "array_after_member", "array_after_comma"}

json__pop ==
    /\ Token.kind \in {"}", "]"}
    /\ IF Top.state \in Closes(Token.kind) /\ Len(stack) > obj
       THEN Complete([stack EXCEPT ![Len(stack)].close = at], name)
       ELSE Leave

\* The state behind a comma or colon.
Behind(kind) ==
    CASE kind = ":" /\ Top.state = "object_after_name" -> "object_after_colon"
      [] kind = "," /\ Top.state = "array_after_member" -> "array_after_comma"
      [] kind = "," /\ Top.state = "object_after_member" -> "object_after_comma"
      [] OTHER -> "error"

Separator ==
    /\ Token.kind \in {",", ":"}
    /\ IF Behind(Token.kind) = "error" THEN Leave ELSE Goon(SetState(Behind(Token.kind)), name)

json__add_member(type) ==
    LET title == IF Top.state = "object_after_colon" THEN name ELSE Top.childName
    IN  Complete(Front(stack) \o <<Holder(title),
            [Object(type, "", title, at) EXCEPT !.value = Token.value]>>, Token.value)

\* A string is the name of a member or a value; other values are taken anywhere.
String ==
    /\ Token.kind = "string"
    /\ CASE Top.state \in {"object_body", "object_after_comma"} ->
                Goon(SetState("object_after_name"), Token.value)
         [] Top.state \in {"array_body", "array_after_comma", "object_after_colon"} ->
                json__add_member("string")
         [] OTHER -> Leave

Literal == Token.kind \in {"literal", "digit"} /\ json__add_member("literal")
Space == Token.kind = "space" /\ Goon(stack, name)
Unknown == Token.kind = "unknown" /\ Leave

\* An object as deep as the stack: json__get fails for ever.
TooDeep == obj > json__MAX_DEPTH

Parsed == obj = 0

json__get ==
    /\ ~Parsed /\ ~TooDeep
    /\ IF at >= Stop(stack[obj]) THEN Leave
       ELSE Open \/ json__pop \/ Separator \/ String \/ Literal \/ Space \/ Unknown

=============================================================================
