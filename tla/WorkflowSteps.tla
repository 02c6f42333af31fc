---------------------------- MODULE WorkflowSteps ----------------------------
(***************************************************************************)
(* What a workflow runs (internal/biz/workflow.go): the default that is    *)
(* offered to a client, the client's edits and their way through the API,  *)
(* the commands that a build puts in their place, and the walk over the    *)
(* steps and tasks in their order.                                         *)
(*                                                                         *)
(* A command is what it is good for: "default" is the text of the default  *)
(* workflow, "user" a text of the client, "braces" one with {GIT_REPO} and *)
(* "template" one with {{.GIT_REPO}}; "value" is a text with the value in   *)
(* place, and the others are the commands the code makes.  The workspace   *)
(* of the context is taken to be there, as in Services.                    *)
(***************************************************************************)
EXTENDS Naturals, Sequences, FiniteSets, SequencesExt

CONSTANTS Texts,     \* the commands a client may write
          MaxOrder,  \* the orders a client may give
          MaxEdits   \* edits of a client

VARIABLES wf,       \* the workflow: [type, steps]
          stage,    \* "edit", "walk" or "done"
          build,    \* what the build is of: [branch, commit, tag]
          at,       \* the step and the task of the walk
          visited,  \* the tasks it has been at
          edits

vars == <<wf, stage, build, at, visited, edits>>

Fixed == <<"CodePull", "ImageRepoAuth", "Build", "Deploy">>
StepType(name) == IF name \in ToSet(Fixed) THEN name ELSE "Customizable"
Image(type) == IF type = "Customizable" THEN "" ELSE type
Task(name, order, command) == [name |-> name, order |-> order, command |-> command]

\* The fixed steps of the type, in their order.
GetDefaultWorkflow(type) ==
  LET names == IF type = "ci" THEN SubSeq(Fixed, 1, 3) ELSE SubSeq(Fixed, 4, 4)
  IN [type |-> type,
      steps |-> [i \in 1..Len(names) |->
        [name |-> names[i], order |-> i, type |-> names[i], image |-> Image(names[i]),
         tasks |-> <<Task(names[i], i, "default")>>]]]

\* Through the interface a step comes without its type and image.
ReadBack(w) ==
  [w EXCEPT !.steps = [i \in DOMAIN w.steps |->
      [w.steps[i] EXCEPT !.type = "Customizable", !.image = ""]]]

Init ==
  /\ \E type \in {"ci", "cd"} : wf = GetDefaultWorkflow(type)
  /\ stage = "edit"
  /\ build = [branch |-> FALSE, commit |-> FALSE, tag |-> FALSE]
  /\ at = <<0, 0>> /\ visited = <<>> /\ edits = 0

-----------------------------------------------------------------------------
(* The client's edits, each of them saved.                                 *)

Save(w) ==
  /\ stage = "edit" /\ edits < MaxEdits
  /\ edits' = edits + 1 /\ wf' = ReadBack(w)
  /\ UNCHANGED <<stage, build, at, visited>>
EditCommand == \E i \in DOMAIN wf.steps : \E j \in DOMAIN wf.steps[i].tasks : \E c \in Texts :
  Save([wf EXCEPT !.steps[i].tasks[j].command = c])
EditOrder == \E i \in DOMAIN wf.steps, o \in 1..MaxOrder :
  Save([wf EXCEPT !.steps[i].order = o])
AddStep == \E o \in 1..MaxOrder, c \in Texts :
  Save([wf EXCEPT !.steps = Append(@, [name |-> "Own", order |-> o, type |-> "Customizable",
                                       image |-> "", tasks |-> <<Task("Own", 1, c)>>])])
AddTask == \E i \in DOMAIN wf.steps, o \in 1..MaxOrder, c \in Texts :
  Save([wf EXCEPT !.steps[i].tasks = Append(@, Task("Own", o, c))])

-----------------------------------------------------------------------------
(* The commands of a build.                                                *)

\* utils.DecodeString runs the text as a Go template.
Decode(command) == IF command = "template" THEN "value" ELSE command

\* A task is known by its name.  A tag goes before a branch with its commit;
\* with neither the command of the pull stays as it is.
Command(type, b, task) ==
  LET kind == StepType(task.name) IN
  CASE kind = "Customizable" -> Decode(task.command)
    [] type = "ci" /\ kind = "CodePull" /\ b.tag -> "clone tag"
    [] type = "ci" /\ kind = "CodePull" /\ ~b.tag /\ b.branch /\ b.commit -> "clone commit"
    [] type = "ci" /\ kind = "ImageRepoAuth" -> "login"
    [] type = "ci" /\ kind = "Build" -> "build"
    [] type = "cd" /\ kind = "Deploy" -> "deploy"
    [] OTHER -> task.command

\* The step with its commands made, task by task.
Made(step, b) ==
  [step EXCEPT !.tasks = [j \in DOMAIN step.tasks |->
     [step.tasks[j] EXCEPT !.command = Command(wf.type, b, step.tasks[j])]]]

Start == \E b \in [branch : BOOLEAN, commit : BOOLEAN, tag : BOOLEAN] :
  /\ stage = "edit" /\ stage' = "walk"
  /\ build' = b
  /\ wf' = [wf EXCEPT !.steps = [i \in DOMAIN wf.steps |-> Made(wf.steps[i], b)]]
  /\ UNCHANGED <<at, visited, edits>>

-----------------------------------------------------------------------------
(* The walk.  0 stands for nil.                                            *)

\* The first of those with the least order.
Least(items, S) ==
  IF S = {} THEN 0
  ELSE CHOOSE i \in S : \A j \in S :
         items[i].order < items[j].order \/ (items[i].order = items[j].order /\ i <= j)
First(items) == Least(items, DOMAIN items)

\* Variant: the next one in the list.
NextInList(items, i) == IF i < Len(items) THEN i + 1 ELSE 0

\* The next greater order: what has the same order is left out.
NextOf(items, i) == Least(items, {j \in DOMAIN items : items[j].order > items[i].order})

Walk ==
  /\ stage = "walk"
  /\ LET steps == wf.steps
         step == IF at[1] = 0 THEN First(steps) ELSE at[1]
         task == IF at[1] = 0 THEN First(steps[step].tasks) ELSE NextOf(steps[step].tasks, at[2])
         next == NextOf(steps, step)
     IN IF task # 0 THEN at' = <<step, task>> /\ visited' = Append(visited, at') /\ UNCHANGED stage
        ELSE IF next # 0 THEN /\ at' = <<next, First(steps[next].tasks)>>
                              /\ visited' = Append(visited, at') /\ UNCHANGED stage
        ELSE stage' = "done" /\ UNCHANGED <<at, visited>>
  /\ UNCHANGED <<wf, build, edits>>

Next == EditCommand \/ EditOrder \/ AddStep \/ AddTask \/ Start \/ Walk
Spec == Init /\ [][Next]_vars

-----------------------------------------------------------------------------
(* Properties.                                                             *)

\* The indices of a list sorted by order, as sort.Slice leaves them.
Sorted(items) == SortSeq([i \in DOMAIN items |-> i], LAMBDA i, j : items[i].order < items[j].order)
GetAllTasksByOrder ==
  FlattenSeq([n \in DOMAIN wf.steps |->
    LET i == Sorted(wf.steps)[n] IN [m \in DOMAIN wf.steps[i].tasks |-> <<i, Sorted(wf.steps[i].tasks)[m]>>]])

Distinct(items) == \A i, j \in DOMAIN items : items[i].order = items[j].order => i = j
Tasks == UNION {ToSet(wf.steps[i].tasks) : i \in DOMAIN wf.steps}

\* Steps and tasks keep their shape; what a client has saved has no type left.
TypeOK ==
  /\ wf.type \in {"ci", "cd"} /\ stage \in {"edit", "walk", "done"} /\ edits \in 0..MaxEdits
  /\ \A i \in DOMAIN wf.steps :
       /\ wf.steps[i].order \in 1..MaxOrder
       /\ wf.steps[i].image \in {wf.steps[i].type, ""}
       /\ \A j \in DOMAIN wf.steps[i].tasks : wf.steps[i].tasks[j].order \in 1..MaxOrder
  /\ visited # <<>> => at = visited[Len(visited)]

\* Where no two orders are the same, the walk from the first step and task to
\* the next ones comes to every task, in the order of GetAllTasksByOrder.
WalkIsComplete ==
  stage = "done" /\ Distinct(wf.steps) /\ (\A i \in DOMAIN wf.steps : Distinct(wf.steps[i].tasks))
    => visited = GetAllTasksByOrder

\* The walk never goes back, and is at no task twice, whatever the orders are.
WalkGoesOn ==
  \A n, m \in DOMAIN visited : n < m =>
    LET a == visited[n] b == visited[m] IN
    IF a[1] = b[1] THEN wf.steps[a[1]].tasks[a[2]].order < wf.steps[b[1]].tasks[b[2]].order
    ELSE wf.steps[a[1]].order < wf.steps[b[1]].order

\* A build of a tag, or of a branch with its commit, runs no text of the
\* default workflow and no text of the client in a fixed task of its type.
FixedTasksAreMade ==
  stage # "edit" /\ (build.tag \/ (build.branch /\ build.commit)) =>
    \A t \in Tasks : t.name \in ToSet(Fixed) => t.command \notin Texts \cup {"default"}

=============================================================================
