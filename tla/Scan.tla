-------------------------------- MODULE Scan --------------------------------
(***************************************************************************)
(* The playbook scanner, internal/agent/audit/scan.go: which files do the  *)
(* given playbooks manage?  The recursion of scanFile and scanTaskList is a*)
(* stack of lists still to be walked, each with the bindings and the       *)
(* directory it is walked under.  What a string, a document and a task are *)
(* is said in PlaybookMeaning.                                             *)
(***************************************************************************)
EXTENDS PlaybookMeaning, FiniteSets

CONSTANTS
    Items,      \* the plays, tasks and other entries of documents
    Worlds,     \* the command lines and file trees a scan may meet
    Depth,      \* bound: blocks and includes inside each other
    Height,     \* of an item: the lists it is made of, with those inside them
    Nesting     \* bound: lists of one document inside each other

OfKind(kind) == {i \in Items : i.kind = kind}
Reached(w) == ReachedIn(w)[Depth]
Stands(item, lists) ==
    /\ Len(lists) <= Height[item]
    /\ \A l \in Elements(lists) : \A i \in Elements(l) : Len(lists) + Height[i] <= Height[item]

ASSUME ScanAssumption ==
    /\ Item \in Variables /\ Depth \in Nat
    /\ {i.sections : i \in OfKind("play")} \subseteq Seq(Seq(Items))
    /\ {i.blocks : i \in OfKind("task")} \subseteq Seq(Seq(Items))
    /\ {i.loop : i \in OfKind("task")} \subseteq Seq(STRING)
    /\ UNION {{w.docs[p].items : p \in DOMAIN w.docs} : w \in Worlds} \subseteq Seq(Items)
    /\ {w.playbooks : w \in Worlds} \subseteq Seq(Seq(STRING))
    /\ \A w \in Worlds : Closed(w, Reached(w))
    /\ Nesting \in Nat \ {0} /\ Height \in [Items -> 0..(Nesting - 1)]
    /\ \A i \in OfKind("play") : Stands(i, i.sections)
    /\ \A i \in OfKind("task") : Stands(i, i.blocks)

VARIABLES
    world,     \* the arguments and the files; they do not change
    todo,      \* playbooks still to be scanned
    stack,     \* the walk, innermost list first
    visited,   \* s.visited
    files, warnings,
    outcome    \* "running", or how ScanPlaybooks returned: "done" (with Dedupe
               \* of the two), "failed"

scanVars == <<world, todo, stack, visited, files, warnings, outcome>>

-----------------------------------------------------------------------------
FileModuleArgs ==
    [template |-> <<"dest">>, copy |-> <<"dest">>, file |-> <<"path", "dest">>,
     lineinfile |-> <<"path", "dest">>, blockinfile |-> <<"path", "dest">>,
     assemble |-> <<"dest">>, get_url |-> <<"dest">>]

MergeOuterWins(base, over) == Within(over, base) \* Mutant: arguments swapped
MergeVars(base, over) == Within(base, over)

PlayVarsOf(play, dir) == LastBinding(PlayScopes(world, play, dir))
PlayWarnings(play, dir) ==
    {[task |-> "play", about |-> f] :
        f \in {f \in {VarsFile(dir, g) : g \in Elements(play.vars_files)} :
                  ~VarsReadable(world, f)}}

SubstituteVars(s, bound) ==
    [i \in DOMAIN s |-> IF s[i] \in DOMAIN bound THEN bound[s[i]] ELSE s[i]]

(* One path per loop item, or Unresolved (Go's [""]) if there is none, or  *)
(* if one of the paths is not absolute or still has a template.            *)
Unresolved == <<>>
ExpandPathKeepsRest(raw, bound, loop) == \* Mutant: bad items are left out
    LET sub == SubstituteVars(raw, bound)
        At(item) == [i \in DOMAIN sub |-> IF sub[i] = Item THEN item ELSE sub[i]]
        good == SelectSeq(loop, LAMBDA item : Static(At(item)))
    IN  IF \A i \in DOMAIN sub : sub[i] # Item
          THEN IF Static(sub) THEN <<sub>> ELSE Unresolved
          ELSE [k \in DOMAIN good |-> At(good[k])]

ExpandPath(raw, bound, loop) ==
    LET sub == SubstituteVars(raw, bound)
        At(item) == [i \in DOMAIN sub |-> IF sub[i] = Item THEN item ELSE sub[i]]
    IN  IF \A i \in DOMAIN sub : sub[i] # Item
          THEN IF Static(sub) THEN <<sub>> ELSE Unresolved
        ELSE IF \A k \in DOMAIN loop : Static(At(loop[k]))
          THEN [k \in DOMAIN loop |-> At(loop[k])]
        ELSE Unresolved

(* First occurrences only, in their order.                                 *)
Dedupe(s) ==
    LET kept[n \in Nat] ==
            IF n = 0 THEN <<>>
            ELSE IF s[n] \in Elements(kept[n - 1]) THEN kept[n - 1]
            ELSE Append(kept[n - 1], s[n])
    IN  kept[Len(s)]

(* What a task adds to the list of files and to the warnings.              *)
Nothing == [files |-> <<>>, warnings |-> {}]
Warn(t, about) == [files |-> <<>>, warnings |-> {[task |-> t.name, about |-> about]}]
Collect(t, raw, bound) ==
    LET paths == ExpandPath(raw, bound, t.loop)
    IN  IF raw = <<>> THEN Nothing
        ELSE IF paths = Unresolved THEN Warn(t, raw)
        ELSE [files |-> paths, warnings |-> {}]

(* The first argument key that is present counts.                          *)
PathArg(t) ==
    LET keys == FileModuleArgs[t.mod]
        present == {k \in DOMAIN keys : Has(t, keys[k])}
    IN  IF present = {} THEN <<>>
        ELSE t.args[keys[CHOOSE k \in present : \A j \in present : k <= j]]

ScanModuleArgs(t, bound) ==
    IF t.mod \notin DOMAIN FileModuleArgs THEN Nothing
    ELSE IF ~t.mapping THEN Warn(t, <<"args">>)
    ELSE IF t.mod = "file" /\ t.state = "absent" THEN Warn(t, <<"absent">>)
    ELSE LET raw == PathArg(t) IN
         IF raw # <<>> /\ raw[Len(raw)] = "/" /\ t.mod = "get_url"
           THEN Warn(t, raw)
           ELSE Collect(t, raw, bound)

(* createsRe takes creates= up to the next blank, and a reference as people*)
(* write it, {{ name }}, has one after its braces.                         *)
OneLiner(raw) ==
    IF HasTemplate(raw)
      THEN LET i == CHOOSE i \in DOMAIN raw :
                       raw[i] \in Variables /\ \A j \in 1..(i - 1) : raw[j] \notin Variables
           IN  SubSeq(raw, 1, i - 1) \o <<"{{">>
      ELSE raw

(* creates and removes as keys of the task itself, and a one-liner.        *)
ScanCommandCreates(t, bound) ==
    LET own == Collect(t, t.creates, bound)
        one == Collect(t, OneLiner(t.inline), bound)
        gone == IF t.removes = <<>> THEN Nothing ELSE Warn(t, <<"removes">>)
    IN  IF t.mod \notin {"command", "shell", "script"} THEN Nothing
        ELSE [files |-> own.files \o one.files,
              warnings |-> own.warnings \cup one.warnings \cup gone.warnings]

-----------------------------------------------------------------------------
ScanInit ==
    /\ world \in Worlds
    /\ todo = world.playbooks
    /\ stack = <<>> /\ visited = {}
    /\ files = <<>> /\ warnings = {}
    /\ outcome = "running"

(* scanFile decides by the first item: if it is a mapping but no play the  *)
(* document is a task list, else its items are plays; in each, items of    *)
(* another sort add nothing, and nobody hears of it.                       *)
ReadsAsTasks(doc) == doc.items # <<>> /\ doc.items[1].kind \in {"task", "mapping"}
List(items, bound, dir) == [level |-> "task", items |-> items, vars |-> bound, dir |-> dir]
Document(path, bound) ==
    LET doc == world.docs[path]
    IN  [level |-> IF ReadsAsTasks(doc) THEN "task" ELSE "play",
         items |-> doc.items, vars |-> bound, dir |-> Dir(path)]

Top == stack[1]
Current == Top.items[1]
Rest == <<[Top EXCEPT !.items = Tail(@)]>> \o Tail(stack)
Walking(level) ==
    /\ outcome = "running" /\ stack # <<>> /\ Top.level = level /\ Top.items # <<>>

(* The loop of ScanPlaybooks.  An error of a given playbook is one of the  *)
(* scan, which then returns neither files nor warnings.                    *)
ScanPlaybook ==
    /\ outcome = "running" /\ stack = <<>> /\ todo # <<>>
    /\ todo' = Tail(todo)
    /\ visited' = visited \cup {Head(todo)}
    /\ IF Head(todo) \in visited
         THEN UNCHANGED <<stack, files, warnings, outcome>>
       ELSE IF Readable(world, Head(todo))
         THEN /\ stack' = <<Document(Head(todo), NoVars)>>
              /\ UNCHANGED <<files, warnings, outcome>>
         ELSE /\ outcome' = "failed" /\ files' = <<>> /\ warnings' = {}
              /\ UNCHANGED stack
    /\ UNCHANGED world

SkipItem ==
    /\ \E level \in {"play", "task"} : Walking(level) /\ Current.kind # level
    /\ stack' = Rest
    /\ UNCHANGED <<world, todo, visited, files, warnings, outcome>>

ScanPlay ==
    /\ Walking("play") /\ Current.kind = "play"
    /\ LET bound == MergeVars(Top.vars, PlayVarsOf(Current, Top.dir))
       IN  stack' = [k \in DOMAIN Current.sections |->
                        List(Current.sections[k], bound, Top.dir)] \o Rest
    /\ warnings' = warnings \cup PlayWarnings(Current, Top.dir)
    /\ UNCHANGED <<world, todo, visited, files, outcome>>

LocalVars == MergeVars(Top.vars, Current.vars)

EnterBlocks ==
    /\ Walking("task") /\ Current.kind = "task" /\ Current.blocks # <<>>
    /\ stack' = [k \in DOMAIN Current.blocks |->
                    List(Current.blocks[k], LocalVars, Top.dir)] \o Rest
    /\ UNCHANGED <<world, todo, visited, files, warnings, outcome>>

IncludeTarget(inc) == IF IsAbs(inc) THEN inc ELSE Top.dir \o inc
MarkNone(path) == visited \* Mutant: no file is marked
Mark(path) == visited \cup {path}

FollowInclude ==
    /\ Walking("task") /\ Current.kind = "task"
    /\ Current.blocks = <<>> /\ Current.include # <<>>
    /\ LET inc == SubstituteVars(Current.include, LocalVars)
           path == IncludeTarget(inc)
       IN  IF HasTemplate(inc)
             THEN /\ warnings' = warnings \cup {[task |-> Current.name, about |-> inc]}
                  /\ stack' = Rest /\ UNCHANGED visited
           ELSE IF path \in visited
             THEN stack' = Rest /\ UNCHANGED <<warnings, visited>>
           ELSE /\ visited' = Mark(path)
                /\ IF Readable(world, path)
                     THEN /\ stack' = <<Document(path, LocalVars)>> \o Rest
                          /\ UNCHANGED warnings
                     ELSE /\ warnings' = warnings \cup {[task |-> Current.name, about |-> path]}
                          /\ stack' = Rest
    /\ UNCHANGED <<world, todo, files, outcome>>

ManageFiles ==
    /\ Walking("task") /\ Current.kind = "task"
    /\ Current.blocks = <<>> /\ Current.include = <<>>
    /\ LET one == ScanModuleArgs(Current, LocalVars)
           two == ScanCommandCreates(Current, LocalVars)
       IN  /\ files' = files \o one.files \o two.files
           /\ warnings' = warnings \cup one.warnings \cup two.warnings
    /\ stack' = Rest
    /\ UNCHANGED <<world, todo, visited, outcome>>

LeaveList ==
    /\ outcome = "running" /\ stack # <<>> /\ Top.items = <<>>
    /\ stack' = Tail(stack)
    /\ UNCHANGED <<world, todo, visited, files, warnings, outcome>>

Return ==
    /\ outcome = "running" /\ stack = <<>> /\ todo = <<>>
    /\ outcome' = "done"
    /\ UNCHANGED <<world, todo, stack, visited, files, warnings>>

Scanning ==
    \/ ScanPlaybook \/ ScanPlay \/ EnterBlocks \/ FollowInclude
    \/ ManageFiles \/ SkipItem \/ LeaveList \/ Return

ScanEnded == outcome # "running" /\ UNCHANGED scanVars

ScanSpec == ScanInit /\ [][Scanning \/ ScanEnded]_scanVars

-----------------------------------------------------------------------------
(* Every listed path is one that a reached task manages, under the         *)
(* innermost binding of each name it is made of: the operator who takes the*)
(* list for the manifest tracks no file the playbooks leave alone.         *)
FilesAreManaged ==
    \A k \in DOMAIN files : \E c \in Reached(world) :
        \E raw \in RawPaths(c.task) :
           files[k] \in ManagedPaths(raw, c.vars, c.task.loop) /\ Static(files[k])

Warned(about) == \E w \in warnings : w.about = about
WarnedOf(t) == \E w \in warnings : w.task = t.name

PathsAccountedFor(c) ==
    \A raw \in RawPaths(c.task) :
       \/ ManagedPaths(raw, c.vars, c.task.loop) \subseteq Elements(files)
       \/ WarnedOf(c.task)
IncludeAccountedFor(c) ==
    IF HasTemplate(IncludePath(c)) THEN WarnedOf(c.task)
    ELSE Readable(world, IncludedFile(c)) \/ Warned(IncludedFile(c))
AccountedFor(c) ==
    IF c.task.blocks # <<>> THEN TRUE
    ELSE IF c.task.include # <<>> THEN IncludeAccountedFor(c)
    ELSE PathsAccountedFor(c) /\ (Untrackable(c.task) => WarnedOf(c.task))

(* A file of tasks is walked once, so that an include in it is followed    *)
(* once: to the one file it names, if no way of reaching it binds its path *)
(* otherwise.                                                              *)
IncludesAreFixed(w) ==
    \A c, d \in Reached(w) :
        c.task = d.task /\ c.dir = d.dir => IncludePath(c) = IncludePath(d)

(* What the scanner does not know of: a document whose first item is not   *)
(* of the sort of those that follow, as an import_playbook before plays,   *)
(* unarchive, and creates or removes among the arguments of a command.     *)
BeginsWithItsSort(doc) ==
    \A item \in Elements(doc.items) :
        item.kind \in {"play", "task"} => item.kind = doc.items[1].kind
Legible(w) ==
    /\ \A path \in DOMAIN w.docs : BeginsWithItsSort(w.docs[path])
    /\ \A c \in Reached(w) :
          /\ c.task.mod # "unarchive"
          /\ c.task.mod \in Commands => ~Has(c.task, "creates") /\ ~Has(c.task, "removes")

(* Every task the playbooks reach, through whatever blocks, includes and   *)
(* cycles of includes, is listed with its paths or warned of, with the     *)
(* bindings of one of the ways it is reached, if the scanner knows all of  *)
(* what they say.                                                          *)
EveryTaskAccountedFor ==
    outcome = "done" /\ IncludesAreFixed(world) /\ Legible(world) =>
        \A c \in Reached(world) : \E d \in Reached(world) :
            d.task = c.task /\ d.dir = c.dir /\ AccountedFor(d)

(* scan.go: "Anything unresolvable statically ... is reported in warnings, *)
(* never silently dropped": so with the bindings of each way.              *)
NeverSilentlyDropped ==
    outcome = "done" => \A c \in Reached(world) : AccountedFor(c)

(* Files that include each other do not send the walk in circles: it never *)
(* nests deeper than the files it has opened can account for.              *)
WalkIsBounded == Len(stack) <= Nesting * Cardinality(visited)
=============================================================================
