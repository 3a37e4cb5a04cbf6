----------------------------- MODULE ScanProofs -----------------------------
(***************************************************************************)
(* For every playbook the scanner lists only paths the playbooks manage.   *)
(* WalkInv says of each list that is still to be walked, with the bindings *)
(* and the directory the stack holds for it, that all its tasks are among  *)
(* the reached ones.                                                       *)
(***************************************************************************)
EXTENDS Scan, TLAPS

(* createsRe cuts a one-liner's path at the blank of a reference, so that  *)
(* the theorem is about playbooks whose one-liners have none.              *)
PlainOneLiners ==
    \A w \in Worlds : \A c \in Reached(w) : ~HasTemplate(c.task.inline)

IsSeq(s) == s \in Seq(Elements(s))

PlayReached(play, bound, dir) ==
    \A section \in Elements(play.sections) :
        Contexts(section, Within(bound, LastBinding(PlayScopes(world, play, dir))), dir)
            \subseteq Reached(world)
FrameReached(f) ==
    /\ f = [level |-> f.level, items |-> f.items, vars |-> f.vars, dir |-> f.dir]
    /\ f.items \in Seq(Items)
    /\ f.level = "task" => Contexts(f.items, f.vars, f.dir) \subseteq Reached(world)
    /\ f.level = "play" => \A play \in Elements(f.items) :
          play.kind = "play" => PlayReached(play, f.vars, f.dir)
FramesReached == IsSeq(stack) /\ \A f \in Elements(stack) : FrameReached(f)
GivenOnly == IsSeq(todo) /\ Elements(todo) \subseteq Elements(world.playbooks)
WalkInv == world \in Worlds /\ GivenOnly /\ FramesReached
ScanInv == WalkInv /\ IsSeq(files) /\ FilesAreManaged

-----------------------------------------------------------------------------
(* Elements of the sequences the walk builds.                              *)
LEMMA SeqElements ==
    ASSUME NEW S, NEW s \in Seq(S)
    PROVE  Elements(s) \subseteq S /\ IsSeq(s)
<1>1. Elements(s) \subseteq S
    BY DEF Elements
<1>2. s \in Seq(Elements(s))
    BY DEF Elements
<1> QED BY <1>1, <1>2 DEF IsSeq

LEMMA FunctionIsSeq ==
    ASSUME NEW s, NEW n \in Nat, s = [k \in 1..n |-> s[k]]
    PROVE  IsSeq(s)
<1>1. \A k \in 1..n : s[k] \in Elements(s)
    BY DEF Elements
<1>2. [k \in 1..n |-> s[k]] \in Seq(Elements(s))
    BY <1>1
<1> QED BY <1>2 DEF IsSeq

LEMMA TailElements ==
    ASSUME NEW s, IsSeq(s), s # <<>>
    PROVE  /\ IsSeq(Tail(s)) /\ Elements(Tail(s)) \subseteq Elements(s)
           /\ Head(s) \in Elements(s) /\ s[1] \in Elements(s) /\ s[1] = Head(s)
<1>1. Tail(s) \in Seq(Elements(s)) /\ s[1] = Head(s)
    BY DEF IsSeq
<1>2. s[1] \in Elements(s)
    BY DEF IsSeq, Elements
<1> QED BY <1>1, <1>2, SeqElements

LEMMA ConcatElements ==
    ASSUME NEW s, NEW t, IsSeq(s), IsSeq(t)
    PROVE  IsSeq(s \o t) /\ Elements(s \o t) \subseteq Elements(s) \cup Elements(t)
<1>1. s \in Seq(Elements(s) \cup Elements(t)) /\ t \in Seq(Elements(s) \cup Elements(t))
    BY DEF IsSeq
<1>2. s \o t \in Seq(Elements(s) \cup Elements(t))
    BY <1>1
<1> QED BY <1>2, SeqElements

LEMMA SingletonElements ==
    ASSUME NEW x
    PROVE  IsSeq(<<x>>) /\ Elements(<<x>>) = {x}
    BY DEF IsSeq, Elements

-----------------------------------------------------------------------------
(* Each path expandPath returns is static and one of the task's.           *)
LEMMA ExpandPathSound ==
    ASSUME NEW raw, NEW bound, NEW loop \in Seq(STRING),
           NEW file \in Elements(ExpandPath(raw, bound, loop))
    PROVE  file \in ManagedPaths(raw, bound, loop) /\ Static(file)
<1> DEFINE sub == SubstituteVars(raw, bound)
           At(item) == [i \in DOMAIN sub |-> IF sub[i] = Item THEN item ELSE sub[i]]
<1>1. DOMAIN sub = DOMAIN raw
    BY DEF SubstituteVars
<1>2. ASSUME NEW item
      PROVE  At(item) = [i \in DOMAIN raw |-> ValueAt(raw[i], bound, item)]
    BY <1>1 DEF ValueAt, SubstituteVars
<1>3. CASE \A i \in DOMAIN sub : sub[i] # Item
    <2>1. ExpandPath(raw, bound, loop) = IF Static(sub) THEN <<sub>> ELSE <<>>
        BY <1>3 DEF ExpandPath, Unresolved
    <2>2. Elements(<<>>) = {} /\ Elements(<<sub>>) = {sub}
        BY SingletonElements DEF Elements
    <2>3. file = sub /\ Static(sub)
        BY <2>1, <2>2
    <2>4. PICK item : item \in IF loop = <<>> THEN {Item} ELSE Elements(loop)
        <3>1. CASE loop = <<>>
            BY <3>1
        <3>2. CASE loop # <<>>
            BY <3>2 DEF Elements
        <3> QED BY <3>1, <3>2
    <2>5. sub = At(item)
        BY <1>3 DEF SubstituteVars
    <2>6. file = [i \in DOMAIN raw |-> ValueAt(raw[i], bound, item)]
        BY <1>2, <2>3, <2>5
    <2> QED BY <2>3, <2>4, <2>6 DEF ManagedPaths
<1>4. CASE ~(\A i \in DOMAIN sub : sub[i] # Item)
    <2> DEFINE all == [k \in DOMAIN loop |-> At(loop[k])]
    <2>0. ExpandPath(raw, bound, loop) =
              IF \A k \in DOMAIN loop : Static(At(loop[k])) THEN all ELSE <<>>
        BY <1>4 DEF ExpandPath, Unresolved
    <2>1. PICK k \in DOMAIN loop : file = At(loop[k]) /\ Static(At(loop[k]))
        <3>1. Elements(<<>>) = {}
            BY DEF Elements
        <3>2. Elements(all) = {At(loop[k]) : k \in DOMAIN loop}
            BY DEF Elements
        <3> HIDE DEF At, all
        <3> QED BY <2>0, <3>1, <3>2
    <2>2. loop # <<>> /\ loop[k] \in Elements(loop)
        BY DEF Elements
    <2> QED BY <1>2, <2>1, <2>2 DEF ManagedPaths
<1> QED BY <1>3, <1>4

LEMMA ExpandPathSeq ==
    ASSUME NEW raw, NEW bound, NEW loop \in Seq(STRING)
    PROVE  IsSeq(ExpandPath(raw, bound, loop))
<1> DEFINE sub == SubstituteVars(raw, bound)
           At(item) == [i \in DOMAIN sub |-> IF sub[i] = Item THEN item ELSE sub[i]]
<1>1. IsSeq([k \in DOMAIN loop |-> At(loop[k])])
    <2> DEFINE out == [k \in 1..Len(loop) |-> At(loop[k])]
    <2> HIDE DEF At
    <2>1. out \in Seq(Elements(out))
        BY DEF Elements
    <2> QED BY <2>1 DEF IsSeq
<1>2. IsSeq(<<sub>>) /\ IsSeq(<<>>)
    BY SingletonElements DEF IsSeq
<1> QED BY <1>1, <1>2 DEF ExpandPath, Unresolved

(* So does what scanModuleArgs and scanCommandCreates collect of a task.   *)
Sound(out, t, bound) ==
    /\ IsSeq(out)
    /\ \A file \in Elements(out) : \E raw \in RawPaths(t) :
          file \in ManagedPaths(raw, bound, t.loop) /\ Static(file)

LEMMA CollectSound ==
    ASSUME NEW t, t.loop \in Seq(STRING), NEW bound, NEW raw,
           raw = <<>> \/ raw \in RawPaths(t)
    PROVE  Sound(Collect(t, raw, bound).files, t, bound)
<1>1. CASE Collect(t, raw, bound).files = <<>>
    BY <1>1 DEF Sound, IsSeq, Elements
<1>2. CASE Collect(t, raw, bound).files = ExpandPath(raw, bound, t.loop) /\ raw # <<>>
    BY <1>2, ExpandPathSound, ExpandPathSeq DEF Sound
<1>3. \/ Collect(t, raw, bound).files = <<>>
      \/ Collect(t, raw, bound).files = ExpandPath(raw, bound, t.loop) /\ raw # <<>>
    BY DEF Collect, Nothing, Warn
<1> QED BY <1>1, <1>2, <1>3

LEMMA PathArgIsRaw ==
    ASSUME NEW t, t.mod \in DOMAIN FileModuleArgs
    PROVE  PathArg(t) = <<>> \/ PathArg(t) \in RawPaths(t)
<1> DEFINE keys == FileModuleArgs[t.mod]
           present == {k \in DOMAIN keys : Has(t, keys[k])}
<1>1. CASE t.mod \in {"template", "copy", "assemble", "get_url"}
    <2>1. keys = <<"dest">> /\ t.mod \in TakesDest /\ t.mod \notin TakesPath
        BY <1>1 DEF FileModuleArgs, TakesDest, TakesPath
    <2>2. present = {} \/ (present = {1} /\ Has(t, "dest"))
        BY <2>1
    <2>3. present = {1} => (CHOOSE k \in present : \A j \in present : k <= j) = 1
        OBVIOUS
    <2>4. PathArg(t) = <<>> \/ (Has(t, "dest") /\ PathArg(t) = t.args["dest"])
        BY <2>1, <2>2, <2>3 DEF PathArg
    <2> QED BY <2>1, <2>4 DEF RawPaths
<1>2. CASE t.mod \in {"file", "lineinfile", "blockinfile"}
    <2>1. keys = <<"path", "dest">> /\ t.mod \in TakesDest /\ t.mod \in TakesPath
        BY <1>2 DEF FileModuleArgs, TakesDest, TakesPath
    <2>2. /\ present \subseteq {1, 2}
          /\ 1 \in present <=> Has(t, "path")
          /\ 2 \in present <=> Has(t, "dest")
        BY <2>1
    <2>3. 1 \in present => (CHOOSE k \in present : \A j \in present : k <= j) = 1
        BY <2>2
    <2>4. present = {2} => (CHOOSE k \in present : \A j \in present : k <= j) = 2
        OBVIOUS
    <2>5. \/ PathArg(t) = <<>>
          \/ Has(t, "path") /\ PathArg(t) = t.args["path"]
          \/ ~Has(t, "path") /\ Has(t, "dest") /\ PathArg(t) = t.args["dest"]
        BY <2>1, <2>2, <2>3, <2>4 DEF PathArg
    <2> QED BY <2>1, <2>5 DEF RawPaths
<1>3. t.mod \in {"template", "copy", "assemble", "get_url"}
         \cup {"file", "lineinfile", "blockinfile"}
    BY DEF FileModuleArgs
<1> QED BY <1>1, <1>2, <1>3

LEMMA ModuleArgsSound ==
    ASSUME NEW t, t.loop \in Seq(STRING), NEW bound
    PROVE  Sound(ScanModuleArgs(t, bound).files, t, bound)
<1>1. Sound(<<>>, t, bound)
    BY DEF Sound, IsSeq, Elements
<1>2. \/ ScanModuleArgs(t, bound).files = <<>>
      \/ /\ t.mod \in DOMAIN FileModuleArgs
         /\ ScanModuleArgs(t, bound).files = Collect(t, PathArg(t), bound).files
    BY DEF ScanModuleArgs, Nothing, Warn
<1> QED BY <1>1, <1>2, PathArgIsRaw, CollectSound

LEMMA CommandCreatesSound ==
    ASSUME NEW t, t.loop \in Seq(STRING), NEW bound, ~HasTemplate(t.inline)
    PROVE  Sound(ScanCommandCreates(t, bound).files, t, bound)
<1>1. Sound(<<>>, t, bound)
    BY DEF Sound, IsSeq, Elements
<1>2. CASE t.mod \notin Commands
    BY <1>1, <1>2 DEF ScanCommandCreates, Commands, Nothing
<1>3. CASE t.mod \in Commands
    <2>1. t.creates = <<>> \/ t.creates \in RawPaths(t)
        BY <1>3 DEF RawPaths
    <2>2. t.inline = <<>> \/ t.inline \in RawPaths(t)
        BY <1>3 DEF RawPaths
    <2>3. OneLiner(t.inline) = t.inline
        BY DEF OneLiner
    <2> DEFINE own == Collect(t, t.creates, bound).files
               one == Collect(t, t.inline, bound).files
    <2>4. Sound(own, t, bound) /\ Sound(one, t, bound)
        BY <2>1, <2>2, CollectSound
    <2>5. ScanCommandCreates(t, bound).files = own \o one
        BY <1>3, <2>3 DEF ScanCommandCreates, Commands
    <2> HIDE DEF own, one
    <2>6. Sound(own \o one, t, bound)
        BY <2>4, ConcatElements DEF Sound
    <2> QED BY <2>5, <2>6
<1> QED BY <1>2, <1>3

-----------------------------------------------------------------------------
(* The frames the walk puts on its stack.                                  *)
LEMMA ReachedClosed ==
    ASSUME world \in Worlds
    PROVE  /\ Given(world) \subseteq Reached(world)
           /\ \A c \in Reached(world) : Inside(world, c) \subseteq Reached(world)
    BY ScanAssumption DEF Closed

LEMMA ListReached ==
    ASSUME NEW items \in Seq(Items), NEW bound, NEW dir,
           Contexts(items, bound, dir) \subseteq Reached(world)
    PROVE  FrameReached(List(items, bound, dir))
    BY DEF FrameReached, List

LEMMA DocumentReached ==
    ASSUME world \in Worlds, NEW path, Readable(world, path), NEW bound,
           InFile(world, path, bound) \subseteq Reached(world)
    PROVE  FrameReached(Document(path, bound))
<1> DEFINE doc == world.docs[path]  f == Document(path, bound)
<1>1. doc.items \in Seq(Items)
    <2>1. doc.items \in {world.docs[p].items : p \in DOMAIN world.docs}
        BY DEF Readable
    <2> QED BY <2>1, ScanAssumption
<1>2. /\ f.items = doc.items /\ f.vars = bound /\ f.dir = Dir(path)
      /\ f.level \in {"task", "play"}
      /\ f = [level |-> f.level, items |-> f.items, vars |-> f.vars, dir |-> f.dir]
    BY DEF Document
<1>3. Contexts(doc.items, bound, Dir(path)) \subseteq Reached(world)
    BY DEF InFile
<1>4. ASSUME NEW play \in Elements(doc.items), play.kind = "play"
      PROVE  PlayReached(play, bound, Dir(path))
    BY <1>4 DEF InFile, PlayReached, Plays
<1> QED BY <1>1, <1>2, <1>3, <1>4 DEF FrameReached

LEMMA TopReached ==
    ASSUME FramesReached, stack # <<>>
    PROVE  Top \in Elements(stack) /\ FrameReached(Top) /\ Top.items \in Seq(Items)
<1>1. Top \in Elements(stack)
    BY TailElements DEF FramesReached, Top
<1> QED BY <1>1 DEF FramesReached, FrameReached

LEMMA CurrentReached ==
    ASSUME FramesReached, stack # <<>>, Top.items # <<>>
    PROVE  /\ Current \in Items /\ Current \in Elements(Top.items)
           /\ (Top.level = "task" /\ Current.kind = "task")
                 => /\ Context(Current, Top.vars, Top.dir) \in Reached(world)
                    /\ Context(Current, Top.vars, Top.dir)
                         = [task |-> Current, vars |-> LocalVars, dir |-> Top.dir]
           /\ (Top.level = "play" /\ Current.kind = "play")
                 => PlayReached(Current, Top.vars, Top.dir)
<1>1. FrameReached(Top) /\ Top.items \in Seq(Items)
    BY TopReached
<1>2. Current \in Elements(Top.items) /\ Current \in Items
    BY <1>1, TailElements, SeqElements DEF Current
<1>3. Context(Current, Top.vars, Top.dir)
          = [task |-> Current, vars |-> LocalVars, dir |-> Top.dir]
    BY DEF Context, LocalVars, MergeVars
<1> QED BY <1>1, <1>2, <1>3 DEF FrameReached, Contexts

LEMMA RestReached ==
    ASSUME FramesReached, stack # <<>>, Top.items # <<>>
    PROVE  IsSeq(Rest) /\ \A f \in Elements(Rest) : FrameReached(f)
<1> DEFINE top == [Top EXCEPT !.items = Tail(@)]
<1>1. FrameReached(Top) /\ Top.items \in Seq(Items)
    BY TopReached
<1>2. /\ top.items = Tail(Top.items) /\ top.level = Top.level
      /\ top.vars = Top.vars /\ top.dir = Top.dir
      /\ top = [level |-> top.level, items |-> top.items, vars |-> top.vars, dir |-> top.dir]
    BY <1>1 DEF FrameReached
<1>3. Tail(Top.items) \in Seq(Items) /\ Elements(Tail(Top.items)) \subseteq Elements(Top.items)
    BY <1>1, SeqElements, TailElements
<1>4. Contexts(Tail(Top.items), Top.vars, Top.dir) \subseteq Contexts(Top.items, Top.vars, Top.dir)
    BY <1>3 DEF Contexts
<1>5. FrameReached(top)
    BY <1>1, <1>2, <1>3, <1>4 DEF FrameReached
<1>6. IsSeq(Tail(stack)) /\ Elements(Tail(stack)) \subseteq Elements(stack)
    BY TailElements DEF FramesReached
<1> HIDE DEF top
<1>7. IsSeq(<<top>>) /\ Elements(<<top>>) = {top}
    BY SingletonElements
<1>8. IsSeq(<<top>> \o Tail(stack))
      /\ Elements(<<top>> \o Tail(stack)) \subseteq {top} \cup Elements(stack)
    BY <1>6, <1>7, ConcatElements
<1> QED BY <1>5, <1>8 DEF Rest, FramesReached, top

LEMMA PushReached ==
    ASSUME FramesReached, stack # <<>>, Top.items # <<>>, NEW new, IsSeq(new),
           \A f \in Elements(new) : FrameReached(f)
    PROVE  IsSeq(new \o Rest) /\ \A f \in Elements(new \o Rest) : FrameReached(f)
    BY RestReached, ConcatElements

(* Lists of sections or blocks, all walked with the same bindings.         *)
LEMMA ListsReached ==
    ASSUME NEW lists \in Seq(Seq(Items)), NEW bound, NEW dir,
           \A l \in Elements(lists) : Contexts(l, bound, dir) \subseteq Reached(world)
    PROVE  LET new == [k \in DOMAIN lists |-> List(lists[k], bound, dir)]
           IN  IsSeq(new) /\ \A f \in Elements(new) : FrameReached(f)
<1> DEFINE new == [k \in 1..Len(lists) |-> List(lists[k], bound, dir)]
<1>1. ASSUME NEW k \in 1..Len(lists)
      PROVE  FrameReached(List(lists[k], bound, dir))
    <2>1. lists[k] \in Seq(Items) /\ lists[k] \in Elements(lists)
        BY DEF Elements
    <2> QED BY <2>1, ListReached
<1>2. IsSeq(new)
    <2>1. new = [k \in 1..Len(lists) |-> new[k]] /\ Len(lists) \in Nat
        OBVIOUS
    <2> HIDE DEF new
    <2> QED BY <2>1, FunctionIsSeq
<1>3. \A f \in Elements(new) : FrameReached(f)
    BY <1>1 DEF Elements
<1>4. [k \in DOMAIN lists |-> List(lists[k], bound, dir)] = new
    OBVIOUS
<1> QED BY <1>2, <1>3, <1>4

-----------------------------------------------------------------------------
LEMMA StackStep ==
    ASSUME world' = world, IsSeq(stack'),
           \A f \in Elements(stack') : FrameReached(f)
    PROVE  FramesReached'
<1>1. \A f \in Elements(stack') : FrameReached(f)'
    BY DEF FrameReached, PlayReached
<1> QED BY <1>1 DEF FramesReached

LEMMA FilesStep ==
    ASSUME world' = world, files' = files, IsSeq(files), FilesAreManaged
    PROVE  IsSeq(files') /\ FilesAreManaged'
    BY DEF FilesAreManaged

(* A task collects the paths of a context that is reached.                 *)
LEMMA ManageFilesStep ==
    ASSUME PlainOneLiners, ScanInv, ManageFiles
    PROVE  IsSeq(files') /\ FilesAreManaged'
<1> DEFINE t == Current
           c == [task |-> t, vars |-> LocalVars, dir |-> Top.dir]
           one == ScanModuleArgs(t, LocalVars).files
           two == ScanCommandCreates(t, LocalVars).files
<1>1. stack # <<>> /\ Top.items # <<>> /\ Top.level = "task" /\ t.kind = "task"
      /\ files' = files \o one \o two /\ world' = world
    BY DEF ManageFiles, Walking
<1>2. c \in Reached(world) /\ t \in OfKind("task")
    BY <1>1, CurrentReached DEF ScanInv, WalkInv, OfKind
<1>3. t.loop \in Seq(STRING)
    <2>1. t.loop \in {i.loop : i \in OfKind("task")}
        BY <1>2
    <2> QED BY <2>1, ScanAssumption
<1>4. ~HasTemplate(t.inline)
    <2>1. c.task = t
        OBVIOUS
    <2> HIDE DEF c, t
    <2>2. ~HasTemplate(c.task.inline)
        BY <1>2 DEF PlainOneLiners, ScanInv, WalkInv
    <2> QED BY <2>1, <2>2
<1>5. Sound(one, t, LocalVars) /\ Sound(two, t, LocalVars)
    BY <1>3, <1>4, ModuleArgsSound, CommandCreatesSound
<1>6. c.task = t /\ c.vars = LocalVars
    OBVIOUS
<1> HIDE DEF one, two, c, t
<1>7. IsSeq(files \o one \o two)
      /\ Elements(files \o one \o two) \subseteq Elements(files) \cup Elements(one) \cup Elements(two)
    <2>1. IsSeq(files \o one) /\ Elements(files \o one) \subseteq Elements(files) \cup Elements(one)
        BY <1>5, ConcatElements DEF ScanInv, Sound
    <2>2. IsSeq((files \o one) \o two)
          /\ Elements((files \o one) \o two) \subseteq Elements(files \o one) \cup Elements(two)
        BY <1>5, <2>1, ConcatElements DEF Sound
    <2> QED BY <2>1, <2>2
<1> DEFINE Managed(file) == \E d \in Reached(world) : \E raw \in RawPaths(d.task) :
                                file \in ManagedPaths(raw, d.vars, d.task.loop) /\ Static(file)
<1>8. \A file \in Elements(files) : Managed(file)
    BY DEF ScanInv, FilesAreManaged, Elements
<1>9. \A file \in Elements(one) \cup Elements(two) : Managed(file)
    BY <1>2, <1>5, <1>6 DEF Sound
<1>10. \A file \in Elements(files') : Managed(file)
    <2> HIDE DEF Managed
    <2> QED BY <1>1, <1>7, <1>8, <1>9
<1>11. \A k \in DOMAIN files' : files'[k] \in Elements(files')
    BY DEF Elements
<1> QED BY <1>1, <1>7, <1>10, <1>11 DEF FilesAreManaged

LEMMA ScanPlaybookStep ==
    ASSUME WalkInv, ScanPlaybook
    PROVE  WalkInv'
<1>1. world \in Worlds /\ world' = world /\ todo # <<>> /\ stack = <<>>
    BY DEF WalkInv, ScanPlaybook
<1>2. /\ IsSeq(Tail(todo)) /\ Elements(Tail(todo)) \subseteq Elements(todo)
      /\ Head(todo) \in Elements(todo)
    BY <1>1, TailElements DEF WalkInv, GivenOnly
<1>3. GivenOnly'
    BY <1>1, <1>2 DEF WalkInv, GivenOnly, ScanPlaybook
<1>4. CASE stack' = stack
    <2>1. IsSeq(<<>>) /\ Elements(<<>>) = {}
        BY DEF IsSeq, Elements
    <2>2. FramesReached'
        BY <1>1, <1>4, <2>1, StackStep
    <2> QED BY <1>1, <1>3, <2>2 DEF WalkInv
<1>5. CASE Readable(world, Head(todo)) /\ stack' = <<Document(Head(todo), NoVars)>>
    <2>1. InFile(world, Head(todo), NoVars) \subseteq Given(world)
        BY <1>2, <1>5 DEF WalkInv, GivenOnly, Given
    <2>2. FrameReached(Document(Head(todo), NoVars))
        BY <1>1, <1>5, <2>1, ReachedClosed, DocumentReached
    <2>3. FramesReached'
        BY <1>1, <1>5, <2>2, SingletonElements, StackStep
    <2> QED BY <1>1, <1>3, <2>3 DEF WalkInv
<1> QED BY <1>4, <1>5 DEF ScanPlaybook

LEMMA FollowIncludeStep ==
    ASSUME WalkInv, FollowInclude
    PROVE  IsSeq(stack') /\ \A f \in Elements(stack') : FrameReached(f)
<1> DEFINE inc == SubstituteVars(Current.include, LocalVars)
           path == IncludeTarget(inc)
           c == Context(Current, Top.vars, Top.dir)
<1>1. /\ stack # <<>> /\ Top.items # <<>> /\ Top.level = "task" /\ Current.kind = "task"
      /\ Current.blocks = <<>> /\ Current.include # <<>>
    BY DEF FollowInclude, Walking
<1>2. CASE stack' = Rest
    BY <1>1, <1>2, RestReached DEF WalkInv
<1>3. CASE /\ ~HasTemplate(inc) /\ Readable(world, path)
           /\ stack' = <<Document(path, LocalVars)>> \o Rest
    <2>1. c \in Reached(world)
          /\ c = [task |-> Current, vars |-> LocalVars, dir |-> Top.dir]
        BY <1>1, CurrentReached DEF WalkInv
    <2>2. IncludePath(c) = inc /\ IncludedFile(c) = path
        BY <2>1 DEF IncludePath, IncludedFile, SubstituteVars, IncludeTarget
    <2>3. Inside(world, c) = InFile(world, path, LocalVars)
        BY <1>1, <1>3, <2>1, <2>2 DEF Inside
    <2>4. InFile(world, path, LocalVars) \subseteq Reached(world)
        BY <2>1, <2>3, ReachedClosed DEF WalkInv
    <2>5. FrameReached(Document(path, LocalVars))
        BY <1>3, <2>4, DocumentReached DEF WalkInv
    <2> QED BY <1>1, <1>3, <2>5, SingletonElements, PushReached DEF WalkInv
<1> QED BY <1>2, <1>3 DEF FollowInclude

LEMMA EnterBlocksStep ==
    ASSUME WalkInv, EnterBlocks
    PROVE  IsSeq(stack') /\ \A f \in Elements(stack') : FrameReached(f)
<1> DEFINE c == [task |-> Current, vars |-> LocalVars, dir |-> Top.dir]
<1>1. /\ stack # <<>> /\ Top.items # <<>> /\ Top.level = "task" /\ Current.kind = "task"
      /\ Current.blocks # <<>>
      /\ stack' = [k \in DOMAIN Current.blocks |->
                      List(Current.blocks[k], LocalVars, Top.dir)] \o Rest
    BY DEF EnterBlocks, Walking
<1>2. c \in Reached(world) /\ Current \in OfKind("task")
    BY <1>1, CurrentReached DEF WalkInv, OfKind
<1>3. Current.blocks \in Seq(Seq(Items))
    <2>1. Current.blocks \in {i.blocks : i \in OfKind("task")}
        BY <1>2
    <2> QED BY <2>1, ScanAssumption
<1>4. \A l \in Elements(Current.blocks) : Contexts(l, LocalVars, Top.dir) \subseteq Reached(world)
    <2>1. Inside(world, c) = UNION {Contexts(l, LocalVars, Top.dir) : l \in Elements(Current.blocks)}
        BY <1>1 DEF Inside
    <2> QED BY <1>2, <2>1, ReachedClosed DEF WalkInv
<1> QED BY <1>1, <1>3, <1>4, ListsReached, PushReached DEF WalkInv

LEMMA ScanPlayStep ==
    ASSUME WalkInv, ScanPlay
    PROVE  IsSeq(stack') /\ \A f \in Elements(stack') : FrameReached(f)
<1> DEFINE bound == MergeVars(Top.vars, PlayVarsOf(Current, Top.dir))
<1>1. /\ stack # <<>> /\ Top.items # <<>> /\ Top.level = "play" /\ Current.kind = "play"
      /\ stack' = [k \in DOMAIN Current.sections |->
                      List(Current.sections[k], bound, Top.dir)] \o Rest
    BY DEF ScanPlay, Walking
<1>2. PlayReached(Current, Top.vars, Top.dir) /\ Current \in OfKind("play")
    BY <1>1, CurrentReached DEF WalkInv, OfKind
<1>3. Current.sections \in Seq(Seq(Items))
    <2>1. Current.sections \in {i.sections : i \in OfKind("play")}
        BY <1>2
    <2> QED BY <2>1, ScanAssumption
<1>4. \A l \in Elements(Current.sections) : Contexts(l, bound, Top.dir) \subseteq Reached(world)
    BY <1>2 DEF PlayReached, MergeVars, PlayVarsOf
<1> QED BY <1>1, <1>3, <1>4, ListsReached, PushReached DEF WalkInv

LEMMA ScanInvInit == ScanInit => ScanInv
<1> SUFFICES ASSUME ScanInit PROVE ScanInv
    OBVIOUS
<1>1. world \in Worlds /\ todo = world.playbooks
    BY DEF ScanInit
<1>2. world.playbooks \in Seq(Seq(STRING))
    BY <1>1, ScanAssumption
<1>3. IsSeq(<<>>) /\ Elements(<<>>) = {}
    BY DEF IsSeq, Elements
<1> QED BY <1>1, <1>2, <1>3, SeqElements DEF ScanInit, ScanInv, WalkInv, GivenOnly,
           FramesReached, FilesAreManaged

LEMMA WalkInvStep ==
    ASSUME WalkInv, [Scanning \/ ScanEnded]_scanVars
    PROVE  WalkInv'
<1>1. CASE ScanPlaybook
    BY <1>1, ScanPlaybookStep
<1> DEFINE Walks == /\ world' = world /\ todo' = todo
                    /\ IsSeq(stack') /\ \A f \in Elements(stack') : FrameReached(f)
<1>2. Walks => WalkInv'
    BY StackStep DEF WalkInv, GivenOnly
<1>3. CASE ScanPlay
    BY <1>2, <1>3, ScanPlayStep DEF ScanPlay
<1>4. CASE EnterBlocks
    BY <1>2, <1>4, EnterBlocksStep DEF EnterBlocks
<1>5. CASE FollowInclude
    BY <1>2, <1>5, FollowIncludeStep DEF FollowInclude
<1>6. CASE ManageFiles
    BY <1>2, <1>6, RestReached DEF ManageFiles, Walking, WalkInv
<1>7. CASE SkipItem
    BY <1>2, <1>7, RestReached DEF SkipItem, Walking, WalkInv
<1>8. CASE LeaveList
    BY <1>2, <1>8, TailElements DEF LeaveList, WalkInv, FramesReached
<1>9. CASE Return \/ ScanEnded \/ UNCHANGED scanVars
    BY <1>2, <1>9 DEF Return, ScanEnded, scanVars, WalkInv, FramesReached
<1> QED BY <1>1, <1>3, <1>4, <1>5, <1>6, <1>7, <1>8, <1>9 DEF Scanning

LEMMA ScanInvStep ==
    ASSUME PlainOneLiners, ScanInv, [Scanning \/ ScanEnded]_scanVars
    PROVE  ScanInv'
<1>1. WalkInv'
    BY WalkInvStep DEF ScanInv
<1>2. CASE ManageFiles
    BY <1>1, <1>2, ManageFilesStep DEF ScanInv
<1>3. CASE files' = files /\ world' = world
    BY <1>1, <1>3, FilesStep DEF ScanInv
<1>4. CASE files' = <<>>
    BY <1>1, <1>4 DEF ScanInv, IsSeq, FilesAreManaged
<1>5. ManageFiles \/ (files' = files /\ world' = world) \/ files' = <<>>
    BY DEF Scanning, ScanEnded, scanVars, ScanPlaybook, ScanPlay, EnterBlocks, FollowInclude,
       SkipItem, LeaveList, Return
<1> QED BY <1>2, <1>3, <1>4, <1>5

(* Whatever the playbooks, the bindings, the includes and their cycles: the*)
(* scanner lists no path that they do not manage under the bindings of one *)
(* of the ways their tasks are reached.                                    *)
THEOREM ListedAreManaged ==
    ASSUME PlainOneLiners
    PROVE  ScanSpec => []FilesAreManaged
<1>1. ScanInit => ScanInv
    BY ScanInvInit
<1>2. ScanInv /\ [Scanning \/ ScanEnded]_scanVars => ScanInv'
    BY ScanInvStep
<1>3. ScanInv => FilesAreManaged
    BY DEF ScanInv
<1> QED BY <1>1, <1>2, <1>3, PTL DEF ScanSpec
=============================================================================
