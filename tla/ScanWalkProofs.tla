--------------------------- MODULE ScanWalkProofs ---------------------------
(***************************************************************************)
(* The walk of the scanner passes over nothing that the playbooks reach,   *)
(* and nests no deeper than the files it has opened account for.           *)
(*                                                                         *)
(* What is reached is a recursion over the naturals, so its least-ness is  *)
(* proved by induction; the induction theorems of the library take an      *)
(* operator, and SetInduction states the same of a set of numbers.         *)
(***************************************************************************)
EXTENDS ScanProofs, FiniteSetTheorems, WellFoundedInduction

(* A set of numbers that holds 0 and each successor holds them all.        *)
LEMMA SetInduction ==
    ASSUME NEW S, 0 \in S, \A n \in Nat : n \in S => n + 1 \in S
    PROVE  Nat \subseteq S
<1> DEFINE R == OpToRel(<, Nat)
           T == Nat \ S
<1>1. IsWellFoundedOn(R, Nat)
    BY NatLessThanWellFounded
<1>2. \A m, n \in Nat : m < n => <<m, n>> \in R
    BY DEF OpToRel
<1>3. T \subseteq Nat
    OBVIOUS
<1>4. CASE T # {}
    <2> HIDE DEF R, T
    <2>1. PICK x \in T : \A y \in T : ~(<<y, x>> \in R)
        BY <1>1, <1>3, <1>4, WFMin
    <2>2. x \in Nat /\ x \notin S
        BY <2>1 DEF T
    <2>3. x # 0 /\ x - 1 \in Nat /\ x - 1 < x /\ (x - 1) + 1 = x
        BY <2>2
    <2>4. x - 1 \in T
        BY <2>2, <2>3 DEF T
    <2> QED BY <1>2, <2>1, <2>2, <2>3, <2>4
<1>5. CASE T = {}
    BY <1>5
<1> QED BY <1>4, <1>5

-----------------------------------------------------------------------------
(* The contexts of w reached in one step more; ReachedUpTo holds of the    *)
(* first n values of the recursion in ReachedIn.                           *)
Further(w, S) == S \cup UNION {Inside(w, c) : c \in S}
ReachedUpTo(w, n, f) ==
    f = [k \in 0..n |-> IF k = 0 THEN Given(w) ELSE Further(w, f[k - 1])]

LEMMA ReachedUpToOnce ==
    ASSUME NEW w, NEW m \in Nat, NEW n \in Nat, NEW f, NEW g,
           ReachedUpTo(w, m, f), ReachedUpTo(w, n, g)
    PROVE  \A k \in 0..m : k <= n => f[k] = g[k]
<1> DEFINE S == {k \in Nat : k <= m /\ k <= n => f[k] = g[k]}
<1>1. 0 \in S
    BY DEF ReachedUpTo
<1>2. ASSUME NEW k \in Nat, k \in S
      PROVE  k + 1 \in S
    <2>1. CASE k + 1 <= m /\ k + 1 <= n
        <3>1. k + 1 # 0 /\ (k + 1) - 1 = k /\ k + 1 \in 0..m /\ k + 1 \in 0..n
            BY <2>1
        <3>2. f[k + 1] = Further(w, f[k]) /\ g[k + 1] = Further(w, g[k])
            BY <3>1 DEF ReachedUpTo
        <3> QED BY <1>2, <2>1, <3>2
    <2>2. CASE ~(k + 1 <= m /\ k + 1 <= n)
        BY <2>2
    <2> QED BY <2>1, <2>2
<1> HIDE DEF S
<1>3. Nat \subseteq S
    BY <1>1, <1>2, SetInduction
<1> QED BY <1>3 DEF S

LEMMA ReachedUpToEach ==
    ASSUME NEW w
    PROVE  \A n \in Nat : \E f : ReachedUpTo(w, n, f)
<1> DEFINE S == {n \in Nat : \E f : ReachedUpTo(w, n, f)}
<1>1. 0 \in S
    <2> DEFINE f == [k \in 0..0 |-> Given(w)]
    <2>1. ReachedUpTo(w, 0, f)
        BY DEF ReachedUpTo
    <2> QED BY <2>1
<1>2. ASSUME NEW n \in Nat, n \in S
      PROVE  n + 1 \in S
    <2>1. PICK f : ReachedUpTo(w, n, f)
        BY <1>2
    <2> DEFINE g == [k \in 0..(n + 1) |-> IF k = n + 1 THEN Further(w, f[n]) ELSE f[k]]
    <2>2. ASSUME NEW k \in 0..(n + 1)
          PROVE  g[k] = IF k = 0 THEN Given(w) ELSE Further(w, g[k - 1])
        <3>1. CASE k = n + 1
            BY <3>1
        <3>2. CASE k # n + 1
            <4>1. k \in 0..n /\ g[k] = f[k]
                BY <3>2
            <4>2. k # 0 => k - 1 \in 0..n /\ g[k - 1] = f[k - 1]
                BY <4>1
            <4>3. f[k] = IF k = 0 THEN Given(w) ELSE Further(w, f[k - 1])
                BY <2>1, <4>1 DEF ReachedUpTo
            <4> QED BY <4>1, <4>2, <4>3
        <3> QED BY <3>1, <3>2
    <2>3. g = [k \in 0..(n + 1) |-> g[k]]
        OBVIOUS
    <2> HIDE DEF g
    <2>4. ReachedUpTo(w, n + 1, g)
        BY <2>2, <2>3 DEF ReachedUpTo
    <2> QED BY <2>4
<1> HIDE DEF S
<1>3. Nat \subseteq S
    BY <1>1, <1>2, SetInduction
<1> QED BY <1>3 DEF S

(* So the recursion in ReachedIn has a solution, and ReachedIn is one.     *)
LEMMA ReachedInRecursion ==
    ASSUME NEW w
    PROVE  ReachedIn(w) = [n \in Nat |-> IF n = 0 THEN Given(w)
                                         ELSE Further(w, ReachedIn(w)[n - 1])]
<1> DEFINE Rec(r) == r = [n \in Nat |-> IF n = 0 THEN Given(w) ELSE Further(w, r[n - 1])]
           upTo(n) == CHOOSE f : ReachedUpTo(w, n, f)
           all == [n \in Nat |-> upTo(n)[n]]
<1>1. \A n \in Nat : ReachedUpTo(w, n, upTo(n))
    BY ReachedUpToEach
<1> HIDE DEF upTo
<1>2. ASSUME NEW n \in Nat
      PROVE  all[n] = IF n = 0 THEN Given(w) ELSE Further(w, all[n - 1])
    <2>1. upTo(n)[n] = IF n = 0 THEN Given(w) ELSE Further(w, upTo(n)[n - 1])
        BY <1>1 DEF ReachedUpTo
    <2>2. CASE n # 0
        <3>1. n - 1 \in Nat /\ n - 1 \in 0..n /\ n - 1 <= n - 1
            BY <2>2
        <3>2. upTo(n)[n - 1] = upTo(n - 1)[n - 1]
            BY <1>1, <3>1, ReachedUpToOnce
        <3> QED BY <2>1, <2>2, <3>1, <3>2
    <2>3. CASE n = 0
        BY <2>1, <2>3
    <2> QED BY <2>2, <2>3
<1>3. all = [n \in Nat |-> all[n]]
    OBVIOUS
<1> HIDE DEF all
<1>4. Rec(all)
    BY <1>2, <1>3
<1>5. ReachedIn(w) = CHOOSE r : Rec(r)
    BY DEF ReachedIn, Further
<1> HIDE DEF Rec
<1>6. Rec(ReachedIn(w))
    BY <1>4, <1>5
<1> QED BY <1>6 DEF Rec

(* What is reached is in every set that is closed under the ways of        *)
(* reaching.                                                               *)
LEMMA ReachedLeast ==
    ASSUME NEW w, NEW S, Closed(w, S)
    PROVE  Reached(w) \subseteq S
<1> DEFINE T == {n \in Nat : ReachedIn(w)[n] \subseteq S}
<1>1. ReachedIn(w)[0] = Given(w)
      /\ \A n \in Nat : ReachedIn(w)[n + 1] = Further(w, ReachedIn(w)[n])
    <2> DEFINE r == ReachedIn(w)
    <2>1. r = [n \in Nat |-> IF n = 0 THEN Given(w) ELSE Further(w, r[n - 1])]
        BY ReachedInRecursion
    <2> HIDE DEF r
    <2>2. r[0] = Given(w) /\ \A n \in Nat : r[n + 1] = Further(w, r[n])
        BY <2>1
    <2> QED BY <2>2 DEF r
<1>2. 0 \in T
    BY <1>1 DEF Closed
<1>3. ASSUME NEW n \in Nat, n \in T
      PROVE  n + 1 \in T
    <2>1. Further(w, ReachedIn(w)[n]) \subseteq S
        BY <1>3 DEF Further, Closed
    <2> QED BY <1>1, <2>1
<1> HIDE DEF T
<1>4. Nat \subseteq T
    BY <1>2, <1>3, SetInduction
<1>5. Depth \in Nat
    BY ScanAssumption
<1> QED BY <1>4, <1>5 DEF T, Reached

-----------------------------------------------------------------------------
(* Nothing of a task is dropped: scanModuleArgs and scanCommandCreates list*)
(* each of its paths, or warn of the task, if they know its form.          *)
Known(t) ==
    /\ t.mod # "unarchive"
    /\ t.mod \in Commands => ~Has(t, "creates") /\ ~Has(t, "removes")

Tells(out, t) == \E told \in out.warnings : told.task = t.name
Covers(out, t, raw, bound) ==
    ManagedPaths(raw, bound, t.loop) \subseteq Elements(out.files) \/ Tells(out, t)

LEMMA ConcatKeeps ==
    ASSUME NEW s, NEW t, IsSeq(s), IsSeq(t)
    PROVE  Elements(s) \cup Elements(t) \subseteq Elements(s \o t)
<1>1. s \in Seq(Elements(s) \cup Elements(t)) /\ t \in Seq(Elements(s) \cup Elements(t))
    BY DEF IsSeq
<1>2. ASSUME NEW k \in DOMAIN s
      PROVE  k \in DOMAIN (s \o t) /\ (s \o t)[k] = s[k]
    BY <1>1
<1>3. ASSUME NEW k \in DOMAIN t
      PROVE  Len(s) + k \in DOMAIN (s \o t) /\ (s \o t)[Len(s) + k] = t[k]
    BY <1>1
<1> QED BY <1>2, <1>3 DEF Elements

LEMMA ExpandPathComplete ==
    ASSUME NEW raw, NEW bound, NEW loop \in Seq(STRING),
           ExpandPath(raw, bound, loop) # Unresolved
    PROVE  ManagedPaths(raw, bound, loop) \subseteq Elements(ExpandPath(raw, bound, loop))
<1> DEFINE sub == SubstituteVars(raw, bound)
           At(item) == [i \in DOMAIN sub |-> IF sub[i] = Item THEN item ELSE sub[i]]
<1>1. DOMAIN sub = DOMAIN raw
    BY DEF SubstituteVars
<1>2. ASSUME NEW item
      PROVE  At(item) = [i \in DOMAIN raw |-> ValueAt(raw[i], bound, item)]
    BY <1>1 DEF ValueAt, SubstituteVars
<1>3. \A file \in ManagedPaths(raw, bound, loop) :
          \E item \in IF loop = <<>> THEN {Item} ELSE Elements(loop) : file = At(item)
    <2> HIDE DEF At
    <2> QED BY <1>2 DEF ManagedPaths
<1>4. CASE \A i \in DOMAIN sub : sub[i] # Item
    <2>1. ExpandPath(raw, bound, loop) = <<sub>>
        BY <1>4 DEF ExpandPath, Unresolved
    <2>2. sub \in Elements(<<sub>>)
        BY SingletonElements
    <2>3. \A item : sub = At(item)
        BY <1>4 DEF SubstituteVars
    <2> QED BY <1>3, <2>1, <2>2, <2>3
<1>5. CASE ~(\A i \in DOMAIN sub : sub[i] # Item)
    <2> DEFINE all == [k \in DOMAIN loop |-> At(loop[k])]
    <2>1. ExpandPath(raw, bound, loop) =
              IF \A k \in DOMAIN loop : Static(At(loop[k])) THEN all ELSE <<>>
        BY <1>5 DEF ExpandPath, Unresolved
    <2>2. Elements(all) = {At(loop[k]) : k \in DOMAIN loop}
        BY DEF Elements
    <2>3. loop = <<>> => all = <<>>
        OBVIOUS
    <2> HIDE DEF At, all
    <2>4. ExpandPath(raw, bound, loop) = all /\ loop # <<>>
        BY <2>1, <2>3 DEF Unresolved
    <2> QED BY <1>3, <2>2, <2>4 DEF Elements
<1> QED BY <1>4, <1>5

LEMMA CollectCovers ==
    ASSUME NEW t, t.loop \in Seq(STRING), NEW bound, NEW raw, raw # <<>>
    PROVE  Covers(Collect(t, raw, bound), t, raw, bound)
<1>1. CASE ExpandPath(raw, bound, t.loop) = Unresolved
    BY <1>1 DEF Collect, Warn, Covers, Tells
<1>2. CASE ExpandPath(raw, bound, t.loop) # Unresolved
    BY <1>2, ExpandPathComplete DEF Collect, Covers
<1> QED BY <1>1, <1>2

LEMMA RawIsPathArg ==
    ASSUME NEW t, t.mod \in DOMAIN FileModuleArgs, NEW raw \in RawPaths(t)
    PROVE  raw = PathArg(t) /\ raw # <<>>
<1> DEFINE keys == FileModuleArgs[t.mod]
           present == {k \in DOMAIN keys : Has(t, keys[k])}
<1>0. t.mod \notin Commands
    BY DEF FileModuleArgs, Commands
<1>1. CASE t.mod \in {"template", "copy", "assemble", "get_url"}
    <2>1. keys = <<"dest">> /\ t.mod \in TakesDest /\ t.mod \notin TakesPath
        BY <1>1 DEF FileModuleArgs, TakesDest, TakesPath
    <2>2. Has(t, "dest") /\ raw = t.args["dest"]
        BY <1>0, <2>1 DEF RawPaths
    <2>3. present = {1}
        BY <2>1, <2>2
    <2>4. (CHOOSE k \in {1} : \A j \in {1} : k <= j) = 1
        OBVIOUS
    <2> QED BY <2>1, <2>2, <2>3, <2>4 DEF PathArg, Has
<1>2. CASE t.mod \in {"file", "lineinfile", "blockinfile"}
    <2>1. keys = <<"path", "dest">> /\ t.mod \in TakesDest /\ t.mod \in TakesPath
        BY <1>2 DEF FileModuleArgs, TakesDest, TakesPath
    <2>2. /\ present \subseteq {1, 2}
          /\ 1 \in present <=> Has(t, "path")
          /\ 2 \in present <=> Has(t, "dest")
        BY <2>1
    <2>3. 1 \in present => (CHOOSE k \in present : \A j \in present : k <= j) = 1
        BY <2>2
    <2>4. present = {2} => (CHOOSE k \in present : \A j \in present : k <= j) = 2
        OBVIOUS
    <2>5. CASE Has(t, "path")
        <3>1. raw = t.args["path"]
            BY <1>0, <2>1, <2>5 DEF RawPaths
        <3>2. PathArg(t) = t.args["path"]
            BY <2>1, <2>2, <2>3, <2>5 DEF PathArg
        <3> QED BY <2>5, <3>1, <3>2 DEF Has
    <2>6. CASE ~Has(t, "path")
        <3>1. Has(t, "dest") /\ raw = t.args["dest"]
            BY <1>0, <2>1, <2>6 DEF RawPaths
        <3>2. present = {2}
            BY <2>2, <2>6, <3>1
        <3>3. PathArg(t) = t.args["dest"]
            BY <2>1, <2>4, <3>2 DEF PathArg
        <3> QED BY <3>1, <3>3 DEF Has
    <2> QED BY <2>5, <2>6
<1>3. t.mod \in {"template", "copy", "assemble", "get_url"}
         \cup {"file", "lineinfile", "blockinfile"}
    BY DEF FileModuleArgs
<1> QED BY <1>1, <1>2, <1>3

LEMMA ModuleArgsCover ==
    ASSUME NEW t, t.loop \in Seq(STRING), NEW bound,
           t.mod # "unarchive", t.mod \notin Commands
    PROVE  LET out == ScanModuleArgs(t, bound)
           IN  /\ \A raw \in RawPaths(t) : Covers(out, t, raw, bound)
               /\ Untrackable(t) => Tells(out, t)
<1> DEFINE out == ScanModuleArgs(t, bound)
<1>1. CASE t.mod \notin DOMAIN FileModuleArgs
    <2>1. t.mod \notin TakesDest \cup TakesPath
        BY <1>1 DEF FileModuleArgs, TakesDest, TakesPath
    <2>2. RawPaths(t) = {} /\ t.mod # "file" /\ t.mod # "get_url"
        BY <2>1 DEF RawPaths, TakesDest, TakesPath
    <2> QED BY <2>1, <2>2 DEF Untrackable
<1>2. CASE t.mod \in DOMAIN FileModuleArgs
    <2>1. CASE \E about : out = Warn(t, about)
        <3>1. PICK about : out = Warn(t, about)
            BY <2>1
        <3>2. Tells(Warn(t, about), t)
            BY DEF Warn, Tells
        <3> QED BY <3>1, <3>2 DEF Covers
    <2>2. CASE ~(\E about : out = Warn(t, about))
        <3>1. t.mapping
            BY <1>2, <2>2 DEF ScanModuleArgs
        <3>2. ~(t.mod = "file" /\ t.state = "absent")
            BY <1>2, <2>2, <3>1 DEF ScanModuleArgs
        <3> DEFINE raw == PathArg(t)
        <3>3. ~(raw # <<>> /\ raw[Len(raw)] = "/" /\ t.mod = "get_url")
            BY <1>2, <2>2, <3>1, <3>2 DEF ScanModuleArgs
        <3>4. out = Collect(t, raw, bound)
            BY <1>2, <3>1, <3>2, <3>3 DEF ScanModuleArgs
        <3>5. \A r \in RawPaths(t) : Covers(out, t, r, bound)
            BY <1>2, <3>4, RawIsPathArg, CollectCovers
        <3>6. ~Untrackable(t)
            BY <1>2, <3>1, <3>2, <3>3, RawIsPathArg DEF Untrackable
        <3> QED BY <3>5, <3>6
    <2> QED BY <2>1, <2>2
<1> QED BY <1>1, <1>2

LEMMA CommandCreatesCover ==
    ASSUME NEW t, t.loop \in Seq(STRING), NEW bound, ~HasTemplate(t.inline),
           t.mod \in Commands, ~Has(t, "creates"), ~Has(t, "removes")
    PROVE  LET out == ScanCommandCreates(t, bound)
           IN  /\ \A raw \in RawPaths(t) : Covers(out, t, raw, bound)
               /\ Untrackable(t) => Tells(out, t)
<1> DEFINE out == ScanCommandCreates(t, bound)
           own == Collect(t, t.creates, bound)
           one == Collect(t, t.inline, bound)
           gone == IF t.removes = <<>> THEN Nothing ELSE Warn(t, <<"removes">>)
<1>1. t.mod \notin TakesDest /\ t.mod \notin TakesPath /\ t.mod # "file"
      /\ t.mod # "unarchive" /\ t.mod # "get_url"
    BY DEF Commands, TakesDest, TakesPath
<1>2. RawPaths(t) = {t.creates, t.inline} \ {<<>>}
    BY <1>1 DEF RawPaths, Has
<1>3. OneLiner(t.inline) = t.inline
    BY DEF OneLiner
<1>4. /\ out.files = own.files \o one.files
      /\ out.warnings = own.warnings \cup one.warnings \cup gone.warnings
    BY <1>3 DEF ScanCommandCreates, Commands
<1>5. t.creates = <<>> \/ t.creates \in RawPaths(t)
    BY <1>2
<1>6. t.inline = <<>> \/ t.inline \in RawPaths(t)
    BY <1>2
<1>7. IsSeq(own.files) /\ IsSeq(one.files)
    BY <1>5, <1>6, CollectSound DEF Sound
<1>8. Elements(own.files) \cup Elements(one.files) \subseteq Elements(out.files)
    <2> HIDE DEF own, one, out
    <2> QED BY <1>4, <1>7, ConcatKeeps
<1>9. ASSUME NEW raw \in RawPaths(t)
      PROVE  Covers(out, t, raw, bound)
    <2>1. CASE raw = t.creates
        <3>1. Covers(own, t, raw, bound)
            BY <1>2, <2>1, CollectCovers
        <3> HIDE DEF own, one, out, gone
        <3> QED BY <1>4, <1>8, <3>1 DEF Covers, Tells
    <2>2. CASE raw = t.inline
        <3>1. Covers(one, t, raw, bound)
            BY <1>2, <2>2, CollectCovers
        <3> HIDE DEF own, one, out, gone
        <3> QED BY <1>4, <1>8, <3>1 DEF Covers, Tells
    <2> QED BY <1>2, <2>1, <2>2
<1>10. Untrackable(t) => Tells(out, t)
    <2>1. Untrackable(t) => t.removes # <<>>
        BY <1>1 DEF Untrackable
    <2>2. t.removes # <<>> => Tells(gone, t)
        BY DEF Tells, Warn
    <2> HIDE DEF own, one, out, gone
    <2> QED BY <1>4, <2>1, <2>2 DEF Tells
<1> QED BY <1>9, <1>10

LEMMA TaskCovered ==
    ASSUME NEW t, t.loop \in Seq(STRING), NEW bound, ~HasTemplate(t.inline), Known(t)
    PROVE  LET one == ScanModuleArgs(t, bound)
               two == ScanCommandCreates(t, bound)
           IN  /\ \A raw \in RawPaths(t) :
                     Covers(one, t, raw, bound) \/ Covers(two, t, raw, bound)
               /\ Untrackable(t) => Tells(one, t) \/ Tells(two, t)
<1>1. CASE t.mod \in Commands
    BY <1>1, CommandCreatesCover DEF Known
<1>2. CASE t.mod \notin Commands
    BY <1>2, ModuleArgsCover DEF Known
<1> QED BY <1>1, <1>2

-----------------------------------------------------------------------------
(* What accounts for a task does not depend on its bindings, so that a task*)
(* is known here by itself and the directory it is walked under.  Ahead and*)
(* Owed are the tasks that lists of the stack have still to reach.         *)
Key(c) == [task |-> c.task, dir |-> c.dir]
Keys(S) == {Key(c) : c \in S}
Tasks(items) == {t \in Elements(items) : t.kind = "task"}
TasksAhead(level, items) ==
    IF level = "task" THEN Tasks(items)
    ELSE UNION {UNION {Tasks(section) : section \in Elements(play.sections)} :
                   play \in {play \in Elements(items) : play.kind = "play"}}
Under(dir, tasks) == {[task |-> t, dir |-> dir] : t \in tasks}
Ahead(f) == Under(f.dir, TasksAhead(f.level, f.items))
Owed(frames) == UNION {Ahead(f) : f \in Elements(frames)}

LEMMA HeadAndTail ==
    ASSUME NEW s, IsSeq(s), s # <<>>
    PROVE  Elements(s) = {s[1]} \cup Elements(Tail(s))
<1>1. s \in Seq(Elements(s)) /\ Len(s) \in Nat /\ Len(s) >= 1 /\ DOMAIN s = 1..Len(s)
    BY DEF IsSeq
<1>2. DOMAIN Tail(s) = 1..(Len(s) - 1) /\ \A k \in 1..(Len(s) - 1) : Tail(s)[k] = s[k + 1]
    BY <1>1
<1>3. \A k \in DOMAIN s : k = 1 \/ (k - 1 \in DOMAIN Tail(s) /\ Tail(s)[k - 1] = s[k])
    BY <1>1, <1>2
<1>4. Elements(Tail(s)) \subseteq Elements(s) /\ s[1] \in Elements(s)
    BY TailElements
<1>5. Elements(s) \subseteq {s[1]} \cup Elements(Tail(s))
    BY <1>3 DEF Elements
<1> QED BY <1>4, <1>5

LEMMA OwedTogether ==
    ASSUME NEW s, NEW t, IsSeq(s), IsSeq(t)
    PROVE  Owed(s) \cup Owed(t) \subseteq Owed(s \o t)
    BY ConcatKeeps DEF Owed

LEMMA NothingOwed == Owed(<<>>) = {}
    BY DEF Owed, Elements

LEMMA OwedByOne ==
    ASSUME NEW f
    PROVE  Owed(<<f>>) = Ahead(f)
<1>1. Owed(<<f>>) = UNION {Ahead(g) : g \in {f}}
    BY SingletonElements DEF Owed
<1> QED BY <1>1

LEMMA AheadSplit ==
    ASSUME NEW level, NEW items, IsSeq(items), items # <<>>
    PROVE  TasksAhead(level, items)
               \subseteq TasksAhead(level, <<items[1]>>) \cup TasksAhead(level, Tail(items))
<1>1. Elements(items) = {items[1]} \cup Elements(Tail(items))
    BY HeadAndTail
<1>2. Elements(<<items[1]>>) = {items[1]}
    BY SingletonElements
<1> QED BY <1>1, <1>2 DEF TasksAhead, Tasks

(* A step over the current item leaves all others ahead.                   *)
LEMMA Coming ==
    ASSUME FramesReached, stack # <<>>, Top.items # <<>>
    PROVE  /\ Owed(stack) \subseteq
                 Under(Top.dir, TasksAhead(Top.level, <<Current>>)) \cup Owed(Rest)
           /\ Elements(<<Current>>) = {Current}
<1> DEFINE top == [Top EXCEPT !.items = Tail(@)]
<1>1. FrameReached(Top) /\ Top.items \in Seq(Items) /\ IsSeq(Top.items)
    BY TopReached, SeqElements
<1>2. top.items = Tail(Top.items) /\ top.level = Top.level /\ top.dir = Top.dir
    BY <1>1 DEF FrameReached
<1>3. Elements(stack) = {Top} \cup Elements(Tail(stack)) /\ IsSeq(Tail(stack))
    BY HeadAndTail, TailElements DEF Top, FramesReached
<1>4. Rest = <<top>> \o Tail(stack)
    BY DEF Rest
<1> HIDE DEF top
<1>5. Ahead(top) \cup Owed(Tail(stack)) \subseteq Owed(Rest)
    <2>1. IsSeq(<<top>>) /\ Owed(<<top>>) = Ahead(top)
        BY SingletonElements, OwedByOne
    <2> QED BY <1>3, <1>4, <2>1, OwedTogether
<1>6. Ahead(Top) \subseteq Under(Top.dir, TasksAhead(Top.level, <<Current>>)) \cup Ahead(top)
    <2>1. TasksAhead(Top.level, Top.items)
             \subseteq TasksAhead(Top.level, <<Current>>) \cup TasksAhead(Top.level, top.items)
        BY <1>1, <1>2, AheadSplit DEF Current
    <2> QED BY <1>2, <2>1 DEF Ahead, Under
<1>7. Owed(stack) \subseteq Ahead(Top) \cup Owed(Tail(stack))
    BY <1>3 DEF Owed
<1> QED BY <1>5, <1>6, <1>7, SingletonElements

LEMMA OwedOfLists ==
    ASSUME NEW lists \in Seq(Seq(Items)), NEW bound, NEW dir
    PROVE  LET new == [k \in DOMAIN lists |-> List(lists[k], bound, dir)]
           IN  /\ IsSeq(new)
               /\ \A l \in Elements(lists) : Under(dir, Tasks(l)) \subseteq Owed(new)
<1> DEFINE new == [k \in 1..Len(lists) |-> List(lists[k], bound, dir)]
<1>1. IsSeq(new)
    <2>1. new = [k \in 1..Len(lists) |-> new[k]] /\ Len(lists) \in Nat
        OBVIOUS
    <2> HIDE DEF new
    <2> QED BY <2>1, FunctionIsSeq
<1>2. ASSUME NEW l \in Elements(lists)
      PROVE  Under(dir, Tasks(l)) \subseteq Owed(new)
    <2>0. DOMAIN lists = 1..Len(lists)
        OBVIOUS
    <2>1. PICK k \in 1..Len(lists) : l = lists[k]
        BY <2>0 DEF Elements
    <2>2. new[k] \in Elements(new) /\ new[k] = List(l, bound, dir)
        BY <2>1 DEF Elements
    <2>3. Ahead(List(l, bound, dir)) = Under(dir, Tasks(l))
        BY DEF Ahead, List, TasksAhead
    <2> HIDE DEF new
    <2> QED BY <2>2, <2>3 DEF Owed
<1>3. [k \in DOMAIN lists |-> List(lists[k], bound, dir)] = new
    OBVIOUS
<1> QED BY <1>1, <1>2, <1>3

(* The keys of what a list and a file hold.                                *)
LEMMA KeysOfList ==
    ASSUME NEW items, NEW bound, NEW dir
    PROVE  Keys(Contexts(items, bound, dir)) = Under(dir, Tasks(items))
<1>1. ASSUME NEW t
      PROVE  Key(Context(t, bound, dir)) = [task |-> t, dir |-> dir]
    BY DEF Key, Context
<1> QED BY <1>1 DEF Keys, Contexts, Under, Tasks

LEMMA KeysOfFile ==
    ASSUME NEW path, NEW bound, BeginsWithItsSort(world.docs[path])
    PROVE  /\ Keys(InFile(world, path, bound)) = Ahead(Document(path, NoVars))
           /\ Ahead(Document(path, bound)) = Ahead(Document(path, NoVars))
<1> DEFINE doc == world.docs[path]  dir == Dir(path)
           level == IF ReadsAsTasks(doc) THEN "task" ELSE "play"
<1>1. \A b : Ahead(Document(path, b)) = Under(dir, TasksAhead(level, doc.items))
    BY DEF Ahead, Document
<1>2. CASE ReadsAsTasks(doc)
    <2>1. Plays(doc) = {}
        BY <1>2 DEF ReadsAsTasks, Plays, BeginsWithItsSort
    <2>2. InFile(world, path, bound) = Contexts(doc.items, bound, dir)
        BY <2>1 DEF InFile
    <2> QED BY <1>1, <1>2, <2>2, KeysOfList DEF TasksAhead
<1>3. CASE ~ReadsAsTasks(doc)
    <2> DEFINE plays == Plays(doc)
               In(play, section) ==
                   Contexts(section, Within(bound, LastBinding(PlayScopes(world, play, dir))), dir)
    <2>0. Contexts(doc.items, bound, dir) = {}
        <3>1. doc.items = <<>> => Elements(doc.items) = {}
            BY DEF Elements
        <3> QED BY <1>3, <3>1 DEF ReadsAsTasks, Contexts, BeginsWithItsSort
    <2>1. InFile(world, path, bound)
              = UNION {UNION {In(play, section) : section \in Elements(play.sections)} : play \in plays}
        BY <2>0 DEF InFile
    <2>2. \A play, section : Keys(In(play, section)) = Under(dir, Tasks(section))
        BY KeysOfList
    <2> HIDE DEF In
    <2>3. ASSUME NEW key
          PROVE  key \in Keys(InFile(world, path, bound)) <=>
                     \E play \in plays : \E section \in Elements(play.sections) :
                         key \in Keys(In(play, section))
        BY <2>1 DEF Keys
    <2>4. TasksAhead(level, doc.items)
              = UNION {UNION {Tasks(section) : section \in Elements(play.sections)} : play \in plays}
        BY <1>3 DEF TasksAhead, Plays
    <2>5. ASSUME NEW key
          PROVE  key \in Under(dir, TasksAhead(level, doc.items)) <=>
                     \E play \in plays : \E section \in Elements(play.sections) :
                         key \in Under(dir, Tasks(section))
        BY <2>4 DEF Under
    <2>6. Keys(InFile(world, path, bound)) = Under(dir, TasksAhead(level, doc.items))
        <3> HIDE DEF plays, level, doc, dir
        <3>1. ASSUME NEW key
              PROVE  key \in Keys(InFile(world, path, bound))
                         <=> key \in Under(dir, TasksAhead(level, doc.items))
            <4>1. \A play, section : key \in Keys(In(play, section))
                                         <=> key \in Under(dir, Tasks(section))
                BY <2>2
            <4> QED BY <2>3, <2>5, <4>1
        <3> QED BY <3>1
    <2> QED BY <1>1, <2>6
<1> QED BY <1>2, <1>3

(* What is inside a task, where its include names the same file.           *)
LEMMA KeysInside ==
    ASSUME NEW c, NEW d, Key(c) = Key(d), IncludePath(c) = IncludePath(d),
           Legible(world)
    PROVE  Keys(Inside(world, c)) = Keys(Inside(world, d))
<1>1. c.task = d.task /\ c.dir = d.dir /\ IncludedFile(c) = IncludedFile(d)
    BY DEF Key, IncludedFile
<1>2. CASE c.task.blocks # <<>>
    <2>1. ASSUME NEW e, e.task = c.task, e.dir = c.dir
          PROVE  Keys(Inside(world, e))
                     = UNION {Under(c.dir, Tasks(list)) : list \in Elements(c.task.blocks)}
        <3>1. Inside(world, e) = UNION {Contexts(list, e.vars, c.dir) :
                                            list \in Elements(c.task.blocks)}
            BY <1>2, <2>1 DEF Inside
        <3>2. \A list : Keys(Contexts(list, e.vars, c.dir)) = Under(c.dir, Tasks(list))
            BY KeysOfList
        <3> QED BY <3>1, <3>2 DEF Keys
    <2> QED BY <1>1, <2>1
<1>3. CASE /\ c.task.blocks = <<>> /\ c.task.include # <<>>
           /\ ~HasTemplate(IncludePath(c)) /\ Readable(world, IncludedFile(c))
    BY <1>1, <1>3, KeysOfFile DEF Inside, Legible, Readable
<1>4. CASE ~(\/ c.task.blocks # <<>>
             \/ /\ c.task.include # <<>>
                /\ ~HasTemplate(IncludePath(c)) /\ Readable(world, IncludedFile(c)))
    BY <1>1, <1>4 DEF Inside
<1> QED BY <1>2, <1>3, <1>4

-----------------------------------------------------------------------------
(* The walk so far, told by the contexts W it has been through: each is    *)
(* accounted for, and what it leads to has been walked or is on the stack. *)
(* So has the content of every visited file, or there was a warning of it. *)
Met(W) == Keys(W) \cup Owed(stack)
Settled(c, W) == AccountedFor(c) /\ Keys(Inside(world, c)) \subseteq Met(W)
Opened(path, W) ==
    IF Readable(world, path) THEN Ahead(Document(path, NoVars)) \subseteq Met(W)
    ELSE Warned(path)
Walked(W) ==
    /\ W \subseteq Reached(world)
    /\ \A c \in W : Settled(c, W)
    /\ \A path \in visited : Opened(path, W)
    /\ Elements(world.playbooks) \subseteq Elements(todo) \cup visited

AccountInv ==
    /\ Legible(world) /\ outcome # "failed" => \E W : Walked(W)
    /\ outcome = "done" => stack = <<>> /\ todo = <<>>

Grows ==
    /\ world' = world
    /\ Elements(files) \subseteq Elements(files') /\ warnings \subseteq warnings'

LEMMA StillAccountedFor ==
    ASSUME NEW c, Grows, AccountedFor(c)
    PROVE  AccountedFor(c)'
<1>1. /\ WarnedOf(c.task) => WarnedOf(c.task)'
      /\ \A path : Warned(path) => Warned(path)'
    BY DEF WarnedOf, Warned, Grows
<1>2. PathsAccountedFor(c) => PathsAccountedFor(c)'
    BY <1>1 DEF PathsAccountedFor, Grows
<1>3. IncludeAccountedFor(c) => IncludeAccountedFor(c)'
    BY <1>1 DEF IncludeAccountedFor, Grows
<1> QED BY <1>1, <1>2, <1>3 DEF AccountedFor

(* A step has been through the contexts of new, and opened new files.      *)
LEMMA WalkedMore ==
    ASSUME NEW W, NEW new, Walked(W), Grows,
           new \subseteq Reached(world),
           Met(W) \subseteq Met(W \cup new)',
           \A c \in new : Settled(c, W \cup new)',
           \A path \in visited' \ visited : Opened(path, W \cup new)',
           Elements(world.playbooks) \subseteq Elements(todo') \cup visited'
    PROVE  Walked(W \cup new)'
<1>1. world' = world
    BY DEF Grows
<1>2. ASSUME NEW c \in W
      PROVE  Settled(c, W \cup new)'
    <2>1. AccountedFor(c)'
        BY StillAccountedFor DEF Walked, Settled
    <2>2. Keys(Inside(world, c)) \subseteq Met(W \cup new)'
        BY DEF Walked, Settled
    <2> QED BY <1>1, <2>1, <2>2 DEF Settled
<1>3. ASSUME NEW path \in visited
      PROVE  Opened(path, W \cup new)'
    <2>1. Opened(path, W)
        BY DEF Walked
    <2>2. Warned(path) => Warned(path)'
        BY DEF Warned, Grows
    <2>3. Document(path, NoVars)' = Document(path, NoVars)
        BY <1>1 DEF Document
    <2> QED BY <1>1, <2>1, <2>2, <2>3 DEF Opened
<1>4. (W \cup new \subseteq Reached(world))'
    BY <1>1 DEF Walked
<1> QED BY <1>1, <1>2, <1>3, <1>4 DEF Walked

(* A step that goes on without having been through a task.                 *)
LEMMA MovedOn ==
    ASSUME NEW W, Walked(W), Grows, Owed(stack) \subseteq Owed(stack'),
           visited' = visited, todo' = todo
    PROVE  Walked(W)'
<1>1. W \cup {} = W
    OBVIOUS
<1>2. Met(W) \subseteq Met(W)'
    BY DEF Met
<1>3. Elements(world.playbooks) \subseteq Elements(todo') \cup visited'
    BY DEF Walked
<1>4. Walked(W \cup {})'
    BY <1>1, <1>2, <1>3, WalkedMore
<1> QED BY <1>1, <1>4

LEMMA ScanPlaybookAccounts ==
    ASSUME NEW W, WalkInv, Walked(W), ScanPlaybook, outcome' # "failed"
    PROVE  Walked(W)'
<1>1. PICK path : path = Head(todo)
    OBVIOUS
<1>2. /\ stack = <<>> /\ todo # <<>> /\ todo' = Tail(todo)
      /\ visited' = visited \cup {path} /\ Grows
    BY <1>1 DEF ScanPlaybook, Grows
<1>3. Elements(todo) = {path} \cup Elements(todo')
    BY <1>1, <1>2, HeadAndTail, TailElements DEF WalkInv, GivenOnly
<1>4. Owed(stack) = {}
    BY <1>2, NothingOwed
<1>5. Met(W) \subseteq Met(W)'
    BY <1>4 DEF Met
<1>6. ASSUME path \notin visited
      PROVE  Opened(path, W)'
    <2>1. Readable(world, path) /\ stack' = <<Document(path, NoVars)>> /\ world' = world
        BY <1>1, <1>6 DEF ScanPlaybook
    <2>2. Owed(stack') = Ahead(Document(path, NoVars))
        BY <2>1, OwedByOne
    <2>3. Document(path, NoVars)' = Document(path, NoVars)
        BY <2>1 DEF Document
    <2> QED BY <2>1, <2>2, <2>3 DEF Opened, Met
<1>7. Elements(world.playbooks) \subseteq Elements(todo') \cup visited'
    BY <1>2, <1>3 DEF Walked
<1>8. W \cup {} = W
    OBVIOUS
<1>9. \A p \in visited' \ visited : Opened(p, W)'
    BY <1>2, <1>6
<1>10. Walked(W \cup {})'
    BY <1>2, <1>5, <1>7, <1>8, <1>9, WalkedMore
<1> QED BY <1>8, <1>10

LEMMA ScanPlayAccounts ==
    ASSUME NEW W, WalkInv, Walked(W), ScanPlay
    PROVE  Walked(W)'
<1> DEFINE bound == MergeVars(Top.vars, PlayVarsOf(Current, Top.dir))
           new == [k \in DOMAIN Current.sections |-> List(Current.sections[k], bound, Top.dir)]
<1>1. /\ stack # <<>> /\ Top.items # <<>> /\ Top.level = "play" /\ Current.kind = "play"
      /\ stack' = new \o Rest /\ visited' = visited /\ todo' = todo /\ Grows
    BY DEF ScanPlay, Walking, Grows
<1>2. Current.sections \in Seq(Seq(Items))
    <2>1. Current \in OfKind("play")
        BY <1>1, CurrentReached DEF WalkInv, OfKind
    <2>2. Current.sections \in {i.sections : i \in OfKind("play")}
        BY <2>1
    <2> QED BY <2>2, ScanAssumption
<1>3. IsSeq(new) /\ \A l \in Elements(Current.sections) : Under(Top.dir, Tasks(l)) \subseteq Owed(new)
    BY <1>2, OwedOfLists
<1> HIDE DEF new
<1>4. Under(Top.dir, TasksAhead(Top.level, <<Current>>)) \subseteq Owed(new)
    BY <1>1, <1>3, SingletonElements DEF TasksAhead, Under
<1>5. Owed(new) \cup Owed(Rest) \subseteq Owed(stack')
    BY <1>1, <1>3, RestReached, OwedTogether DEF WalkInv
<1>6. Owed(stack) \subseteq Owed(stack')
    BY <1>1, <1>4, <1>5, Coming DEF WalkInv
<1> QED BY <1>1, <1>6, MovedOn

-----------------------------------------------------------------------------
(* Steps that go through the current task.                                 *)
Here == [task |-> Current, vars |-> LocalVars, dir |-> Top.dir]

LEMMA HereIsReached ==
    ASSUME WalkInv, Walking("task"), Current.kind = "task"
    PROVE  Here \in Reached(world) /\ Current \in OfKind("task")
    BY CurrentReached DEF Here, WalkInv, Walking, OfKind

LEMMA HereJoins ==
    ASSUME NEW W, WalkInv, Walking("task"), Current.kind = "task", NEW c, c = Here,
           Owed(Rest) \subseteq Owed(stack')
    PROVE  Met(W) \subseteq Met(W \cup {c})'
<1>1. Under(Top.dir, TasksAhead(Top.level, <<Current>>)) = {Key(c)}
    <2>1. TasksAhead(Top.level, <<Current>>) = {Current}
        BY SingletonElements DEF TasksAhead, Tasks, Walking
    <2> QED BY <2>1 DEF Under, Key, Here
<1>2. Owed(stack) \subseteq {Key(c)} \cup Owed(Rest)
    BY <1>1, Coming DEF WalkInv, Walking
<1>3. Keys(W \cup {c}) = Keys(W) \cup {Key(c)}
    BY DEF Keys
<1> QED BY <1>2, <1>3 DEF Met

LEMMA EnterBlocksAccounts ==
    ASSUME NEW W, WalkInv, Walked(W), EnterBlocks
    PROVE  \E c : Walked(W \cup {c})'
<1> DEFINE new == [k \in DOMAIN Current.blocks |-> List(Current.blocks[k], LocalVars, Top.dir)]
<1>1. PICK c : c = Here
    OBVIOUS
<1>2. /\ Walking("task") /\ Current.kind = "task" /\ Current.blocks # <<>>
      /\ stack # <<>> /\ Top.items # <<>>
      /\ stack' = new \o Rest /\ visited' = visited /\ todo' = todo /\ Grows
    BY DEF EnterBlocks, Walking, Grows
<1>3. c \in Reached(world) /\ Current \in OfKind("task")
    BY <1>1, <1>2, HereIsReached
<1>4. Current.blocks \in Seq(Seq(Items))
    <2>1. Current.blocks \in {i.blocks : i \in OfKind("task")}
        BY <1>3
    <2> QED BY <2>1, ScanAssumption
<1>5. IsSeq(new) /\ \A l \in Elements(Current.blocks) : Under(Top.dir, Tasks(l)) \subseteq Owed(new)
    BY <1>4, OwedOfLists
<1> HIDE DEF new
<1>6. Owed(new) \cup Owed(Rest) \subseteq Owed(stack')
    BY <1>2, <1>5, RestReached, OwedTogether DEF WalkInv
<1>7. Met(W) \subseteq Met(W \cup {c})'
    BY <1>1, <1>2, <1>6, HereJoins
<1>8. Settled(c, W \cup {c})'
    <2>1. c.task = Current /\ c.vars = LocalVars /\ c.dir = Top.dir
        BY <1>1 DEF Here
    <2>2. AccountedFor(c)'
        BY <1>2, <2>1 DEF AccountedFor
    <2>3. Inside(world, c)
              = UNION {Contexts(l, c.vars, c.dir) : l \in Elements(Current.blocks)}
        BY <1>2, <2>1 DEF Inside
    <2>4. \A l : Keys(Contexts(l, c.vars, c.dir)) = Under(Top.dir, Tasks(l))
        BY <2>1, KeysOfList
    <2>5. Keys(Inside(world, c)) \subseteq Owed(stack')
        BY <1>5, <1>6, <2>3, <2>4 DEF Keys
    <2> QED BY <1>2, <2>2, <2>5 DEF Settled, Met, Grows
<1>9. Elements(world.playbooks) \subseteq Elements(todo') \cup visited'
    BY <1>2 DEF Walked
<1>10. Walked(W \cup {c})'
    BY <1>2, <1>3, <1>7, <1>8, <1>9, WalkedMore
<1> QED BY <1>10

LEMMA FollowIncludeAccounts ==
    ASSUME Legible(world), NEW W, WalkInv, Walked(W), FollowInclude
    PROVE  \E c : Walked(W \cup {c})'
<1>1. PICK c : c = Here
    OBVIOUS
<1>2. PICK inc, path :
          /\ inc = SubstituteVars(Current.include, LocalVars) /\ path = IncludeTarget(inc)
    OBVIOUS
<1>3. /\ Walking("task") /\ Current.kind = "task"
      /\ Current.blocks = <<>> /\ Current.include # <<>>
      /\ stack # <<>> /\ Top.items # <<>> /\ todo' = todo /\ world' = world /\ files' = files
    BY DEF FollowInclude, Walking
<1>4. /\ c.task = Current /\ c.dir = Top.dir /\ c \in Reached(world)
      /\ IncludePath(c) = inc /\ IncludedFile(c) = path
    <2>1. c.task = Current /\ c.vars = LocalVars /\ c.dir = Top.dir
        BY <1>1 DEF Here
    <2>2. IncludePath(c) = inc
        BY <1>2, <2>1 DEF IncludePath, SubstituteVars
    <2>3. IncludedFile(c) = path
        BY <1>2, <2>1, <2>2 DEF IncludedFile, IncludeTarget
    <2> QED BY <1>1, <1>3, <2>1, <2>2, <2>3, HereIsReached
<1>5. Elements(world.playbooks) \subseteq Elements(todo') \cup visited'
    BY <1>3 DEF Walked, FollowInclude, Mark
<1>6. Grows
    BY <1>3 DEF FollowInclude, Grows
<1>7. AccountedFor(c)' = IF HasTemplate(inc) THEN WarnedOf(c.task)'
                         ELSE Readable(world, path) \/ Warned(path)'
    BY <1>3, <1>4 DEF AccountedFor, IncludeAccountedFor
<1>8. Keys(Inside(world, c)) \subseteq
          IF ~HasTemplate(inc) /\ Readable(world, path) THEN Ahead(Document(path, NoVars)) ELSE {}
    <2>1. CASE ~HasTemplate(inc) /\ Readable(world, path)
        <3>1. Keys(InFile(world, path, c.vars)) = Ahead(Document(path, NoVars))
            BY <2>1, KeysOfFile DEF Legible, Readable
        <3> QED BY <1>3, <1>4, <2>1, <3>1 DEF Inside
    <2>2. CASE ~(~HasTemplate(inc) /\ Readable(world, path))
        <3>1. Inside(world, c) = {}
            BY <1>3, <1>4, <2>2 DEF Inside
        <3> QED BY <2>2, <3>1 DEF Keys
    <2> QED BY <2>1, <2>2
<1>9. Document(path, NoVars)' = Document(path, NoVars)
    BY <1>3 DEF Document
<1>10. IsSeq(Rest)
    BY <1>3, RestReached DEF WalkInv
<1>11. ASSUME Owed(Rest) \subseteq Owed(stack'), AccountedFor(c)',
              Keys(Inside(world, c)) \subseteq Met(W \cup {c})',
              \A p \in visited' \ visited : Opened(p, W \cup {c})'
       PROVE  Walked(W \cup {c})'
    <2>1. Met(W) \subseteq Met(W \cup {c})'
        BY <1>1, <1>3, <1>11, HereJoins
    <2>2. Settled(c, W \cup {c})'
        BY <1>3, <1>11 DEF Settled
    <2> QED BY <1>4, <1>5, <1>6, <1>11, <2>1, <2>2, WalkedMore
<1>12. CASE HasTemplate(inc)
    <2> DEFINE told == [task |-> Current.name, about |-> inc]
    <2>1. stack' = Rest /\ visited' = visited /\ told \in warnings'
        BY <1>2, <1>12 DEF FollowInclude
    <2>2. told.task = Current.name
        OBVIOUS
    <2>3. WarnedOf(c.task)'
        BY <1>4, <2>1, <2>2 DEF WarnedOf
    <2> QED BY <1>7, <1>8, <1>11, <1>12, <2>1, <2>3
<1>13. CASE ~HasTemplate(inc) /\ path \in visited
    <2>1. stack' = Rest /\ visited' = visited /\ warnings' = warnings
        BY <1>2, <1>13 DEF FollowInclude
    <2>2. Opened(path, W)
        BY <1>13 DEF Walked
    <2>3. Readable(world, path) \/ Warned(path)'
        BY <2>1, <2>2 DEF Opened, Warned
    <2>4. Met(W) \subseteq Met(W \cup {c})'
        BY <1>1, <1>3, <2>1, HereJoins
    <2>5. Keys(Inside(world, c)) \subseteq Met(W \cup {c})'
        BY <1>8, <2>2, <2>4 DEF Opened
    <2> QED BY <1>7, <1>11, <1>13, <2>1, <2>3, <2>5
<1>14. CASE ~HasTemplate(inc) /\ path \notin visited /\ Readable(world, path)
    <2>1. stack' = <<Document(path, LocalVars)>> \o Rest /\ visited' = visited \cup {path}
        BY <1>2, <1>14 DEF FollowInclude, Mark
    <2> DEFINE doc == Document(path, LocalVars)
    <2>2. Ahead(doc) = Ahead(Document(path, NoVars))
        BY <1>14, KeysOfFile DEF Legible, Readable
    <2> HIDE DEF doc
    <2>3. Ahead(doc) \cup Owed(Rest) \subseteq Owed(stack')
        <3>1. IsSeq(<<doc>>) /\ Owed(<<doc>>) = Ahead(doc)
            BY SingletonElements, OwedByOne
        <3> QED BY <1>10, <2>1, <3>1, OwedTogether DEF doc
    <2>4. Opened(path, W \cup {c})'
        BY <1>3, <1>9, <1>14, <2>2, <2>3 DEF Opened, Met
    <2>5. Keys(Inside(world, c)) \subseteq Met(W \cup {c})'
        BY <1>8, <2>2, <2>3 DEF Met
    <2> QED BY <1>7, <1>11, <1>14, <2>1, <2>3, <2>4, <2>5
<1>15. CASE ~HasTemplate(inc) /\ path \notin visited /\ ~Readable(world, path)
    <2> DEFINE told == [task |-> Current.name, about |-> path]
    <2>1. stack' = Rest /\ visited' = visited \cup {path} /\ told \in warnings'
        BY <1>2, <1>15 DEF FollowInclude, Mark
    <2>2. told.about = path
        OBVIOUS
    <2>3. Warned(path)'
        BY <2>1, <2>2 DEF Warned
    <2>4. Opened(path, W \cup {c})'
        BY <1>3, <1>15, <2>3 DEF Opened
    <2> QED BY <1>7, <1>8, <1>11, <1>15, <2>1, <2>3, <2>4
<1> QED BY <1>12, <1>13, <1>14, <1>15

LEMMA ManageFilesAccounts ==
    ASSUME PlainOneLiners, Legible(world), NEW W, ScanInv, Walked(W), ManageFiles
    PROVE  \E c : Walked(W \cup {c})'
<1>1. PICK c : c = Here
    OBVIOUS
<1>2. PICK t : t = Current
    OBVIOUS
<1>3. PICK bound : bound = LocalVars
    OBVIOUS
<1>4. PICK one, two : one = ScanModuleArgs(t, bound) /\ two = ScanCommandCreates(t, bound)
    OBVIOUS
<1>5. /\ Walking("task") /\ t.kind = "task" /\ t.blocks = <<>> /\ t.include = <<>>
      /\ stack # <<>> /\ Top.items # <<>>
      /\ stack' = Rest /\ visited' = visited /\ todo' = todo /\ world' = world
      /\ files' = files \o one.files \o two.files
      /\ warnings' = warnings \cup one.warnings \cup two.warnings
    BY <1>2, <1>3, <1>4 DEF ManageFiles, Walking
<1>6. /\ c.task = t /\ c.vars = bound /\ c \in Reached(world) /\ t \in OfKind("task")
    BY <1>1, <1>2, <1>3, <1>5, HereIsReached DEF Here, ScanInv
<1>7. t.loop \in Seq(STRING)
    <2>1. t.loop \in {i.loop : i \in OfKind("task")}
        BY <1>6
    <2> QED BY <2>1, ScanAssumption
<1>8. ~HasTemplate(t.inline) /\ Known(t) /\ t.mod # "unarchive"
    BY <1>6 DEF PlainOneLiners, Legible, Known, ScanInv, WalkInv
<1>9. IsSeq(files) /\ IsSeq(one.files) /\ IsSeq(two.files)
    BY <1>4, <1>7, <1>8, ModuleArgsSound, CommandCreatesSound DEF Sound, ScanInv
<1>10. Elements(files) \cup Elements(one.files) \cup Elements(two.files) \subseteq Elements(files')
    <2>1. IsSeq(files \o one.files)
          /\ Elements(files) \cup Elements(one.files) \subseteq Elements(files \o one.files)
        BY <1>9, ConcatElements, ConcatKeeps
    <2>2. Elements(files \o one.files) \cup Elements(two.files)
             \subseteq Elements((files \o one.files) \o two.files)
        BY <1>9, <2>1, ConcatKeeps
    <2> QED BY <1>5, <2>1, <2>2
<1>11. Grows
    BY <1>5, <1>10 DEF Grows
<1>12. /\ \A raw \in RawPaths(t) : Covers(one, t, raw, bound) \/ Covers(two, t, raw, bound)
       /\ Untrackable(t) => Tells(one, t) \/ Tells(two, t)
    BY <1>4, <1>7, <1>8, TaskCovered
<1>13. Tells(one, t) \/ Tells(two, t) => WarnedOf(t)'
    BY <1>5 DEF Tells, WarnedOf
<1>14. PathsAccountedFor(c)'
    BY <1>6, <1>10, <1>12, <1>13 DEF Covers, PathsAccountedFor
<1>15. AccountedFor(c)'
    BY <1>5, <1>6, <1>12, <1>13, <1>14 DEF AccountedFor
<1>16. Settled(c, W \cup {c})'
    <2>1. Inside(world, c) = {}
        BY <1>5, <1>6 DEF Inside
    <2>2. Keys(Inside(world, c)) = {}
        BY <2>1 DEF Keys
    <2> QED BY <1>5, <1>15, <2>2 DEF Settled
<1>17. Met(W) \subseteq Met(W \cup {c})'
    BY <1>1, <1>2, <1>5, HereJoins DEF ScanInv
<1>18. Elements(world.playbooks) \subseteq Elements(todo') \cup visited'
    BY <1>5 DEF Walked
<1>19. Walked(W \cup {c})'
    BY <1>5, <1>6, <1>11, <1>16, <1>17, <1>18, WalkedMore
<1> QED BY <1>19

-----------------------------------------------------------------------------
LEMMA AccountInit == ScanInit => AccountInv
<1> SUFFICES ASSUME ScanInit PROVE AccountInv
    OBVIOUS
<1>1. Walked({})
    BY DEF ScanInit, Walked
<1> QED BY <1>1 DEF ScanInit, AccountInv

LEMMA AccountStep ==
    ASSUME PlainOneLiners, ScanInv, AccountInv,
           [Scanning \/ ScanEnded]_scanVars
    PROVE  AccountInv'
<1>0. WalkInv
    BY DEF ScanInv
<1>a. Scanning /\ ~Return => outcome = "running" /\ outcome' # "done" /\ world' = world
    BY DEF Scanning, ScanPlaybook, ScanPlay, EnterBlocks, FollowInclude, ManageFiles,
       SkipItem, LeaveList, Walking
<1>b. CASE ~Legible(world)
    <2>1. CASE Scanning /\ ~Return
        BY <1>a, <1>b, <2>1 DEF AccountInv
    <2>2. CASE Return
        BY <1>b, <2>2 DEF Return, AccountInv
    <2>3. CASE UNCHANGED scanVars
        BY <1>b, <2>3 DEF scanVars, AccountInv
    <2> QED BY <2>1, <2>2, <2>3 DEF ScanEnded
<1>1. CASE Legible(world) /\ outcome = "running" /\ outcome' # "done" /\ Scanning
    <2>1. PICK W : Walked(W)
        BY <1>1 DEF AccountInv
    <2>2. CASE ScanPlaybook
        BY <1>0, <1>1, <2>1, <2>2, ScanPlaybookAccounts DEF AccountInv
    <2>3. CASE ScanPlay
        BY <1>0, <1>1, <2>1, <2>3, ScanPlayAccounts DEF AccountInv
    <2>4. CASE EnterBlocks
        BY <1>0, <1>1, <2>1, <2>4, EnterBlocksAccounts DEF AccountInv
    <2>5. CASE FollowInclude
        BY <1>0, <1>1, <2>1, <2>5, FollowIncludeAccounts DEF AccountInv
    <2>6. CASE ManageFiles
        BY <1>1, <2>1, <2>6, ManageFilesAccounts DEF AccountInv
    <2>7. CASE SkipItem
        <3>1. /\ stack # <<>> /\ Top.items # <<>> /\ stack' = Rest
              /\ visited' = visited /\ todo' = todo /\ Grows
            BY <2>7 DEF SkipItem, Walking, Grows
        <3>2. TasksAhead(Top.level, <<Current>>) = {}
            BY <2>7, SingletonElements DEF SkipItem, Walking, TasksAhead, Tasks
        <3>3. Owed(stack) \subseteq Owed(Rest)
            BY <1>0, <3>1, <3>2, Coming DEF WalkInv, Under
        <3> QED BY <1>1, <2>1, <3>1, <3>3, MovedOn DEF AccountInv
    <2>8. CASE LeaveList
        <3>1. /\ stack # <<>> /\ Top.items = <<>> /\ stack' = Tail(stack)
              /\ visited' = visited /\ todo' = todo /\ Grows
            BY <2>8 DEF LeaveList, Grows
        <3>2. Ahead(Top) = {}
            BY <3>1 DEF Ahead, Under, TasksAhead, Tasks, Elements
        <3>3. Elements(stack) = {Top} \cup Elements(Tail(stack))
            BY <1>0, <3>1, HeadAndTail DEF WalkInv, FramesReached, Top
        <3>4. Owed(stack) \subseteq Owed(Tail(stack))
            BY <3>2, <3>3 DEF Owed
        <3> QED BY <1>1, <2>1, <3>1, <3>4, MovedOn DEF AccountInv
    <2>9. ~Return
        BY <1>1 DEF Return
    <2> QED BY <1>1, <2>2, <2>3, <2>4, <2>5, <2>6, <2>7, <2>8, <2>9 DEF Scanning
<1>2. CASE Legible(world) /\ Return
    <2>1. /\ stack = <<>> /\ todo = <<>> /\ outcome = "running" /\ outcome' = "done"
          /\ UNCHANGED <<world, todo, stack, visited, files, warnings>>
        BY <1>2 DEF Return
    <2>2. PICK W : Walked(W)
        BY <1>2, <2>1 DEF AccountInv
    <2>3. Grows
        BY <2>1 DEF Grows
    <2>4. Walked(W)'
        BY <2>1, <2>2, <2>3, MovedOn
    <2> QED BY <2>1, <2>4 DEF AccountInv
<1>3. CASE UNCHANGED scanVars
    <2>1. UNCHANGED <<world, todo, stack, visited, files, warnings, outcome>>
        BY <1>3 DEF scanVars
    <2>2. ASSUME NEW W, Walked(W)
          PROVE  Walked(W)'
        <3>1. Grows
            BY <2>1 DEF Grows
        <3> QED BY <2>1, <2>2, <3>1, MovedOn
    <2> QED BY <2>1, <2>2 DEF AccountInv
<1> QED BY <1>a, <1>b, <1>1, <1>2, <1>3 DEF ScanEnded

(* The walk is over: no context is reached that has not been walked by its *)
(* own bindings or by those of another way to the same task.               *)
LEMMA DoneMeansAll ==
    ASSUME ScanInv, AccountInv
    PROVE  EveryTaskAccountedFor
<1> SUFFICES ASSUME outcome = "done", IncludesAreFixed(world), Legible(world)
             PROVE  \A c \in Reached(world) : \E d \in Reached(world) :
                        d.task = c.task /\ d.dir = c.dir /\ AccountedFor(d)
    BY DEF EveryTaskAccountedFor
<1>1. PICK W : Walked(W)
    BY DEF AccountInv
<1>2. world \in Worlds /\ stack = <<>> /\ todo = <<>>
    BY DEF AccountInv, ScanInv, WalkInv
<1>3. Met(W) = Keys(W)
    BY <1>2, NothingOwed DEF Met
<1> DEFINE S == {c \in Reached(world) : Key(c) \in Keys(W)}
<1>4. Given(world) \subseteq S
    <2> SUFFICES ASSUME NEW c \in Given(world) PROVE c \in S
        OBVIOUS
    <2>1. PICK path \in Elements(world.playbooks) :
              Readable(world, path) /\ c \in InFile(world, path, NoVars)
        BY DEF Given
    <2>2. Elements(todo) = {}
        BY <1>2 DEF Elements
    <2>3. Ahead(Document(path, NoVars)) \subseteq Keys(W)
        BY <1>1, <1>3, <2>1, <2>2 DEF Walked, Opened
    <2>4. Key(c) \in Keys(InFile(world, path, NoVars))
        BY <2>1 DEF Keys
    <2>5. Key(c) \in Keys(W)
        BY <2>1, <2>3, <2>4, KeysOfFile DEF Legible, Readable
    <2> QED BY <1>2, <2>5, ReachedClosed
<1>5. ASSUME NEW c \in S
      PROVE  Inside(world, c) \subseteq S
    <2>1. PICK d \in W : Key(d) = Key(c)
        BY DEF Keys
    <2>2. d.task = c.task /\ d.dir = c.dir
        BY <2>1 DEF Key
    <2>3. IncludePath(c) = IncludePath(d)
        BY <1>1, <2>2 DEF Walked, IncludesAreFixed
    <2>4. Keys(Inside(world, c)) \subseteq Keys(W)
        BY <1>1, <1>3, <2>1, <2>3, KeysInside DEF Walked, Settled
    <2>5. Inside(world, c) \subseteq Reached(world)
        BY <1>2, ReachedClosed
    <2> QED BY <2>4, <2>5 DEF Keys
<1> HIDE DEF S
<1>6. Reached(world) \subseteq S
    BY <1>4, <1>5, ReachedLeast DEF Closed
<1>7. ASSUME NEW c \in Reached(world)
      PROVE  \E d \in Reached(world) : d.task = c.task /\ d.dir = c.dir /\ AccountedFor(d)
    <2>1. PICK d \in W : Key(d) = Key(c)
        BY <1>6 DEF S, Keys
    <2>2. d.task = c.task /\ d.dir = c.dir
        BY <2>1 DEF Key
    <2> QED BY <1>1, <2>2 DEF Walked, Settled
<1> QED BY <1>7

(* However the playbooks include each other, no task they reach is passed  *)
(* over: a scan that ends has listed its paths or warned of it, where the  *)
(* scanner knows what they say.                                            *)
THEOREM NothingIsPassedOver ==
    ASSUME PlainOneLiners
    PROVE  ScanSpec => []EveryTaskAccountedFor
<1>1. ScanInit => ScanInv /\ AccountInv
    BY ScanInvInit, AccountInit
<1>2. ScanInv /\ AccountInv /\ [Scanning \/ ScanEnded]_scanVars => (ScanInv /\ AccountInv)'
    BY ScanInvStep, AccountStep
<1>3. ScanInv /\ AccountInv => EveryTaskAccountedFor
    BY DoneMeansAll
<1> QED BY <1>1, <1>2, <1>3, PTL DEF ScanSpec

-----------------------------------------------------------------------------
(* Nesting.  A list with h lists of the walk up to it fits if there is room*)
(* for all the lists its items are made of; each file visited makes room   *)
(* for those of one document.                                              *)
Room == Nesting * Cardinality(visited)
Fits(f, h, room) == h <= room /\ \A i \in Elements(f.items) : h + Height[i] <= room
AllFit(frames, room) ==
    \A k \in 1..Len(frames) : Fits(frames[k], Len(frames) - k + 1, room)
BoundInv == IsFiniteSet(visited) /\ AllFit(stack, Room)

Frames(s) == IsSeq(s) /\ \A f \in Elements(s) : f.items \in Seq(Items)

LEMMA HeightType ==
    /\ Nesting \in Nat /\ Nesting >= 1
    /\ \A i \in Items : Height[i] \in Nat /\ Height[i] + 1 <= Nesting
<1>1. Nesting \in Nat \ {0} /\ Height \in [Items -> 0..(Nesting - 1)]
    BY ScanAssumption
<1>2. ASSUME NEW i \in Items
      PROVE  Height[i] \in 0..(Nesting - 1)
    BY <1>1
<1> QED BY <1>1, <1>2

LEMMA RoomType ==
    ASSUME IsFiniteSet(visited)
    PROVE  Room \in Nat
<1>1. Cardinality(visited) \in Nat
    BY FS_CardinalityType
<1>2. \A m, n \in Nat : m * n \in Nat
    OBVIOUS
<1> QED BY <1>1, <1>2, HeightType DEF Room

LEMMA RoomGrows ==
    ASSUME IsFiniteSet(visited), NEW path, path \notin visited, visited' = visited \cup {path}
    PROVE  IsFiniteSet(visited') /\ Room' = Room + Nesting
<1>1. IsFiniteSet(visited') /\ Cardinality(visited') = Cardinality(visited) + 1
    BY FS_AddElement
<1>2. Cardinality(visited) \in Nat /\ Nesting \in Nat
    BY FS_CardinalityType, HeightType
<1>3. \A m, n \in Nat : m * (n + 1) = m * n + m
    OBVIOUS
<1> QED BY <1>1, <1>2, <1>3 DEF Room

LEMMA FitsOn ==
    ASSUME NEW f, f.items \in Seq(Items), NEW h \in Nat, NEW m \in Nat, NEW n \in Nat,
           m <= n, Fits(f, h, m)
    PROVE  Fits(f, h, n)
<1>1. \A i \in Elements(f.items) : Height[i] \in Nat
    BY SeqElements, HeightType
<1> QED BY <1>1 DEF Fits

LEMMA FitOn ==
    ASSUME NEW s, Frames(s), NEW m \in Nat, NEW n \in Nat, m <= n, AllFit(s, m)
    PROVE  AllFit(s, n)
<1> SUFFICES ASSUME NEW k \in 1..Len(s) PROVE Fits(s[k], Len(s) - k + 1, n)
    BY DEF AllFit
<1>1. s \in Seq(Elements(s)) /\ Len(s) \in Nat
    BY DEF Frames, IsSeq
<1>2. s[k] \in Elements(s) /\ Len(s) - k + 1 \in Nat
    BY <1>1 DEF Elements
<1> QED BY <1>2, FitsOn DEF Frames, AllFit

LEMMA FramesAre ==
    ASSUME FramesReached
    PROVE  Frames(stack) /\ (stack # <<>> /\ Top.items # <<>> => Frames(Rest))
    BY RestReached DEF Frames, FramesReached, FrameReached

LEMMA RestFits ==
    ASSUME FramesReached, stack # <<>>, Top.items # <<>>, NEW room \in Nat, AllFit(stack, room)
    PROVE  /\ AllFit(Rest, room) /\ Len(Rest) = Len(stack)
           /\ Fits(Top, Len(stack), room) /\ Len(stack) \in Nat
<1> DEFINE top == [Top EXCEPT !.items = Tail(@)]
<1>1. FrameReached(Top) /\ Top.items \in Seq(Items) /\ IsSeq(Top.items)
    BY TopReached, SeqElements
<1>2. top.items = Tail(Top.items) /\ Elements(top.items) \subseteq Elements(Top.items)
    BY <1>1, TailElements DEF FrameReached
<1>3. stack \in Seq(Elements(stack)) /\ Len(stack) \in Nat /\ Len(stack) >= 1
    BY DEF FramesReached, IsSeq
<1>4. Rest = <<top>> \o Tail(stack)
    BY DEF Rest
<1> HIDE DEF top
<1>5. /\ Len(Rest) = Len(stack) /\ Rest[1] = top
      /\ \A k \in 1..Len(stack) : k # 1 => Rest[k] = stack[k]
    <2>1. Tail(stack) \in Seq(Elements(stack)) /\ Len(Tail(stack)) = Len(stack) - 1
          /\ \A k \in 1..(Len(stack) - 1) : Tail(stack)[k] = stack[k + 1]
        BY <1>3
    <2>2. Rest \in Seq({top} \cup Elements(stack)) /\ Len(Rest) = Len(stack) /\ Rest[1] = top
        BY <1>3, <1>4, <2>1
    <2>3. ASSUME NEW k \in 1..Len(stack), k # 1
          PROVE  Rest[k] = stack[k]
        <3>1. k - 1 \in 1..(Len(stack) - 1) /\ Tail(stack)[k - 1] = stack[k]
            BY <1>3, <2>1, <2>3
        <3>2. Rest[k] = Tail(stack)[k - 1]
            BY <1>3, <1>4, <2>1, <2>3, <3>1
        <3> QED BY <3>1, <3>2
    <2> QED BY <2>2, <2>3
<1>6. Fits(Top, Len(stack), room)
    <2>1. 1 \in 1..Len(stack) /\ Len(stack) - 1 + 1 = Len(stack)
        BY <1>3
    <2> QED BY <2>1 DEF AllFit, Top
<1>7. Fits(top, Len(stack), room)
    BY <1>2, <1>6 DEF Fits
<1>8. ASSUME NEW k \in 1..Len(Rest)
      PROVE  Fits(Rest[k], Len(Rest) - k + 1, room)
    <2>1. CASE k = 1
        <3>1. Len(stack) - 1 + 1 = Len(stack)
            BY <1>3
        <3> QED BY <1>5, <1>7, <2>1, <3>1
    <2>2. CASE k # 1
        BY <1>5, <2>2 DEF AllFit
    <2> QED BY <2>1, <2>2
<1> QED BY <1>3, <1>5, <1>6, <1>8 DEF AllFit

LEMMA PushFits ==
    ASSUME NEW s, NEW t, IsSeq(s), IsSeq(t), NEW room \in Nat, AllFit(t, room),
           \A k \in 1..Len(s) : Fits(s[k], Len(t) + (Len(s) - k + 1), room)
    PROVE  AllFit(s \o t, room)
<1>1. s \in Seq(Elements(s)) /\ t \in Seq(Elements(t)) /\ Len(s) \in Nat /\ Len(t) \in Nat
    BY DEF IsSeq
<1>2. Len(s \o t) = Len(s) + Len(t)
    BY <1>1
<1>3. ASSUME NEW k \in 1..(Len(s) + Len(t))
      PROVE  Fits((s \o t)[k], Len(s) + Len(t) - k + 1, room)
    <2>1. CASE k \in 1..Len(s)
        <3>1. (s \o t)[k] = s[k]
            BY <1>1, <2>1
        <3>2. Len(t) + (Len(s) - k + 1) = Len(s) + Len(t) - k + 1
            BY <1>1
        <3> QED BY <2>1, <3>1, <3>2
    <2>2. CASE k \notin 1..Len(s)
        <3>1. k - Len(s) \in 1..Len(t) /\ (s \o t)[k] = t[k - Len(s)]
            BY <1>1, <2>2
        <3>2. Len(t) - (k - Len(s)) + 1 = Len(s) + Len(t) - k + 1
            BY <1>1
        <3> QED BY <3>1, <3>2 DEF AllFit
    <2> QED BY <2>1, <2>2
<1> QED BY <1>2, <1>3 DEF AllFit

(* The lists an item is made of fit on top of the item's own list.         *)
LEMMA ListsFit ==
    ASSUME NEW item \in Items, NEW lists \in Seq(Seq(Items)), Stands(item, lists),
           NEW bound, NEW dir, NEW h \in Nat, NEW room \in Nat, h + Height[item] <= room
    PROVE  LET new == [k \in DOMAIN lists |-> List(lists[k], bound, dir)]
           IN  Len(new) = Len(lists)
               /\ \A k \in 1..Len(new) : Fits(new[k], h + (Len(new) - k + 1), room)
<1> DEFINE n == Len(lists)
           new == [k \in 1..n |-> List(lists[k], bound, dir)]
<1>1. n \in Nat /\ DOMAIN lists = 1..n /\ Len(new) = n
    OBVIOUS
<1>2. Height[item] \in Nat /\ n <= Height[item]
    BY HeightType DEF Stands
<1>3. ASSUME NEW k \in 1..n
      PROVE  Fits(new[k], h + (n - k + 1), room)
    <2>1. new[k].items = lists[k] /\ lists[k] \in Elements(lists) /\ lists[k] \in Seq(Items)
        <3>1. lists[k] \in Seq(Items) /\ lists[k] \in Elements(lists)
            <4>1. lists[k] \in Elements(lists)
                BY <1>1 DEF Elements
            <4> HIDE DEF new
            <4> QED BY <1>1, <4>1
        <3>2. new[k] = List(lists[k], bound, dir)
            OBVIOUS
        <3> HIDE DEF new
        <3> QED BY <3>1, <3>2 DEF List
    <2>2. ASSUME NEW i \in Elements(lists[k])
          PROVE  Height[i] \in Nat /\ n + Height[i] <= Height[item]
        BY <2>1, SeqElements, HeightType DEF Stands
    <2>3. h + (n - k + 1) <= room
        BY <1>1, <1>2
    <2>4. \A g, a, b, c, r, j \in Nat :
              j >= 1 /\ a + g <= b /\ c + b <= r => (c + (a - j + 1)) + g <= r
        OBVIOUS
    <2>5. \A i \in Elements(lists[k]) : (h + (n - k + 1)) + Height[i] <= room
        BY <1>1, <1>2, <2>2, <2>4
    <2> HIDE DEF new
    <2> QED BY <2>1, <2>3, <2>5 DEF Fits
<1>4. [k \in DOMAIN lists |-> List(lists[k], bound, dir)] = new
    OBVIOUS
<1> HIDE DEF new
<1> QED BY <1>1, <1>3, <1>4

(* The file visited last makes room for its document.                      *)
LEMMA DocumentFits ==
    ASSUME world \in Worlds, NEW path, Readable(world, path), NEW bound,
           NEW h \in Nat, NEW m \in Nat, h <= m
    PROVE  Fits(Document(path, bound), h + 1, m + Nesting)
           /\ Document(path, bound).items \in Seq(Items)
<1>1. Document(path, bound).items = world.docs[path].items
    BY DEF Document
<1>2. world.docs[path].items \in Seq(Items)
    <2>1. world.docs[path].items \in {world.docs[p].items : p \in DOMAIN world.docs}
        BY DEF Readable
    <2> QED BY <2>1, ScanAssumption
<1>3. \A i \in Elements(world.docs[path].items) : Height[i] \in Nat /\ Height[i] + 1 <= Nesting
    BY <1>2, SeqElements, HeightType
<1> QED BY <1>1, <1>2, <1>3, HeightType DEF Fits

LEMMA BoundInit == ScanInit => BoundInv
    BY FS_EmptySet DEF ScanInit, BoundInv, AllFit

LEMMA ScanPlaybookFits ==
    ASSUME WalkInv, BoundInv, ScanPlaybook
    PROVE  BoundInv'
<1>1. PICK path : path = Head(todo)
    OBVIOUS
<1>2. stack = <<>> /\ visited' = visited \cup {path} /\ world' = world
    BY <1>1 DEF ScanPlaybook
<1>3. IsFiniteSet(visited')
    BY <1>2, FS_AddElement DEF BoundInv
<1>4. CASE stack' = stack
    BY <1>2, <1>3, <1>4 DEF BoundInv, AllFit
<1>5. CASE path \notin visited /\ Readable(world, path) /\ stack' = <<Document(path, NoVars)>>
    <2>1. PICK doc : doc = Document(path, NoVars)
        OBVIOUS
    <2>2. Room \in Nat /\ Room' = Room + Nesting
        BY <1>2, <1>5, RoomType, RoomGrows DEF BoundInv
    <2>3. 0 \in Nat /\ 0 <= Room /\ 0 + 1 = 1
        BY <2>2
    <2>4. Fits(doc, 1, Room')
        BY <1>5, <2>1, <2>2, <2>3, DocumentFits DEF WalkInv
    <2>5. stack' = <<doc>>
        BY <1>5, <2>1
    <2>6. Len(stack') = 1 /\ stack'[1] = doc /\ 1 - 1 + 1 = 1
        BY <2>5
    <2>7. \A k \in 1..1 : k = 1
        OBVIOUS
    <2>8. AllFit(stack', Room')
        BY <2>4, <2>6, <2>7 DEF AllFit
    <2> QED BY <1>3, <2>8 DEF BoundInv
<1> QED BY <1>1, <1>4, <1>5 DEF ScanPlaybook

LEMMA FollowIncludeFits ==
    ASSUME WalkInv, BoundInv, FollowInclude
    PROVE  BoundInv'
<1>1. PICK path : path = IncludeTarget(SubstituteVars(Current.include, LocalVars))
    OBVIOUS
<1>2. /\ stack # <<>> /\ Top.items # <<>> /\ world \in Worlds /\ FramesReached
      /\ visited' \in {visited, visited \cup {path}}
    BY <1>1 DEF FollowInclude, Walking, Mark, WalkInv
<1>3. IsFiniteSet(visited) /\ IsFiniteSet(visited') /\ Room \in Nat
    BY <1>2, FS_AddElement, RoomType DEF BoundInv
<1>4. /\ AllFit(Rest, Room) /\ Len(Rest) = Len(stack) /\ Fits(Top, Len(stack), Room)
      /\ Len(stack) \in Nat /\ Frames(Rest)
    BY <1>2, <1>3, RestFits, FramesAre DEF BoundInv
<1>5. CASE path \in visited \/ visited' = visited
    <2>1. stack' = Rest /\ Room' = Room
        BY <1>1, <1>2, <1>5 DEF FollowInclude, Mark, Room
    <2> QED BY <1>3, <1>4, <2>1 DEF BoundInv
<1>6. CASE path \notin visited /\ visited' = visited \cup {path}
    <2>1. Room' = Room + Nesting
        BY <1>3, <1>6, RoomGrows
    <2>2. Room' \in Nat /\ Room <= Room'
        BY <1>3, <2>1, HeightType
    <2>3. AllFit(Rest, Room')
        BY <1>3, <1>4, <2>2, FitOn
    <2>4. CASE stack' = Rest
        BY <1>3, <2>3, <2>4 DEF BoundInv
    <2>5. CASE Readable(world, path) /\ stack' = <<Document(path, LocalVars)>> \o Rest
        <3>1. PICK doc : doc = Document(path, LocalVars)
            OBVIOUS
        <3>2. Len(stack) <= Room
            BY <1>4 DEF Fits
        <3>3. Fits(doc, Len(stack) + 1, Room')
            BY <1>2, <1>3, <1>4, <2>1, <2>5, <3>1, <3>2, DocumentFits
        <3>4. IsSeq(<<doc>>) /\ Len(<<doc>>) = 1 /\ <<doc>>[1] = doc
            BY SingletonElements
        <3>5. \A k \in 1..1 : k = 1 /\ Len(stack) + (1 - k + 1) = Len(stack) + 1
            BY <1>4
        <3>6. AllFit(<<doc>> \o Rest, Room')
            BY <1>4, <2>2, <2>3, <3>3, <3>4, <3>5, PushFits DEF Frames
        <3> QED BY <1>3, <2>5, <3>1, <3>6 DEF BoundInv
    <2> QED BY <1>1, <1>6, <2>4, <2>5 DEF FollowInclude, Mark
<1> QED BY <1>2, <1>5, <1>6

(* Sections of a play and blocks of a task.                                *)
LEMMA PushedListsFit ==
    ASSUME WalkInv, BoundInv, stack # <<>>, Top.items # <<>>,
           NEW lists, NEW bound, lists \in Seq(Seq(Items)), Stands(Current, lists),
           stack' = [k \in DOMAIN lists |-> List(lists[k], bound, Top.dir)] \o Rest,
           visited' = visited
    PROVE  BoundInv'
<1> DEFINE new == [k \in DOMAIN lists |-> List(lists[k], bound, Top.dir)]
<1>1. FramesReached /\ Room \in Nat /\ Room' = Room
    BY RoomType DEF WalkInv, BoundInv, Room
<1>2. /\ AllFit(Rest, Room) /\ Len(Rest) = Len(stack) /\ Fits(Top, Len(stack), Room)
      /\ Len(stack) \in Nat /\ IsSeq(Rest)
    BY <1>1, RestFits, RestReached DEF BoundInv
<1>3. Current \in Items /\ Len(stack) + Height[Current] <= Room
    BY <1>1, <1>2, CurrentReached DEF Fits
<1>4. Len(new) = Len(lists)
      /\ \A k \in 1..Len(new) : Fits(new[k], Len(stack) + (Len(new) - k + 1), Room)
    BY <1>1, <1>2, <1>3, ListsFit
<1>5. IsSeq(new)
    BY OwedOfLists
<1> HIDE DEF new
<1>6. AllFit(new \o Rest, Room)
    BY <1>1, <1>2, <1>4, <1>5, PushFits
<1> QED BY <1>1, <1>6 DEF BoundInv, new

LEMMA BoundStep ==
    ASSUME WalkInv, BoundInv, [Scanning \/ ScanEnded]_scanVars
    PROVE  BoundInv'
<1>1. CASE ScanPlaybook
    BY <1>1, ScanPlaybookFits
<1>2. CASE FollowInclude
    BY <1>2, FollowIncludeFits
<1>3. CASE ScanPlay
    <2>1. PICK lists, bound :
              lists = Current.sections /\ bound = MergeVars(Top.vars, PlayVarsOf(Current, Top.dir))
        OBVIOUS
    <2>2. stack # <<>> /\ Top.items # <<>> /\ Current \in OfKind("play") /\ visited' = visited
        BY <1>3, CurrentReached DEF ScanPlay, Walking, WalkInv, OfKind
    <2>3. lists \in {i.sections : i \in OfKind("play")} /\ Stands(Current, lists)
        BY <2>1, <2>2, ScanAssumption
    <2>4. lists \in Seq(Seq(Items))
        BY <2>3, ScanAssumption
    <2>5. stack' = [k \in DOMAIN lists |-> List(lists[k], bound, Top.dir)] \o Rest
        BY <1>3, <2>1 DEF ScanPlay
    <2> QED BY <2>2, <2>3, <2>4, <2>5, PushedListsFit
<1>4. CASE EnterBlocks
    <2>1. PICK lists, bound : lists = Current.blocks /\ bound = LocalVars
        OBVIOUS
    <2>2. stack # <<>> /\ Top.items # <<>> /\ Current \in OfKind("task") /\ visited' = visited
        BY <1>4, CurrentReached DEF EnterBlocks, Walking, WalkInv, OfKind
    <2>3. lists \in {i.blocks : i \in OfKind("task")} /\ Stands(Current, lists)
        BY <2>1, <2>2, ScanAssumption
    <2>4. lists \in Seq(Seq(Items))
        BY <2>3, ScanAssumption
    <2>5. stack' = [k \in DOMAIN lists |-> List(lists[k], bound, Top.dir)] \o Rest
        BY <1>4, <2>1 DEF EnterBlocks
    <2> QED BY <2>2, <2>3, <2>4, <2>5, PushedListsFit
<1>5. CASE ManageFiles \/ SkipItem
    <2>1. stack # <<>> /\ Top.items # <<>> /\ visited' = visited /\ stack' = Rest
        BY <1>5 DEF ManageFiles, SkipItem, Walking
    <2>2. Room \in Nat /\ Room' = Room /\ FramesReached
        BY <2>1, RoomType DEF BoundInv, Room, WalkInv
    <2> QED BY <2>1, <2>2, RestFits DEF BoundInv
<1>6. CASE LeaveList
    <2>1. stack # <<>> /\ visited' = visited /\ stack' = Tail(stack)
        BY <1>6 DEF LeaveList
    <2>2. Room' = Room
        BY <2>1 DEF Room
    <2>3. stack \in Seq(Elements(stack)) /\ Len(stack) \in Nat
        BY DEF WalkInv, FramesReached, IsSeq
    <2>4. Len(Tail(stack)) = Len(stack) - 1
          /\ \A k \in 1..(Len(stack) - 1) : Tail(stack)[k] = stack[k + 1]
        BY <2>1, <2>3
    <2>5. ASSUME NEW k \in 1..(Len(stack) - 1)
          PROVE  Fits(Tail(stack)[k], (Len(stack) - 1) - k + 1, Room)
        <3>1. k + 1 \in 1..Len(stack) /\ Len(stack) - (k + 1) + 1 = (Len(stack) - 1) - k + 1
            BY <2>3
        <3>2. Fits(stack[k + 1], Len(stack) - (k + 1) + 1, Room)
            BY <3>1 DEF BoundInv, AllFit
        <3> QED BY <2>4, <3>1, <3>2
    <2>6. AllFit(Tail(stack), Room)
        BY <2>4, <2>5 DEF AllFit
    <2> QED BY <2>1, <2>2, <2>6 DEF BoundInv
<1>7. CASE Return \/ ScanEnded \/ UNCHANGED scanVars
    <2>1. stack' = stack /\ visited' = visited
        BY <1>7 DEF Return, ScanEnded, scanVars
    <2> QED BY <2>1 DEF BoundInv, Room
<1> QED BY <1>1, <1>2, <1>3, <1>4, <1>5, <1>6, <1>7 DEF Scanning

LEMMA BoundSuffices ==
    ASSUME WalkInv, BoundInv
    PROVE  WalkIsBounded
<1>1. Room \in Nat
    BY RoomType DEF BoundInv
<1>2. stack \in Seq(Elements(stack)) /\ Len(stack) \in Nat
    BY DEF WalkInv, FramesReached, IsSeq
<1>3. CASE Len(stack) = 0
    BY <1>1, <1>3 DEF WalkIsBounded, Room
<1>4. CASE Len(stack) # 0
    <2>1. 1 \in 1..Len(stack) /\ Len(stack) - 1 + 1 = Len(stack)
        BY <1>2, <1>4
    <2>2. Fits(stack[1], Len(stack), Room)
        BY <2>1 DEF BoundInv, AllFit
    <2> QED BY <2>2 DEF Fits, WalkIsBounded, Room
<1> QED BY <1>3, <1>4

(* Whatever the includes, of other files, of each other or of themselves,  *)
(* the walk never nests deeper than the files it has visited account for.  *)
THEOREM WalkStaysBounded == ScanSpec => []WalkIsBounded
<1>1. ScanInit => WalkInv /\ BoundInv
    BY ScanInvInit, BoundInit DEF ScanInv
<1>2. WalkInv /\ BoundInv /\ [Scanning \/ ScanEnded]_scanVars => (WalkInv /\ BoundInv)'
    BY WalkInvStep, BoundStep
<1>3. WalkInv /\ BoundInv => WalkIsBounded
    BY BoundSuffices
<1> QED BY <1>1, <1>2, <1>3, PTL DEF ScanSpec
=============================================================================
