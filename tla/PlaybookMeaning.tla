--------------------------- MODULE PlaybookMeaning ---------------------------
(***************************************************************************)
(* What a set of ansible playbooks manages, as far as it can be told from  *)
(* the files: the yardstick for the scanner of internal/agent/audit/scan.go*)
(* written without its order of work, its stack and its set of visited     *)
(* files.                                                                  *)
(*                                                                         *)
(* A string that may hold templates is a sequence of tokens: a token of    *)
(* Variables is the reference {{ token }}, a token of Roots begins with a  *)
(* slash, and every other token is literal text.  A path is a sequence of  *)
(* tokens with its file name last.  Bindings are functions from names to   *)
(* tokens; a value may be a reference again.                               *)
(*                                                                         *)
(* A world is [playbooks, docs]: the paths given on the command line, and  *)
(* the readable files, [kind, items, scalars], where kind is "list", "map" *)
(* (a mapping: one play, or a file of variables), or anything else for a   *)
(* file that does not parse or is a scalar.  Items are plays, tasks, other *)
(* mappings, such as an import_playbook, or no mappings (kind "play",      *)
(* "task", "mapping", "scalar").                                           *)
(***************************************************************************)
EXTENDS Integers, Sequences

CONSTANTS
    Variables,  \* names that templates refer to
    Item,       \* the loop variable, one of them
    Roots       \* tokens that begin with a slash

NoVars == <<>>
Elements(s) == {s[i] : i \in DOMAIN s}
Dir(path) == SubSeq(path, 1, Len(path) - 1)

HasTemplate(s) == \E i \in DOMAIN s : s[i] \in Variables
IsAbs(s) == s # <<>> /\ s[1] \in Roots
Static(path) == IsAbs(path) /\ ~HasTemplate(path)

(* Where two scopes bind a name the inner one counts; of a sequence of     *)
(* scopes, the last that binds it.                                         *)
Within(outer, inner) ==
    [v \in DOMAIN outer \cup DOMAIN inner |->
        IF v \in DOMAIN inner THEN inner[v] ELSE outer[v]]
LastBinding(scopes) ==
    [v \in UNION {DOMAIN scopes[i] : i \in DOMAIN scopes} |->
        LET i == CHOOSE i \in DOMAIN scopes :
                    /\ v \in DOMAIN scopes[i]
                    /\ \A j \in DOMAIN scopes : v \in DOMAIN scopes[j] => j <= i
        IN  scopes[i][v]]

-----------------------------------------------------------------------------
(***************************************************************************)
(* The paths of one task.                                                  *)
(***************************************************************************)
ValueAt(token, vars, item) ==
    LET value == IF token \in DOMAIN vars THEN vars[token] ELSE token
    IN  IF value = Item THEN item ELSE value

ManagedPaths(raw, vars, loop) ==
    {[i \in DOMAIN raw |-> ValueAt(raw[i], vars, item)] :
        item \in IF loop = <<>> THEN {Item} ELSE Elements(loop)}

TakesPath == {"file", "lineinfile", "blockinfile"}
TakesDest == TakesPath \cup {"template", "copy", "assemble", "get_url", "unarchive"}
Commands == {"command", "shell", "script"}

Has(t, key) == key \in DOMAIN t.args /\ t.args[key] # <<>>
RawPaths(t) ==
    (IF t.mod \in TakesPath /\ Has(t, "path") THEN {t.args["path"]}
     ELSE IF t.mod \in TakesDest /\ Has(t, "dest") THEN {t.args["dest"]} ELSE {})
    \cup
    (IF t.mod \in Commands
       THEN ({t.creates, t.inline} \cup {t.args[k] : k \in {"creates"} \cap DOMAIN t.args}) \ {<<>>}
       ELSE {})

(* Tasks that manage something a manifest cannot express.                  *)
Untrackable(t) ==
    \/ t.mod \in TakesDest /\ ~t.mapping
    \/ t.mod = "file" /\ t.state = "absent"
    \/ t.mod = "unarchive"
    \/ t.mod = "get_url" /\ \E raw \in RawPaths(t) : raw[Len(raw)] = "/"
    \/ t.mod \in Commands /\ (t.removes # <<>> \/ Has(t, "removes"))

-----------------------------------------------------------------------------
(***************************************************************************)
(* The tasks that are reached, each with the bindings in force and the     *)
(* directory its relative includes start from.                             *)
(***************************************************************************)
Context(t, vars, dir) == [task |-> t, vars |-> Within(vars, t.vars), dir |-> dir]
Contexts(list, vars, dir) ==
    {Context(t, vars, dir) : t \in {t \in Elements(list) : t.kind = "task"}}

Readable(w, path) ==
    path \in DOMAIN w.docs /\ w.docs[path].kind \in {"list", "map"}

VarsFile(dir, f) == IF IsAbs(f) THEN f ELSE dir \o f
VarsReadable(w, path) ==
    path \in DOMAIN w.docs /\ w.docs[path].kind = "map"
VarsScope(w, path) ==
    IF VarsReadable(w, path) THEN w.docs[path].scalars ELSE NoVars
PlayScopes(w, play, dir) ==
    <<play.vars>> \o
        [i \in DOMAIN play.vars_files |-> VarsScope(w, VarsFile(dir, play.vars_files[i]))]

(* The tasks of a file are those it lists itself and those of its plays,   *)
(* wherever they stand.                                                    *)
Plays(doc) == {play \in Elements(doc.items) : play.kind = "play"}
InFile(w, path, vars) ==
    LET doc == w.docs[path]
        dir == Dir(path)
    IN  Contexts(doc.items, vars, dir)
        \cup UNION {
                UNION {Contexts(section, Within(vars, LastBinding(PlayScopes(w, play, dir))), dir) :
                          section \in Elements(play.sections)} :
                play \in Plays(doc)}

IncludePath(c) == [i \in DOMAIN c.task.include |->
                      IF c.task.include[i] \in DOMAIN c.vars
                        THEN c.vars[c.task.include[i]] ELSE c.task.include[i]]
IncludedFile(c) == IF IsAbs(IncludePath(c)) THEN IncludePath(c) ELSE c.dir \o IncludePath(c)

Inside(w, c) ==
    IF c.task.blocks # <<>>
      THEN UNION {Contexts(list, c.vars, c.dir) : list \in Elements(c.task.blocks)}
    ELSE IF c.task.include # <<>> /\ ~HasTemplate(IncludePath(c))
              /\ Readable(w, IncludedFile(c))
      THEN InFile(w, IncludedFile(c), c.vars)
    ELSE {}

Given(w) == UNION {InFile(w, p, NoVars) : p \in {p \in Elements(w.playbooks) : Readable(w, p)}}

(* The contexts reached within a number of blocks and includes, and what it*)
(* means that there are no more.                                           *)
ReachedIn(w) ==
    LET reach[n \in Nat] ==
            IF n = 0 THEN Given(w)
            ELSE LET nearer == reach[n - 1]
                 IN  nearer \cup UNION {Inside(w, c) : c \in nearer}
    IN  reach
Closed(w, S) == Given(w) \subseteq S /\ \A c \in S : Inside(w, c) \subseteq S
=============================================================================
