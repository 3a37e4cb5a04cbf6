------------------------------- MODULE MCScan -------------------------------
(***************************************************************************)
(* Playbooks for TLC: a playbook of one or two plays, a directory with two *)
(* task files that may include each other, and a file of variables, each   *)
(* with tasks taken from a list of the shapes the scanner tells apart.     *)
(***************************************************************************)
EXTENDS Scan, TLC

MCVariables == {"item", "v", "u"}
MCRoots == {"/play", "/etc", "/srv"}

Site == <<"/play", "site.yml">>
A == <<"/play", "tasks", "a.yml">>
B == <<"/play", "tasks", "b.yml">>
Vars == <<"/play", "vars.yml">>

Plain == [kind |-> "task", name |-> "", vars |-> NoVars, blocks |-> <<>>,
          include |-> <<>>, loop |-> <<>>, mod |-> "debug", mapping |-> TRUE,
          state |-> "", args |-> <<>>, creates |-> <<>>, removes |-> <<>>,
          inline |-> <<>>]
Uses(mod, args) == [Plain EXCEPT !.mod = mod, !.args = args]
Template == Uses("template", [dest |-> <<"/etc", "v">>])
Copies(loop) == [Uses("copy", [dest |-> <<"/etc", "item">>]) EXCEPT !.loop = loop]
Include(raw) == [Plain EXCEPT !.include = raw]
Named(t, name) == [t EXCEPT !.name = name]

(* Shapes of tasks without blocks and includes.                            *)
Modules ==
    {Template,
     Copies(<<"x", "y">>), Copies(<<"x", "u">>), Copies(<<>>),
     Uses("file", [path |-> <<"/etc", "p">>, dest |-> <<"/etc", "d">>]),
     [Uses("file", [path |-> <<"/etc", "p">>]) EXCEPT !.state = "absent"],
     Uses("get_url", [dest |-> <<"/srv", "/">>]),
     [Uses("lineinfile", <<>>) EXCEPT !.mapping = FALSE],
     [Plain EXCEPT !.mod = "shell", !.creates = <<"v", "c">>,
                   !.inline = <<"/srv", "o">>, !.removes = <<"/srv", "r">>]}
Block(t) ==
    [Plain EXCEPT !.vars = [v |-> "block"],
                  !.blocks = <<<<Named(t, "b1")>>, <<Named(Template, "b2")>>>>]
Includes ==
    {Include(<<"tasks", "a.yml">>),
     [Include(<<"tasks", "a.yml">>) EXCEPT !.vars = [v |-> "include"]],
     Include(<<"tasks", "u">>), Include(<<"tasks", "gone.yml">>)}
SiteTasks == Modules \cup {Block(t) : t \in Modules} \cup Includes

Play(bound, from, sections) ==
    [kind |-> "play", vars |-> bound, vars_files |-> from, sections |-> sections]
Scalar == [kind |-> "scalar"]
Import == [kind |-> "mapping"]

Doc(kind, items, scalars) == [kind |-> kind, items |-> items, scalars |-> scalars]
VarsDoc == Doc("map", <<>>, [v |-> "/srv"])

(* The play variables: none, its own, overridden by a file, a missing file.*)
Bounds == {<<NoVars, <<>>>>, <<[v |-> "own"], <<>>>>,
           <<[v |-> "own"], <<<<"vars.yml">>>>>>, <<NoVars, <<<<"no.yml">>>>>>}
SitePlays ==
    {Play(b[1], b[2], <<<<Named(s, "s1")>>, <<Named(Include(<<"tasks", "a.yml">>), "s2")>>>>) :
        b \in Bounds, s \in SiteTasks}
ATasks == {Named(t, "a1") : t \in {Template, Include(<<"b.yml">>), Block(Include(<<"b.yml">>)),
                                   Include(<<"gone.yml">>)}}
BTasks == {Named(t, "b") : t \in {Template, Include(<<"/play", "tasks", "a.yml">>)}}
Last == Named(Copies(<<"x", "y">>), "last")
Second == Play([v |-> "second"], <<>>, <<<<Named(Template, "t1")>>>>)

Tree(site, a, b) ==
    Site :> Doc("list", site, NoVars) @@ A :> Doc("list", <<a, Last>>, NoVars)
    @@ B :> Doc("list", <<b, Scalar, Import>>, NoVars) @@ Vars :> VarsDoc
World(playbooks, docs) == [playbooks |-> playbooks, docs |-> docs]

(* An include that leads to another file each time it is reached.          *)
Leads(to) == [Include(<<"tasks", "a.yml">>) EXCEPT !.vars = [v |-> to]]
Rebound == Play([v |-> "own"], <<>>, <<<<Named(Leads("gone.yml"), "s1"), Named(Leads("b.yml"), "s2")>>>>)
Onward == Named(Include(<<"v">>), "a1")

(* Sites the scanner does not read as meant.                               *)
Installer == [Uses("command", [creates |-> <<"/srv", "c">>]) EXCEPT !.name = "s1"]
OddSites ==
    {<<Import, Second>>, <<Scalar, Last, Second>>, <<Play(NoVars, <<>>, <<<<Installer>>>>)>>,
     <<Last, Second, Scalar>>}

MCWorlds ==
    {World(<<Site>>, Tree(<<Rebound>>, Onward, Named(Template, "b")))}
    \cup {World(<<Site>>, Tree(site, Last, Last)) : site \in OddSites}
    \cup {World(<<Site>>, Tree(<<p>>, a, b)) : p \in SitePlays, a \in ATasks, b \in BTasks}
    \cup {World(ps, Tree(<<p, Scalar, Import, Second>>, a, Named(Template, "b"))) :
             ps \in {<<Site, A>>, <<A, Site>>, <<Site, Vars>>, <<Vars, <<"/play", "no.yml">>>>},
             p \in {p \in SitePlays : p.vars = NoVars}, a \in ATasks}

MCItems == UNION {UNION {Elements(w.docs[p].items) : p \in DOMAIN w.docs} : w \in MCWorlds}
           \cup UNION {UNION {Elements(l) : l \in Elements(p.sections)} : p \in SitePlays \cup {Second, Rebound}}
           \cup {Installer}
           \cup UNION {UNION {Elements(l) : l \in Elements(t.blocks)} :
                          t \in SiteTasks \cup ATasks}

(* A block has up to two lists and no block in them.                       *)
MCHeight ==
    [i \in Items |-> IF i.kind = "play" THEN Len(i.sections) + 2
                     ELSE IF i.kind = "task" THEN Len(i.blocks) ELSE 0]

(* A command line whose scan ends without a word about: the members of an  *)
(* archive, creates among the arguments of a command, the path of a        *)
(* one-liner, which is cut at the blank of its reference, what a file of   *)
(* tasks means when it is included again with another variable, and a play *)
(* behind an import.                                                       *)
Dropped ==
    <<Named(Uses("unarchive", [dest |-> <<"/srv", "p">>]), "archive"), Installer,
      Named([Plain EXCEPT !.mod = "shell", !.inline = <<"/srv", "v", "c">>], "line"),
      Named(Include(<<"tasks", "a.yml">>), "first"),
      Named([Include(<<"tasks", "a.yml">>) EXCEPT !.vars = [v |-> "include"]], "again")>>
Dropping == Play([v |-> "own"], <<>>, <<Dropped>>)
Other == <<"/play", "next.yml">>
DropWorlds ==
    {World(<<Site, Other>>, Other :> Doc("list", <<Import, Second>>, NoVars)
                            @@ Tree(<<Dropping>>, Named(Template, "a1"), Last))}
DropItems == MCItems \cup {Dropping} \cup Elements(Dropped)
=============================================================================
