--------------------------- MODULE PluginOptions ---------------------------
(***************************************************************************)
(* The configuration file of the plugins as administrators edit it, and    *)
(* what the code makes of it: the defaults and checks of a load and the    *)
(* lookups for a repository (prow/plugins/config.go), with the lookup of   *)
(* the cla plugin (gitee/plugins/cla/config.go).                           *)
(*                                                                         *)
(* A load changes nothing but the configuration in force, which            *)
(* ConfigAgent models; here only the file is state, and the properties are *)
(* about every file, or every file that Validate accepts.                  *)
(***************************************************************************)
EXTENDS BugzillaOptions, FiniteSets

CONSTANTS
    Repo,           \* full names of repositories
    Org,            \* names of organisations
    Owner,          \* the organisation of each repository
    Listed,         \* what may stand in a list of plugins: [name, endpoint]
    File,           \* files that the config updater watches
    Base,           \* the last part of a file's path
    MapSpec,        \* what may be said of a file, see SpecOK
    ProwJobNamespace, \* where a file goes that names no namespace
    Branch,         \* branches that the Bugzilla section may name, with "*"
    Setting,        \* what may be said of a branch: pairs of an option and its value
    Bug,            \* bugs: [status, resolution]
    Section,        \* the sections that are edited, one in each behaviour
    MaxEdits        \* bound: edits of the file

Name == Org \union Repo

\* A config map of the updater: its name, the key in it ("" for the base name of the
\* file), namespaces in the old form, and namespaces by cluster in the new one.
SpecOK(s) ==
    /\ DOMAIN s = {"name", "key", "namespace", "additional", "clusters"}
    /\ IsFiniteSet(DOMAIN s.clusters)
    /\ \A l \in {s.additional} \union {s.clusters[cl] : cl \in DOMAIN s.clusters} :
           l \in Seq(Elements(l))

\* The states and the statuses are lists.
SettingOK(s) ==
    /\ s[1] \in DOMAIN NoOptions
    /\ s[1] \in {"validStates", "statuses"} => s[2] \in Seq(Elements(s[2]))

ASSUME OptionsAssumption ==
    /\ Owner \in [Repo -> Org]
    /\ \A p \in Listed : /\ p \in [name : STRING, endpoint : STRING]
                         /\ "http://" \o p.name # ""
    /\ Wildcard \in Branch
    /\ DOMAIN Base = File
    /\ \A s \in MapSpec : SpecOK(s)
    /\ \A s \in Setting : SettingOK(s)
    /\ \A bug \in Bug : DOMAIN bug = {"status", "resolution"}
    /\ MaxEdits \in Nat

VARIABLES
    section,        \* the section that is edited
    edits,          \* how often it was
    entries,        \* a list of entries (of Lgtm, Triggers or CLA), each with the edit
                    \* that brought it and the names it is for
    dco,            \* the names that have a Dco
    plugins,        \* the external plugins of each name; the plugins of the process are
                    \* checked in the same way and have no endpoint
    maps,           \* the config maps of the updater
    bugzilla        \* the Bugzilla options by level and branch

fileVars == <<section, edits, entries, dco, plugins, maps, bugzilla>>

FileInit ==
    /\ section \in Section
    /\ edits = 0
    /\ entries = <<>>
    /\ dco = {}
    /\ plugins = [x \in Name |-> <<>>]
    /\ maps = <<>>
    /\ bugzilla = [default |-> <<>>, org |-> <<>>, repo |-> <<>>]

-----------------------------------------------------------------------------
(* Lookups.  They return the entry they find, as a set: empty if there is  *)
(* none.                                                                   *)

\* Positions of the entries for x.
For(x, list) == {i \in DOMAIN list : x \in list[i].names}

Foremost(is, list) == {list[i] : i \in {i \in is : \A j \in is : i <= j}}
Rearmost(is, list) == {list[i] : i \in {i \in is : \A j \in is : i >= j}}

\* Mutant: one loop that takes the first entry for either.
LgtmForEither(r, list) == Foremost(For(r, list) \union For(Owner[r], list), list)

\* The Lgtm of a repository: the first of its own, else the first of its organisation.
LgtmFor(r, list) ==
    Foremost(IF For(r, list) # {} THEN For(r, list) ELSE For(Owner[r], list), list)

\* The first Trigger that is for the repository or for its organisation.
TriggerFor(r, list) == Foremost(For(r, list) \union For(Owner[r], list), list)

\* The cla entry: the first for the repository, else the last for its organisation.
CLAFor(r, list) ==
    IF For(r, list) # {} THEN Foremost(For(r, list), list) ELSE Rearmost(For(Owner[r], list), list)

\* Whose Dco a repository has.
DcoFor(r, names) ==
    IF r \in names THEN {r}
    ELSE IF Owner[r] \in names THEN {Owner[r]}
    ELSE names \intersect {Wildcard}

-----------------------------------------------------------------------------
(* Defaults and checks of a load.                                          *)

\* An external plugin without an endpoint is reached by its name.
Addressed ==
    [x \in Name |->
        [i \in DOMAIN plugins[x] |->
            IF plugins[x][i].endpoint # "" THEN plugins[x][i]
            ELSE [plugins[x][i] EXCEPT !.endpoint = "http://" \o plugins[x][i].name]]]

Names(list) == {list[i].name : i \in DOMAIN list}

findDuplicatedPluginConfig(repoConfig, orgConfig) ==
    Names(repoConfig) \intersect Names(orgConfig)

\* Mutant: only the first of each list is compared.
validateExternalPluginsFirst ==
    \A r \in Repo : \/ plugins[r] = <<>>
                    \/ plugins[Owner[r]] = <<>>
                    \/ plugins[r][1].name # plugins[Owner[r]][1].name

\* No plugin is listed for a repository and for its organisation.
validateExternalPlugins ==
    \A r \in Repo : findDuplicatedPluginConfig(plugins[r], plugins[Owner[r]]) = {}

\* SetDefaults of the updater: two files if there are none, and the namespaces become
\* those of the default cluster unless there are clusters.
UpdaterDefaults ==
    LET files == {"config/prow/config.yaml", "config/prow/plugins.yaml"}
        given == IF DOMAIN maps # {} THEN maps
                 ELSE [f \in files |->
                        [name |-> IF f = "config/prow/config.yaml" THEN "config" ELSE "plugins",
                         key |-> "", namespace |-> "", additional |-> <<>>, clusters |-> <<>>]]
    IN  [f \in DOMAIN given |->
            IF DOMAIN given[f].clusters # {} THEN given[f]
            ELSE [given[f] EXCEPT !.clusters =
                    [default |-> <<given[f].namespace>> \o given[f].additional]]]

\* Mutant: the key is the path of the file, not its last part.
KeyOfPath(f, spec) == IF spec.key # "" THEN spec.key ELSE f

\* The last part of a path; what is no file of the administrators is one of SetDefaults.
BaseOf(f) ==
    IF f \in File THEN Base[f]
    ELSE IF f = "config/prow/config.yaml" THEN "config.yaml" ELSE "plugins.yaml"

\* The key that a file is written to.
KeyOf(f, spec) == IF spec.key # "" THEN spec.key ELSE BaseOf(f)

\* No key of a config map of a namespace of a cluster is listed twice, by two files or
\* by one.
validateConfigUpdater ==
    LET updater == UpdaterDefaults
        placesOf(f) == UNION {{<<f, cl, i>> : i \in DOMAIN updater[f].clusters[cl]} :
                                cl \in DOMAIN updater[f].clusters}
        places == UNION {placesOf(f) : f \in DOMAIN updater}
        target(p) == [name |-> updater[p[1]].name, cluster |-> p[2],
                      namespace |-> updater[p[1]].clusters[p[2]][p[3]],
                      key |-> KeyOf(p[1], updater[p[1]])]
    IN  \A p, q \in places : target(p) = target(q) => p = q

-----------------------------------------------------------------------------
(* Edits of the file.                                                      *)

\* A map in which key k has value v.
Put(map, k, v) == [x \in DOMAIN map \union {k} |-> IF x = k THEN v ELSE map[x]]

InSection(s) ==
    /\ section = s
    /\ edits < MaxEdits
    /\ edits' = edits + 1
    /\ UNCHANGED section

\* An entry is inserted at position i.
EditEntries(names, i) ==
    /\ InSection("entries")
    /\ entries' = InsertAt(entries, i, [edit |-> edits, names |-> names])
    /\ UNCHANGED <<dco, plugins, maps, bugzilla>>

EditDco(x) ==
    /\ InSection("dco")
    /\ dco' = IF x \in dco THEN dco \ {x} ELSE dco \union {x}
    /\ UNCHANGED <<entries, plugins, maps, bugzilla>>

EditPlugins(x, p) ==
    /\ InSection("plugins")
    /\ plugins' = [plugins EXCEPT ![x] = Append(@, p)]
    /\ UNCHANGED <<entries, dco, maps, bugzilla>>

EditMaps(f, spec) ==
    /\ InSection("maps")
    /\ maps' = Put(maps, f, spec)
    /\ UNCHANGED <<entries, dco, plugins, bugzilla>>

\* s[1] is the option, s[2] what it points to.
EditBugzilla(level, branch, s) ==
    /\ InSection("bugzilla")
    /\ bugzilla' = [bugzilla EXCEPT ![level] =
                       Put(@, branch, [Item(branch, @) EXCEPT ![s[1]] = {s[2]}])]
    /\ UNCHANGED <<entries, dco, plugins, maps>>

Edit ==
    \/ \E names \in (SUBSET Name) \ {{}}, i \in 1..(Len(entries) + 1) : EditEntries(names, i)
    \/ \E x \in Name \union {Wildcard} : EditDco(x)
    \/ \E x \in Name, p \in Listed : EditPlugins(x, p)
    \/ \E f \in File, spec \in MapSpec : EditMaps(f, spec)
    \/ \E level \in DOMAIN bugzilla, b \in Branch, s \in Setting : EditBugzilla(level, b, s)

FileSpec == FileInit /\ [][Edit]_fileVars

-----------------------------------------------------------------------------
(* Properties.                                                             *)

NewEntry == entries'[CHOOSE i \in DOMAIN entries' : entries'[i].edit = edits]

\* What stands in the file keeps its effect.  An entry that does not name a repository,
\* wherever it is inserted, and a Dco for another name leave the Lgtm, the cla entry and
\* the Dco of a repository with its own alone (LgtmFor, CLAFor, DcoFor).  An entry at the
\* end of the list yields to those before: it becomes a Trigger only where there was none,
\* and a Lgtm also where there was only the organisation's and it names the repository
\* (TriggerFor, LgtmFor); the cla plugin instead takes an organisation's last entry.
EntriesKeepTheirPlace ==
    [][\A r \in Repo :
        /\ (entries' # entries /\ For(r, entries) # {} /\ r \notin NewEntry.names) =>
                /\ LgtmFor(r, entries)' = LgtmFor(r, entries)
                /\ CLAFor(r, entries)' = CLAFor(r, entries)
        /\ (entries' # entries /\ entries'[Len(entries')] = NewEntry) =>
                /\ \/ TriggerFor(r, entries) = {}
                   \/ TriggerFor(r, entries)' = TriggerFor(r, entries)
                /\ \/ LgtmFor(r, entries) = {}
                   \/ For(r, entries) = {} /\ r \in NewEntry.names
                   \/ LgtmFor(r, entries)' = LgtmFor(r, entries)
        /\ (r \in dco /\ r \in dco') => DcoFor(r, dco)' = DcoFor(r, dco)]_fileVars

\* The namespaces of a file, by cluster: as given for the clusters, or else the old ones
\* for the default cluster.
Spaces(spec) ==
    IF DOMAIN spec.clusters # {}
    THEN UNION {{<<cl, n>> : n \in Elements(spec.clusters[cl])} : cl \in DOMAIN spec.clusters}
    ELSE {<<"default", n>> : n \in {spec.namespace} \union Elements(spec.additional)}

\* Where a file is written: what names no namespace goes to that of the ProwJobs.
Destinations(f, spec) ==
    {<<spec.name, <<d[1], IF d[2] = "" THEN ProwJobNamespace ELSE d[2]>>,
       IF spec.key = "" THEN Base[f] ELSE spec.key>> : d \in Spaces(spec)}

\* In some cluster one of two files names the namespace of the ProwJobs and the other
\* leaves it out.
NamedBothWays(f, g) ==
    \E d \in Spaces(maps[f]), e \in Spaces(maps[g]) :
        d[1] = e[1] /\ {d[2], e[2]} = {"", ProwJobNamespace}

\* In a file that is accepted no two files are written to the same key of the same
\* config map, in whatever form each of them says where it goes (SetDefaults,
\* validateConfigUpdater): the second would undo the first with every update.  Nothing is
\* said of two files one of which names the namespace of the ProwJobs in a
\* cluster where the other leaves it out: the check takes the two for different places.
OneWriterPerKey ==
    validateConfigUpdater =>
        \A f, g \in DOMAIN maps :
            (f # g /\ ~NamedBothWays(f, g)) =>
                Destinations(f, maps[f]) \intersect Destinations(g, maps[g]) = {}

\* The external plugins of a repository: its organisation's and its own.
PluginsOf(r) == Addressed[Owner[r]] \o Addressed[r]

NoRepetition(list) == Cardinality(Names(list)) = Len(list)

\* In a file that is accepted and whose lists repeat nothing, every external plugin of a
\* repository is posted an event once, and to an endpoint (setDefaults,
\* validateExternalPlugins).  A repetition within one list is not looked for.
PostedOnce ==
    (validateExternalPlugins /\ \A x \in Name : NoRepetition(plugins[x])) =>
        \A r \in Repo : /\ NoRepetition(PluginsOf(r))
                        /\ \A i \in DOMAIN PluginsOf(r) : PluginsOf(r)[i].endpoint # ""

\* What one level says of an option of a branch: the item of the branch if it says
\* something, else the wildcard's unless the branch excludes it.
LevelSays(level, branch, f) ==
    LET own == Item(branch, bugzilla[level])
    IN  IF Sets(own, f) THEN Says(own, f)
        ELSE IF Excludes(own) THEN nil
        ELSE Says(Item(Wildcard, bugzilla[level]), f)

\* An item of the level for the branch excludes what more general ones say.
LevelExcludes(level, branch) ==
    \E i \in {branch, Wildcard} : Excludes(Item(i, bugzilla[level]))

\* An exclusion that should make the branch have no value for the option: the level that
\* excludes and the more specific ones say nothing of it, a more general one does.
Excluded(branch, f) ==
    LET silent(level) == LevelSays(level, branch, f) = nil
    IN  /\ silent("repo")
        /\ \/ LevelExcludes("repo", branch)
           \/ LevelExcludes("org", branch) /\ silent("org")
        /\ ~silent("org") \/ ~silent("default")

\* The most specific level that has a value for an option decides it, option by option,
\* whatever form each level uses, and a branch that excludes the wildcard of the
\* section for all has no value from there (OptionsForBranch, ResolveBugzillaOptions).
\* Nothing is said of a branch whose organisation or repository excludes the value of a
\* more general level: exclude_defaults promises that it has none, and it has that value.
MostSpecificDecides ==
    section = "bugzilla" =>
        \A b \in Branch, f \in Resolved :
            LET says(level) == LevelSays(level, b, f)
            IN  ~Excluded(b, f) =>
                    OptionsForBranch(bugzilla, b)[f] =
                        IF says("repo") # nil THEN says("repo")
                        ELSE IF LevelExcludes("repo", b) THEN nil
                        ELSE IF says("org") # nil THEN says("org")
                        ELSE IF LevelExcludes("org", b) THEN nil
                        ELSE says("default")

Same(o, other) ==
    /\ o.isOpen = other.isOpen
    /\ {Elements(l) : l \in o.validStates} = {Elements(l) : l \in other.validStates}
    /\ o.stateAfter = other.stateAfter

NoStateRepeated ==
    \A level \in DOMAIN bugzilla : \A b \in DOMAIN bugzilla[level] :
        \A l \in bugzilla[level][b].validStates : IsInjective(l)

\* If no list of states repeats one, a branch that OptionsForRepo leaves out has the
\* options of the wildcard it shows, and one that it shows has those it shows with it,
\* but for the dependent releases, which are not compared (OptionsForRepo, matches).
OmittedAsWildcard ==
    (section = "bugzilla" /\ NoStateRepeated) =>
        LET shown == OptionsForRepo(bugzilla)
        IN  \A b \in Branch :
                Same(OptionsForBranch(bugzilla, b),
                     IF b \in DOMAIN shown THEN shown[b] ELSE Item(Wildcard, shown))

\* A bug that is updated to the state after validation or merge is then in that state,
\* and one that is in it is not updated (AsBugUpdate, Matches).
StateReached ==
    section = "bugzilla" =>
        \A b \in Branch, bug \in Bug :
            \A s \in OptionsForBranch(bugzilla, b).stateAfter :
                /\ Matches(s, Updated(bug, AsBugUpdate(s, bug)))
                /\ Matches(s, bug) <=> AsBugUpdate(s, bug) = nil

=============================================================================
