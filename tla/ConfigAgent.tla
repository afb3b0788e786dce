----------------------------- MODULE ConfigAgent -----------------------------
(***************************************************************************)
(* The plugin configuration of the gitee hook: ConfigAgent of              *)
(* gitee/plugins/config-agent.go, load and Validate of                     *)
(* gitee/plugins/config.go, and the order in which gitee/cmd/hook/main.go  *)
(* brings it up: a first Load that checks no plugin, initPlugins, then     *)
(* Start, whose Load checks, and the goroutine that loads on every tick.   *)
(*                                                                         *)
(* A Load reads the file, decodes and checks what it read, and swaps it in *)
(* under the lock; between the first and the last of these the file may be *)
(* written again and readers still get the old configuration.              *)
(***************************************************************************)
EXTENDS Naturals

CONSTANTS Plugin,      \* names that may stand in the file
          Linked,      \* plugins that initPlugins registers
          Content,     \* what the file may hold, see ContentOK
          MaxWrites,   \* bound on how often the file is written
          None

\* A content may be unreadable or no YAML at all; it enables plugins, lists external
\* plugins as [name, endpoint] and has sections that the plugin they belong to rejects.
ContentOK(f) == /\ f.decodes \in BOOLEAN
                /\ f.plugins \subseteq Plugin
                /\ \A p \in f.externals : DOMAIN p = {"name", "endpoint"}
                /\ f.badSections \subseteq Plugin

ASSUME ConstantsOK == /\ \A f \in Content : ContentOK(f)
                      /\ Linked \subseteq Plugin
                      /\ MaxWrites \in Nat

VARIABLES file,      \* [content, version]: what is on disk, and its write count
          c,         \* the configuration in force, or None
          pcb,       \* the registered plugin config builders
          helpers,   \* the registered help providers, the known plugins
          loads,     \* Loads that have read the file and not yet ended
          main       \* how far the main goroutine is

vars == <<file, c, pcb, helpers, loads, main>>

Version == [content : Content, version : 0..MaxWrites]

\* What is loaded: the file as read, and the plugins whose section was decoded.
Configurations == [read : Version, sections : SUBSET Plugin]

Load == [config : Configurations, check : BOOLEAN]

TypeOK == /\ file \in Version
          /\ c \in Configurations \/ (c = None /\ main \in {"load", "fatal"})
          /\ pcb \in SUBSET Plugin
          /\ helpers \in SUBSET Plugin
          /\ loads \in SUBSET Load
          /\ main \in {"load", "init", "start", "serving", "fatal"}

Init == /\ file \in {v \in Version : v.version = 0}
        /\ c = None
        /\ pcb = {}
        /\ helpers = {}
        /\ loads = {}
        /\ main = "load"

-----------------------------------------------------------------------------
(* Load in three steps.                                                    *)

\* The file is read; the section of every plugin with a builder is decoded from it.
Read(check) ==
    loads' = loads \union
        {[config |-> [read |-> file, sections |-> pcb], check |-> check]}

\* Mutant: unknown plugins are let through.
AcceptsUnknown(l) ==
    LET f == l.config.read.content IN
    f.decodes /\ f.badSections \cap l.config.sections = {}

\* load and Validate find no error; they look at no external plugin and set no default
\* for one; and every enabled plugin is known if that is to be checked.
Accepts(l) ==
    LET f == l.config.read.content IN
    /\ f.decodes
    /\ f.badSections \cap l.config.sections = {}
    /\ l.check => f.plugins \subseteq helpers

Finish(l) ==
    /\ l \in loads
    /\ loads' = loads \ {l}
    /\ c' = IF Accepts(l) THEN l.config ELSE c

-----------------------------------------------------------------------------
(* main.                                                                   *)

FirstRead == /\ main = "load"
             /\ loads = {}
             /\ Read(FALSE)
             /\ UNCHANGED <<file, c, pcb, helpers, main>>

FirstLoaded == /\ main = "load"
               /\ \E l \in loads :
                     /\ Finish(l)
                     /\ main' = IF Accepts(l) THEN "init" ELSE "fatal"
               /\ UNCHANGED <<file, pcb, helpers>>

\* initPlugins registers the help provider and the config builder of each plugin.
initPlugins == /\ main = "init"
               /\ pcb' = pcb \union Linked
               /\ helpers' = helpers \union Linked
               /\ main' = "start"
               /\ UNCHANGED <<file, c, loads>>

StartRead == /\ main = "start"
             /\ loads = {}
             /\ Read(TRUE)
             /\ UNCHANGED <<file, c, pcb, helpers, main>>

\* Start returns the error of its own Load, and main then exits.
StartLoaded == /\ main = "start"
               /\ \E l \in loads :
                     /\ Finish(l)
                     /\ main' = IF Accepts(l) THEN "serving" ELSE "fatal"
               /\ UNCHANGED <<file, pcb, helpers>>

-----------------------------------------------------------------------------
(* The ticker goroutine, which runs one Load after the other.              *)

\* Mutant: every tick has its own goroutine.
TickConcurrently == /\ main = "serving"
                    /\ Read(TRUE)
                    /\ UNCHANGED <<file, c, pcb, helpers, main>>

Tick == /\ main = "serving"
        /\ loads = {}
        /\ Read(TRUE)
        /\ UNCHANGED <<file, c, pcb, helpers, main>>

\* Mutant: the loop returns when a Load fails.
TickLoadedOrStop == /\ main = "serving"
                    /\ \E l \in loads : Accepts(l) /\ Finish(l)
                    /\ UNCHANGED <<file, pcb, helpers, main>>

\* An error is logged and the next tick is awaited.
TickLoaded == /\ main = "serving"
              /\ \E l \in loads : Finish(l)
              /\ UNCHANGED <<file, pcb, helpers, main>>

\* Somebody writes the file.
Write == /\ file.version < MaxWrites
         /\ \E f \in Content :
               file' = [content |-> f, version |-> file.version + 1]
         /\ UNCHANGED <<c, pcb, helpers, loads, main>>

Main == FirstRead \/ FirstLoaded \/ initPlugins \/ StartRead \/ StartLoaded

Next == Main \/ Tick \/ TickLoaded \/ Write

Spec == Init /\ [][Next]_vars

\* main goes on, ticks keep coming and a Load that has read the file ends.
FairSpec == Spec /\ WF_vars(Main)
                 /\ WF_vars(Tick)
                 /\ WF_vars(TickLoaded)

-----------------------------------------------------------------------------
\* What may be in force while the server runs.
Valid(f) == /\ f.decodes
            /\ f.badSections \cap Linked = {}
            /\ f.plugins \subseteq Linked

\* While the server runs, whatever is written to the file and whenever, the
\* configuration in force is a valid one, and each linked plugin has its section.
ServedConfigIsValid ==
    main = "serving" => /\ c \in Configurations
                        /\ Valid(c.read.content)
                        /\ c.sections = Linked

\* Where the dispatcher posts the events of an external plugin.
PostedTo(p) == p.endpoint

\* "Endpoint is the location of the external plugin.  Defaults to the name of the
\* plugin": whatever the file says, an external plugin in force is posted to somewhere.
ExternalsAddressed ==
    main = "serving" => \A p \in c.read.content.externals : PostedTo(p) # ""

\* A configuration is never replaced by one that was read earlier: Loads do not
\* overtake each other.
NeverBack ==
    [][c # None => c'.read.version >= c.read.version]_vars

\* "Future errors will halt updates but not stop": after any number of broken files,
\* a valid one that stays on disk comes into force.
GoodFileTakesEffect ==
    \A v \in Version : Valid(v.content) =>
        (main = "serving" /\ [](file = v) ~> [](c # None /\ c.read = v))
=============================================================================
