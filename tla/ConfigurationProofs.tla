------------------------ MODULE ConfigurationProofs ------------------------
(***************************************************************************)
(* Proofs about the configuration: the agent that loads it (ConfigAgent)   *)
(* and the file it loads (PluginOptions), for any plugins and any file.    *)
(*                                                                         *)
(* That the served configuration is valid rests on the order of the start: *)
(* what a Load checks against is registered before the Load that opens the *)
(* way to serving has read the file, and at most one Load is in flight.    *)
(*                                                                         *)
(* What a file means rests on the types of what edits put in it (FileOK):  *)
(* lists are sequences and a pointer points to at most one.  From there,   *)
(* that entries keep their effect is about the positions that an insertion *)
(* shifts, that plugins are posted to once and that matching branches have *)
(* the same states is counting, and that no key has two writers and the    *)
(* most specific option decides is unfolding the lookups case by case.     *)
(***************************************************************************)
EXTENDS ConfigAgent, PluginOptions, FiniteSetTheorems, SequenceTheorems, TLAPS

-----------------------------------------------------------------------------
(* ConfigAgent: what a Load finds.                                         *)

\* What is registered, by how far main is.
Registered ==
    /\ main \in {"load", "init"} => pcb = {} /\ helpers = {}
    /\ main \in {"start", "serving"} => pcb = Linked /\ helpers = Linked

\* At most one Load is in flight, and it was begun by this stage of main.
OneLoad ==
    /\ \A l, m \in loads : l = m
    /\ main = "init" => loads = {}
    /\ main \in {"start", "serving"} =>
          \A l \in loads : l.check /\ l.config.sections = Linked

\* Nothing was read later than what is on disk, and no Load in flight is older than
\* the configuration in force.
Ages ==
    /\ \A l \in loads : l.config.read.version <= file.version
    /\ c # None => /\ c.read.version <= file.version
                   /\ \A l \in loads : c.read.version <= l.config.read.version

IInv == TypeOK /\ Registered /\ OneLoad /\ ServedConfigIsValid

-----------------------------------------------------------------------------
\* Reading the file starts the only Load there is.
LEMMA ReadOne ==
    ASSUME TypeOK, loads = {}, NEW check \in BOOLEAN, Read(check)
    PROVE  \E l \in Load : /\ loads' = {l}
                           /\ l.check = check
                           /\ l.config.sections = pcb
                           /\ l.config.read = file
<1> DEFINE l == [config |-> [read |-> file, sections |-> pcb], check |-> check]
<1>1. l \in Load
  BY DEF TypeOK, Load, Configurations
<1> QED BY <1>1 DEF Read

\* Ending a Load leaves none, and what it puts in force is a configuration.
LEMMA FinishOne ==
    ASSUME TypeOK, OneLoad, NEW l \in loads, Finish(l)
    PROVE  /\ loads' = {}
           /\ l \in Load
           /\ Accepts(l) => c' = l.config /\ c' \in Configurations
           /\ ~Accepts(l) => c' = c
<1>1. l \in Load /\ l.config \in Configurations
  BY DEF TypeOK, Load
<1>2. loads' = {}
  BY DEF Finish, OneLoad
<1> QED BY <1>1, <1>2 DEF Finish

\* A Load that is accepted with the check on, and with the sections of the linked
\* plugins, is valid.
LEMMA AcceptedIsValid ==
    ASSUME NEW l, Accepts(l), l.check, l.config.sections = Linked, helpers = Linked
    PROVE  Valid(l.config.read.content)
BY DEF Accepts, Valid

\* So is what such a Load puts in force once everything is registered.
LEMMA FinishInForce ==
    ASSUME TypeOK, Registered, OneLoad, main \in {"start", "serving"},
           NEW l \in loads, Finish(l), Accepts(l)
    PROVE  /\ c' \in Configurations
           /\ Valid(c'.read.content)
           /\ c'.sections = Linked
<1>1. l.check /\ l.config.sections = Linked /\ helpers = Linked
  BY DEF OneLoad, Registered
<1>2. c' = l.config /\ c' \in Configurations
  BY FinishOne
<1>3. Valid(l.config.read.content)
  BY <1>1, AcceptedIsValid
<1> QED BY <1>1, <1>2, <1>3

\* IInv is an invariant: one step per action.
THEOREM Invariance == Spec => []IInv
<1>1. Init => IInv
  BY ConstantsOK DEF Init, IInv, TypeOK, Registered, OneLoad, ServedConfigIsValid
<1>2. IInv /\ [Next]_vars => IInv'
  <2> SUFFICES ASSUME TypeOK, Registered, OneLoad, ServedConfigIsValid, [Next]_vars
               PROVE  IInv'
    BY DEF IInv
  <2>1. CASE FirstRead
    <3>1. PICK l \in Load : loads' = {l}
      BY <2>1, ReadOne DEF FirstRead
    <3>2. UNCHANGED <<file, c, pcb, helpers, main>> /\ main = "load"
      BY <2>1 DEF FirstRead
    <3> QED BY <3>1, <3>2 DEF IInv, TypeOK, Registered, OneLoad, ServedConfigIsValid
  <2>2. CASE FirstLoaded
    <3>1. PICK l \in loads : Finish(l) /\ main' = IF Accepts(l) THEN "init" ELSE "fatal"
      BY <2>2 DEF FirstLoaded
    <3>2. main = "load" /\ UNCHANGED <<file, pcb, helpers>>
      BY <2>2 DEF FirstLoaded
    <3> QED BY <3>1, <3>2, FinishOne
            DEF IInv, TypeOK, Registered, OneLoad, ServedConfigIsValid
  <2>3. CASE initPlugins
    BY <2>3, ConstantsOK
    DEF initPlugins, IInv, TypeOK, Registered, OneLoad, ServedConfigIsValid
  <2>4. CASE StartRead
    <3>1. PICK l \in Load : loads' = {l} /\ l.check /\ l.config.sections = pcb
      BY <2>4, ReadOne DEF StartRead
    <3>2. UNCHANGED <<file, c, pcb, helpers, main>> /\ main = "start"
      BY <2>4 DEF StartRead
    <3> QED BY <3>1, <3>2 DEF IInv, TypeOK, Registered, OneLoad, ServedConfigIsValid
  <2>5. CASE StartLoaded
    <3>1. PICK l \in loads : Finish(l) /\ main' = IF Accepts(l) THEN "serving" ELSE "fatal"
      BY <2>5 DEF StartLoaded
    <3>2. main = "start" /\ UNCHANGED <<file, pcb, helpers>>
      BY <2>5 DEF StartLoaded
    <3>3. CASE Accepts(l)
      <4>1. c' \in Configurations /\ Valid(c'.read.content) /\ c'.sections = Linked
        BY <3>1, <3>2, <3>3, FinishInForce
      <4>2. loads' = {} /\ main' = "serving"
        BY <3>1, <3>3, FinishOne
      <4> QED BY <3>2, <4>1, <4>2
              DEF IInv, TypeOK, Registered, OneLoad, ServedConfigIsValid, Valid
    <3>4. CASE ~Accepts(l)
      BY <3>1, <3>2, <3>4, FinishOne
      DEF IInv, TypeOK, Registered, OneLoad, ServedConfigIsValid
    <3> QED BY <3>3, <3>4
  <2>6. CASE Tick
    <3>1. PICK l \in Load : loads' = {l} /\ l.check /\ l.config.sections = pcb
      BY <2>6, ReadOne DEF Tick
    <3>2. UNCHANGED <<file, c, pcb, helpers, main>> /\ main = "serving"
      BY <2>6 DEF Tick
    <3> QED BY <3>1, <3>2 DEF IInv, TypeOK, Registered, OneLoad, ServedConfigIsValid
  <2>7. CASE TickLoaded
    <3>1. PICK l \in loads : Finish(l)
      BY <2>7 DEF TickLoaded
    <3>2. main = "serving" /\ UNCHANGED <<file, pcb, helpers, main>>
      BY <2>7 DEF TickLoaded
    <3>3. CASE Accepts(l)
      <4>1. c' \in Configurations /\ Valid(c'.read.content) /\ c'.sections = Linked
        BY <3>1, <3>2, <3>3, FinishInForce
      <4>2. loads' = {}
        BY <3>1, FinishOne
      <4> QED BY <3>2, <4>1, <4>2
              DEF IInv, TypeOK, Registered, OneLoad, ServedConfigIsValid, Valid
    <3>4. CASE ~Accepts(l)
      BY <3>1, <3>2, <3>4, FinishOne
      DEF IInv, TypeOK, Registered, OneLoad, ServedConfigIsValid, Valid
    <3> QED BY <3>3, <3>4
  <2>8. CASE Write
    <3>1. file' \in Version
      BY <2>8, ConstantsOK DEF Write, Version, TypeOK
    <3>2. UNCHANGED <<c, pcb, helpers, loads, main>>
      BY <2>8 DEF Write
    <3> QED BY <3>1, <3>2
            DEF IInv, TypeOK, Registered, OneLoad, ServedConfigIsValid, Valid
  <2>9. CASE UNCHANGED vars
    BY <2>9 DEF vars, IInv, TypeOK, Registered, OneLoad, ServedConfigIsValid, Valid
  <2> QED BY <2>1, <2>2, <2>3, <2>4, <2>5, <2>6, <2>7, <2>8, <2>9 DEF Next, Main
<1> QED BY <1>1, <1>2, PTL DEF Spec

\* Whatever the file holds and whenever it is written, the server runs on a valid
\* configuration that has the section of every linked plugin.
THEOREM ServingIsValid == Spec => []ServedConfigIsValid
<1>1. IInv => ServedConfigIsValid
  BY DEF IInv
<1> QED BY Invariance, <1>1, PTL

\* The types, among them that there is a configuration as soon as anybody can ask.
THEOREM TypeCorrect == Spec => []TypeOK
<1>1. IInv => TypeOK
  BY DEF IInv
<1> QED BY Invariance, <1>1, PTL

-----------------------------------------------------------------------------
\* Loads keep the order in which they read the file.
LEMMA AgesStep ==
    ASSUME IInv, Ages, [Next]_vars
    PROVE  Ages' /\ (c # None => c'.read.version >= c.read.version)
<1>0. TypeOK /\ OneLoad
  BY DEF IInv
<1>1. /\ file.version \in Nat
      /\ c # None => c \in Configurations /\ c.read.version \in Nat
      /\ \A l \in loads : l \in Load /\ l.config.read.version \in Nat
  BY <1>0, ConstantsOK DEF TypeOK, Load, Configurations, Version
<1>2. ASSUME NEW check \in BOOLEAN, loads = {}, Read(check), UNCHANGED <<file, c>>
      PROVE  Ages' /\ (c # None => c'.read.version >= c.read.version)
  <2>1. PICK l \in Load : loads' = {l} /\ l.config.read = file
    BY <1>0, <1>2, ReadOne
  <2> QED BY <1>1, <1>2, <2>1 DEF Ages
<1>3. ASSUME NEW l \in loads, Finish(l), UNCHANGED file
      PROVE  Ages' /\ (c # None => c'.read.version >= c.read.version)
  <2>1. loads' = {} /\ (c' = l.config \/ c' = c)
    BY <1>0, <1>3, FinishOne
  <2> QED BY <1>1, <1>3, <2>1 DEF Ages
<1>4. CASE Write
  <2>1. file'.version = file.version + 1 /\ UNCHANGED <<c, loads>>
    BY <1>4 DEF Write
  <2> QED BY <1>1, <2>1 DEF Ages
<1>5. CASE initPlugins \/ UNCHANGED vars
  BY <1>1, <1>5 DEF initPlugins, vars, Ages
<1> QED
  BY <1>2, <1>3, <1>4, <1>5
  DEF Next, Main, FirstRead, FirstLoaded, StartRead, StartLoaded, Tick, TickLoaded

\* A configuration is never replaced by one that was read from the file before it.
THEOREM ConfigNeverGoesBack == Spec => NeverBack
<1>1. Init => Ages
  BY DEF Init, Ages
<1>2. IInv /\ Ages /\ [Next]_vars => [c # None => c'.read.version >= c.read.version]_vars
  BY AgesStep
<1> QED BY <1>1, <1>2, AgesStep, Invariance, PTL DEF Spec, NeverBack

-----------------------------------------------------------------------------
(* The Bugzilla options.                                                   *)

\* What ResolveBugzillaOptions gives an option.
LEMMA ResolvedValue ==
    ASSUME NEW parent, NEW child, NEW f \in Resolved
    PROVE  Resolve(parent, child)[f] =
             IF Sets(child, f) THEN Says(child, f)
             ELSE IF Excludes(child) THEN nil ELSE Says(parent, f)
BY DEF Resolve, Resolved, NoOptions

\* A resolved item says of an option what it has, and excludes nothing.
LEMMA ResolvedItem ==
    ASSUME NEW parent, NEW child, NEW f \in Resolved
    PROVE  LET o == Resolve(parent, child)
           IN  /\ Sets(o, f) <=> o[f] # nil
               /\ Says(o, f) = o[f]
               /\ ~Excludes(o)
<1> DEFINE o == Resolve(parent, child)
<1>1. o.exclude = nil /\ o.statuses = nil /\ o.release = nil /\ o.statusAfter = nil
  BY DEF Resolve, Resolved, NoOptions
<1> HIDE DEF o
<1>2. Says(o, f) = o[f]
  <2>1. CASE f = "stateAfter"
    BY <1>1, <2>1 DEF Says, nil
  <2>2. CASE f \in {"isOpen", "validStates", "releases"}
    BY <1>1, <2>2 DEF Says
  <2> QED BY <2>1, <2>2 DEF Resolved
<1>3. Sets(o, f) <=> o[f] # nil
  BY <1>1 DEF Sets
<1>4. ~Excludes(o)
  BY <1>1 DEF Excludes, nil
<1> QED BY <1>2, <1>3, <1>4 DEF o

\* What is not set is nil.
LEMMA SilentIsNil ==
    ASSUME NEW o, NEW f \in Resolved, ~Sets(o, f)
    PROVE  Says(o, f) = nil
<1>1. CASE f = "stateAfter"
  BY <1>1 DEF Says, Sets, nil
<1>2. CASE f \in {"isOpen", "validStates", "releases"}
  BY <1>2 DEF Says, Sets
<1> QED BY <1>1, <1>2 DEF Resolved

\* An item that says nothing.
LEMMA NoOptionsSilent ==
    ASSUME NEW f \in Resolved
    PROVE  ~Sets(NoOptions, f) /\ ~Excludes(NoOptions) /\ NoOptions[f] = nil /\ Says(NoOptions, f) = nil
<1>1. ~Sets(NoOptions, f) /\ NoOptions[f] = nil
  BY DEF Sets, NoOptions, Resolved
<1>2. ~Excludes(NoOptions)
  BY DEF Excludes, NoOptions, nil
<1> QED BY <1>1, <1>2, SilentIsNil

\* One level, by itself.
LEMMA LevelValue ==
    ASSUME NEW level, NEW b, NEW f \in Resolved
    PROVE  OptionsForItem(b, bugzilla[level])[f] = LevelSays(level, b, f)
BY ResolvedValue DEF OptionsForItem, LevelSays

\* The three levels together.
LEMMA BranchValue ==
    ASSUME NEW b, NEW f \in Resolved
    PROVE  OptionsForBranch(bugzilla, b)[f] =
               IF LevelSays("repo", b, f) # nil THEN LevelSays("repo", b, f)
               ELSE IF LevelSays("org", b, f) # nil THEN LevelSays("org", b, f)
               ELSE LevelSays("default", b, f)
<1> DEFINE item(level) == OptionsForItem(b, bugzilla[level])
           both == Resolve(item("default"), item("org"))
<1>1. \A level \in {"default", "org", "repo"} :
         /\ item(level)[f] = LevelSays(level, b, f)
         /\ Sets(item(level), f) <=> item(level)[f] # nil
         /\ Says(item(level), f) = item(level)[f]
         /\ ~Excludes(item(level))
  BY LevelValue, ResolvedItem DEF OptionsForItem
<1>2. /\ Says(both, f) = both[f]
      /\ both[f] = IF item("org")[f] # nil THEN item("org")[f] ELSE item("default")[f]
  BY <1>1, ResolvedItem, ResolvedValue
<1>3. OptionsForBranch(bugzilla, b) = Resolve(both, item("repo"))
  BY DEF OptionsForBranch
<1> HIDE DEF both, item
<1>4. Resolve(both, item("repo"))[f] =
         IF item("repo")[f] # nil THEN item("repo")[f] ELSE both[f]
  BY <1>1, <1>2, ResolvedValue
<1> QED BY <1>1, <1>2, <1>3, <1>4

\* Option by option, the most specific level that has a value decides (OptionsForBranch,
\* ResolveBugzillaOptions), whatever stands in the file, unless an organisation or a
\* repository excludes the value of a more general level, which the code does not heed.
THEOREM SpecificDecides == FileSpec => []MostSpecificDecides
<1>1. MostSpecificDecides
  <2> SUFFICES ASSUME NEW b \in Branch, NEW f \in Resolved, ~Excluded(b, f)
               PROVE  LET says(level) == LevelSays(level, b, f)
                      IN  OptionsForBranch(bugzilla, b)[f] =
                             IF says("repo") # nil THEN says("repo")
                             ELSE IF LevelExcludes("repo", b) THEN nil
                             ELSE IF says("org") # nil THEN says("org")
                             ELSE IF LevelExcludes("org", b) THEN nil
                             ELSE says("default")
    BY DEF MostSpecificDecides
  <2>1. OptionsForBranch(bugzilla, b)[f] =
           IF LevelSays("repo", b, f) # nil THEN LevelSays("repo", b, f)
           ELSE IF LevelSays("org", b, f) # nil THEN LevelSays("org", b, f)
           ELSE LevelSays("default", b, f)
    BY BranchValue
  <2> QED BY <2>1 DEF Excluded
<1> QED BY <1>1, PTL

\* The update to a state leads there, and there is none exactly if the bug is in it
\* (AsBugUpdate, Matches).
LEMMA UpdateReaches ==
    ASSUME NEW s, NEW bug \in Bug
    PROVE  /\ Matches(s, Updated(bug, AsBugUpdate(s, bug)))
           /\ Matches(s, bug) <=> AsBugUpdate(s, bug) = nil
<1>1. DOMAIN bug = {"status", "resolution"}
  BY OptionsAssumption
<1> DEFINE changed(f) == IF s[f] # "" /\ s[f] # bug[f] THEN s[f] ELSE ""
           update == [status |-> changed("status"), resolution |-> changed("resolution")]
           result == Updated(bug, AsBugUpdate(s, bug))
<1>2. AsBugUpdate(s, bug) =
         IF update.status = "" /\ update.resolution = "" THEN nil ELSE {update}
  BY DEF AsBugUpdate
<1>3. update["status"] = changed("status") /\ update["resolution"] = changed("resolution")
  OBVIOUS
<1> HIDE DEF update
<1>4. Matches(s, bug) <=> \A f \in {"status", "resolution"} : update[f] = ""
  BY <1>3 DEF Matches
<1>5. The({update}) = update
  BY DEF The
<1>6. \A f \in {"status", "resolution"} : result[f] = IF update[f] # "" THEN update[f] ELSE bug[f]
  <2>1. CASE update.status = "" /\ update.resolution = ""
    BY <1>1, <1>2, <2>1 DEF Updated, nil
  <2>2. CASE ~(update.status = "" /\ update.resolution = "")
    BY <1>1, <1>2, <1>5, <2>2 DEF Updated
  <2> QED BY <2>1, <2>2
<1>7. \A f \in {"status", "resolution"} : s[f] \in {"", result[f]}
  BY <1>3, <1>6
<1>8. {update} # nil
  BY DEF nil
<1> QED BY <1>2, <1>4, <1>7, <1>8 DEF Matches

\* A bug that is updated to the state after validation or merge is then in it.
THEOREM UpdatesReachTheState == FileSpec => []StateReached
<1>1. StateReached
  BY UpdateReaches DEF StateReached
<1> QED BY <1>1, PTL

-----------------------------------------------------------------------------
(* What the file may hold.                                                 *)

Entry == [edit : Nat, names : SUBSET Name]

\* Every entry was brought by an edit of its own, before this one.
EntriesOK ==
    /\ entries \in Seq(Entry)
    /\ \A i \in DOMAIN entries : entries[i].edit < edits

MapsOK == DOMAIN maps \subseteq File /\ \A f \in DOMAIN maps : maps[f] \in MapSpec

\* A pointer to a list is nil or points to one list.
PointsToList(p) == \A l \in p : p = {l} /\ l \in Seq(Elements(l))

ItemOK(o) == /\ DOMAIN o = DOMAIN NoOptions
             /\ PointsToList(o.validStates) /\ PointsToList(o.statuses)

BugzillaOK ==
    /\ DOMAIN bugzilla = {"default", "org", "repo"}
    /\ \A level \in DOMAIN bugzilla : \A b \in DOMAIN bugzilla[level] : ItemOK(bugzilla[level][b])

FileOK ==
    /\ section \in Section
    /\ edits \in 0 .. MaxEdits
    /\ EntriesOK
    /\ dco \subseteq Name \union {Wildcard}
    /\ plugins \in [Name -> Seq(Listed)]
    /\ MapsOK
    /\ BugzillaOK

\* Inserting an element moves those behind it by one position.
LEMMA Insertion ==
    ASSUME NEW T, NEW s \in Seq(T), NEW e \in T, NEW i \in 1 .. Len(s) + 1
    PROVE  /\ InsertAt(s, i, e) \in Seq(T)
           /\ Len(InsertAt(s, i, e)) = Len(s) + 1
           /\ DOMAIN InsertAt(s, i, e) = 1 .. Len(s) + 1
           /\ \A j \in 1 .. Len(s) + 1 :
                 /\ j < i => InsertAt(s, i, e)[j] = s[j]
                 /\ j = i => InsertAt(s, i, e)[j] = e
                 /\ j > i => InsertAt(s, i, e)[j] = s[j - 1]
<1>1. Len(s) \in Nat /\ \A j \in 1 .. Len(s) : s[j] \in T
  BY LenProperties, ElementOfSeq
<1> DEFINE front == SubSeq(s, 1, i - 1)  back == SubSeq(s, i, Len(s))
<1>2. /\ front \in Seq(T) /\ Len(front) = i - 1
      /\ \A j \in 1 .. i - 1 : front[j] = s[j]
  BY <1>1, SubSeqProperties
<1>3. /\ back \in Seq(T) /\ Len(back) = Len(s) - i + 1
      /\ \A j \in 1 .. Len(s) - i + 1 : back[j] = s[i + j - 1]
  BY <1>1, SubSeqProperties
<1>4. <<e>> \in Seq(T) /\ Len(<<e>>) = 1 /\ <<e>>[1] = e
  OBVIOUS
<1> HIDE DEF front, back
<1>5. /\ front \o <<e>> \in Seq(T) /\ Len(front \o <<e>>) = i
      /\ \A j \in 1 .. i - 1 : (front \o <<e>>)[j] = s[j]
      /\ (front \o <<e>>)[i] = e
  BY <1>1, <1>2, <1>4, ConcatProperties
<1> DEFINE both == front \o <<e>>
<1> HIDE DEF both
<1>6. /\ both \o back \in Seq(T) /\ Len(both \o back) = Len(s) + 1
      /\ \A j \in 1 .. Len(s) + 1 :
            (both \o back)[j] = IF j <= i THEN both[j] ELSE back[j - i]
  <2>1. both \in Seq(T) /\ Len(both) = i /\ i \in Int
    BY <1>1, <1>5 DEF both
  <2>2. Len(both) + Len(back) = Len(s) + 1
    BY <1>1, <1>3, <2>1
  <2> QED BY <1>3, <2>1, <2>2, ConcatProperties
<1>7. \A j \in 1 .. Len(s) + 1 : j > i => back[j - i] = s[j - 1]
  BY <1>1, <1>3
<1>8. InsertAt(s, i, e) = both \o back
  BY DEF InsertAt, both, front, back
<1>9. DOMAIN (both \o back) = 1 .. Len(s) + 1
  BY <1>6, LenProperties
<1>10. ASSUME NEW j \in 1 .. Len(s) + 1
       PROVE  /\ j < i => (both \o back)[j] = s[j]
              /\ j = i => (both \o back)[j] = e
              /\ j > i => (both \o back)[j] = s[j - 1]
  <2>1. j < i => (both \o back)[j] = s[j]
    BY <1>1, <1>5, <1>6 DEF both
  <2>3. j = i => (both \o back)[j] = e
    BY <1>1, <1>5, <1>6 DEF both
  <2>2. j > i => (both \o back)[j] = s[j - 1]
    BY <1>1, <1>6, <1>7
  <2> QED BY <2>1, <2>2, <2>3
<1> QED BY <1>6, <1>8, <1>9, <1>10

\* The bound of the edits.
LEMMA BoundIsNat == MaxEdits \in Nat
BY OptionsAssumption

\* The empty file.
LEMMA FileStart == FileInit => FileOK
<1> SUFFICES ASSUME FileInit PROVE FileOK
  OBVIOUS
<1>1. EntriesOK /\ MapsOK
  BY DEF FileInit, EntriesOK, MapsOK
<1>2. BugzillaOK
  BY DEF FileInit, BugzillaOK
<1>3. plugins \in [Name -> Seq(Listed)]
  BY DEF FileInit
<1>4. section \in Section /\ edits \in 0 .. MaxEdits /\ dco \subseteq Name \union {Wildcard}
  BY BoundIsNat DEF FileInit
<1> QED BY <1>1, <1>2, <1>3, <1>4 DEF FileOK

\* The item that says nothing is one.
LEMMA NoOptionsOK == ItemOK(NoOptions)
BY DEF ItemOK, NoOptions, PointsToList, nil

\* An option that is set leaves an item well-formed.
LEMMA SetOption ==
    ASSUME NEW o, ItemOK(o), NEW s \in Setting
    PROVE  ItemOK([o EXCEPT ![s[1]] = {s[2]}])
<1> DEFINE new == [o EXCEPT ![s[1]] = {s[2]}]
<1>1. DOMAIN new = DOMAIN NoOptions /\ DOMAIN o = DOMAIN NoOptions
  BY DEF ItemOK
<1>2. s[1] \in DOMAIN NoOptions
  BY OptionsAssumption DEF SettingOK
<1>3. ASSUME NEW f \in {"validStates", "statuses"} PROVE PointsToList(new[f])
  <2>1. f \in DOMAIN NoOptions
    BY DEF NoOptions
  <2>2. CASE f = s[1]
    <3>1. new[f] = {s[2]} /\ s[2] \in Seq(Elements(s[2]))
      BY <1>1, <2>1, <2>2, OptionsAssumption DEF SettingOK
    <3> QED BY <3>1 DEF PointsToList
  <2>3. CASE f # s[1]
    BY <1>1, <2>1, <2>3 DEF ItemOK
  <2> QED BY <2>2, <2>3
<1> QED BY <1>1, <1>3 DEF ItemOK

\* What an edit of a section does to the file, section by section.
LEMMA FileStep ==
    ASSUME FileOK, [Edit]_fileVars
    PROVE  FileOK'
<1>1. edits \in Nat /\ MaxEdits \in Nat
  BY BoundIsNat DEF FileOK
<1>2. ASSUME NEW s, InSection(s)
      PROVE  section' \in Section /\ edits' \in 0 .. MaxEdits /\ edits' = edits + 1
  BY <1>1, <1>2 DEF InSection, FileOK
<1>3. ASSUME UNCHANGED entries, edits' = edits + 1 PROVE EntriesOK'
  <2>1. ASSUME NEW i \in DOMAIN entries
        PROVE  entries[i].edit \in Nat /\ entries[i].edit < edits
    <3>1. entries \in Seq(Entry) /\ entries[i].edit < edits
      BY DEF FileOK, EntriesOK
    <3>2. entries[i] \in Entry
      BY <3>1, ElementOfSeq, LenProperties
    <3> QED BY <3>1, <3>2 DEF Entry
  <2>2. entries \in Seq(Entry)
    BY DEF FileOK, EntriesOK
  <2> QED BY <1>1, <1>3, <2>1, <2>2 DEF EntriesOK
<1>4. ASSUME UNCHANGED maps PROVE MapsOK'
  BY <1>4 DEF FileOK, MapsOK
<1>5. ASSUME UNCHANGED bugzilla PROVE BugzillaOK'
  BY <1>5 DEF FileOK, BugzillaOK
<1>6. CASE UNCHANGED fileVars
  BY <1>6 DEF fileVars, FileOK, EntriesOK, MapsOK, BugzillaOK
<1>7. ASSUME NEW names \in SUBSET Name, NEW i \in 1 .. (Len(entries) + 1), EditEntries(names, i)
      PROVE  FileOK'
  <2> DEFINE e == [edit |-> edits, names |-> names]
  <2>1. entries' = InsertAt(entries, i, e) /\ UNCHANGED <<dco, plugins, maps, bugzilla>>
        /\ InSection("entries")
    BY <1>7 DEF EditEntries
  <2>2. e \in Entry /\ entries \in Seq(Entry)
    BY <1>1 DEF Entry, FileOK, EntriesOK
  <2>3. EntriesOK'
    <3>1. /\ entries' \in Seq(Entry) /\ DOMAIN entries' = 1 .. Len(entries) + 1
          /\ \A j \in 1 .. Len(entries) + 1 :
               /\ j < i => entries'[j] = entries[j]
               /\ j = i => entries'[j] = e
               /\ j > i => entries'[j] = entries[j - 1]
      BY <2>1, <2>2, Insertion
    <3>2. ASSUME NEW j \in 1 .. Len(entries)
          PROVE  entries[j].edit \in Nat /\ entries[j].edit < edits
      <4>1. entries[j] \in Entry
        BY <2>2, ElementOfSeq
      <4>2. entries[j].edit < edits
        BY <2>2, LenProperties DEF FileOK, EntriesOK
      <4> QED BY <4>1, <4>2 DEF Entry
    <3>3. Len(entries) \in Nat
      BY <2>2, LenProperties
    <3>4. ASSUME NEW j \in DOMAIN entries' PROVE entries'[j].edit < edits + 1
      <4>1. CASE j < i
        <5>1. j \in 1 .. Len(entries) /\ entries'[j] = entries[j]
          BY <3>1, <3>3, <4>1
        <5> QED BY <1>1, <3>2, <5>1
      <4>2. CASE j = i
        BY <1>1, <3>1, <4>2
      <4>3. CASE j > i
        <5>1. j - 1 \in 1 .. Len(entries) /\ entries'[j] = entries[j - 1]
          BY <3>1, <3>3, <4>3
        <5> QED BY <1>1, <3>2, <5>1
      <4> QED BY <3>1, <3>3, <4>1, <4>2, <4>3
    <3>5. edits' = edits + 1
      BY <1>2, <2>1
    <3> QED BY <3>1, <3>4, <3>5 DEF EntriesOK
  <2> QED BY <1>2, <1>4, <1>5, <2>1, <2>3 DEF FileOK
<1>8. ASSUME NEW x \in Name \union {Wildcard}, EditDco(x) PROVE FileOK'
  <2>1. InSection("dco") /\ UNCHANGED <<entries, plugins, maps, bugzilla>>
        /\ dco' \subseteq Name \union {Wildcard}
    BY <1>8 DEF EditDco, FileOK
  <2> QED BY <1>2, <1>3, <1>4, <1>5, <2>1 DEF FileOK
<1>9. ASSUME NEW x \in Name, NEW p \in Listed, EditPlugins(x, p) PROVE FileOK'
  <2>1. InSection("plugins") /\ UNCHANGED <<entries, dco, maps, bugzilla>>
        /\ plugins' = [plugins EXCEPT ![x] = Append(@, p)]
    BY <1>9 DEF EditPlugins
  <2>2. plugins' \in [Name -> Seq(Listed)]
    BY <2>1, AppendProperties DEF FileOK
  <2> QED BY <1>2, <1>3, <1>4, <1>5, <2>1, <2>2 DEF FileOK
<1>10. ASSUME NEW f \in File, NEW spec \in MapSpec, EditMaps(f, spec) PROVE FileOK'
  <2>1. InSection("maps") /\ UNCHANGED <<entries, dco, plugins, bugzilla>>
        /\ maps' = Put(maps, f, spec)
    BY <1>10 DEF EditMaps
  <2>2. MapsOK'
    BY <2>1 DEF FileOK, MapsOK, Put
  <2> QED BY <1>2, <1>3, <1>5, <2>1, <2>2 DEF FileOK
<1>11. ASSUME NEW level \in DOMAIN bugzilla, NEW b \in Branch, NEW s \in Setting,
              EditBugzilla(level, b, s)
       PROVE  FileOK'
  <2> DEFINE new == [Item(b, bugzilla[level]) EXCEPT ![s[1]] = {s[2]}]
  <2>1. InSection("bugzilla") /\ UNCHANGED <<entries, dco, plugins, maps>>
        /\ bugzilla' = [bugzilla EXCEPT ![level] = Put(@, b, new)]
    BY <1>11 DEF EditBugzilla
  <2>2. ItemOK(Item(b, bugzilla[level]))
    BY NoOptionsOK DEF Item, FileOK, BugzillaOK
  <2>3. ItemOK(new)
    BY <2>2, SetOption
  <2> HIDE DEF new
  <2>4. BugzillaOK'
    <3>1. DOMAIN bugzilla' = {"default", "org", "repo"}
      BY <2>1 DEF FileOK, BugzillaOK
    <3>2. ASSUME NEW l \in DOMAIN bugzilla', NEW c1 \in DOMAIN bugzilla'[l]
          PROVE  ItemOK(bugzilla'[l][c1])
      <4>1. CASE l # level
        <5>1. l \in DOMAIN bugzilla /\ bugzilla'[l] = bugzilla[l]
          BY <2>1, <3>1, <4>1 DEF FileOK, BugzillaOK
        <5> QED BY <5>1 DEF FileOK, BugzillaOK
      <4>2. CASE l = level
        <5>1. bugzilla'[l] = Put(bugzilla[level], b, new)
          BY <2>1, <4>2
        <5>2. bugzilla'[l][c1] = IF c1 = b THEN new ELSE bugzilla[level][c1]
          BY <5>1 DEF Put
        <5>3. c1 = b \/ c1 \in DOMAIN bugzilla[level]
          BY <5>1 DEF Put
        <5> QED BY <2>3, <5>2, <5>3 DEF FileOK, BugzillaOK
      <4> QED BY <4>1, <4>2
    <3> QED BY <3>1, <3>2 DEF BugzillaOK
  <2> QED BY <1>2, <1>3, <1>4, <2>1, <2>4 DEF FileOK
<1> QED BY <1>6, <1>7, <1>8, <1>9, <1>10, <1>11 DEF Edit

\* In every file every section has its type: entries with an edit of their own each,
\* lists of plugins, config maps as they may be said, Bugzilla options that point to one
\* list (the types that config.go unmarshals the file into).
THEOREM FileInvariance == FileSpec => []FileOK
BY FileStart, FileStep, PTL DEF FileSpec

-----------------------------------------------------------------------------
(* Lists of entries.                                                       *)

\* Where an entry of the old list is after one was inserted at p.
Shift(j, p) == IF j < p THEN j ELSE j + 1

\* An insertion makes room at p and keeps the order.
LEMMA Shifts ==
    ASSUME NEW n \in Nat, NEW p \in 1 .. n + 1
    PROVE  /\ \A j \in 1 .. n : Shift(j, p) \in (1 .. n + 1) \ {p}
           /\ \A k \in (1 .. n + 1) \ {p} : \E j \in 1 .. n : k = Shift(j, p)
           /\ \A j, k \in 1 .. n : Shift(j, p) <= Shift(k, p) <=> j <= k
<1>1. \A j \in 1 .. n : (j < p => Shift(j, p) = j) /\ (j >= p => Shift(j, p) = j + 1)
  BY DEF Shift
<1>2. ASSUME NEW k \in (1 .. n + 1) \ {p} PROVE \E j \in 1 .. n : k = Shift(j, p)
  <2>1. CASE k < p
    BY <1>1, <2>1
  <2>2. CASE k > p
    <3>1. k - 1 \in 1 .. n /\ k - 1 >= p
      BY <2>2
    <3>2. Shift(k - 1, p) = k
      BY <1>1, <3>1
    <3> QED BY <3>1, <3>2
  <2> QED BY <2>1, <2>2
<1>3. ASSUME NEW j \in 1 .. n, NEW k \in 1 .. n PROVE Shift(j, p) <= Shift(k, p) <=> j <= k
  <2>1. /\ (j < p => Shift(j, p) = j) /\ (j >= p => Shift(j, p) = j + 1)
        /\ (k < p => Shift(k, p) = k) /\ (k >= p => Shift(k, p) = k + 1)
    BY <1>1
  <2> HIDE DEF Shift
  <2> QED BY <2>1
<1>4. \A j \in 1 .. n : Shift(j, p) \in (1 .. n + 1) \ {p}
  BY <1>1
<1> QED BY <1>2, <1>3, <1>4

\* The first and the last of some entries stay what they are.
LEMMA EndsAreShifted ==
    ASSUME NEW n \in Nat, NEW p \in 1 .. n + 1, NEW is \in SUBSET (1 .. n),
           NEW list, NEW new, \A j \in 1 .. n : new[Shift(j, p)] = list[j]
    PROVE  LET js == {Shift(j, p) : j \in is}
           IN  Foremost(js, new) = Foremost(is, list) /\ Rearmost(js, new) = Rearmost(is, list)
<1> DEFINE js == {Shift(j, p) : j \in is}
<1>1. \A j, k \in is : Shift(j, p) <= Shift(k, p) <=> j <= k
  BY Shifts
<1>2. {i \in js : \A j \in js : i <= j} = {Shift(i, p) : i \in {i \in is : \A j \in is : i <= j}}
  BY <1>1
<1>3. {i \in js : \A j \in js : i >= j} = {Shift(i, p) : i \in {i \in is : \A j \in is : i >= j}}
  <2>1. \A j, k \in is : Shift(j, p) >= Shift(k, p) <=> j >= k
    <3> SUFFICES ASSUME NEW j \in is, NEW k \in is PROVE Shift(j, p) >= Shift(k, p) <=> j >= k
      OBVIOUS
    <3>1. j \in 1 .. n /\ k \in 1 .. n /\ Shift(j, p) \in 1 .. n + 1 /\ Shift(k, p) \in 1 .. n + 1
      BY Shifts
    <3> QED BY <1>1, <3>1
  <2> QED BY <2>1
<1>4. \A i \in is : new[Shift(i, p)] = list[i]
  OBVIOUS
<1> HIDE DEF js
<1>5. Foremost(js, new) = Foremost(is, list)
  BY <1>2, <1>4 DEF Foremost
<1>6. Rearmost(js, new) = Rearmost(is, list)
  BY <1>3, <1>4 DEF Rearmost
<1> QED BY <1>5, <1>6 DEF js

\* The first of some positions.
Least(is) == {i \in is : \A j \in is : i <= j}

\* It stays the first when one behind them is added.
LEMMA FirstStays ==
    ASSUME NEW n \in Nat, NEW is \in SUBSET (1 .. n), is # {}, NEW more \in SUBSET {n + 1}
    PROVE  Least(is \union more) = Least(is)
<1>1. \A i \in is : i \in 1 .. n /\ i <= n + 1 /\ ~(n + 1 <= i)
  OBVIOUS
<1> QED BY <1>1 DEF Least

\* An edit of the entries inserts one and keeps the others in their order.
LEMMA InsertedEntry ==
    ASSUME FileOK, NEW names \in SUBSET Name, NEW p \in 1 .. (Len(entries) + 1),
           EditEntries(names, p)
    PROVE  /\ Len(entries) \in Nat
           /\ DOMAIN entries = 1 .. Len(entries)
           /\ DOMAIN entries' = 1 .. Len(entries) + 1
           /\ Len(entries') = Len(entries) + 1
           /\ entries'[p] = NewEntry /\ NewEntry.names = names
           /\ \A j \in 1 .. Len(entries) : entries'[Shift(j, p)] = entries[j]
           /\ \A k \in DOMAIN entries' : entries'[k] = NewEntry => k = p
<1> DEFINE e == [edit |-> edits, names |-> names]
<1>1. entries \in Seq(Entry) /\ e \in Entry /\ edits \in Nat
  BY BoundIsNat DEF FileOK, EntriesOK, Entry
<1>2. entries' = InsertAt(entries, p, e)
  BY DEF EditEntries
<1>3. /\ Len(entries') = Len(entries) + 1
      /\ DOMAIN entries' = 1 .. Len(entries) + 1
      /\ \A j \in 1 .. Len(entries) + 1 :
            /\ j < p => entries'[j] = entries[j]
            /\ j = p => entries'[j] = e
            /\ j > p => entries'[j] = entries[j - 1]
  BY <1>1, <1>2, Insertion
<1>4. Len(entries) \in Nat /\ DOMAIN entries = 1 .. Len(entries)
  BY <1>1, LenProperties
<1>5. ASSUME NEW j \in 1 .. Len(entries)
      PROVE  entries'[Shift(j, p)] = entries[j] /\ entries[j].edit # edits
  <2>1. entries[j] \in Entry /\ entries[j].edit < edits
    BY <1>1, <1>4, ElementOfSeq DEF FileOK, EntriesOK
  <2>2. entries[j].edit # edits
    BY <1>1, <2>1 DEF Entry
  <2>3. CASE j < p
    <3>1. Shift(j, p) = j /\ j \in 1 .. Len(entries) + 1
      BY <1>4, <2>3 DEF Shift
    <3> QED BY <1>3, <2>2, <2>3, <3>1
  <2>4. CASE j >= p
    <3>1. Shift(j, p) = j + 1 /\ j + 1 \in 1 .. Len(entries) + 1 /\ j + 1 > p /\ (j + 1) - 1 = j
      BY <1>4, <2>4 DEF Shift
    <3> QED BY <1>3, <2>2, <3>1
  <2> QED BY <1>4, <2>3, <2>4
<1>6. ASSUME NEW k \in DOMAIN entries', entries'[k].edit = edits PROVE k = p
  <2>1. k # p => \E j \in 1 .. Len(entries) : k = Shift(j, p)
    BY <1>3, <1>4, Shifts
  <2> QED BY <1>5, <1>6, <2>1
<1>7. p \in DOMAIN entries' /\ entries'[p] = e /\ e.edit = edits /\ e.names = names
  BY <1>3
<1> HIDE DEF e
<1>8. (CHOOSE i \in DOMAIN entries' : entries'[i].edit = edits) = p
  BY <1>6, <1>7
<1>9. NewEntry = e
  BY <1>7, <1>8 DEF NewEntry
<1> QED BY <1>3, <1>4, <1>5, <1>6, <1>7, <1>9

\* Where a name is found after an edit that is not for it.
LEMMA ForShifted ==
    ASSUME FileOK, NEW names \in SUBSET Name, NEW p \in 1 .. (Len(entries) + 1),
           EditEntries(names, p), NEW x, x \notin names
    PROVE  For(x, entries') = {Shift(j, p) : j \in For(x, entries)}
<1>1. /\ Len(entries) \in Nat /\ DOMAIN entries = 1 .. Len(entries)
      /\ DOMAIN entries' = 1 .. Len(entries) + 1
      /\ entries'[p].names = names
      /\ \A j \in 1 .. Len(entries) : entries'[Shift(j, p)] = entries[j]
  BY InsertedEntry
<1>2. \A k \in For(x, entries') : k \in (1 .. Len(entries) + 1) \ {p}
  BY <1>1 DEF For
<1>3. For(x, entries') \subseteq {Shift(j, p) : j \in For(x, entries)}
  <2> SUFFICES ASSUME NEW k \in For(x, entries')
               PROVE  \E j \in For(x, entries) : k = Shift(j, p)
    OBVIOUS
  <2>1. k \in (1 .. Len(entries) + 1) \ {p}
    BY <1>2
  <2>2. \E j \in 1 .. Len(entries) : k = Shift(j, p)
    <3>1. CASE k < p
      <4>1. k \in 1 .. Len(entries) /\ Shift(k, p) = k
        BY <1>1, <2>1, <3>1 DEF Shift
      <4> QED BY <4>1
    <3>2. CASE k > p
      <4>1. k - 1 \in 1 .. Len(entries) /\ Shift(k - 1, p) = k
        BY <1>1, <2>1, <3>2 DEF Shift
      <4> QED BY <4>1
    <3> QED BY <1>1, <2>1, <3>1, <3>2
  <2> QED BY <1>1, <2>2 DEF For
<1>4. ASSUME NEW j \in For(x, entries) PROVE Shift(j, p) \in For(x, entries')
  <2>1. j \in 1 .. Len(entries)
    BY <1>1 DEF For
  <2>2. Shift(j, p) \in 1 .. Len(entries) + 1
    BY <1>1, <2>1, Shifts
  <2> QED BY <1>1, <2>1, <2>2 DEF For
<1> QED BY <1>3, <1>4

\* Where it is found after an edit at the end.
LEMMA ForAppended ==
    ASSUME FileOK, NEW names \in SUBSET Name, NEW p \in 1 .. (Len(entries) + 1),
           EditEntries(names, p), p = Len(entries) + 1, NEW x
    PROVE  /\ For(x, entries') =
                For(x, entries) \union (IF x \in names THEN {Len(entries) + 1} ELSE {})
           /\ \A j \in 1 .. Len(entries) : entries'[j] = entries[j]
<1>1. /\ Len(entries) \in Nat /\ DOMAIN entries = 1 .. Len(entries)
      /\ DOMAIN entries' = 1 .. Len(entries) + 1
      /\ entries'[p].names = names
      /\ \A j \in 1 .. Len(entries) : entries'[Shift(j, p)] = entries[j]
  BY InsertedEntry
<1>2. \A j \in 1 .. Len(entries) : entries'[j] = entries[j]
  BY <1>1 DEF Shift
<1>3. 1 .. Len(entries) + 1 = (1 .. Len(entries)) \union {p} /\ p \notin 1 .. Len(entries)
  BY <1>1
<1> QED BY <1>1, <1>2, <1>3 DEF For

\* An entry that does not name a repository leaves its Lgtm and cla entry alone.
LEMMA OthersKeepTheirs ==
    ASSUME FileOK, NEW names \in SUBSET Name, NEW p \in 1 .. (Len(entries) + 1),
           EditEntries(names, p), NEW r \in Repo, For(r, entries) # {}, r \notin names
    PROVE  /\ LgtmFor(r, entries') = LgtmFor(r, entries)
           /\ CLAFor(r, entries') = CLAFor(r, entries)
<1> DEFINE is == For(r, entries)  js == {Shift(j, p) : j \in is}
<1>1. /\ Len(entries) \in Nat /\ is \subseteq 1 .. Len(entries)
      /\ \A j \in 1 .. Len(entries) : entries'[Shift(j, p)] = entries[j]
  BY InsertedEntry DEF For
<1>2. For(r, entries') = js /\ js # {}
  BY ForShifted
<1> HIDE DEF is
<1>3. Foremost(js, entries') = Foremost(is, entries)
  BY <1>1, EndsAreShifted
<1> HIDE DEF js
<1> QED BY <1>2, <1>3 DEF is, LgtmFor, CLAFor

\* An entry at the end yields to those before it.
LEMMA LastYields ==
    ASSUME FileOK, NEW names \in SUBSET Name, NEW p \in 1 .. (Len(entries) + 1),
           EditEntries(names, p), p = Len(entries) + 1, NEW r \in Repo
    PROVE  /\ \/ TriggerFor(r, entries) = {}
              \/ TriggerFor(r, entries') = TriggerFor(r, entries)
           /\ \/ LgtmFor(r, entries) = {}
              \/ For(r, entries) = {} /\ r \in names
              \/ LgtmFor(r, entries') = LgtmFor(r, entries)
<1> DEFINE n == Len(entries)
           more(x) == IF x \in names THEN {n + 1} ELSE {}
<1>1. n \in Nat /\ \A x : For(x, entries) \subseteq 1 .. n
  BY InsertedEntry DEF For
<1>2. \A j \in 1 .. n : entries'[j] = entries[j]
  BY ForAppended
<1>3. \A x : For(x, entries') = For(x, entries) \union more(x) /\ more(x) \subseteq {n + 1}
  BY ForAppended
<1> HIDE DEF n, more
<1>4. ASSUME NEW is \in SUBSET (1 .. n), NEW js \in SUBSET {n + 1}, Foremost(is, entries) # {}
      PROVE  Foremost(is \union js, entries') = Foremost(is, entries)
  <2>1. is # {}
    BY <1>4 DEF Foremost
  <2>2. Least(is \union js) = Least(is)
    BY <1>1, <2>1, FirstStays
  <2>3. Least(is) \subseteq 1 .. n
    BY DEF Least
  <2> QED BY <1>2, <2>2, <2>3 DEF Foremost, Least
<1>5. \/ TriggerFor(r, entries) = {}
      \/ TriggerFor(r, entries') = TriggerFor(r, entries)
  <2> DEFINE is == For(r, entries) \union For(Owner[r], entries)
             js == more(r) \union more(Owner[r])
  <2>1. is \subseteq 1 .. n /\ js \subseteq {n + 1}
    BY <1>1, <1>3
  <2>2. For(r, entries') \union For(Owner[r], entries') = is \union js
    BY <1>3
  <2> HIDE DEF is, js
  <2>3. Foremost(is, entries) = {} \/ Foremost(is \union js, entries') = Foremost(is, entries)
    BY <1>4, <2>1
  <2> QED BY <2>2, <2>3 DEF TriggerFor, is
<1>6. ASSUME LgtmFor(r, entries) # {}, ~(For(r, entries) = {} /\ r \in names)
      PROVE  LgtmFor(r, entries') = LgtmFor(r, entries)
  <2>1. CASE For(r, entries) # {}
    <3>1. For(r, entries') = For(r, entries) \union more(r) /\ For(r, entries') # {}
      BY <1>3, <2>1
    <3>2. Foremost(For(r, entries), entries) # {}
      BY <1>6, <2>1 DEF LgtmFor
    <3> QED BY <1>1, <1>3, <1>4, <2>1, <3>1, <3>2 DEF LgtmFor
  <2>2. CASE For(r, entries) = {}
    <3>1. For(r, entries') = {}
      BY <1>3, <1>6, <2>2 DEF more
    <3>2. Foremost(For(Owner[r], entries), entries) # {}
      BY <1>6, <2>2 DEF LgtmFor
    <3>3. Foremost(For(Owner[r], entries'), entries') = Foremost(For(Owner[r], entries), entries)
      <4>1. For(Owner[r], entries) \in SUBSET (1 .. n) /\ more(Owner[r]) \in SUBSET {n + 1}
        BY <1>1, <1>3
      <4>2. For(Owner[r], entries') = For(Owner[r], entries) \union more(Owner[r])
        BY <1>3
      <4> QED BY <1>4, <3>2, <4>1, <4>2
    <3> QED BY <2>2, <3>1, <3>3 DEF LgtmFor
  <2> QED BY <2>1, <2>2
<1> QED BY <1>5, <1>6

\* What stands in the file keeps its effect, whatever is inserted where (LgtmFor,
\* TriggerFor, CLAFor, DcoFor).
THEOREM EntriesKeepTheirEffect == FileSpec => EntriesKeepTheirPlace
<1> DEFINE Kept(r) ==
      /\ (entries' # entries /\ For(r, entries) # {} /\ r \notin NewEntry.names) =>
              /\ LgtmFor(r, entries)' = LgtmFor(r, entries)
              /\ CLAFor(r, entries)' = CLAFor(r, entries)
      /\ (entries' # entries /\ entries'[Len(entries')] = NewEntry) =>
              /\ \/ TriggerFor(r, entries) = {}
                 \/ TriggerFor(r, entries)' = TriggerFor(r, entries)
              /\ \/ LgtmFor(r, entries) = {}
                 \/ For(r, entries) = {} /\ r \in NewEntry.names
                 \/ LgtmFor(r, entries)' = LgtmFor(r, entries)
      /\ (r \in dco /\ r \in dco') => DcoFor(r, dco)' = DcoFor(r, dco)
<1>1. ASSUME FileOK, Edit, NEW r \in Repo PROVE Kept(r)
  <2>1. (r \in dco /\ r \in dco') => DcoFor(r, dco)' = DcoFor(r, dco)
    BY DEF DcoFor
  <2>2. CASE entries' = entries
    BY <2>1, <2>2
  <2>3. ASSUME NEW names \in SUBSET Name, NEW p \in 1 .. (Len(entries) + 1), EditEntries(names, p)
        PROVE  Kept(r)
    <3>1. /\ NewEntry.names = names
          /\ Len(entries) \in Nat /\ DOMAIN entries' = 1 .. Len(entries) + 1
          /\ Len(entries') = Len(entries) + 1
          /\ \A k \in DOMAIN entries' : entries'[k] = NewEntry => k = p
      BY <1>1, <2>3, InsertedEntry
    <3>2. entries'[Len(entries')] = NewEntry => p = Len(entries) + 1
      BY <3>1
    <3>3. (For(r, entries) # {} /\ r \notin names) =>
              /\ LgtmFor(r, entries)' = LgtmFor(r, entries)
              /\ CLAFor(r, entries)' = CLAFor(r, entries)
      BY <1>1, <2>3, OthersKeepTheirs DEF LgtmFor, CLAFor, For, Foremost, Rearmost
    <3>4. p = Len(entries) + 1 =>
              /\ \/ TriggerFor(r, entries) = {}
                 \/ TriggerFor(r, entries)' = TriggerFor(r, entries)
              /\ \/ LgtmFor(r, entries) = {}
                 \/ For(r, entries) = {} /\ r \in names
                 \/ LgtmFor(r, entries)' = LgtmFor(r, entries)
      BY <1>1, <2>3, LastYields
    <3> QED BY <2>1, <3>1, <3>2, <3>3, <3>4
  <2>4. \/ entries' = entries
        \/ \E names \in SUBSET Name, p \in 1 .. (Len(entries) + 1) : EditEntries(names, p)
    BY <1>1 DEF Edit, EditDco, EditPlugins, EditMaps, EditBugzilla
  <2> QED BY <2>2, <2>3, <2>4
<1>2. FileOK /\ [Edit]_fileVars => [\A r \in Repo : Kept(r)]_fileVars
  BY <1>1
<1> QED BY <1>2, FileInvariance, PTL DEF FileSpec, EntriesKeepTheirPlace

-----------------------------------------------------------------------------
(* Lists of plugins.                                                       *)

\* The names in a list are finitely many, no more than it is long.
LEMMA NamesFinite ==
    ASSUME NEW T, NEW s \in Seq(T)
    PROVE  IsFiniteSet(Names(s)) /\ Len(s) \in Nat
<1>1. Len(s) \in Nat /\ DOMAIN s = 1 .. Len(s)
  BY LenProperties
<1> DEFINE f == [i \in 1 .. Len(s) |-> s[i].name]
<1>2. f \in Surjection(1 .. Len(s), Names(s))
  <2>1. f \in [1 .. Len(s) -> Names(s)]
    BY <1>1 DEF Names
  <2>2. \A x \in Names(s) : \E i \in 1 .. Len(s) : f[i] = x
    BY <1>1 DEF Names
  <2> HIDE DEF f
  <2> QED BY <2>1, <2>2 DEF Surjection
<1>3. IsFiniteSet(1 .. Len(s))
  BY <1>1, FS_Interval
<1> HIDE DEF f
<1> QED BY <1>1, <1>2, <1>3, FS_Surjection

\* The names in two lists, one behind the other.
LEMMA NamesOfBoth ==
    ASSUME NEW T, NEW s \in Seq(T), NEW t \in Seq(T)
    PROVE  Names(s \o t) = Names(s) \union Names(t)
<1>1. /\ s \o t \in Seq(T) /\ Len(s) \in Nat /\ Len(t) \in Nat
      /\ DOMAIN s = 1 .. Len(s) /\ DOMAIN t = 1 .. Len(t)
      /\ DOMAIN (s \o t) = 1 .. Len(s) + Len(t)
      /\ \A i \in 1 .. Len(s) + Len(t) :
            (s \o t)[i] = IF i <= Len(s) THEN s[i] ELSE t[i - Len(s)]
  BY ConcatProperties, LenProperties
<1> DEFINE u == s \o t
<1> HIDE DEF u
<1>2. \A i \in 1 .. Len(s) : i \in DOMAIN u /\ u[i] = s[i]
  BY <1>1 DEF u
<1>3. \A i \in 1 .. Len(t) : i + Len(s) \in DOMAIN u /\ u[i + Len(s)] = t[i]
  <2> SUFFICES ASSUME NEW i \in 1 .. Len(t)
               PROVE  i + Len(s) \in DOMAIN u /\ u[i + Len(s)] = t[i]
    OBVIOUS
  <2>1. i + Len(s) \in 1 .. Len(s) + Len(t) /\ ~(i + Len(s) <= Len(s)) /\ (i + Len(s)) - Len(s) = i
    BY <1>1
  <2> QED BY <1>1, <2>1 DEF u
<1>4. ASSUME NEW i \in DOMAIN u
      PROVE  \/ \E j \in DOMAIN s : u[i] = s[j]
             \/ \E j \in DOMAIN t : u[i] = t[j]
  <2>1. i \in 1 .. Len(s) + Len(t)
    BY <1>1 DEF u
  <2>2. CASE i <= Len(s)
    BY <1>1, <1>2, <2>1, <2>2
  <2>3. CASE i > Len(s)
    <3>1. i - Len(s) \in 1 .. Len(t) /\ (i - Len(s)) + Len(s) = i
      BY <1>1, <2>1, <2>3
    <3> QED BY <1>1, <1>3, <3>1
  <2> QED BY <1>1, <2>1, <2>2, <2>3
<1>5. Names(u) \subseteq Names(s) \union Names(t)
  BY <1>4 DEF Names
<1>6. Names(s) \subseteq Names(u) /\ Names(t) \subseteq Names(u)
  BY <1>1, <1>2, <1>3 DEF Names
<1> QED BY <1>5, <1>6 DEF u

\* An address changes neither the length nor the names of a list, and leaves no plugin
\* without an endpoint.
LEMMA AddressedLists ==
    ASSUME FileOK, NEW x \in Name
    PROVE  /\ plugins[x] \in Seq(Listed)
           /\ Addressed[x] \in Seq([name : STRING, endpoint : STRING \union {"http://" \o p.name : p \in Listed}])
           /\ Len(Addressed[x]) = Len(plugins[x])
           /\ Names(Addressed[x]) = Names(plugins[x])
           /\ \A i \in DOMAIN Addressed[x] : Addressed[x][i].endpoint # ""
<1> DEFINE s == plugins[x]
           Where == [name : STRING, endpoint : STRING \union {"http://" \o p.name : p \in Listed}]
           address(p) == IF p.endpoint # "" THEN p ELSE [p EXCEPT !.endpoint = "http://" \o p.name]
           a == [i \in DOMAIN s |-> address(s[i])]
<1>1. s \in Seq(Listed) /\ Len(s) \in Nat /\ DOMAIN s = 1 .. Len(s)
  BY LenProperties DEF FileOK
<1>2. Addressed[x] = a
  BY DEF Addressed
<1>3. ASSUME NEW p \in Listed
      PROVE  address(p) \in Where /\ address(p).name = p.name /\ address(p).endpoint # ""
  <2>1. p \in [name : STRING, endpoint : STRING] /\ "http://" \o p.name # ""
    BY OptionsAssumption
  <2>2. CASE p.endpoint # ""
    BY <2>1, <2>2
  <2>3. CASE p.endpoint = ""
    <3>1. address(p) = [p EXCEPT !.endpoint = "http://" \o p.name]
      BY <2>3
    <3> QED BY <2>1, <3>1
  <2> QED BY <2>2, <2>3
<1>4. \A i \in DOMAIN s : s[i] \in Listed
  BY <1>1, ElementOfSeq
<1> HIDE DEF s, address, Where
<1>5. \A i \in DOMAIN s : a[i] \in Where /\ a[i].name = s[i].name /\ a[i].endpoint # ""
  BY <1>3, <1>4
<1>6. DOMAIN a = DOMAIN s
  OBVIOUS
<1>7. a \in Seq(Where) /\ Len(a) = Len(s)
  <2>1. a \in [1 .. Len(s) -> Where]
    BY <1>1, <1>5
  <2> QED BY <1>1, <2>1
<1> HIDE DEF a
<1>8. Names(a) = Names(s)
  BY <1>5, <1>6 DEF Names
<1> QED BY <1>1, <1>2, <1>5, <1>6, <1>7, <1>8 DEF s, Where

\* If no list repeats a name and the two of a repository share none, each of its external
\* plugins is posted an event once, and to an endpoint (setDefaults,
\* validateExternalPlugins).
THEOREM ExternalsPostedOnce == FileSpec => []PostedOnce
<1>1. FileOK => PostedOnce
  <2> SUFFICES ASSUME FileOK, validateExternalPlugins,
                      \A x \in Name : NoRepetition(plugins[x]), NEW r \in Repo
               PROVE  /\ NoRepetition(PluginsOf(r))
                      /\ \A i \in DOMAIN PluginsOf(r) : PluginsOf(r)[i].endpoint # ""
    BY DEF PostedOnce
  <2> DEFINE s == Addressed[Owner[r]]
             t == Addressed[r]
             Where == [name : STRING, endpoint : STRING \union {"http://" \o p.name : p \in Listed}]
  <2>1. r \in Name /\ Owner[r] \in Name
    BY OptionsAssumption DEF Name
  <2>2. s \in Seq(Where) /\ t \in Seq(Where)
    BY <2>1, AddressedLists
  <2>3. /\ Len(s) = Len(plugins[Owner[r]]) /\ Names(s) = Names(plugins[Owner[r]])
        /\ Len(t) = Len(plugins[r]) /\ Names(t) = Names(plugins[r])
    BY <2>1, AddressedLists
  <2>4. /\ \A i \in DOMAIN s : s[i].endpoint # ""
        /\ \A i \in DOMAIN t : t[i].endpoint # ""
    BY <2>1, AddressedLists
  <2>5. PluginsOf(r) = s \o t
    BY DEF PluginsOf
  <2> HIDE DEF s, t, Where
  <2>6. Cardinality(Names(s)) = Len(s) /\ Cardinality(Names(t)) = Len(t)
    BY <2>1, <2>3 DEF NoRepetition
  <2>7. Names(s) \intersect Names(t) = {}
    BY <2>3 DEF validateExternalPlugins, findDuplicatedPluginConfig
  <2>8. /\ IsFiniteSet(Names(s)) /\ IsFiniteSet(Names(t))
        /\ Len(s) \in Nat /\ Len(t) \in Nat
    BY <2>2, NamesFinite
  <2>9. Cardinality(Names(s) \union Names(t)) = Len(s) + Len(t)
    <3>1. Cardinality(Names(s) \intersect Names(t)) = 0
      BY <2>7, FS_EmptySet
    <3>2. Cardinality(Names(s) \union Names(t)) =
             Cardinality(Names(s)) + Cardinality(Names(t)) - Cardinality(Names(s) \intersect Names(t))
      BY <2>8, FS_Union
    <3> QED BY <2>6, <2>8, <3>1, <3>2
  <2>10. NoRepetition(s \o t)
    <3>1. Names(s \o t) = Names(s) \union Names(t)
      BY <2>2, NamesOfBoth
    <3>2. Len(s \o t) = Len(s) + Len(t)
      BY <2>2, ConcatProperties
    <3> QED BY <2>9, <3>1, <3>2 DEF NoRepetition
  <2>11. ASSUME NEW i \in DOMAIN (s \o t) PROVE (s \o t)[i].endpoint # ""
    <3>1. i \in 1 .. Len(s) + Len(t) /\ DOMAIN s = 1 .. Len(s) /\ DOMAIN t = 1 .. Len(t)
      BY <2>2, ConcatProperties, LenProperties
    <3>2. (s \o t)[i] = IF i <= Len(s) THEN s[i] ELSE t[i - Len(s)]
      BY <2>2, <3>1, ConcatProperties
    <3>3. CASE i <= Len(s)
      <4>1. i \in DOMAIN s /\ (s \o t)[i] = s[i]
        BY <2>8, <3>1, <3>2, <3>3
      <4> QED BY <2>4, <4>1
    <3>4. CASE i > Len(s)
      <4>1. i - Len(s) \in DOMAIN t /\ (s \o t)[i] = t[i - Len(s)]
        BY <2>8, <3>1, <3>2, <3>4
      <4> QED BY <2>4, <4>1
    <3>5. i <= Len(s) \/ i > Len(s)
      BY <2>8, <3>1
    <3> QED BY <3>3, <3>4, <3>5
  <2> QED BY <2>5, <2>10, <2>11
<1> QED BY <1>1, FileInvariance, PTL

-----------------------------------------------------------------------------
(* The config updater.                                                     *)

\* Whatever the file says of where it goes is a place of the list that is checked.
LEMMA SpaceIsPlace ==
    ASSUME FileOK, NEW f \in DOMAIN maps, NEW d \in Spaces(maps[f])
    PROVE  LET u == UpdaterDefaults[f]
           IN  /\ f \in DOMAIN UpdaterDefaults
               /\ u.name = maps[f].name
               /\ KeyOf(f, u) = IF maps[f].key = "" THEN Base[f] ELSE maps[f].key
               /\ \E cl \in DOMAIN u.clusters : \E i \in DOMAIN u.clusters[cl] :
                     d = <<cl, u.clusters[cl][i]>>
<1> DEFINE spec == maps[f]
           u == IF DOMAIN spec.clusters # {} THEN spec
                ELSE [spec EXCEPT !.clusters = [default |-> <<spec.namespace>> \o spec.additional]]
<1>1. f \in File /\ spec \in MapSpec
  BY DEF FileOK, MapsOK
<1>2. SpecOK(spec)
  BY <1>1, OptionsAssumption
<1>3. f \in DOMAIN UpdaterDefaults /\ UpdaterDefaults[f] = u
  BY DEF UpdaterDefaults
<1>4. u.name = spec.name /\ u.key = spec.key
  BY <1>2 DEF SpecOK
<1>5. KeyOf(f, u) = IF spec.key = "" THEN Base[f] ELSE spec.key
  BY <1>1, <1>4 DEF KeyOf, BaseOf
<1>6. CASE DOMAIN spec.clusters # {}
  <2>1. u = spec
    BY <1>6
  <2>2. PICK cl \in DOMAIN spec.clusters : \E n \in Elements(spec.clusters[cl]) :
           d = <<cl, n>>
    BY <1>6 DEF Spaces
  <2>3. PICK i \in DOMAIN spec.clusters[cl] : d = <<cl, spec.clusters[cl][i]>>
    BY <2>2 DEF Elements
  <2> QED BY <1>3, <1>4, <1>5, <2>1, <2>2, <2>3
<1>7. CASE DOMAIN spec.clusters = {}
  <2> DEFINE list == <<spec.namespace>> \o spec.additional
             T == {spec.namespace} \union Elements(spec.additional)
  <2>1. spec.additional \in Seq(Elements(spec.additional))
    BY <1>2 DEF SpecOK
  <2>2. <<spec.namespace>> \in Seq(T) /\ spec.additional \in Seq(T)
    BY <2>1, SeqMonotonic
  <2>3. /\ list \in Seq(T) /\ Len(list) = 1 + Len(spec.additional)
        /\ Len(spec.additional) \in Nat /\ DOMAIN spec.additional = 1 .. Len(spec.additional)
        /\ DOMAIN list = 1 .. 1 + Len(spec.additional)
        /\ \A i \in 1 .. 1 + Len(spec.additional) :
              list[i] = IF i <= 1 THEN <<spec.namespace>>[i] ELSE spec.additional[i - 1]
    BY <2>2, ConcatProperties, LenProperties
  <2>4. list[1] = spec.namespace /\ 1 \in DOMAIN list
    BY <2>3
  <2>5. \A i \in DOMAIN spec.additional : i + 1 \in DOMAIN list /\ list[i + 1] = spec.additional[i]
    <3> SUFFICES ASSUME NEW i \in DOMAIN spec.additional
                 PROVE  i + 1 \in DOMAIN list /\ list[i + 1] = spec.additional[i]
      OBVIOUS
    <3>1. i + 1 \in 1 .. 1 + Len(spec.additional) /\ ~(i + 1 <= 1) /\ (i + 1) - 1 = i
      BY <2>3
    <3> QED BY <2>3, <3>1
  <2>6. u.clusters = [default |-> list]
    BY <1>2, <1>7 DEF SpecOK
  <2> HIDE DEF list
  <2>7. PICK n \in T : d = <<"default", n>>
    BY <1>7 DEF Spaces
  <2>8. \E i \in DOMAIN list : n = list[i]
    BY <2>4, <2>5 DEF Elements
  <2>9. DOMAIN u.clusters = {"default"} /\ u.clusters["default"] = list
    BY <2>6
  <2> QED BY <1>3, <1>4, <1>5, <2>7, <2>8, <2>9
<1> QED BY <1>6, <1>7

\* No two files are written to the same key of the same config map if the check passes,
\* unless one names the namespace of the ProwJobs and the other leaves it out
\* (SetDefaults, validateConfigUpdater).
THEOREM WritersAreUnique == FileSpec => []OneWriterPerKey
<1>1. FileOK => OneWriterPerKey
  <2> SUFFICES ASSUME FileOK, validateConfigUpdater, NEW f \in DOMAIN maps, NEW g \in DOMAIN maps,
                      f # g, ~NamedBothWays(f, g),
                      NEW t \in Destinations(f, maps[f]), t \in Destinations(g, maps[g])
               PROVE  FALSE
    BY DEF OneWriterPerKey
  <2> DEFINE U == UpdaterDefaults
             placesOf(h) == UNION {{<<h, cl, i>> : i \in DOMAIN U[h].clusters[cl]} :
                                      cl \in DOMAIN U[h].clusters}
             places == UNION {placesOf(h) : h \in DOMAIN U}
             target(p) == [name |-> U[p[1]].name, cluster |-> p[2],
                           namespace |-> U[p[1]].clusters[p[2]][p[3]],
                           key |-> KeyOf(p[1], U[p[1]])]
             home(n) == IF n = "" THEN ProwJobNamespace ELSE n
             key(h) == IF maps[h].key = "" THEN Base[h] ELSE maps[h].key
  <2>1. \A p, q \in places : target(p) = target(q) => p = q
    BY DEF validateConfigUpdater
  <2>2. PICK d \in Spaces(maps[f]) : t = <<maps[f].name, <<d[1], home(d[2])>>, key(f)>>
    BY DEF Destinations
  <2>3. PICK e \in Spaces(maps[g]) : t = <<maps[g].name, <<e[1], home(e[2])>>, key(g)>>
    BY DEF Destinations
  <2>4. maps[f].name = maps[g].name /\ key(f) = key(g) /\ d[1] = e[1] /\ home(d[2]) = home(e[2])
    <3> HIDE DEF U, home, key
    <3>1. <<maps[f].name, <<d[1], home(d[2])>>, key(f)>> = <<maps[g].name, <<e[1], home(e[2])>>, key(g)>>
      BY <2>2, <2>3
    <3> QED BY <3>1
  <2>5. d[2] = e[2]
    <3>1. {d[2], e[2]} # {"", ProwJobNamespace}
      BY <2>4 DEF NamedBothWays
    <3>2. CASE d[2] = "" /\ e[2] # ""
      BY <2>4, <3>1, <3>2
    <3>3. CASE d[2] # "" /\ e[2] = ""
      BY <2>4, <3>1, <3>3
    <3>4. CASE (d[2] = "") = (e[2] = "")
      BY <2>4, <3>4
    <3> QED BY <3>2, <3>3, <3>4
  <2> HIDE DEF U, home, key
  <2>6. /\ f \in DOMAIN U /\ U[f].name = maps[f].name /\ KeyOf(f, U[f]) = key(f)
        /\ \E cl \in DOMAIN U[f].clusters : \E i \in DOMAIN U[f].clusters[cl] :
              d = <<cl, U[f].clusters[cl][i]>>
    BY SpaceIsPlace DEF U, key
  <2>7. /\ g \in DOMAIN U /\ U[g].name = maps[g].name /\ KeyOf(g, U[g]) = key(g)
        /\ \E cl \in DOMAIN U[g].clusters : \E i \in DOMAIN U[g].clusters[cl] :
              e = <<cl, U[g].clusters[cl][i]>>
    BY SpaceIsPlace DEF U, key
  <2>8. PICK k1 \in DOMAIN U[f].clusters : \E i \in DOMAIN U[f].clusters[k1] :
           d = <<k1, U[f].clusters[k1][i]>>
    BY <2>6
  <2>9. PICK i1 \in DOMAIN U[f].clusters[k1] : d = <<k1, U[f].clusters[k1][i1]>>
    BY <2>8
  <2>10. PICK k2 \in DOMAIN U[g].clusters : \E i \in DOMAIN U[g].clusters[k2] :
            e = <<k2, U[g].clusters[k2][i]>>
    BY <2>7
  <2>11. PICK i2 \in DOMAIN U[g].clusters[k2] : e = <<k2, U[g].clusters[k2][i2]>>
    BY <2>10
  <2>12. <<f, k1, i1>> \in places /\ <<g, k2, i2>> \in places
    BY <2>6, <2>7
  <2>13. /\ U[f].name = U[g].name /\ k1 = k2
         /\ U[f].clusters[k1][i1] = U[g].clusters[k2][i2]
         /\ KeyOf(f, U[f]) = KeyOf(g, U[g])
    BY <2>4, <2>5, <2>6, <2>7, <2>9, <2>11
  <2>14. target(<<f, k1, i1>>) = target(<<g, k2, i2>>)
    BY <2>13
  <2>15. <<f, k1, i1>> = <<g, k2, i2>>
    BY <2>1, <2>12, <2>14
  <2> QED BY <2>15
<1> QED BY <1>1, FileInvariance, PTL

-----------------------------------------------------------------------------
(* The branches that are shown.                                            *)

\* A pointer to a list that repeats nothing, or nil.
Tidy(p) == PointsToList(p) /\ \A l \in p : IsInjective(l)

\* A list has finitely many elements, as many as it is long if it repeats none.
LEMMA ElementsFinite ==
    ASSUME NEW l, l \in Seq(Elements(l))
    PROVE  /\ IsFiniteSet(Elements(l)) /\ Len(l) \in Nat
           /\ IsInjective(l) => Cardinality(Elements(l)) = Len(l)
<1> DEFINE T == Elements(l)
<1>1. Len(l) \in Nat /\ DOMAIN l = 1 .. Len(l) /\ l \in [1 .. Len(l) -> T]
  BY LenProperties
<1>2. T = {l[i] : i \in 1 .. Len(l)}
  BY <1>1 DEF Elements
<1>3. IsFiniteSet(1 .. Len(l)) /\ Cardinality(1 .. Len(l)) = Len(l)
  <2>1. Cardinality(1 .. Len(l)) = IF 1 > Len(l) THEN 0 ELSE Len(l) - 1 + 1
    BY <1>1, FS_Interval
  <2>2. IsFiniteSet(1 .. Len(l))
    BY <1>1, FS_Interval
  <2> QED BY <1>1, <2>1, <2>2
<1> HIDE DEF T
<1>4. l \in Surjection(1 .. Len(l), T)
  BY <1>1, <1>2 DEF Surjection
<1>5. IsFiniteSet(T)
  BY <1>3, <1>4, FS_Surjection
<1>6. IsInjective(l) => l \in Injection(1 .. Len(l), T)
  BY <1>1 DEF Injection
<1>7. IsInjective(l) => Cardinality(T) = Len(l)
  BY <1>3, <1>4, <1>6, FS_Surjection
<1> QED BY <1>1, <1>5, <1>7 DEF T

\* The elements of what a pointer points to.
LEMMA PointedFinite ==
    ASSUME NEW p, PointsToList(p)
    PROVE  IsFiniteSet(UNION {Elements(l) : l \in p})
<1>1. CASE p = {}
  <2>1. UNION {Elements(l) : l \in p} = {}
    BY <1>1
  <2> QED BY <2>1, FS_EmptySet
<1>2. ASSUME NEW l \in p PROVE IsFiniteSet(UNION {Elements(k) : k \in p})
  <2>1. p = {l} /\ l \in Seq(Elements(l))
    BY DEF PointsToList
  <2>2. UNION {Elements(k) : k \in p} = Elements(l)
    BY <2>1
  <2> QED BY <2>1, <2>2, ElementsFinite
<1> QED BY <1>1, <1>2

\* Merging states and statuses gives a list that repeats nothing, or nil.
LEMMA MergedIsTidy ==
    ASSUME NEW states, NEW statuses, PointsToList(states), PointsToList(statuses)
    PROVE  Tidy(mergeStatusesIntoStates(states, statuses))
<1> DEFINE old == UNION {Elements(l) : l \in statuses}
           made == {State(s) : s \in old}
           given == UNION {Elements(s) : s \in states}
           all == given \union made
<1>1. IsFiniteSet(made)
  <2> DEFINE f == [s \in old |-> State(s)]
  <2>1. f \in Surjection(old, made)
    <3>1. f \in [old -> made]
      OBVIOUS
    <3>2. \A m \in made : \E s \in old : f[s] = m
      OBVIOUS
    <3> HIDE DEF f, made, old
    <3> QED BY <3>1, <3>2 DEF Surjection
  <2>2. IsFiniteSet(old)
    BY PointedFinite
  <2> HIDE DEF f, made, old
  <2> QED BY <2>1, <2>2, FS_Surjection
<1>2. IsFiniteSet(all)
  <2>1. IsFiniteSet(given)
    BY PointedFinite
  <2> HIDE DEF given, made
  <2> QED BY <1>1, <2>1, FS_Union
<1>3. mergeStatusesIntoStates(states, statuses) = IF all = {} THEN nil ELSE {SetToSeq(all)}
  BY DEF mergeStatusesIntoStates
<1> HIDE DEF all
<1> DEFINE n == Cardinality(all)
           list == SetToSeq(all)
<1>4. n \in Nat /\ \E g \in [1 .. n -> all] : IsInjective(g)
  <2>1. n \in Nat /\ ExistsBijection(1 .. n, all)
    BY <1>2, FS_CardinalityType
  <2> QED BY <2>1 DEF ExistsBijection, Bijection, Injection
<1>5. list \in [1 .. n -> all] /\ IsInjective(list)
  <2>1. list = CHOOSE g \in [1 .. n -> all] : IsInjective(g)
    BY DEF SetToSeq
  <2> HIDE DEF n, list
  <2> QED BY <1>4, <2>1
<1> HIDE DEF n, list
<1>6. list \in Seq(Elements(list))
  <2>1. list \in [1 .. n -> Elements(list)]
    BY <1>5 DEF Elements
  <2> QED BY <1>4, <2>1
<1>7. Tidy(nil)
  BY DEF Tidy, PointsToList, nil
<1>8. Tidy({list})
  BY <1>5, <1>6 DEF Tidy, PointsToList
<1> QED BY <1>3, <1>7, <1>8 DEF list

\* The states of every branch are such a list.
LEMMA StatesAreTidy ==
    ASSUME FileOK, NoStateRepeated, NEW b
    PROVE  Tidy(OptionsForBranch(bugzilla, b).validStates)
<1> DEFINE f == "validStates"
<1>1. Tidy(nil)
  BY DEF Tidy, PointsToList, nil
<1>2. ASSUME NEW level \in {"default", "org", "repo"}, NEW x
      PROVE  Tidy(Says(Item(x, bugzilla[level]), f))
  <2> DEFINE o == Item(x, bugzilla[level])
  <2>1. PointsToList(o.validStates) /\ PointsToList(o.statuses) /\ Tidy(o.validStates)
    <3>1. CASE x \in DOMAIN bugzilla[level]
      <4>1. o = bugzilla[level][x] /\ ItemOK(o) /\ level \in DOMAIN bugzilla
        BY <3>1 DEF Item, FileOK, BugzillaOK
      <4>2. \A l \in o.validStates : IsInjective(l)
        BY <3>1, <4>1 DEF NoStateRepeated
      <4> HIDE DEF o
      <4> QED BY <4>1, <4>2 DEF ItemOK, Tidy
    <3>2. CASE x \notin DOMAIN bugzilla[level]
      <4>1. o = NoOptions
        BY <3>2 DEF Item
      <4>2. o.validStates = nil /\ o.statuses = nil
        BY <4>1 DEF NoOptions
      <4> QED BY <1>1, <4>2 DEF Tidy
    <3> QED BY <3>1, <3>2
  <2>2. Says(o, f) = IF o.statuses = nil THEN o.validStates
                     ELSE mergeStatusesIntoStates(o.validStates, o.statuses)
    BY DEF Says
  <2> HIDE DEF o
  <2> QED BY <2>1, <2>2, MergedIsTidy DEF o
<1>3. ASSUME NEW level \in {"default", "org", "repo"} PROVE Tidy(LevelSays(level, b, f))
  BY <1>1, <1>2 DEF LevelSays
<1>4. f \in Resolved
  BY DEF Resolved
<1> QED BY <1>3, <1>4, BranchValue

\* Two lists that repeat nothing match only if they have the same elements.
LEMMA MatchingIsSame ==
    ASSUME NEW o, NEW other, Tidy(o.validStates), Tidy(other.validStates), matches(o, other)
    PROVE  Same(o, other)
<1> DEFINE first == o.validStates
           second == other.validStates
<1>1. o.isOpen = other.isOpen /\ o.stateAfter = other.stateAfter
  BY DEF matches
<1>2. (first = nil) = (second = nil)
  BY DEF matches
<1>3. first # nil => statesMatch(The(first), The(second))
  BY DEF matches
<1>4. Tidy(first) /\ Tidy(second)
  OBVIOUS
<1>5. Same(o, other) <=> {Elements(l) : l \in first} = {Elements(l) : l \in second}
  BY <1>1 DEF Same
<1> HIDE DEF first, second
<1>6. CASE first = nil
  BY <1>2, <1>5, <1>6 DEF nil
<1>7. CASE first # nil
  <2>1. PICK l \in first, k \in second : TRUE
    BY <1>2, <1>7 DEF nil
  <2>2. /\ first = {l} /\ l \in Seq(Elements(l)) /\ IsInjective(l)
        /\ second = {k} /\ k \in Seq(Elements(k)) /\ IsInjective(k)
    BY <1>4 DEF Tidy, PointsToList
  <2>3. The(first) = l /\ The(second) = k
    BY <2>2 DEF The
  <2>4. Len(l) = Len(k) /\ Elements(l) \subseteq Elements(k)
    BY <1>3, <1>7, <2>3 DEF statesMatch
  <2>5. Elements(l) = Elements(k)
    <3>1. /\ IsFiniteSet(Elements(k))
          /\ Cardinality(Elements(k)) = Len(k) /\ Cardinality(Elements(l)) = Len(l)
      BY <2>2, ElementsFinite
    <3> QED BY <2>4, <3>1, FS_Subset
  <2> QED BY <1>5, <2>2, <2>5
<1> QED BY <1>6, <1>7

\* A branch that no level names has the options of the wildcard.
LEMMA UnnamedIsWildcard ==
    ASSUME NEW b, \A level \in {"default", "org", "repo"} : b \notin DOMAIN bugzilla[level],
           NEW f \in Resolved
    PROVE  OptionsForBranch(bugzilla, b)[f] = OptionsForBranch(bugzilla, Wildcard)[f]
<1>1. ASSUME NEW level \in {"default", "org", "repo"}
      PROVE  LevelSays(level, b, f) = LevelSays(level, Wildcard, f)
  <2> DEFINE wild == Item(Wildcard, bugzilla[level])
  <2>1. LevelSays(level, b, f) = Says(wild, f)
    BY NoOptionsSilent DEF LevelSays, Item
  <2>2. LevelSays(level, Wildcard, f) = Says(wild, f)
    <3>1. LevelSays(level, Wildcard, f) =
            IF Sets(wild, f) THEN Says(wild, f) ELSE IF Excludes(wild) THEN nil ELSE Says(wild, f)
      BY DEF LevelSays
    <3>2. ~Sets(wild, f) => Says(wild, f) = nil
      BY SilentIsNil
    <3> HIDE DEF wild
    <3> QED BY <3>1, <3>2
  <2> QED BY <2>1, <2>2
<1> QED BY <1>1, BranchValue

\* The wildcard has nothing if no level names it.
LEMMA UnnamedHasNothing ==
    ASSUME \A level \in {"default", "org", "repo"} : Wildcard \notin DOMAIN bugzilla[level],
           NEW f \in Resolved
    PROVE  OptionsForBranch(bugzilla, Wildcard)[f] = NoOptions[f]
<1>1. ASSUME NEW level \in {"default", "org", "repo"} PROVE LevelSays(level, Wildcard, f) = nil
  BY NoOptionsSilent DEF LevelSays, Item
<1> QED BY <1>1, BranchValue, NoOptionsSilent

\* A branch that is left out has the options of the wildcard that is shown, if no list
\* repeats a state (OptionsForRepo, matches).
THEOREM OmittedIsWildcard == FileSpec => []OmittedAsWildcard
<1>1. FileOK => OmittedAsWildcard
  <2> SUFFICES ASSUME FileOK, NoStateRepeated, NEW b \in Branch
               PROVE  LET shown == OptionsForRepo(bugzilla)
                      IN  Same(OptionsForBranch(bugzilla, b),
                               IF b \in DOMAIN shown THEN shown[b] ELSE Item(Wildcard, shown))
    BY DEF OmittedAsWildcard
  <2> DEFINE shown == OptionsForRepo(bugzilla)
             named == UNION {DOMAIN bugzilla[s] : s \in DOMAIN bugzilla}
             options == [x \in named |-> OptionsForBranch(bugzilla, x)]
             others == Item(Wildcard, options)
             own == OptionsForBranch(bugzilla, b)
  <2>1. shown = [x \in {n \in named : n = Wildcard \/ ~matches(options[n], others)} |-> options[x]]
    BY DEF OptionsForRepo
  <2>2. named = UNION {DOMAIN bugzilla[level] : level \in {"default", "org", "repo"}}
    BY DEF FileOK, BugzillaOK
  <2>3. \A x \in named : options[x] = OptionsForBranch(bugzilla, x)
    OBVIOUS
  <2>4. others = IF Wildcard \in named THEN OptionsForBranch(bugzilla, Wildcard) ELSE NoOptions
    BY DEF Item
  <2> HIDE DEF named, options, others, shown, own
  <2>5. Item(Wildcard, shown) = others
    <3>1. Wildcard \in DOMAIN shown <=> Wildcard \in named
      BY <2>1
    <3>2. Wildcard \in named => shown[Wildcard] = OptionsForBranch(bugzilla, Wildcard)
      BY <2>1, <2>3
    <3> QED BY <2>4, <3>1, <3>2 DEF Item
  <2>6. CASE b \in DOMAIN shown
    <3>1. shown[b] = own
      BY <2>1, <2>3, <2>6 DEF own
    <3>2. Same(own, own)
      BY DEF Same
    <3> QED BY <2>6, <3>1, <3>2 DEF own, shown
  <2>7. CASE b \in named /\ b \notin DOMAIN shown
    <3>1. matches(own, others)
      BY <2>1, <2>3, <2>7 DEF own
    <3>2. Tidy(own.validStates)
      BY StatesAreTidy DEF own
    <3>3. Tidy(others.validStates)
      <4>1. Tidy(NoOptions.validStates)
        BY DEF NoOptions, Tidy, PointsToList, nil
      <4>2. Tidy(OptionsForBranch(bugzilla, Wildcard).validStates)
        BY StatesAreTidy
      <4> QED BY <2>4, <4>1, <4>2
    <3>4. Same(own, others)
      BY <3>1, <3>2, <3>3, MatchingIsSame
    <3> QED BY <2>5, <2>7, <3>4 DEF own, shown
  <2>8. CASE b \notin named
    <3>1. b \notin DOMAIN shown
      BY <2>1, <2>8
    <3>2. \A level \in {"default", "org", "repo"} : b \notin DOMAIN bugzilla[level]
      BY <2>2, <2>8
    <3>3. {"isOpen", "validStates", "stateAfter"} \subseteq Resolved
      BY DEF Resolved
    <3>4. \A f \in {"isOpen", "validStates", "stateAfter"} :
             own[f] = OptionsForBranch(bugzilla, Wildcard)[f]
      BY <3>2, <3>3, UnnamedIsWildcard DEF own
    <3>5. \A f \in {"isOpen", "validStates", "stateAfter"} :
             OptionsForBranch(bugzilla, Wildcard)[f] = others[f]
      <4>1. CASE Wildcard \in named
        BY <2>4, <4>1
      <4>2. CASE Wildcard \notin named
        <5>1. \A level \in {"default", "org", "repo"} : Wildcard \notin DOMAIN bugzilla[level]
          BY <2>2, <4>2
        <5> QED BY <2>4, <3>3, <4>2, <5>1, UnnamedHasNothing
      <4> QED BY <4>1, <4>2
    <3>6. Same(own, others)
      <4>1. own["isOpen"] = others["isOpen"] /\ own["validStates"] = others["validStates"]
            /\ own["stateAfter"] = others["stateAfter"]
        BY <3>4, <3>5
      <4> QED BY <4>1 DEF Same
    <3> QED BY <2>5, <3>1, <3>6 DEF own, shown
  <2> QED BY <2>6, <2>7, <2>8
<1> QED BY <1>1, FileInvariance, PTL
=============================================================================
