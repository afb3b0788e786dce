-------------------------- MODULE BugzillaOptions --------------------------
(***************************************************************************)
(* The Bugzilla section of the prow plugin configuration                   *)
(* (prow/plugins/config.go): how the options of a branch are put together  *)
(* from the items for all branches and for this one, of all organisations, *)
(* of one and of one repository.                                           *)
(*                                                                         *)
(* A pointer of the code is a set: empty for nil, with one element for     *)
(* what it points to.  isOpen stands for the four options that are plainly *)
(* overridden, validStates and statuses also for those of dependent bugs,  *)
(* stateAfter and statusAfter for those after validation and after merge:  *)
(* the code treats them alike.                                             *)
(***************************************************************************)
EXTENDS Naturals, Sequences, SequencesExt

nil == {}
The(p) == CHOOSE v \in p : TRUE

Wildcard == "*"

\* BugzillaBranchOptions with no field set.
NoOptions == [exclude |-> nil, isOpen |-> nil, validStates |-> nil, statuses |-> nil,
              releases |-> nil, release |-> nil, stateAfter |-> nil, statusAfter |-> nil]

\* The options that a resolved item has; the others are mirrored into them.
Resolved == {"isOpen", "validStates", "releases", "stateAfter"}

Elements(s) == {s[i] : i \in DOMAIN s}
State(status) == [status |-> status, resolution |-> ""]

\* The states and the statuses in one list without repetition; nil if it is empty.
mergeStatusesIntoStates(states, statuses) ==
    LET all == (UNION {Elements(s) : s \in states})
                 \union {State(s) : s \in UNION {Elements(l) : l \in statuses}}
    IN  IF all = {} THEN nil ELSE {SetToSeq(all)}

\* The deprecated single release goes to the end of the list, unless it is in it.
WithRelease(releases, release) ==
    IF releases = nil THEN {<<r>> : r \in release}
    ELSE {IF release \subseteq Elements(The(releases)) THEN The(releases)
          ELSE Append(The(releases), The(release))}

\* Whether o says something about option f, in the old way or in the new one.
Sets(o, f) ==
    \/ o[f] # nil
    \/ f = "validStates" /\ o.statuses # nil
    \/ f = "releases" /\ o.release # nil
    \/ f = "stateAfter" /\ o.statusAfter # nil

\* What it says.
Says(o, f) ==
    CASE f = "isOpen" -> o.isOpen
      [] f = "validStates" ->
            IF o.statuses = nil THEN o.validStates
            ELSE mergeStatusesIntoStates(o.validStates, o.statuses)
      [] f = "releases" ->
            IF o.release = nil THEN o.releases ELSE WithRelease(o.releases, o.release)
      [] f = "stateAfter" ->
            IF o.stateAfter # nil THEN o.stateAfter ELSE {State(s) : s \in o.statusAfter}

Excludes(o) == o.exclude = {TRUE}

\* ResolveBugzillaOptions: what the child says, else what the parent says unless the
\* child excludes it.
Resolve(parent, child) ==
    [o \in DOMAIN NoOptions |->
        IF o \notin Resolved THEN nil
        ELSE IF Sets(child, o) THEN Says(child, o)
        ELSE IF Excludes(child) THEN nil
        ELSE Says(parent, o)]

\* The item of a section, which is a map from branches to options.
Item(item, section) == IF item \in DOMAIN section THEN section[item] ELSE NoOptions

OptionsForItem(item, section) == Resolve(Item(Wildcard, section), Item(item, section))

\* Mutant: the section of the repository is looked at before that of the organisation.
OptionsForBranchSwapped(bugzilla, branch) ==
    Resolve(Resolve(OptionsForItem(branch, bugzilla.default),
                    OptionsForItem(branch, bugzilla.repo)),
            OptionsForItem(branch, bugzilla.org))

\* The options of a branch of a repository: the section for all, overridden by that of
\* its organisation and that by its own.  A section that does not exist is empty and
\* overrides nothing.
OptionsForBranch(bugzilla, branch) ==
    Resolve(Resolve(OptionsForItem(branch, bugzilla.default),
                    OptionsForItem(branch, bugzilla.org)),
            OptionsForItem(branch, bugzilla.repo))

\* As many states, and all of the first among the second.
statesMatch(first, second) ==
    /\ Len(first) = Len(second)
    /\ Elements(first) \subseteq Elements(second)

\* Mutant: what becomes of a bug afterwards is not compared.
matchesBefore(o, other) ==
    /\ o.isOpen = other.isOpen
    /\ (o.validStates = nil) = (other.validStates = nil)
    /\ o.validStates # nil => statesMatch(The(o.validStates), The(other.validStates))

\* Whether two resolved options are the same; dependent releases are not compared.
matches(o, other) ==
    /\ o.isOpen = other.isOpen
    /\ (o.validStates = nil) = (other.validStates = nil)
    /\ o.validStates # nil => statesMatch(The(o.validStates), The(other.validStates))
    /\ o.stateAfter = other.stateAfter

\* Mutant: the resolution is left alone when the status is right.
AsBugUpdateStatus(s, bug) ==
    IF s.status # "" /\ s.status # bug.status
    THEN {[status |-> s.status, resolution |-> s.resolution]} ELSE nil

\* What is to be changed of a bug for it to be in state s, "" for what is not; nil if
\* nothing is.
AsBugUpdate(s, bug) ==
    LET changed(f) == IF s[f] # "" /\ s[f] # bug[f] THEN s[f] ELSE ""
        update == [status |-> changed("status"), resolution |-> changed("resolution")]
    IN  IF update.status = "" /\ update.resolution = "" THEN nil ELSE {update}

\* A state says nothing of a field that is empty in it.
Matches(s, bug) == \A f \in {"status", "resolution"} : s[f] \in {"", bug[f]}

\* What Bugzilla makes of an update.
Updated(bug, update) ==
    [f \in DOMAIN bug |->
        IF \E u \in update : u[f] # "" THEN The(update)[f] ELSE bug[f]]

\* The branches that some section names, without those whose options are the same as
\* the wildcard's.
OptionsForRepo(bugzilla) ==
    LET named == UNION {DOMAIN bugzilla[s] : s \in DOMAIN bugzilla}
        options == [b \in named |-> OptionsForBranch(bugzilla, b)]
        others == Item(Wildcard, options)
    IN  [b \in {n \in named : n = Wildcard \/ ~matches(options[n], others)} |-> options[b]]

=============================================================================
