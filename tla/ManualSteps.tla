------------------------------ MODULE ManualSteps ------------------------------
(***************************************************************************)
(* What a user is offered when a build has ended (controller.go:864-1018): *)
(* the button that clears the cache, and a check run for each template     *)
(* that is to be run by hand.  Regular expressions are the sets of names   *)
(* they match.                                                             *)
(***************************************************************************)
EXTENDS BuildPolicy

CONSTANTS
    Refs,               \* names of branches and tags
    DefaultBranch,      \* of the repository
    ManualTemplates,    \* the templates config.manualTemplates matches
    EssentialTemplates, \* the templates config.essentialTemplates matches
    QuietBranches,      \* the refs config.nonInteractiveBranches matches
    LongNames           \* the templates with names of more than 20 characters

ASSUME StepsAssumption ==
    /\ DefaultBranch \in Refs /\ QuietBranches \subseteq Refs
    /\ ManualTemplates \cup EssentialTemplates \cup LongNames \subseteq Templates

\* An annotation that overrides a setting; one that does not compile is "bad".
Overrides(names) == [kind: {"absent", "bad", "good"}, names: SUBSET names]
NotGiven == [kind |-> "absent", names |-> {}]
Given(names) == [kind |-> "good", names |-> names]

\* The annotations of the CI files at one commit.
StepNotes ==
    [manual: Overrides(Templates), essential: Overrides(Templates), quiet: Overrides(Refs)]

\* before: the value so far; setting: what a bad annotation falls back to.
Override(note, before, setting) ==
    CASE note.kind = "absent" -> before
      [] note.kind = "bad" -> setting
      [] note.kind = "good" -> note.names

isInteractiveBranch(ref, notes) ==
    /\ ref # DefaultBranch
    /\ ref \notin Override(notes.quiet, QuietBranches, QuietBranches)

\* The essential templates take the place of the manual ones.
Listed(notes) ==
    Override(notes.essential,
             Override(notes.manual, ManualTemplates, ManualTemplates),
             EssentialTemplates)

NextTasks(ref, def, notes) ==
    IF isInteractiveBranch(ref, notes)
    THEN (def.templates \cap Listed(notes)) \ LongNames
    ELSE {}

\* The steps offered after a successful build that started with entry.
nextCheckRunsForWorkflow(entry, ref, def, notes) ==
    LET next == NextTasks(ref, def, notes)
    IN  IF entry \in next THEN {} ELSE next

\* Bug: nothing is ever required.
BugNeutral(task) == "neutral"

\* What an offered step shows until somebody acts: only the setting counts.
StepConclusion(task) == IF task \in EssentialTemplates THEN "action_required" ELSE "neutral"

\* The button on a build that ended: any scope but "none" has one.
clearCacheAction(def) ==
    CASE def.scope = "none" -> {}
      [] def.scope = "branch" -> {"clearCacheBranch"}
      [] OTHER -> {"clearCache"}
=============================================================================
