-------------------------- MODULE MCToolConfirmation --------------------------
(* Turns of three calls; look is a command that the text of list matches as a *)
(* pattern, bash is refused after two denials and edit_file after one.        *)
EXTENDS ToolConfirmation

CONSTANTS list, look, remove, wipe, edit, leave

MCCommands == {list, look, remove, wipe, edit, leave}

MCToolOf ==
  [cmd \in MCCommands |-> CASE cmd = edit -> "edit_file"
                            [] cmd = leave -> "exit_plan_mode"
                            [] OTHER -> "bash"]

MCRiskOf ==
  [cmd \in MCCommands |-> CASE cmd \in {list, look} -> "safe"
                            [] cmd = remove -> "risky"
                            [] cmd = wipe -> "destructive"
                            [] OTHER -> "none"]

MCGlobs == [cmd \in MCCommands |-> IF cmd = list THEN {list, look} ELSE {cmd}]

MCCapabilities ==
  [tool \in {"bash", "edit_file", "exit_plan_mode"} |->
     [readOnly |-> FALSE, confirms |-> TRUE, auto |-> FALSE]]

MCThreshold ==
  [tool \in {"bash", "edit_file", "exit_plan_mode"} |-> IF tool = "bash" THEN 2 ELSE 1]

None == [allow |-> {}, ask |-> {}, deny |-> {}]

\* A turn with bash on the list of tools to confirm and no files.
Plain(calls) ==
  [calls |-> calls, mode |-> "default", planning |-> FALSE,
   listed |-> {list, look, remove}, user |-> None, managed |-> None,
   project |-> None, local |-> None, kept |-> {}]

MCTurns ==
  {Plain(<<list, remove, look>>),
   [Plain(<<edit, remove, edit>>) EXCEPT !.kept = {look}],
   [Plain(<<edit, remove, wipe>>) EXCEPT
      !.mode = "bypass", !.managed = [None EXCEPT !.deny = {remove}, !.ask = {edit}]],
   [Plain(<<list, remove, edit>>) EXCEPT
      !.mode = "auto", !.managed = [None EXCEPT !.allow = {remove}]],
   [Plain(<<edit, leave, edit>>) EXCEPT !.planning = TRUE],
   [Plain(<<list, leave, edit>>) EXCEPT
      !.mode = "plan", !.managed = [None EXCEPT !.ask = {list}]],
   [Plain(<<edit, look, remove>>) EXCEPT
      !.mode = "acceptedits", !.listed = {}, !.kept = {remove},
      !.user = [None EXCEPT !.allow = {look}, !.deny = {look}],
      !.project = [None EXCEPT !.allow = {edit, list}, !.deny = {remove}],
      !.local = [None EXCEPT !.deny = {leave}]]}
===============================================================================
