--------------------------- MODULE PermissionManager ---------------------------
(***************************************************************************)
(* What the permission manager of an engine says of a tool call: the layers*)
(* of configuration it is built from, the order in which rules, mode,      *)
(* classifier and earlier denials are asked, and the two corrections that  *)
(* the engine makes to its answer (plan mode and the capabilities a tool   *)
(* declares).  Commands are tool calls, up to what all these tell apart.   *)
(***************************************************************************)
EXTENDS Integers, Sequences

CONSTANTS
  Commands,      \* tool calls
  ToolOf,        \* [Commands -> name of the tool]
  RiskOf,        \* [Commands -> what the classifier says of a shell command]
  Globs,         \* [Commands -> those that its own text matches as a pattern]
  Capabilities,  \* [tool -> what it declares of itself]
  Threshold      \* [tool -> denials that end the asking]

Tools == {ToolOf[cmd] : cmd \in Commands}

\* In the code, five for bash and three for all others.
ASSUME ThresholdAssumption == Threshold \in [Tools -> Nat \ {0}]

\* A text matches itself.
ASSUME GlobsAssumption == \A cmd \in Commands : cmd \in Globs[cmd]

ShellTools == {"bash", "exec_command", "shell_command"}

EditTools == {"write_file", "edit_file", "multi_edit", "notebook_edit"}

ReadOnlyTools ==
  {"read_file", "glob", "grep", "ls", "git_status", "git_log", "git_diff",
   "project_map", "tool_search", "web_search", "web_fetch", "lsp",
   "mcp_list_resources", "mcp_read_resource", "list_mcp_resources",
   "list_mcp_resource_templates", "read_mcp_resource", "request_user_input"}

AskedByDefault == {"bash", "git_commit"} \cup EditTools

Mode == {"default", "plan", "auto", "acceptedits", "bypass"}

-----------------------------------------------------------------------------
(* Rules, in the order in which they are added. *)

User == 0
Project == 1
Local == 2
Session == 3
Managed == 4

\* A rule, with the commands that its tool, category and pattern match.
Rule(source, behavior, covers) ==
  [source |-> source, behavior |-> behavior, covers |-> covers]

LayerRules(source, layer) ==
  <<Rule(source, "allow", layer.allow), Rule(source, "ask", layer.ask),
    Rule(source, "deny", layer.deny)>>

\* Variant: the files of a repository are read like those of the user.
LikeTheUsers(layer) == layer

\* Of the files of a repository only the denials are read.
Tightening(layer) == [allow |-> {}, ask |-> {}, deny |-> layer.deny]

\* The list of tools to confirm first, then the four files.
ConfigRules(config) ==
  <<Rule(User, "ask", config.listed)>>
    \o LayerRules(User, config.user)
    \o LayerRules(Managed, config.managed)
    \o LayerRules(Project, Tightening(config.project))
    \o LayerRules(Local, Tightening(config.local))

SameTool(cmd) == {other \in Commands : ToolOf[other] = ToolOf[cmd]}

\* Variant: the text is dropped, and the rule is for the tool.
GrantsTool(cmd) == SameTool(cmd)

\* The commands covered by the rule that "always" makes in the engine: those of
\* the same tool, and for a shell those that the text matches as a pattern.
Granted(cmd) ==
  IF ToolOf[cmd] \in ShellTools THEN SameTool(cmd) \cap Globs[cmd] ELSE SameTool(cmd)

\* The commands covered by the rule the desktop keeps for the next turns: it has
\* a list of its own of the tools whose text it reads, so that shell_command
\* gets a rule without a pattern, and powershell one that matches nothing.
Remembered(cmd) ==
  CASE ToolOf[cmd] \in {"bash", "exec_command"} -> SameTool(cmd) \cap Globs[cmd]
    [] ToolOf[cmd] = "powershell" -> {}
    [] OTHER -> SameTool(cmd)

-----------------------------------------------------------------------------
(* What the manager says: it has a mode, rules and counts of denials. *)

Matching(rules, cmd) == {i \in DOMAIN rules : cmd \in rules[i].covers}

\* The sort is stable: of two rules from one source, the older one comes first.
Ahead(rules, i, j) ==
  \/ rules[i].source > rules[j].source
  \/ rules[i].source = rules[j].source /\ i <= j

Foremost(rules, among) == {i \in among : \A j \in among : Ahead(rules, i, j)}

FirstOf(rules, among) == rules[CHOOSE i \in Foremost(rules, among) : TRUE]

Verdict(rule) ==
  CASE rule.behavior = "allow" -> "allow"
    [] rule.behavior = "deny" -> "deny"
    [] rule.behavior = "ask" -> "confirm"

ByRule(rule) == [action |-> Verdict(rule), matched |-> TRUE]

NoRule(action) == [action |-> action, matched |-> FALSE]

ManagedRules(rules, cmd) == {i \in Matching(rules, cmd) : rules[i].source = Managed}

\* What the classifier of the automatic mode says, or "none".
Classified(cmd) ==
  IF ToolOf[cmd] \in ShellTools
  THEN CASE RiskOf[cmd] = "safe" -> "allow"
         [] RiskOf[cmd] = "risky" -> "confirm"
         [] RiskOf[cmd] = "destructive" -> "deny"
         [] OTHER -> "none"
  ELSE IF ToolOf[cmd] \in ReadOnlyTools THEN "allow" ELSE "none"

\* What the mode says of a command, or "none".
ModeSays(mode, cmd) ==
  CASE mode = "bypass" -> "allow"
    [] mode = "plan" -> IF ToolOf[cmd] \in ReadOnlyTools THEN "allow" ELSE "deny"
    [] mode = "acceptedits" -> IF ToolOf[cmd] \in EditTools THEN "allow" ELSE "none"
    [] mode = "auto" -> Classified(cmd)
    [] OTHER -> "none"

ShouldAutoSkip(manager, tool) == manager.denials[tool] >= Threshold[tool]

\* Earlier denials of the tool, then the rules, then the default.
WithoutMode(manager, cmd) ==
  LET matching == Matching(manager.rules, cmd)
  IN  IF ShouldAutoSkip(manager, ToolOf[cmd]) THEN NoRule("deny")
      ELSE IF matching # {} THEN ByRule(FirstOf(manager.rules, matching))
      ELSE NoRule(IF ToolOf[cmd] \in AskedByDefault THEN "confirm" ELSE "allow")

\* Variant: the mode is looked at before the managed rules.
ExplainModeFirst(manager, cmd) ==
  LET managed == ManagedRules(manager.rules, cmd)
  IN  IF ModeSays(manager.mode, cmd) # "none" THEN NoRule(ModeSays(manager.mode, cmd))
      ELSE IF managed # {} THEN ByRule(FirstOf(manager.rules, managed))
      ELSE WithoutMode(manager, cmd)

Explain(manager, cmd) ==
  LET managed == ManagedRules(manager.rules, cmd)
  IN  IF managed # {} THEN ByRule(FirstOf(manager.rules, managed))
      ELSE IF ModeSays(manager.mode, cmd) # "none"
           THEN NoRule(ModeSays(manager.mode, cmd))
      ELSE WithoutMode(manager, cmd)

-----------------------------------------------------------------------------
(* What the engine makes of it. *)

\* In plan mode, only what reads, and the way out.
PlanStops(planMode, cmd) ==
  /\ planMode
  /\ ToolOf[cmd] # "exit_plan_mode"
  /\ ~Capabilities[ToolOf[cmd]].readOnly

\* What nobody allowed expressly runs unasked only if its tool says it may.
FloorAsks(mode, said, cmd) ==
  LET capabilities == Capabilities[ToolOf[cmd]]
  IN  /\ said.action = "allow" /\ ~said.matched
      /\ mode \notin {"bypass", "plan", "acceptedits"}
      /\ capabilities.confirms \/ (~capabilities.readOnly /\ ~capabilities.auto)

\* Variant: plan mode only stops what would run unasked.
DecisionOnUnasked(manager, planMode, cmd) ==
  LET said == Explain(manager, cmd)
  IN  IF FloorAsks(manager.mode, said, cmd) THEN "confirm"
      ELSE IF said.action = "allow" /\ PlanStops(planMode, cmd) THEN "deny"
      ELSE said.action

\* Plan mode stops what was allowed and what would be asked about.
Decision(manager, planMode, cmd) ==
  LET said == Explain(manager, cmd)
  IN  IF PlanStops(planMode, cmd) THEN "deny"
      ELSE IF FloorAsks(manager.mode, said, cmd) THEN "confirm"
      ELSE said.action

-----------------------------------------------------------------------------
(* Denials. *)

\* A clean-up forgets what a tool has been denied when its last denial is more
\* than half an hour old: those are the expired tools.
Forgotten(denials, expired) == [t \in Tools |-> IF t \in expired THEN 0 ELSE denials[t]]

\* A denial counts for its tool, whose clock it starts again; then the others are
\* cleaned up.
AfterDenial(denials, tool, expired) ==
  [Forgotten(denials, expired \ {tool}) EXCEPT ![tool] = @ + 1]

\* A shell command that is refused without asking is recorded by its first word,
\* and the clean-up after that looks at the tools too, its own among them.
AfterRefusal(denials, tool, expired) ==
  IF tool \in ShellTools THEN Forgotten(denials, expired) ELSE denials
===============================================================================
