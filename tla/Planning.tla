------------------------------ MODULE Planning ------------------------------
(***************************************************************************)
(* From the tools an MCP server lists to the plan Guardrail judges: the    *)
(* catalog (src/core/mcp_tool_catalog.rs, mcp_client.rs), the model's      *)
(* reply and the tool chosen from it (src/core/llm_adapter.rs), and the    *)
(* kind of action the plan gets, under the policy the start-up made.       *)
(*                                                                         *)
(* The kind is guessed from the tool's name.  Of a name the model keeps    *)
(* which of the four word lists of classify_action_kind_from_name it       *)
(* matches; of a reply, which names occur in it.                           *)
(***************************************************************************)
EXTENDS PolicyPack, Sequences

CONSTANTS
  Tools,       \* names of tools
  WordsOf,     \* name -> the word lists it matches
  MaxCatalog   \* bound: tools an MCP server lists

Words == {"shell", "network", "write", "read"}

\* The names the program knows itself.
ASSUME PlanningAssumption ==
  /\ {"read_file", "list_tools", "run_shell"} \subseteq Tools
  /\ WordsOf \in [Tools -> SUBSET Words]
  /\ WordsOf["read_file"] = {"read"}
  /\ WordsOf["list_tools"] = {"read"}
  /\ WordsOf["run_shell"] = {"shell"}
  /\ MaxCatalog \in Nat

\* classify_action_kind_from_name, and Shell for a name that matches nothing.
\* (The faulty one looks for the words of a read first.)
KindReadFirst(tool) ==
  IF "read" \in WordsOf[tool] THEN "Read"
  ELSE IF "network" \in WordsOf[tool] THEN "Network"
  ELSE IF "write" \in WordsOf[tool] THEN "Write" ELSE "Shell"
InferActionKind(tool) ==
  CASE "shell" \in WordsOf[tool] -> "Shell"
    [] WordsOf[tool] \cap {"shell", "network"} = {"network"} -> "Network"
    [] WordsOf[tool] \cap {"shell", "network", "write"} = {"write"} -> "Write"
    [] WordsOf[tool] = {"read"} -> "Read"
    [] WordsOf[tool] = {} -> "Shell"

\* A catalog lists names with the kinds they were given when it was read.
Definition(tool) == [name |-> tool, kind |-> InferActionKind(tool)]
Catalogs ==
  UNION {[1 .. n -> {Definition(tool) : tool \in Tools}] : n \in 0 .. MaxCatalog}

-----------------------------------------------------------------------------
VARIABLES
  catalog,  \* what list_tool_definitions returned
  plan      \* the tool and the kind of the plan, once there is one

planningVars == <<packVars, catalog, plan>>

Lists(tool) == \E i \in DOMAIN catalog : catalog[i].name = tool

\* The entries of one name have one kind, so it does not matter which is found.
ActionKindForTool(tool) ==
  IF Lists(tool)
    THEN catalog[CHOOSE i \in DOMAIN catalog : catalog[i].name = tool].kind
    ELSE InferActionKind(tool)

\* What both providers take when nothing is chosen.
DefaultTool ==
  IF Lists("read_file") THEN "read_file"
  ELSE IF catalog # <<>> THEN catalog[1].name ELSE "list_tools"

\* select_tool_from_reply, the reply naming the tools in the set (none, where the
\* request failed): the first of the catalog that it names.
SelectedFrom(named) ==
  IF \E tool \in named : Lists(tool)
    THEN {catalog[i].name : i \in
            {i \in DOMAIN catalog : /\ catalog[i].name \in named
                                    /\ \A j \in 1 .. i - 1 : catalog[j].name \notin named}}
    ELSE {DefaultTool}

NoToolPlan == [tool |-> "none", kind |-> "none"]

PlanningInit == PackInit /\ catalog = <<>> /\ plan = NoToolPlan

Prepare == PackNext /\ UNCHANGED <<catalog, plan>>

\* The server's list; an empty one where it could not be asked.
Discover ==
  /\ stage = "started"
  /\ stage' = "discovered"
  /\ catalog' \in Catalogs
  /\ UNCHANGED <<cfg, policy, budget, executor, plan>>

PlanFor(tool) == [tool |-> tool, kind |-> ActionKindForTool(tool)]

\* HttpLlmProvider::build_plan, of the first plan and of one after a retry.
BuildPlan ==
  \E named \in SUBSET Tools :
    \E tool \in SelectedFrom(named) : plan' = PlanFor(tool)

\* MockLlmProvider::propose_plan: a prompt that speaks of a shell gets one.
MockPlan ==
  plan' \in {PlanFor("run_shell"), PlanFor(DefaultTool)}

\* Either provider: no plan depends on what proposed the one before it.
ProposePlan ==
  /\ stage \in {"discovered", "planned"}
  /\ stage' = "planned"
  /\ BuildPlan \/ MockPlan
  /\ UNCHANGED <<cfg, policy, budget, executor, catalog>>

PlanningNext == Prepare \/ Discover \/ ProposePlan

PlanningSpec == PlanningInit /\ [][PlanningNext]_planningVars

-----------------------------------------------------------------------------
(* Properties *)

\* Whatever the server lists, the model replies and the pack allows, a plan that
\* Guardrail lets through unasked is one for a tool whose name speaks of reading
\* and of nothing else: a name that also speaks of a shell, the network or a
\* change, and a name nobody knows, always ask ("Shell is never auto-approved",
\* docs/architecture.md; "security-first unknown handling", mcp_tool_catalog.rs).
UnaskedPlansAreReads ==
  stage = "planned" /\ ~RequiresApproval(policy, plan.kind) =>
    WordsOf[plan.tool] = {"read"}

=============================================================================
