--------------------------- MODULE PlanningProofs ---------------------------
(***************************************************************************)
(* Proofs about Planning for every set of tools, every catalog and every   *)
(* reply, and about the start-up it extends (PolicyPack) for every         *)
(* configured limit.                                                       *)
(***************************************************************************)
EXTENDS Planning, TLAPS

\* The kinds in the catalog are those of its names, and so is the plan's.
TrueCatalog ==
  \A i \in DOMAIN catalog :
    /\ catalog[i].name \in Tools
    /\ catalog[i].kind = InferActionKind(catalog[i].name)

\* The policy trusts no shell, in whatever state the start-up is.
TrustsNoShell ==
  /\ cfg \in AppConfigs
  /\ policy \in PolicyEngines /\ ~policy.shellAuto

\* Whether it is found in the catalog or not, a tool has the kind of its name.
LEMMA KindOfName ==
  ASSUME TrueCatalog, NEW tool \in Tools
  PROVE  ActionKindForTool(tool) = InferActionKind(tool)
<1>1. CASE Lists(tool)
  <2> DEFINE i == CHOOSE i \in DOMAIN catalog : catalog[i].name = tool
  <2>1. i \in DOMAIN catalog /\ catalog[i].name = tool
    BY <1>1 DEF Lists
  <2>2. catalog[i].kind = InferActionKind(tool)
    BY <2>1 DEF TrueCatalog
  <2> QED
    BY <1>1, <2>2 DEF ActionKindForTool
<1>2. CASE ~Lists(tool)
  BY <1>2 DEF ActionKindForTool
<1> QED
  BY <1>1, <1>2

\* A catalog the server can have sent is one.
LEMMA CatalogsAreTrue ==
  ASSUME catalog \in Catalogs
  PROVE  /\ TrueCatalog
         /\ catalog \in Seq({Definition(tool) : tool \in Tools})
<1>1. PICK n \in 0 .. MaxCatalog : catalog \in [1 .. n -> {Definition(tool) : tool \in Tools}]
  BY DEF Catalogs
<1>2. TrueCatalog
  <2> SUFFICES ASSUME NEW i \in DOMAIN catalog
               PROVE  /\ catalog[i].name \in Tools
                      /\ catalog[i].kind = InferActionKind(catalog[i].name)
    BY DEF TrueCatalog
  <2>1. PICK tool \in Tools : catalog[i] = Definition(tool)
    BY <1>1
  <2> QED
    BY <2>1 DEF Definition
<1>3. n \in Nat
  BY PlanningAssumption
<1> QED
  BY <1>1, <1>2, <1>3

LEMMA NoToolsAreACatalog == <<>> \in Catalogs
<1>1. 0 \in 0 .. MaxCatalog
  BY PlanningAssumption
<1>2. <<>> \in [1 .. 0 -> {Definition(tool) : tool \in Tools}]
  OBVIOUS
<1> QED
  BY <1>1, <1>2 DEF Catalogs

\* The tool taken by default, and one taken from a reply, has a name.
LEMMA DefaultIsTool ==
  ASSUME catalog \in Catalogs
  PROVE  DefaultTool \in Tools
<1>1. {"read_file", "list_tools"} \subseteq Tools
  BY PlanningAssumption
<1>2. ASSUME catalog # <<>> PROVE catalog[1].name \in Tools
  <2>1. 1 \in DOMAIN catalog
    BY <1>2, CatalogsAreTrue
  <2> QED
    BY <2>1, CatalogsAreTrue DEF TrueCatalog
<1> QED
  BY <1>1, <1>2 DEF DefaultTool

LEMMA SelectedIsTool ==
  ASSUME catalog \in Catalogs, NEW named \in SUBSET Tools,
         NEW tool \in SelectedFrom(named)
  PROVE  tool \in Tools
<1>1. CASE \E t \in named : Lists(t)
  <2>1. PICK i \in DOMAIN catalog : tool = catalog[i].name
    BY <1>1 DEF SelectedFrom
  <2> QED
    BY <2>1, CatalogsAreTrue DEF TrueCatalog
<1>2. CASE ~\E t \in named : Lists(t)
  BY <1>2, DefaultIsTool DEF SelectedFrom
<1> QED
  BY <1>1, <1>2

\* A plan for a tool with a name has the kind of that name.
LEMMA PlanHasItsKind ==
  ASSUME catalog \in Catalogs, NEW tool \in Tools, plan' = PlanFor(tool)
  PROVE  plan'.tool \in Tools /\ plan'.kind = InferActionKind(plan'.tool)
  BY CatalogsAreTrue, KindOfName DEF PlanFor

LEMMA PolicyStaysStrict ==
  ASSUME TrustsNoShell, PackNext
  PROVE  TrustsNoShell'
<1>1. CASE ApplyPack
  <2>1. cfg.pack \in PackNames
    BY DEF TrustsNoShell, AppConfigs
  <2> QED
    BY <1>1, <2>1 DEF ApplyPack, TrustsNoShell, PackNames, PackFromEnv, PackPolicy,
       PolicyEngines, PonytailModes
<1>2. CASE Refuse \/ Start
  BY <1>2 DEF Refuse, Start, TrustsNoShell
<1> QED
  BY <1>1, <1>2 DEF PackNext

\* What every state of start-up and planning keeps.
IInv ==
  /\ TrustsNoShell
  /\ catalog \in Catalogs
  /\ stage = "planned" =>
       plan.tool \in Tools /\ plan.kind = InferActionKind(plan.tool)

LEMMA IInvCorrect == PlanningSpec => []IInv
<1>1. PlanningInit => IInv
  <2> SUFFICES ASSUME PlanningInit PROVE IInv
    OBVIOUS
  <2>1. TrustsNoShell
    BY DEF PlanningInit, PackInit, TrustsNoShell, DefaultPolicy, PolicyEngines, AppConfigs
  <2>2. catalog \in Catalogs /\ stage # "planned"
    BY NoToolsAreACatalog DEF PlanningInit, PackInit
  <2> QED
    BY <2>1, <2>2 DEF IInv
<1>2. IInv /\ [PlanningNext]_planningVars => IInv'
  <2> SUFFICES ASSUME IInv, [PlanningNext]_planningVars PROVE IInv'
    OBVIOUS
  <2>1. CASE Prepare
    <3>1. TrustsNoShell'
      BY <2>1, PolicyStaysStrict DEF Prepare, IInv
    <3>2. stage' # "planned"
      BY <2>1 DEF Prepare, PackNext, ApplyPack, Refuse, Start
    <3>3. catalog' \in Catalogs
      BY <2>1 DEF Prepare, IInv
    <3> QED
      BY <3>1, <3>2, <3>3 DEF IInv, Catalogs, Definition, InferActionKind
  <2>2. CASE Discover
    BY <2>2 DEF Discover, IInv, TrustsNoShell
  <2>3. CASE ProposePlan
    <3>1. TrustsNoShell' /\ catalog' \in Catalogs
      BY <2>3 DEF ProposePlan, IInv, TrustsNoShell
    <3>2. PICK tool \in Tools : plan' = PlanFor(tool)
      <4>1. CASE BuildPlan
        <5>1. PICK named \in SUBSET Tools :
                \E tool \in SelectedFrom(named) : plan' = PlanFor(tool)
          BY <4>1 DEF BuildPlan
        <5>2. PICK tool \in SelectedFrom(named) : plan' = PlanFor(tool)
          BY <5>1
        <5>3. tool \in Tools
          BY <5>2, SelectedIsTool DEF IInv
        <5> QED
          BY <5>2, <5>3
      <4>2. CASE MockPlan
        <5>1. "run_shell" \in Tools
          BY PlanningAssumption
        <5> QED
          BY <4>2, <5>1, DefaultIsTool DEF MockPlan, IInv
      <4> QED
        BY <2>3, <4>1, <4>2 DEF ProposePlan
    <3>3. plan'.tool \in Tools /\ plan'.kind = InferActionKind(plan'.tool)
      BY <3>2, PlanHasItsKind DEF IInv
    <3> QED
      BY <3>1, <3>3 DEF IInv
  <2>4. CASE UNCHANGED planningVars
    BY <2>4 DEF planningVars, packVars, IInv, TrustsNoShell
  <2> QED
    BY <2>1, <2>2, <2>3, <2>4 DEF PlanningNext
<1> QED
  BY <1>1, <1>2, PTL DEF PlanningSpec

\* A policy without trust in shells asks about every kind but Read, under every
\* ponytail mode.
LEMMA OnlyReadsGoUnasked ==
  ASSUME TrustsNoShell, NEW kind \in {"Write", "Network", "Shell"}
  PROVE  RequiresApproval(policy, kind)
<1>1. policy.ponytail \in PonytailModes /\ ~policy.shellAuto
  BY DEF TrustsNoShell, PolicyEngines
<1>2. BaseTier(kind) \in {"Medium", "High"}
  BY DEF BaseTier
<1>3. Tier(policy, kind) \in {"Medium", "High"}
  BY <1>1, <1>2 DEF Tier, PonytailTier, PonytailModes
<1> QED
  BY <1>1, <1>3 DEF RequiresApproval

\* A name that does not speak of reading only has another kind than Read.
LEMMA OnlyReadsAreReads ==
  ASSUME NEW tool \in Tools, WordsOf[tool] # {"read"}
  PROVE  InferActionKind(tool) \in {"Write", "Network", "Shell"}
<1> DEFINE W == WordsOf[tool]
<1>1. W \in SUBSET Words
  BY PlanningAssumption
<1>2. CASE "shell" \in W
  BY <1>2 DEF InferActionKind
<1>3. CASE "shell" \notin W /\ "network" \in W
  <2>1. W \cap {"shell", "network"} = {"network"}
    BY <1>3
  <2>2. W \cap {"shell", "network", "write"} # {"write"}
    BY <1>3
  <2> QED
    BY <1>3, <2>1, <2>2 DEF InferActionKind
<1>4. CASE "shell" \notin W /\ "network" \notin W /\ "write" \in W
  <2>1. W \cap {"shell", "network"} # {"network"}
    BY <1>4
  <2>2. W \cap {"shell", "network", "write"} = {"write"}
    BY <1>4
  <2> QED
    BY <1>4, <2>1, <2>2 DEF InferActionKind
<1>5. CASE "shell" \notin W /\ "network" \notin W /\ "write" \notin W
  <2>1. W = {}
    BY <1>1, <1>5 DEF Words
  <2> QED
    BY <2>1 DEF InferActionKind
<1> QED
  BY <1>2, <1>3, <1>4, <1>5

\* A plan nobody is asked about is one for a tool whose name speaks of reading and
\* of nothing else, whatever tools there are, whatever the server lists and
\* whatever the model replies.
THEOREM UnaskedPlansRead == PlanningSpec => []UnaskedPlansAreReads
<1>1. IInv => UnaskedPlansAreReads
  <2> SUFFICES ASSUME IInv, stage = "planned", WordsOf[plan.tool] # {"read"}
               PROVE  RequiresApproval(policy, plan.kind)
    BY DEF UnaskedPlansAreReads
  <2>1. plan.tool \in Tools /\ plan.kind = InferActionKind(plan.tool)
    BY DEF IInv
  <2>2. plan.kind \in {"Write", "Network", "Shell"}
    BY <2>1, OnlyReadsAreReads
  <2> QED
    BY <2>2, OnlyReadsGoUnasked DEF IInv
<1> QED
  BY <1>1, IInvCorrect, PTL

-----------------------------------------------------------------------------
(* The start-up alone                                                      *)

\* The policy the pack made trusts no shell, and a run that started under a policy
\* that requires sandboxd was wired.
Prepared ==
  /\ TrustsNoShell
  /\ stage = "started" => executor = ExecutorFor(cfg) /\ Wired(cfg, policy)

LEMMA PreparedCorrect == PackSpec => []Prepared
<1>1. PackInit => Prepared
  BY DEF PackInit, Prepared, TrustsNoShell, DefaultPolicy, PolicyEngines, AppConfigs
<1>2. Prepared /\ [PackNext]_packVars => Prepared'
  <2> SUFFICES ASSUME Prepared, [PackNext]_packVars PROVE Prepared'
    OBVIOUS
  <2>1. CASE PackNext
    <3>1. TrustsNoShell'
      BY <2>1, PolicyStaysStrict DEF Prepared
    <3>2. (stage = "started" => executor = ExecutorFor(cfg) /\ Wired(cfg, policy))'
      BY <2>1 DEF PackNext, ApplyPack, Refuse, Start, Wired, ExecutorFor
    <3> QED
      BY <3>1, <3>2 DEF Prepared
  <2>2. CASE UNCHANGED packVars
    BY <2>2 DEF packVars, Prepared, TrustsNoShell
  <2> QED
    BY <2>1, <2>2
<1> QED
  BY <1>1, <1>2, PTL DEF PackSpec

\* What prepare_runtime accepts, from_config wires: a policy that requires sandboxd
\* never gets an executor on the host.
THEOREM RequiredSandboxWired == PackSpec => []RequiredSandboxIsWired
<1>1. Prepared => RequiredSandboxIsWired
  BY DEF Prepared, TrustsNoShell, AppConfigs, RequiredSandboxIsWired, Wired, ExecutorFor,
     UsesHostExecution
<1> QED
  BY <1>1, PreparedCorrect, PTL

\* Writes, network calls and shell commands ask under every pack and mode.
THEOREM RiskyActionsAsk == PackSpec => []RiskyActionsAlwaysAsk
<1>1. Prepared => RiskyActionsAlwaysAsk
  BY OnlyReadsGoUnasked DEF Prepared, RiskyActionsAlwaysAsk
<1> QED
  BY <1>1, PreparedCorrect, PTL

=============================================================================
