----------------------------- MODULE McpServers -----------------------------
(***************************************************************************)
(* MCP: the concurrent connection of the configured servers within their   *)
(* budgets (state.rs, dss-mcp), the catalogue of tools mounted from what   *)
(* connected, and the calls of one run through it (builtin/mcp.rs).        *)
(*                                                                         *)
(* Servers, network and clock are environment.  What a server offers is    *)
(* chosen when it is asked: it may refuse, answer nonsense or take longer  *)
(* than the budget at every step.                                          *)
(***************************************************************************)
EXTENDS Naturals, Sequences, FiniteSets

CONSTANTS
    Configured,         \* enabled servers, in the order of the settings
    Registry,           \* the canonical agent-registry, Resources only
    Names,              \* names of remote tools
    Unmanaged,
    MAX_MCP_TOOLS,
    MAX_RESOURCE_PAGES,
    CALLS_PER_TOOL      \* bound: deliveries of one tool considered

\* A listing asks for one page at least (MAX_RESOURCE_PAGES of dss-mcp).
ASSUME McpAssumption == MAX_RESOURCE_PAGES \in Nat \ {0}

Servers == {Configured[i] : i \in DOMAIN Configured}
\* A tool definition as the server sends it; retrySafe is what its
\* annotations add up to.
Definitions == [name : Names, retrySafe : BOOLEAN, valid : BOOLEAN]

VARIABLES
    link,       \* progress of each connection attempt
    metadata,   \* does the initialized server advertise Resources
    manager,    \* MCPServerManager: what was inserted for each server
    offered,    \* history: the definitions each server last sent
    mounted,    \* the catalogue of the run: dynamic tools
    allowed,    \* servers the Resources tools may name
    bridge,     \* is call_agent registered
    ready,      \* has build_mcp_runtime finished
    reserved,   \* ToolContext::mcp_mutation_attempts of the run
    delivered,  \* history: calls that reached the server, by server and tool
    walk        \* a resources/list in progress: server, cursors seen, result

mcpVars == <<link, metadata, manager, offered, mounted, allowed, bridge, ready, reserved,
             delivered, walk>>

NoWalk == [server |-> Unmanaged, seen |-> {}, pages |-> 0, result |-> "none"]

McpInit ==
    /\ link = [s \in Servers |-> "opening"]
    /\ metadata = [s \in Servers |-> FALSE]
    /\ manager = [s \in Servers |-> Unmanaged]
    /\ offered = [s \in Servers |-> <<>>]
    /\ mounted = {}
    /\ allowed = {}
    /\ bridge = FALSE
    /\ ready = FALSE
    /\ reserved = {}
    /\ delivered = [p \in Servers \X Names |-> 0]
    /\ walk = NoWalk

-----------------------------------------------------------------------------
(* try_add_server_with_mode, one attempt per server, all polled together. *)

CatalogUnchanged == UNCHANGED <<mounted, allowed, bridge, ready, reserved, delivered, walk>>

\* initialize: the version must be ours, capabilities and identity present.
Initialize(s) ==
    /\ link[s] = "opening" /\ ~ready
    /\ \E resources \in BOOLEAN : metadata' = [metadata EXCEPT ![s] = resources]
    /\ link' = [link EXCEPT ![s] = "notifying"]
    /\ UNCHANGED <<manager, offered>> /\ CatalogUnchanged

\* The Registry is managed without asking for its tools.
Insert(s, tools) ==
    /\ manager' = [manager EXCEPT ![s] = [tools |-> tools, resources |-> metadata[s]]]
    /\ link' = [link EXCEPT ![s] = "managed"]

Initialized(s) ==
    /\ link[s] = "notifying" /\ ~ready
    /\ IF s = Registry THEN Insert(s, <<>>)
       ELSE link' = [link EXCEPT ![s] = "listing"] /\ UNCHANGED manager
    /\ UNCHANGED <<metadata, offered>> /\ CatalogUnchanged

\* An attempt that fails before tools/list leaves nothing in the manager; one
\* whose per-server budget ends is dropped wherever it was.
AttemptEnds(s) ==
    /\ link[s] \in {"opening", "notifying", "listing"} /\ ~ready
    /\ link' = [link EXCEPT ![s] = "failed"]
    /\ UNCHANGED <<metadata, manager, offered>> /\ CatalogUnchanged

\* parse_tool drops an invalid definition and keeps the rest, in their order.
ParsedTools(tools) == [i \in {k \in DOMAIN tools : tools[k].valid} |-> tools[i]]
TooMany(tools) == Len(tools) > MAX_MCP_TOOLS

\* A failed or oversized tools/list is an empty one: the server stays managed
\* for its Resources and is not asked again.
ListTools(s, tools) ==
    /\ link[s] = "listing" /\ ~ready
    /\ offered' = [offered EXCEPT ![s] = tools]
    /\ Insert(s, IF TooMany(tools) THEN <<>> ELSE ParsedTools(tools))
    /\ UNCHANGED metadata /\ CatalogUnchanged

-----------------------------------------------------------------------------
(* The catalogue, derived once all attempts ended or the budget ran out. *)

Managed(s) == manager[s] # Unmanaged
\* register_checked keeps the first definition of a name.
FirstNamed(tools, n) ==
    tools[CHOOSE i \in DOMAIN tools :
              tools[i].name = n /\ \A j \in DOMAIN tools : tools[j].name = n => i <= j]
NamesOf(tools) == {tools[i].name : i \in DOMAIN tools}
\* Mutant: the whole answer of the server is mounted, parsed or not.
MountAsOffered(s) ==
    {[server |-> s, name |-> n, retrySafe |-> FirstNamed(offered[s], n).retrySafe] :
        n \in NamesOf(offered[s])}

Mount(s) ==
    {[server |-> s, name |-> n, retrySafe |-> FirstNamed(manager[s].tools, n).retrySafe] :
        n \in NamesOf(manager[s].tools)}

\* The budget of the whole startup may end while attempts are still running:
\* they are dropped and what is managed by then is all there is.
BuildRuntime ==
    /\ ~ready
    /\ ready' = TRUE
    /\ link' = [s \in Servers |-> IF Managed(s) THEN "managed" ELSE "failed"]
    /\ mounted' = UNION {Mount(s) : s \in {x \in Servers \ {Registry} : Managed(x)}}
    /\ allowed' = {s \in Servers : Managed(s) /\ manager[s].resources}
    /\ bridge' = (Registry \in Servers /\ Managed(Registry) /\ manager[Registry].resources)
    /\ UNCHANGED <<metadata, manager, offered, reserved, delivered, walk>>

-----------------------------------------------------------------------------
(* Calls of the run. *)

\* Mutant: the reservation is checked for read-only definitions only.
MayCallUnsafe(t) == ~t.retrySafe \/ <<t.server, t.name>> \notin reserved

\* McpDynamicTool::call: one attempt per run unless retries are safe.
MayCall(t) == t.retrySafe \/ <<t.server, t.name>> \notin reserved


\* The call may get lost, be answered, or act and lose its answer: the model
\* sees an error in two of the cases and may call again.
CallTool(t) ==
    /\ t \in mounted /\ MayCall(t)
    /\ delivered[<<t.server, t.name>>] < CALLS_PER_TOOL
    /\ reserved' = IF t.retrySafe THEN reserved ELSE reserved \cup {<<t.server, t.name>>}
    /\ \E n \in {0, 1} : delivered' = [delivered EXCEPT ![<<t.server, t.name>>] = @ + n]
    /\ UNCHANGED <<link, metadata, manager, offered, mounted, allowed, bridge, ready, walk>>

StartWalk(s) ==
    /\ s \in allowed /\ walk = NoWalk
    /\ walk' = [NoWalk EXCEPT !.server = s]
    /\ UNCHANGED <<link, metadata, manager, offered, mounted, allowed, bridge, ready,
                   reserved, delivered>>

\* One page of resources/list, answered with a cursor or with 0 for the end.
Cursors == 1 .. MAX_RESOURCE_PAGES
WalkResult(cursor) ==
    IF cursor = 0 THEN "complete"
    ELSE IF cursor \in walk.seen \/ walk.pages + 1 = MAX_RESOURCE_PAGES THEN "error"
    ELSE "none"
WalkPage(cursor) ==
    /\ walk.server # Unmanaged /\ walk.result = "none"
    /\ walk' = [walk EXCEPT !.pages = @ + 1, !.seen = @ \cup ({cursor} \ {0}),
                            !.result = WalkResult(cursor)]
    /\ UNCHANGED <<link, metadata, manager, offered, mounted, allowed, bridge, ready,
                   reserved, delivered>>

Offers == UNION {[1 .. n -> Definitions] : n \in 0 .. MAX_MCP_TOOLS + 1}

McpNext ==
    \/ \E s \in Servers : Initialize(s) \/ Initialized(s) \/ AttemptEnds(s) \/ StartWalk(s)
    \/ \E s \in Servers, tools \in Offers : ListTools(s, tools)
    \/ BuildRuntime
    \/ \E t \in mounted : CallTool(t)
    \/ \E cursor \in {0} \cup Cursors : WalkPage(cursor)

McpSpec == McpInit /\ [][McpNext]_mcpVars

-----------------------------------------------------------------------------
(* Properties *)

\* Whatever order the attempts ended in, a mounted tool is a valid definition
\* its own managed server sent, the Registry contributes none, and two
\* definitions of one name never both reach the model (register_mcp_tools).
MountedToolsAreBacked ==
    /\ \A t \in mounted :
         /\ t.server # Registry /\ Managed(t.server)
         /\ \E i \in DOMAIN offered[t.server] :
              /\ offered[t.server][i].valid
              /\ offered[t.server][i].name = t.name
              /\ offered[t.server][i].retrySafe = t.retrySafe
    /\ \A t, u \in mounted : t.server = u.server /\ t.name = u.name => t = u
    /\ \A s \in allowed : Managed(s) /\ metadata[s]

\* A tool whose annotations do not promise safe retries reaches its server at
\* most once in a run, however often the model calls it (reserve before I/O).
MutationsHappenOnce ==
    \A t \in mounted : ~t.retrySafe => delivered[<<t.server, t.name>>] <= 1

\* No page of a listing is asked for twice, whatever cursors the server sends
\* (the cycle check and the page limit of list_resources).
ListingsMoveOn ==
    /\ walk.pages <= Cardinality(walk.seen) + 1
    /\ walk.pages <= MAX_RESOURCE_PAGES

\* A run calls what its servers offered, each mutating tool once, and listings end
\* (register_mcp_tools, builtin/mcp.rs).
McpIsBounded == MountedToolsAreBacked /\ MutationsHappenOnce /\ ListingsMoveOn
=============================================================================
