---------------------------- MODULE ToolCatalog ----------------------------
(***************************************************************************)
(* The Tool_Registry (core/tool_registry.py), the MCP client that fills it *)
(* (core/mcp_client.py) and the routes that configure, connect, disconnect *)
(* and remove MCP servers (cp/orchestration.py).  None of them takes a     *)
(* lock: request threads connect and disconnect servers while callers      *)
(* invoke tools, and an invocation looks its tool up, checks the scope and *)
(* only later fetches the handler by name.  Names are one table for all    *)
(* servers, and two servers may advertise the same one.  A tool's toolset  *)
(* is the server it came from.  A server may be unreachable or refuse to   *)
(* list its tools at any time, and the kernel may refuse a secret grant.   *)
(***************************************************************************)
EXTENDS Naturals, FiniteSets

CONSTANTS
    Servers,         \* MCP server ids
    ToolNames,       \* tool names
    Advertised,      \* server -> [tool name it advertises -> mutating]
    Settings,        \* server -> configurations [filter (no filter is all), secret]
    Scopes,          \* ToolScopes callers use: [agent, run], server -> setting
    Connectors,      \* request threads of the MCP routes
    ToolCallers,     \* threads that invoke tools
    HasSandbox,      \* a sandbox executor was injected
    MaxConnections   \* bound on the connections opened

ASSUME ToolsAssumption == \A s \in Servers : DOMAIN Advertised[s] \subseteq ToolNames

VARIABLES
    mcpRows,      \* mcp_servers: server -> [filter, secret, status], existing rows
    catalog,      \* _tools: name -> [toolset, mutating]
    handlers,     \* _handlers: name -> [toolset, mutating], the tool it calls
    unavailable,  \* _unavailable
    connections,  \* _connections: the servers with a live one
    registered,   \* _registered: server -> names
    opened,       \* connections opened so far
    connecting,   \* request thread -> its connect or disconnect call
    invoking,     \* caller -> its invoke call
    contested     \* names two threads were registering at once (history)

toolVars == <<mcpRows, catalog, handlers, unavailable, connections, registered,
              opened, connecting, invoking, contested>>

Put(f, k, v) == [x \in DOMAIN f \cup {k} |-> IF x = k THEN v ELSE f[x]]
Drop(f, k) == [x \in DOMAIN f \ {k} |-> f[x]]

NotConnecting == [pc |-> "idle"]
NotInvoking == [pc |-> "idle"]

ToolsInit ==
    /\ mcpRows = << >> /\ catalog = << >> /\ handlers = << >>
    /\ unavailable = {} /\ connections = {} /\ registered = << >>
    /\ opened = 0 /\ contested = {}
    /\ connecting = [h \in Connectors |-> NotConnecting]
    /\ invoking = [c \in ToolCallers |-> NotInvoking]

(***************************************************************************)
(* The routes                                                              *)
(***************************************************************************)

registryVars == <<catalog, handlers, unavailable, contested>>
clientVars == <<connections, registered, opened>>

\* configure_mcp_server: a new row starts disconnected, an existing one keeps
\* its status (and its connection, opened with the old settings).
configure_mcp_server(s) ==
    /\ \E setting \in Settings[s] :
        mcpRows' = Put(mcpRows, s, [filter |-> setting.filter, secret |-> setting.secret,
            status |-> IF s \in DOMAIN mcpRows THEN mcpRows[s].status ELSE "disconnected"])
    /\ UNCHANGED <<registryVars, clientVars, connecting, invoking>>

\* remove_mcp_server deletes the row and nothing else.
remove_mcp_server(s) ==
    /\ s \in DOMAIN mcpRows
    /\ mcpRows' = Drop(mcpRows, s)
    /\ UNCHANGED <<registryVars, clientVars, connecting, invoking>>

\* _persist_status writes the settings the call was made with, and creates the
\* row when it has been removed meanwhile.
_persist_status(call, status) ==
    mcpRows' = Put(mcpRows, call.server,
                   [filter |-> call.filter, secret |-> call.secret, status |-> status])

Request(op, pc, s, todo) ==
    [op |-> op, pc |-> pc, server |-> s, filter |-> mcpRows[s].filter,
     secret |-> mcpRows[s].secret, todo |-> todo, name |-> ""]

\* connect_mcp_server: the configuration is read from the row, once.
StartConnect(h, s) ==
    /\ connecting[h].pc = "idle" /\ s \in DOMAIN mcpRows
    /\ connecting' = [connecting EXCEPT ![h] = Request("connect", "grant", s, {})]
    /\ UNCHANGED <<mcpRows, registryVars, clientVars, invoking>>

\* _obtain_grant: a server without a secret needs none; for one with a secret
\* the kernel issues it, or there is no provider, it raises or returns none: the
\* server is marked failed and the connect ends before the transport.
_obtain_grant(h) ==
    LET call == connecting[h] IN
    /\ call.pc = "grant"
    /\ \/ /\ connecting' = [connecting EXCEPT ![h].pc = "transport"]
          /\ UNCHANGED mcpRows
       \/ /\ call.secret
          /\ _persist_status(call, "failed")
          /\ connecting' = [connecting EXCEPT ![h] = NotConnecting]
    /\ UNCHANGED <<registryVars, clientVars, invoking>>

RegisteredNames(s) == IF s \in DOMAIN registered THEN registered[s] ELSE {}

\* The transport fails, or the new connection cannot list its tools and is
\* closed: _handle_unreachable takes the tools of the server out of service.
ConnectFails(h) ==
    LET call == connecting[h] IN
    /\ call.pc = "transport"
    /\ connecting' = [connecting EXCEPT ![h].pc = "retire",
                                        ![h].todo = RegisteredNames(call.server)]
    /\ UNCHANGED <<mcpRows, registryVars, clientVars, invoking>>

\* The connection is open and has listed its tools: advertised, filtered.
ConnectOpens(h) ==
    LET call == connecting[h] IN
    /\ call.pc = "transport" /\ opened < MaxConnections
    /\ opened' = opened + 1
    /\ connecting' = [connecting EXCEPT ![h].pc = "spec",
          ![h].todo = DOMAIN Advertised[call.server] \cap call.filter]
    /\ UNCHANGED <<mcpRows, registryVars, connections, registered, invoking>>

\* What server s advertises under the name n.
Tool(s, n) == [toolset |-> s, mutating |-> Advertised[s][n]]

\* Somebody is between the two parts of registering n.
HalfRegistered(n) == \E h \in Connectors : connecting[h].pc = "handler" /\ connecting[h].name = n

\* History: calls that have read the specification of n see it registered again.
Overtake(n) ==
    invoking' = [c \in ToolCallers |->
        IF invoking[c].pc \in {"read", "gated"} /\ invoking[c].name = n
        THEN [invoking[c] EXCEPT !.overtaken = TRUE] ELSE invoking[c]]

\* register_tool, its first part: the specification replaces what was
\* catalogued under the name, and the name is available again.
RegisterSpec(h, n) ==
    LET call == connecting[h] IN
    /\ call.pc = "spec" /\ n \in call.todo
    /\ catalog' = Put(catalog, n, Tool(call.server, n))
    /\ unavailable' = unavailable \ {n}
    /\ connecting' = [connecting EXCEPT ![h].pc = "handler", ![h].name = n]
    /\ contested' = IF HalfRegistered(n) THEN contested \cup {n} ELSE contested
    /\ Overtake(n)
    /\ UNCHANGED <<mcpRows, handlers, clientVars>>

\* Mutant of HandlerPut: the handler of an earlier registration stays.
FirstHandlerStays(n, tool) == IF n \in DOMAIN handlers THEN handlers ELSE Put(handlers, n, tool)

\* The handler replaces the one of an earlier registration.
HandlerPut(n, tool) == Put(handlers, n, tool)

\* register_tool, its second part, and set_tool_available.
RegisterHandler(h) ==
    LET call == connecting[h] IN
    /\ call.pc = "handler"
    /\ handlers' = HandlerPut(call.name, Tool(call.server, call.name))
    /\ unavailable' = unavailable \ {call.name}
    /\ connecting' = [connecting EXCEPT ![h].pc = "spec", ![h].todo = @ \ {call.name}]
    /\ Overtake(call.name)
    /\ UNCHANGED <<mcpRows, catalog, contested, clientVars>>

\* The tables of the client are overwritten: what an earlier connection of the
\* server registered is no longer remembered, and it is not closed.
ConnectReturns(h) ==
    LET call == connecting[h] IN
    /\ call.pc = "spec" /\ call.todo = {}
    /\ connections' = connections \cup {call.server}
    /\ registered' = Put(registered, call.server,
                         DOMAIN Advertised[call.server] \cap call.filter)
    /\ _persist_status(call, "connected")
    /\ connecting' = [connecting EXCEPT ![h] = NotConnecting]
    /\ UNCHANGED <<registryVars, opened, invoking>>

\* disconnect: a server the client never connected is left alone.
StartDisconnect(h, s) ==
    /\ connecting[h].pc = "idle" /\ s \in DOMAIN mcpRows /\ s \in DOMAIN registered
    /\ connecting' = [connecting EXCEPT ![h] =
                        Request("disconnect", "retire", s, registered[s])]
    /\ UNCHANGED <<mcpRows, registryVars, clientVars, invoking>>

\* set_tool_available(name, False), for one after the other; an unknown name is
\* ignored, and one that another server has taken over is retired all the same.
RetireTool(h, n) ==
    /\ connecting[h].pc = "retire" /\ n \in connecting[h].todo
    /\ unavailable' = unavailable \cup ({n} \cap DOMAIN catalog)
    /\ connecting' = [connecting EXCEPT ![h].todo = @ \ {n}]
    /\ UNCHANGED <<mcpRows, catalog, handlers, contested, clientVars, invoking>>

\* Then the connection is dropped and the status written: over the settings the
\* connect was made with, or into the row that is there.
RetireEnds(h) ==
    LET call == connecting[h] IN
    /\ call.pc = "retire" /\ call.todo = {}
    /\ connections' = connections \ {call.server}
    /\ IF call.op = "connect" THEN _persist_status(call, "disconnected")
       ELSE mcpRows' = [s \in DOMAIN mcpRows |->
                          IF s = call.server THEN [mcpRows[s] EXCEPT !.status = "disconnected"]
                          ELSE mcpRows[s]]
    /\ connecting' = [connecting EXCEPT ![h] = NotConnecting]
    /\ UNCHANGED <<registryVars, registered, opened, invoking>>

(***************************************************************************)
(* Invocations                                                             *)
(***************************************************************************)

\* ToolScope.is_toolset_enabled: an agent-level setting wins over the run's.
is_toolset_enabled(scope, s) ==
    scope.agent[s] = "on" \/ (scope.agent[s] = "unset" /\ scope.run[s] = "on")

\* invoke reads the specification of the tool; without one it denies the call.
invoke(c) ==
    /\ invoking[c].pc = "idle"
    /\ \E n \in DOMAIN catalog, scope \in Scopes :
        invoking' = [invoking EXCEPT ![c] =
            [pc |-> "read", name |-> n, scope |-> scope, spec |-> catalog[n],
             overtaken |-> HalfRegistered(n)]]
    /\ UNCHANGED <<mcpRows, registryVars, clientVars, connecting>>

\* The gate: the tool is available, and what was read is enabled in the scope.
GateOpen(call) ==
    /\ call.name \notin unavailable
    /\ is_toolset_enabled(call.scope, call.spec.toolset)

\* The call is denied, or goes on with the specification it has read.
CheckGate(c) ==
    /\ invoking[c].pc = "read"
    /\ IF GateOpen(invoking[c]) THEN invoking' = [invoking EXCEPT ![c].pc = "gated"]
       ELSE invoking' = [invoking EXCEPT ![c] = NotInvoking]
    /\ UNCHANGED <<mcpRows, registryVars, clientVars, connecting>>

Ran(c, how, tool) ==
    LET call == invoking[c] IN
    invoking' = [invoking EXCEPT ![c] =
        [pc |-> "ran", how |-> how, tool |-> tool, name |-> call.name,
         scope |-> call.scope, overtaken |-> call.overtaken]]

\* A mutating tool goes to the sandbox, or is blocked without one; any other
\* goes to the handler found under its name, if there is one.
RunTool(c) ==
    LET call == invoking[c] IN
    /\ call.pc = "gated"
    /\ IF call.spec.mutating
       THEN IF HasSandbox THEN Ran(c, "sandboxed", call.spec)
            ELSE invoking' = [invoking EXCEPT ![c] = NotInvoking]
       ELSE IF call.name \in DOMAIN handlers
            THEN Ran(c, "in_process", handlers[call.name])
            ELSE invoking' = [invoking EXCEPT ![c] = NotInvoking]
    /\ UNCHANGED <<mcpRows, registryVars, clientVars, connecting>>

ToolReturns(c) ==
    /\ invoking[c].pc = "ran"
    /\ invoking' = [invoking EXCEPT ![c] = NotInvoking]
    /\ UNCHANGED <<mcpRows, registryVars, clientVars, connecting>>

ToolsNext ==
    \/ \E s \in Servers : configure_mcp_server(s) \/ remove_mcp_server(s)
    \/ \E h \in Connectors :
        \/ \E s \in Servers : StartConnect(h, s) \/ StartDisconnect(h, s)
        \/ \E n \in ToolNames : RegisterSpec(h, n) \/ RetireTool(h, n)
        \/ _obtain_grant(h) \/ ConnectFails(h) \/ ConnectOpens(h)
        \/ RegisterHandler(h) \/ ConnectReturns(h) \/ RetireEnds(h)
    \/ \E c \in ToolCallers : invoke(c) \/ CheckGate(c) \/ RunTool(c) \/ ToolReturns(c)

(***************************************************************************)
(* Properties                                                              *)
(***************************************************************************)

\* The tool a call reaches is in the caller's scope, an agent-level disable
\* included, and in a sandbox when it mutates (tool_registry.py invoke).
InScope(call) ==
    /\ call.scope.agent[call.tool.toolset] /= "off"
    /\ "on" \in {call.scope.agent[call.tool.toolset], call.scope.run[call.tool.toolset]}
    /\ call.tool.mutating => call.how = "sandboxed"

\* Checking the specification and fetching the handler later, by name, lets a
\* call reach a tool outside its scope, or a mutating one outside the sandbox,
\* only when a server that advertises that very name is connected while the
\* call is under way, or two of them have been connected at the same time:
\* connecting, reconnecting with other settings, disconnecting or removing any
\* server otherwise never does, whatever names the servers share
\* (tool_registry.py invoke, register_tool; mcp_client.py connect, disconnect).
ToolsGuarded ==
    \A c \in ToolCallers :
        LET call == invoking[c] IN
        call.pc = "ran" /\ ~call.overtaken /\ call.name \notin contested => InScope(call)

\* The statements below are the repository's and do not hold of the code
\* (README, section 3).

\* "An agent-level disable always wins", a mutating tool "MUST run inside a
\* Kernel-managed Sandbox" (tool_registry.py), without an exception.
ScopeNeverEscaped ==
    \A c \in ToolCallers : invoking[c].pc = "ran" => InScope(invoking[c])

\* A server that has been disconnected has no tool in service (mcp_client.py
\* disconnect).
DisconnectRetiresTools ==
    [][\A s \in connections :
        (s \notin connections' /\ \A h \in Connectors : connecting'[h].pc = "idle")
          => \A n \in DOMAIN catalog' : catalog'[n].toolset = s => n \in unavailable']_toolVars
=============================================================================
