----------------------------- MODULE MCHubNodes -----------------------------
(* The nodes of the hub and the MCP server, each on two input items, with    *)
(* the operations, catalogs and requests that decide differently.            *)
EXTENDS HubNodes, McpServer

VARIABLE kind

\* Operations on the hub, one of each shape.
Event(p, sizes) == [named |-> TRUE, payload |-> p, files |-> [i \in DOMAIN sizes |-> [size |-> sizes[i], told |-> sizes[i]]]]
MCEvents == {Event(1, <<1, 2>>), Event(1, <<3>>), [Event(1, <<1>>) EXCEPT !.files[1].told = 2], [Event(0, <<>>) EXCEPT !.named = FALSE]}

Call(does) == [does |-> does, valid |-> TRUE, all |-> FALSE, page |-> 1, socket |-> FALSE, keyed |-> FALSE, event |-> Event(1, <<1>>)]
Wait == [Call("waitForSocketEvent") EXCEPT !.socket = TRUE]
MCOperations ==
    {[Call("listClientAgents") EXCEPT !.all = a, !.page = p] : a \in BOOLEAN, p \in {1, 2}}
    \union {[Call("listManagedAccessRequests") EXCEPT !.all = TRUE, !.page = p] : p \in {1, 2}}
    \union {[Call("publishSocketEvent") EXCEPT !.socket = s, !.keyed = y] : s \in BOOLEAN, y \in BOOLEAN}
    \union {[Call("publishSocketEvent") EXCEPT !.event = e] : e \in {Event(2, <<>>), Event(0, <<1, 1, 1>>), Event(0, <<2, 2>>)}}
    \union {Call("getClientToken"), Call("approveAccessRequest"), [Call("getClientAgent") EXCEPT !.valid = FALSE], Wait}
MCPlans == {<<a, b>> : a \in MCOperations, b \in {Wait, Call("setClientToken")}}

\* Capabilities: a query with a limit and a filter, a tool, and what may not be exposed.
Text(x) == [k |-> "text", n |-> 0, says |-> x]
Num(i) == [k |-> "num", n |-> i, says |-> ""]
Schema(t, r) == [type |-> t, required |-> r, default |-> Null, least |-> 0, most |-> 9]
Query ==
    [visual |-> FALSE, name |-> [words |-> <<"orders">>, spelling |-> 1], provider |-> "sql", reads |-> TRUE,
     bindings |-> {"limit"}, op |-> <<>>, static |-> {}, maxRows |-> 2, execRows |-> 3,
     needsFilter |-> TRUE, filters |-> {}, masked |-> {"cost"},
     params |-> [x \in {"limit", "token"} |->
        IF x = "limit" THEN Schema("num", FALSE) ELSE [Schema("text", FALSE) EXCEPT !.default = Text("word")]]]
Tool == [Query EXCEPT !.name = [words |-> <<"hash">>, spelling |-> 1], !.provider = "tools",
                      !.op = <<"generate", "hash">>, !.static = {"operation"}, !.needsFilter = FALSE]
MCCatalogs ==
    {<<Query, [Tool EXCEPT !.visual = TRUE]>>, <<[Query EXCEPT !.visual = TRUE, !.execRows = 0, !.reads = FALSE], Tool>>,
     <<[Query EXCEPT !.name.words = <<"list", "client", "access">>], [Tool EXCEPT !.op = <<"user", "access">>]>>,
     <<Query, Query>>, <<[Query EXCEPT !.filters = {"owner"}]>>}

NoHub == [kind |-> "none", max |-> 0, block |-> {}]
Ask == [name |-> Query.name, params |-> [x \in {} |-> Null], block |-> {}, max |-> 0, count |-> 0,
        sibling |-> NoHub, own |-> NoHub]
MCRequests ==
    LET Wired == [kind |-> "hub", max |-> 1, block |-> {<<"hash">>}] IN
    {Ask, [Ask EXCEPT !.name = Tool.name, !.max = 1],
     [Ask EXCEPT !.own = Wired, !.params = [x \in {"limit"} |-> Text("num")]],
     [Ask EXCEPT !.sibling = [NoHub EXCEPT !.kind = "broken"], !.own = Wired],
     [Ask EXCEPT !.sibling = [NoHub EXCEPT !.kind = "broken"], !.max = 2, !.count = 2],
     [Ask EXCEPT !.name = Tool.name, !.own = Wired, !.params = [x \in {"token"} |-> Text("word")]],
     [Ask EXCEPT !.params = [x \in {"limit", "limite"} |-> Num(1)]],
     [Ask EXCEPT !.params = [x \in {"limit"} |-> Num(1)], !.max = 1, !.count = 1],
     [Ask EXCEPT !.params = [x \in {"limit"} |-> Num(3)], !.block = {<<"other">>}]}

MCTellings == {Fields, {"total"}, {}}
MCTokens == {<<"client", "access">>, <<"user", "access">>}

\* The kind that is not chosen rests in an end state of its own.
HubRests ==
    /\ node \in {[plan |-> <<Call("setClientToken")>>, goOn |-> TRUE, item |-> 1, phase |-> "done", cur |-> 0, verdict |-> Open]}
    /\ try = [retries |-> 0, renewed |-> FALSE] /\ socks = <<>> /\ out = <<>>
    /\ list = [page |-> 1, size |-> PageSize, got |-> <<>>, total |-> 0, whole |-> <<>>, shifted |-> FALSE]
    /\ hub = [items |-> <<>>, bare |-> FALSE, tells |-> {}, keys |-> {}, changes |-> MaxChanges, effects |-> <<0>>]
McpRests ==
    /\ mcp = [op |-> "list", goOn |-> TRUE, item |-> 1, calls |-> 0, phase |-> "done", asked |-> Nobody]
    /\ ran = <<>> /\ told = <<>>

NodesInit ==
    \/ kind = "hub" /\ HubNodesBegin /\ McpRests
    \/ kind = "mcp" /\ McpBegins /\ HubRests
NodesNext ==
    \/ kind = "hub" /\ HubNodesSteps /\ UNCHANGED <<kind, mvars>>
    \/ kind = "mcp" /\ McpSteps /\ UNCHANGED <<kind, hvars>>
NodesSpec ==
    NodesInit /\ [][NodesNext]_<<kind, hvars, mvars>> /\ HubNodesFairness /\ WF_mvars(McpSteps)

\* Every node ends: the nodes of the hub with nothing left open, the MCP server with an
\* output for each item, or with the error of the item that it stops at.
AllNodesEnd ==
    /\ HubNodesEnd
    /\ <>[](\/ mcp.phase = "threw"
            \/ mcp.phase = "done" /\ (kind = "mcp" => Len(told) = McpItems))
=============================================================================
