------------------------------ MODULE McpServer ------------------------------
(***************************************************************************)
(* The MCP server node: it lists the capabilities an AI agent may call and *)
(* calls them, one input item after the other (mcpServerExecution.ts,      *)
(* mcpServerHelpers.ts, mcpCapabilityExecution.ts, mcp/*.ts).  A call is a *)
(* capability that the workflow's author defined, as read-only SQL or as   *)
(* an operation of the Plug tools, with arguments that the model chose:    *)
(* whether it reaches the agent is decided by a budget of calls, a list of *)
(* blocked names, the administration names nobody may expose, the schema   *)
(* of the arguments and the limits of the definition, all of them read     *)
(* anew for each item, partly from the output of an AI hub node.           *)
(*                                                                         *)
(* A name is a spelling with the words it normalises to; a value is one of *)
(* the JSON kinds, with the number it stands for, if any, and what a text  *)
(* can be read as; a malformed definition is one whose row limit is zero,  *)
(* that names an undeclared parameter or whose provider is unknown.        *)
(***************************************************************************)
EXTENDS Integers, Sequences, FiniteSets

CONSTANTS
    Catalogs,        \* the lists of raw definitions an item may be configured with
    Requests,        \* what an item may ask: [name, params, block, max, count, sibling, own]
    ForbiddenTokens, \* the administration resources, as sequences of words
    Sensitive,       \* names of parameters that are never logged
    Columns,         \* the columns of a row
    Found,           \* how many rows a capability may have to return
    MaxGoverned,     \* the largest row limit a definition may ask for
    McpItems         \* bound: input items of a node

\* What a value is, a parameter of a definition, and a definition.
Kinds == {"text", "num", "bool", "object"}
Values == [k : Kinds \cup {"null"}, n : Int, says : Kinds \cup {"", "word"}]
Schemas == [type : Kinds, required : BOOLEAN, default : Values, least : Int, most : Int]
IsDefinition(d) ==
    /\ d \in [visual : BOOLEAN, name : [words : Seq(STRING), spelling : Nat], provider : STRING,
              reads : BOOLEAN, bindings : SUBSET STRING, op : Seq(STRING), static : SUBSET STRING,
              maxRows : Int, execRows : Int, needsFilter : BOOLEAN, filters : SUBSET STRING,
              masked : SUBSET STRING, params : {d.params}]
    /\ \A x \in DOMAIN d.params : d.params[x] \in Schemas

ASSUME McpServerAssumption ==
    /\ Found \subseteq Nat /\ MaxGoverned \in Nat \ {0} /\ McpItems \in Nat
    /\ \A catalog \in Catalogs : \A i \in DOMAIN catalog : IsDefinition(catalog[i])
    /\ \A r \in Requests :
        /\ {r.max, r.count, r.sibling.max, r.own.max} \subseteq Int
        /\ \A x \in DOMAIN r.params : r.params[x] \in Values

VARIABLES
    mcp,  \* [op, goOn, item, calls, phase, asked]: the node's loop
    ran,  \* the calls that were executed, in order
    told  \* what the node has put out for each item

mvars == <<mcp, ran, told>>

Null == [k |-> "null", n |-> 0, says |-> ""]
Given(p, x) == IF x \in DOMAIN p THEN p[x] ELSE Null
Smaller(a, b) == IF a < b THEN a ELSE b

-----------------------------------------------------------------------------
(* Definitions: parsed from JSON or from the visual builder.               *)

Blank(v) == v.k = "text" /\ v.says = ""
Fits(type, v) ==
    IF type = "text" THEN v.k # "object"
    ELSE v.k = type \/ (v.k = "text" /\ v.says = type)

\* The builder turns a default into the parameter's type, or drops it.
BuilderDefault(s) ==
    IF s.default.k = "null" \/ Blank(s.default) \/ ~Fits(s.type, s.default)
    THEN Null ELSE [s.default EXCEPT !.k = s.type]

\* The builder knows two providers and takes the row limit of the definition where the
\* query has none; JSON must spell both out.
Read(raw) ==
    IF raw.visual
    THEN [raw EXCEPT !.provider = IF @ = "tools" THEN "tools" ELSE "sql",
                     !.execRows = IF @ = 0 THEN raw.maxRows ELSE @,
                     !.params = [x \in DOMAIN @ |-> [@[x] EXCEPT !.default = BuilderDefault(raw.params[x])]]]
    ELSE raw

WellFormed(d) ==
    /\ d.maxRows \in 1..MaxGoverned
    /\ d.filters \subseteq DOMAIN d.params
    /\ \/ d.provider = "tools"
       \/ d.provider = "sql" /\ d.execRows > 0 /\ d.bindings \subseteq DOMAIN d.params

\* parseCapabilityDefinitions followed by buildRegistry: all are well formed and no two
\* are spelled alike.
Registry(catalog) == {Read(catalog[i]) : i \in DOMAIN catalog}
Registers(catalog) ==
    /\ \A d \in Registry(catalog) : WellFormed(d)
    /\ \A i, j \in DOMAIN catalog : i # j => catalog[i].name # catalog[j].name

\* A name mentions an administration resource when its words contain the resource's.
Mentions(words) ==
    \E t \in ForbiddenTokens : \E i \in 0..(Len(words) - Len(t)) :
        SubSeq(words, i + 1, i + Len(t)) = t
Forbidden(d) == Mentions(d.name.words) \/ (d.provider = "tools" /\ Mentions(d.op))
Blocked(d, names) == d.name.words \in names

-----------------------------------------------------------------------------
(* The limits of an item: its own parameters, or the AI hub's wiring.      *)

\* The node named as AI hub comes first, then the input item itself.
Hub(r) == IF r.sibling.kind # "none" THEN r.sibling ELSE r.own

Unbudgeted(r) == r.max < 0 \/ r.count < 0 \/ (r.max = 0 /\ Hub(r).kind = "broken")
Budget(r) == IF r.max > 0 THEN r.max ELSE IF Hub(r).kind = "hub" THEN Hub(r).max ELSE 0
Count(r) == IF Budget(r) > 0 /\ r.count = 0 THEN 1 ELSE r.count

Unlisted(r) == r.block = {} /\ Hub(r).kind = "broken"
BlockList(r) ==
    IF r.block # {} THEN r.block ELSE IF Hub(r).kind = "hub" THEN Hub(r).block ELSE {}

-----------------------------------------------------------------------------
(* The arguments of a call.                                                *)

Missing(s, v) == v.k = "null" \/ (s.required /\ Blank(v))

Valid(d, p) ==
    /\ DOMAIN p \subseteq DOMAIN d.params
    /\ \A x \in DOMAIN d.params : LET s == d.params[x] v == Given(p, x) IN
        IF Missing(s, v) THEN ~s.required
        ELSE Fits(s.type, v) /\ (s.type = "num" => v.n \in s.least..s.most)

Coerce(d, p) ==
    [x \in DOMAIN d.params |-> LET s == d.params[x] v == Given(p, x) IN
        IF Missing(s, v) THEN s.default ELSE [v EXCEPT !.k = s.type]]

\* The rows the caller asks for; 0 where it does not say.
LimitOf(p) ==
    LET v == IF Given(p, "limite") # Null THEN Given(p, "limite") ELSE Given(p, "limit")
    IN  IF v.k = "num" \/ (v.k = "text" /\ v.says = "num") THEN v.n ELSE 0

EffectiveRows(d, p) ==
    LET most == IF d.provider = "sql" THEN Smaller(d.maxRows, d.execRows) ELSE d.maxRows
    IN  IF LimitOf(p) > 0 THEN Smaller(most, LimitOf(p)) ELSE most

\* enforceGovernance: a filter that is set, by the caller or by default, and a limit the
\* definition allows.
Governed(d, p) ==
    /\ d.needsFilter =>
        \E x \in (IF d.filters # {} THEN d.filters ELSE DOMAIN d.params \ {"limite", "limit"}) :
            p[x].k # "null" /\ ~Blank(p[x])
    /\ LimitOf(p) <= d.maxRows

\* Where each parameter of a tool comes from: the operation and the resource from the
\* definition, whatever the caller and the definition's constants say.
Merged(d, p) ==
    [x \in DOMAIN p \union d.static \union {"operation", "resource"} |->
        IF x \in {"operation", "resource"} THEN "definition"
        ELSE IF x \in d.static THEN "static" ELSE "caller"]

-----------------------------------------------------------------------------
(* The node.                                                               *)

\* What reading an item's parameters may throw, in a list and in a call.
Throws(catalog, r) == ~Registers(catalog) \/ Unlisted(r)

\* The definition a call may reach: within the budget, neither blocked nor forbidden, and
\* with arguments that fit its schema.
Admits(catalog, r, n) ==
    IF Budget(r) > 0 /\ n > Budget(r) THEN {}
    ELSE {d \in Registry(catalog) :
            d.name = r.name /\ ~Blocked(d, BlockList(r)) /\ ~Forbidden(d) /\ Valid(d, r.params)}

\* It is executed within the limits of the definition and, when it is SQL, if it only reads.
Runs(catalog, r, n) ==
    \E d \in Admits(catalog, r, n) :
        Governed(d, Coerce(d, r.params)) /\ (d.provider = "sql" => d.reads)

Listed(catalog, r) ==
    {d.name : d \in {e \in Registry(catalog) : ~Forbidden(e) /\ ~Blocked(e, BlockList(r))}}

\* The arguments an audit entry shows in the clear: what was asked, or what it came to.
AuditOf(names) == names \ Sensitive
Arguments(catalog, r, n) ==
    IF Admits(catalog, r, n) = {} THEN DOMAIN r.params
    ELSE UNION {DOMAIN d.params : d \in Admits(catalog, r, n)}

Put(out, loop) == told' = Append(told, out) /\ mcp' = loop
Nobody == [catalog |-> <<>>, request |-> [name |-> Null]]
Advanced == [mcp EXCEPT !.item = @ + 1, !.phase = "next", !.asked = Nobody]

\* An error of an item is its output where the node goes on, and the node's otherwise.
ItemFails(calls) ==
    /\ UNCHANGED ran
    /\ \/ mcp.goOn /\ Put([kind |-> "error"], [Advanced EXCEPT !.calls = calls])
       \/ ~mcp.goOn /\ UNCHANGED told /\ mcp' = [mcp EXCEPT !.phase = "threw", !.calls = calls]

\* executeValidateItem: an invalid catalog is a verdict, not an error.
ValidateItem ==
    /\ mcp.op = "validate" /\ mcp.phase = "next" /\ mcp.item <= McpItems
    /\ \E catalog \in Catalogs :
        Put([kind |-> "verdict",
             valid |-> Registers(catalog) /\ \A d \in Registry(catalog) : ~Forbidden(d)], Advanced)
    /\ UNCHANGED ran

\* executeListItem.
ListItem ==
    /\ mcp.op = "list" /\ mcp.phase = "next" /\ mcp.item <= McpItems
    /\ \E catalog \in Catalogs, r \in Requests :
        \/ Throws(catalog, r) /\ ItemFails(mcp.calls)
        \/ ~Throws(catalog, r) /\ Put([kind |-> "tools", names |-> Listed(catalog, r)], Advanced) /\ UNCHANGED ran

Ordinal_mut(r) == Count(r)

\* The ordinal of a call: one more than the calls of this run so far, or the count that
\* the workflow keeps across runs where that is more.
Ordinal(r) == IF Count(r) > mcp.calls + 1 THEN Count(r) ELSE mcp.calls + 1

\* executeCallItem up to the execution of the capability: the budget of an item that
\* cannot be read leaves the count alone.
CallItem ==
    /\ mcp.op = "call" /\ mcp.phase = "next" /\ mcp.item <= McpItems
    /\ \E catalog \in Catalogs, r \in Requests :
        \/ Unbudgeted(r) /\ ItemFails(mcp.calls)
        \/ ~Unbudgeted(r) /\ Throws(catalog, r) /\ ItemFails(Ordinal(r))
        \/ /\ ~Unbudgeted(r) /\ ~Throws(catalog, r) /\ ~Runs(catalog, r, Ordinal(r))
           /\ Put([kind |-> "refused", audit |-> AuditOf(Arguments(catalog, r, Ordinal(r)))], [Advanced EXCEPT !.calls = Ordinal(r)])
           /\ UNCHANGED ran
        \/ /\ ~Unbudgeted(r) /\ ~Throws(catalog, r) /\ Runs(catalog, r, Ordinal(r))
           /\ mcp' = [mcp EXCEPT !.phase = "sent", !.calls = Ordinal(r),
                                 !.asked = [catalog |-> catalog, request |-> r]]
           /\ UNCHANGED <<ran, told>>

Asked == CHOOSE d \in Registry(mcp.asked.catalog) : d.name = mcp.asked.request.name

\* An answer with as many rows as were allowed may have been cut.
Truncated(rows, most) == rows > 0 /\ rows >= most

Executed(rows, found, out) ==
    /\ ran' = Append(ran, [by |-> mcp.asked, rows |-> rows, found |-> found, out |-> out,
                           from |-> IF Asked.provider = "tools" THEN Merged(Asked, Coerce(Asked, mcp.asked.request.params))
                                    ELSE [operation |-> "definition"]])
    /\ Put(out, Advanced)

\* The capability answers: the agent keeps to the rows it is asked for, a tool does not
\* know of them; masked columns are blanked before anyone sees a row.
CallAnswered ==
    /\ mcp.phase = "sent"
    /\ LET p == Coerce(Asked, mcp.asked.request.params) most == EffectiveRows(Asked, p) IN
       \E found \in Found :
         LET rows == IF Asked.provider = "sql" THEN Smaller(found, most) ELSE found IN
         Executed(rows, found,
                  [kind |-> "answer", truncated |-> Truncated(rows, most), audit |-> AuditOf(DOMAIN p),
                   clear |-> IF rows = 0 THEN {} ELSE Columns \ Asked.masked])

\* The capability fails: the item's output is a message without the error's detail.
CallFailed ==
    /\ mcp.phase = "sent"
    /\ Executed(0, 0, [kind |-> "refused", audit |-> AuditOf(DOMAIN Asked.params)])

McpEnds ==
    /\ mcp.phase = "next" /\ mcp.item > McpItems
    /\ mcp' = [mcp EXCEPT !.phase = "done"] /\ UNCHANGED <<ran, told>>

McpBegins ==
    /\ mcp \in [op : {"validate", "list", "call"}, goOn : BOOLEAN, item : {1}, calls : {0},
                phase : {"next"}, asked : {Nobody}]
    /\ ran = <<>> /\ told = <<>>

McpSteps == ValidateItem \/ ListItem \/ CallItem \/ CallAnswered \/ CallFailed \/ McpEnds
McpSpec == McpBegins /\ [][McpSteps]_mvars /\ WF_mvars(McpSteps)

-----------------------------------------------------------------------------
(* What the calls of an AI agent may rely on.                              *)

\* Calls stay within what the workflow's author allows, whichever mix of items, hubs and
\* catalogs a node is given: no call is executed beyond the budget it is held to, with the
\* calls of earlier items counted; what is executed is what a listing under the same
\* configuration offers, as the operation its definition names; an answer that does not
\* hold every row says so; and neither a masked column nor a sensitive argument is shown.
GovernedCalls ==
    \A i \in DOMAIN ran : LET c == ran[i] r == c.by.request
                              d == CHOOSE e \in Registry(c.by.catalog) : e.name = r.name IN
        /\ Budget(r) > 0 => i <= Budget(r) /\ Count(r) <= Budget(r)
        /\ r.name \in Listed(c.by.catalog, r)
        /\ c.from["operation"] = "definition"
        /\ c.out.kind = "answer" =>
            /\ c.rows < c.found => c.out.truncated
            /\ c.out.clear \intersect d.masked = {}
        /\ c.out.audit \intersect Sensitive = {}
=============================================================================
