------------------------------ MODULE McpHttp ------------------------------
(***************************************************************************)
(* The adapter that lets POST /mcp reach the tool server (mcp-http.ts and  *)
(* the route of index.ts): routing headers against the JSON-RPC body, the  *)
(* allowlists of methods and tools, and the answer of the server's methods *)
(* that call no tool.  One message is routed; other modules run the tool.  *)
(***************************************************************************)

CONSTANT Messages

HttpTools == {"execute_command", "read_file", "search_code", "list_directory"}
MutatingTools == {"write_file", "patch_file", "submit_ibp_synthesis"}

\* The methods the server answers, and those of them that call no tool.
Plain == {"initialize", "notifications/initialized", "server/discover", "tools/list"}
HttpMethods == Plain \cup {"tools/call"}
NamedMethods == {"tools/call", "resources/read", "resources/subscribe",
                 "resources/unsubscribe", "prompts/get"}

Missing == "missing"

\* A name every object inherits, as "constructor": a look-up in MCP_HTTP_METHODS or
\* MCP_HTTP_TOOLS finds a function under it, which names no method and no tool.
Inherited == "inherited"

\* What routing reads of a message; a body entry of another type is missing.
Message == [version : BOOLEAN,
            headerMethod : HttpMethods \cup NamedMethods \cup {"unknown", Inherited, Missing},
            headerName : HttpTools \cup MutatingTools \cup {"unknown", Inherited, Missing},
            bodyMethod : HttpMethods \cup NamedMethods \cup {"unknown", Inherited, Missing},
            bodyName : HttpTools \cup MutatingTools \cup {"unknown", Inherited, Missing}]

ASSUME MessageAssumption == Messages \subseteq Message

VARIABLES message, routed

httpVars == <<message, routed>>

---------------------------------------------------------------------------

MethodOf(m) == IF m.bodyMethod # Missing THEN m.bodyMethod ELSE m.headerMethod

\* Mutant of NamesAgree: the header is only required, not compared.
NamesPresent(m) == m.headerName # Missing

\* Mcp-Name must be there, and be the body's name if the body has one.
NamesAgree(m) == m.headerName # Missing /\ m.bodyName \in {Missing, m.headerName}

\* validateMcpStreamableHeaders
Validated(m) ==
    /\ m.version
    /\ m.headerMethod # Missing
    /\ m.bodyMethod \in {Missing, m.headerMethod}
    /\ MethodOf(m) \in NamedMethods => NamesAgree(m)

\* buildTrustedMcpHttpRequest prefers the header's name.
RequestedName(m) == IF m.headerName # Missing THEN m.headerName ELSE m.bodyName

\* The HTTP status and the tool, if any, that handleMcpRequest will run: it answers
\* "Method not found" to a method or a tool that is a function.
Answer(m) ==
    LET reply(status, tool) == [status |-> status, tool |-> tool] IN
    IF ~Validated(m) \/ MethodOf(m) \notin HttpMethods \cup {Inherited} THEN reply("400", "none")
    ELSE IF MethodOf(m) = "notifications/initialized" THEN reply("204", "none")
    ELSE IF MethodOf(m) \in Plain THEN reply("200", "none")
    ELSE IF RequestedName(m) \in MutatingTools THEN reply("405", "none")
    ELSE IF RequestedName(m) \notin HttpTools \cup {Inherited} THEN reply("400", "none")
    ELSE IF Inherited \in {MethodOf(m), RequestedName(m)} THEN reply("200", "none")
    ELSE reply("200", RequestedName(m))

Unrouted == [status |-> "none", tool |-> "none"]

HttpInit == message \in Messages /\ routed = Unrouted

Route == routed = Unrouted /\ routed' = Answer(message) /\ UNCHANGED message

HttpSpec == HttpInit /\ [][Route]_httpVars

---------------------------------------------------------------------------
(* Properties *)

\* A tool runs only for a message that names it wherever it names one, and the
\* tools that change files or trackers never run.
RoutedAsDeclared ==
    routed.tool # "none" =>
        /\ {message.headerName, message.bodyName} \subseteq {routed.tool, Missing}
        /\ {message.headerMethod, message.bodyMethod} \subseteq {"tools/call", Missing}
        /\ routed.tool \notin MutatingTools

=============================================================================
