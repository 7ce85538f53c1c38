------------------------------ MODULE Generator ------------------------------
(***************************************************************************)
(* The code generator (cmd/cli): "new" copies this repository, prunes the  *)
(* features that were declined and rewrites the wiring; "add domain", "add *)
(* endpoint", "remove domain", "remove endpoint" and "wiring" then edit    *)
(* that tree, one file at a time, with no journal: a command that fails or *)
(* is killed leaves the files it had already written or deleted.           *)
(*                                                                         *)
(* A file is a pair <<owner, part>>; what it holds is abstracted to which  *)
(* text it has (copied from this repository, copied with another driver,   *)
(* or rendered from a template), a wiring file to the data its template    *)
(* was executed with or to the half that was written of it, and "go build  *)
(* ./..." to: every reference of a file is met by another.                 *)
(***************************************************************************)
EXTENDS Naturals, Sequences, FiniteSets

CONSTANTS
  CRUD,           \* the use cases every rendered domain has (create, get, ...)
  RoleCRUD,       \* those the copied role domain has
  NewDomains,     \* names a user gives to "add domain"
  Choices,        \* the flags or answers "new" may be given
  MaxCommands,    \* bound: commands after "new"
  MaxInterrupts   \* bound: commands that fail or are killed midway

ASSUME GeneratorAssumption ==
  /\ RoleCRUD \subseteq CRUD /\ CRUD # RoleCRUD
  /\ CRUD \cap {"dir", "entity", "filter", "vo", "ports", "endpoint", "endpoint_dto", "repository",
                "handler", "router"} = {}
  /\ NewDomains \cap {"user", "role", "pkg", "mw"} = {}
  /\ Choices \subseteq [redis : BOOLEAN, idempotency : BOOLEAN, auth : BOOLEAN, examples : BOOLEAN, db : STRING]
  /\ MaxCommands \in Nat /\ MaxInterrupts \in Nat

VARIABLES
  config,      \* what "new" was asked to keep
  tree,        \* which text each file has
  wiring,      \* the data each wiring file was rendered with
  phase,       \* how far "new" has come
  last,        \* the command that completed last, and on which domain
  commands, interrupts

vars == <<config, tree, wiring, phase, last, commands, interrupts>>

Shipped == {"user", "role"}
Domains == Shipped \cup NewDomains

\* The paths "remove domain" deletes, in its order. "dir" is the directory of
\* the domain package itself, which can be there with nothing in it. The value
\* objects of the user package (vo) come from the copy only; the role entity
\* uses them.
Paths ==
  <<{"dir", "entity", "filter", "vo"}, {"ports", "endpoint", "endpoint_dto"} \cup CRUD,
    {"repository"}, {"handler"}, {"router"}>>
Parts == UNION {Paths[k] : k \in 1..Len(Paths)}

Features ==
  {<<"pkg", "redisclient">>, <<"pkg", "idempotency">>, <<"pkg", "telemetry">>, <<"pkg", "docs">>,
   <<"mw", "idempotency">>, <<"mw", "service_key">>}
errorFile == <<"error", "handler">>      \* web/handler/error.go: HandleError
Files == Features \cup {errorFile} \cup Domains \X Parts

Has(f) == tree[f] # "absent"
WiringFiles == <<"server", "router", "container", "test_helpers">>
-----------------------------------------------------------------------------
(* "new". *)

opsOf(d) == IF d = "role" THEN RoleCRUD ELSE CRUD
shippedParts(d) ==
  {"dir", "entity", "filter", "ports", "repository", "handler", "router"} \cup opsOf(d)
    \cup (IF d = "user" THEN {"vo"} ELSE {})
shippedInfo(d) == [name |-> d, ops |-> opsOf(d), metrics |-> d = "user"]

content(by, infos, redis, idempotency, auth) ==
  [by |-> by, infos |-> infos, redis |-> redis, idempotency |-> idempotency, auth |-> auth]
copiedWiring == content("copy", {shippedInfo(d) : d \in Shipped}, TRUE, TRUE, TRUE)
tornWiring == content("torn", {}, FALSE, FALSE, FALSE)

\* The first k of some wiring files have the text, of the next perhaps a part.
writtenWiring(files, k, half, text) ==
  [w \in DOMAIN wiring |->
     IF \E j \in 1..k : files[j] = w THEN text
     ELSE IF half /\ k < Len(files) /\ files[k + 1] = w THEN tornWiring ELSE wiring[w]]

with(files, text) == [f \in Files |-> IF f \in files THEN text ELSE tree[f]]

\* Without Redis there is no idempotency, whatever was asked.
Configs == {[c EXCEPT !.idempotency = c.redis /\ c.idempotency] : c \in Choices}

Init ==
  /\ config \in Configs
  /\ tree = [f \in Files |-> "absent"]
  /\ wiring = [w \in {} |-> copiedWiring]
  /\ phase = "none"
  /\ last = <<"none", "">>
  /\ commands = 0 /\ interrupts = 0

\* Everything but the generator itself; refused when the directory exists.
CopyProject ==
  /\ phase = "none" /\ phase' = "copied"
  /\ tree' = [f \in Files |->
                IF f \in Features \cup {errorFile} \/ (f[1] \in Shipped /\ f[2] \in shippedParts(f[1]))
                  THEN "copied" ELSE "absent"]
  /\ wiring' = [w \in {WiringFiles[k] : k \in 1..4} |-> copiedWiring]
  /\ UNCHANGED <<config, last, commands, interrupts>>

\* The drivers whose import replaces lib/pq; a database that is not among
\* them changes nothing.
DBDrivers == {"mysql", "sqlite"}

\* Every Go file is rewritten: the repositories too, which import lib/pq for
\* its error type and go on naming it.
driverFiles == IF config.db \in DBDrivers THEN Shipped \X {"repository"} ELSE {}

SwitchDBDriver ==
  /\ phase = "copied" /\ phase' = "switched"
  /\ tree' = with(driverFiles, "switched")
  /\ UNCHANGED <<config, wiring, last, commands, interrupts>>

FeatureFilesNoMiddleware ==
  [redis |-> {<<"pkg", "redisclient">>, <<"pkg", "idempotency">>}, idempotency |-> {<<"pkg", "idempotency">>},
   auth |-> {<<"mw", "service_key">>}, examples |-> {<<"pkg", "telemetry">>} \cup Shipped \X Parts]
FeatureFiles ==
  [redis |-> {<<"pkg", "redisclient">>, <<"pkg", "idempotency">>},
   idempotency |-> {<<"pkg", "idempotency">>, <<"mw", "idempotency">>},
   auth |-> {<<"mw", "service_key">>},
   examples |-> {<<"pkg", "telemetry">>} \cup Shipped \X Parts]

toRemove == UNION {FeatureFiles[k] : k \in {x \in DOMAIN FeatureFiles : ~config[x]}}

\* The order of the removal: the features, then the examples path by path.
RemovalOrder ==
  <<{<<"pkg", "redisclient">>}, {<<"pkg", "idempotency">>}, {<<"mw", "idempotency">>}, {<<"mw", "service_key">>},
    {"user"} \X Paths[1], {"role"} \X Paths[1], {"user"} \X Paths[2], {"role"} \X Paths[2],
    {"user"} \X Paths[3], {"role"} \X Paths[3], {"user"} \X Paths[4], {"role"} \X Paths[4],
    {"user"} \X Paths[5], {"role"} \X Paths[5], {<<"pkg", "telemetry">>}>>

\* A directory goes after what is in it.
emptied(some, d) == <<d, "dir">> \in some => {d} \X Paths[1] \subseteq some

RemoveDisabledFeatures ==
  /\ phase = "switched" /\ phase' = "pruned"
  /\ tree' = with(toRemove, "absent")
  /\ UNCHANGED <<config, wiring, last, commands, interrupts>>

\* container.go keeps its copied text.
CleanedFiles == <<"server", "router", "test_helpers">>
cleanedWiring(k, half) ==
  writtenWiring(CleanedFiles, k, half,
                content("new", IF config.examples THEN copiedWiring.infos ELSE {},
                        config.redis, config.idempotency, config.auth))

CleanupWiring ==
  /\ phase = "pruned" /\ phase' = "wired"
  /\ wiring' = cleanedWiring(Len(CleanedFiles), FALSE)
  /\ UNCHANGED <<config, tree, last, commands, interrupts>>

\* The generated docs go with the examples. The build that follows only warns.
FinishNew ==
  /\ phase = "wired" /\ phase' = "ready"
  /\ tree' = IF config.examples THEN tree ELSE [tree EXCEPT ![<<"pkg", "docs">>] = "absent"]
  /\ last' = <<"new", "">>
  /\ UNCHANGED <<config, wiring, commands, interrupts>>

\* What is on the disk when the step after each phase stops midway.
SwitchStops == \E some \in SUBSET driverFiles : tree' = with(some, "switched") /\ UNCHANGED wiring

RemovalStops ==
  /\ \E k \in 1..Len(RemovalOrder) : \E some \in SUBSET RemovalOrder[k] :
       /\ \A d \in Shipped : emptied(some, d)
       /\ tree' = with(toRemove \cap (some \cup UNION {RemovalOrder[j] : j \in 1..(k - 1)}), "absent")
  /\ UNCHANGED wiring

CleanupStops ==
  /\ \E k \in 0..Len(CleanedFiles), half \in BOOLEAN : wiring' = cleanedWiring(k, half)
  /\ UNCHANGED tree

\* A failed or killed "new" leaves its directory, and every retry is refused.
NewInterrupted ==
  /\ \/ phase = "copied" /\ SwitchStops
     \/ phase = "switched" /\ RemovalStops
     \/ phase = "pruned" /\ CleanupStops
     \/ phase = "wired" /\ UNCHANGED <<tree, wiring>>
  /\ phase' = "ready"
  /\ interrupts < MaxInterrupts /\ interrupts' = interrupts + 1
  /\ last' = <<"interrupted", "">>
  /\ UNCHANGED <<config, commands>>
-----------------------------------------------------------------------------
(* The commands a user runs in the generated tree. *)

ready == phase = "ready" /\ commands < MaxCommands

\* How the command ended: completed, or interrupted after some of its writes.
ended(command, d, complete) ==
  /\ commands' = commands + 1
  /\ IF complete
       THEN last' = <<command, d>> /\ UNCHANGED interrupts
       ELSE last' = <<"interrupted", d>> /\ interrupts < MaxInterrupts /\ interrupts' = interrupts + 1
  /\ UNCHANGED <<config, phase>>

domainExists(d) == Has(<<d, "dir">>)

buildTemplateMappingsNoFilter(d) ==
  {d} \X ({"dir", "entity", "ports", "repository", "handler", "router"} \cup CRUD)
buildTemplateMappings(d) ==
  {d} \X ({"dir", "entity", "filter", "ports", "repository", "handler", "router"} \cup CRUD)

\* The templates are a Go map: they are written in any order, over what exists,
\* each after its directory.
AddDomain(d) ==
  /\ ready /\ ~domainExists(d)
  /\ \E written \in SUBSET buildTemplateMappings(d) :
       /\ (\E p \in Paths[1] : <<d, p>> \in written) => <<d, "dir">> \in written
       /\ ended("add domain", d, written = buildTemplateMappings(d))
       /\ tree' = with(written, "rendered")
  /\ UNCHANGED wiring

collectDomainFiles(d, k, some) == {d} \X (some \cup UNION {Paths[j] : j \in 1..(k - 1)})

\* An interrupted removal has emptied a prefix of the paths, the last one in part.
RemoveDomain(d) ==
  /\ ready /\ domainExists(d)
  /\ \E k \in 1..Len(Paths) : \E some \in SUBSET Paths[k] :
       /\ emptied({d} \X some, d)
       /\ ended("remove domain", d, k = Len(Paths) /\ some = Paths[k])
       /\ tree' = with(collectDomainFiles(d, k, some), "absent")
  /\ UNCHANGED wiring

endpointFiles(d) == {<<d, "endpoint">>, <<d, "endpoint_dto">>}

AddEndpoint(d) ==
  /\ ready /\ domainExists(d) /\ ~Has(<<d, "endpoint">>)
  /\ \E written \in SUBSET endpointFiles(d) :
       /\ ended("add endpoint", d, written = endpointFiles(d))
       /\ tree' = with(written, "rendered")
  /\ UNCHANGED wiring

\* The use case goes first; a DTO that is already gone is no error.
RemoveEndpoint(d) ==
  /\ ready /\ domainExists(d) /\ Has(<<d, "endpoint">>)
  /\ \E gone \in {{}, {<<d, "endpoint">>}, endpointFiles(d)} :
       /\ ended("remove endpoint", d, gone = endpointFiles(d))
       /\ tree' = with(gone, "absent")
  /\ UNCHANGED wiring

NewDomainInfo(d) == [name |-> d, ops |-> CRUD, metrics |-> FALSE]
DetectDomainInfo(d) ==
  [name |-> d, ops |-> {o \in CRUD : Has(<<d, o>>)},
   metrics |-> d = "user" /\ tree[<<d, "handler">>] = "copied"]

hasDomainInfrastructure(d) == Has(<<d, "handler">>) /\ Has(<<d, "router">>) /\ Has(<<d, "repository">>)

scanDomains == {DetectDomainInfo(d) : d \in {x \in Domains : domainExists(x) /\ hasDomainInfrastructure(x)}}

\* None of the four files looks at which features exist.
RegenerateFromDomains(k, half) ==
  writtenWiring(WiringFiles, k, half, content("wiring", scanDomains, TRUE, TRUE, TRUE))

RunWiring ==
  /\ ready
  /\ \E k \in 0..Len(WiringFiles), half \in BOOLEAN :
       ended("wiring", "", k = Len(WiringFiles)) /\ wiring' = RegenerateFromDomains(k, half)
  /\ UNCHANGED tree

Next ==
  \/ CopyProject \/ SwitchDBDriver \/ RemoveDisabledFeatures \/ CleanupWiring \/ FinishNew \/ NewInterrupted
  \/ \E d \in Domains : AddDomain(d) \/ RemoveDomain(d) \/ AddEndpoint(d) \/ RemoveEndpoint(d)
  \/ RunWiring

Spec == Init /\ [][Next]_vars
-----------------------------------------------------------------------------
(* What "go build ./..." needs. *)

\* What a rendered or copied part refers to, in the same text: its package,
\* its ports, the constructors of its use cases.
needs(d, p) ==
  CASE p \in {"dir", "entity", "vo", "endpoint_dto"} -> {}
    [] p = "filter" -> {"entity"}
    [] p \in {"ports", "repository"} -> {"entity", "filter"}
    [] p \in CRUD -> {"entity", "filter", "ports"}
    [] p = "handler" -> {"ports"} \cup (IF tree[<<d, p>>] = "copied" THEN opsOf(d) ELSE CRUD)
    [] p = "router" -> {"handler"}
    [] p = "endpoint" -> {}

endpointCompiles(d) ==
  Has(<<d, "endpoint">>) => \A p \in {"endpoint_dto", "entity", "ports"} : Has(<<d, p>>)

\* error.go itself, as copied, refers to no domain.
compiles(d, p) ==
  Has(<<d, p>>) /\ ~(<<d, p>> = errorFile /\ tree[errorFile] = "copied")
  => /\ tree[<<d, p>>] # "switched"
     /\ \A q \in needs(d, p) : tree[<<d, q>>] = tree[<<d, p>>]
     /\ p = "entity" /\ tree[<<d, p>>] = "copied" => Has(<<"user", "vo">>)
     /\ p = "handler" => tree[errorFile] = "copied"
     /\ p = "handler" /\ d = "user" /\ tree[<<d, p>>] = "copied" => Has(<<"pkg", "telemetry">>)

domainCompiles(d) == endpointCompiles(d) /\ \A p \in Parts : compiles(d, p)

\* internal/infrastructure/grpc/handler is never pruned nor regenerated.
grpcCompiles ==
  /\ Has(<<"pkg", "telemetry">>)
  /\ \A d \in Shipped : \A p \in {"ports"} \cup opsOf(d) : tree[<<d, p>>] = "copied"

\* A composition root calls the constructors of a domain with what it was told.
constructible(i) ==
  /\ Has(<<i.name, "repository">>) /\ \A o \in i.ops : Has(<<i.name, o>>)
  /\ CASE tree[<<i.name, "handler">>] = "copied" -> i = shippedInfo(i.name)
       [] tree[<<i.name, "handler">>] = "rendered" -> i = NewDomainInfo(i.name)
       [] OTHER -> FALSE

\* Fields of router.Dependencies and router.Config that not every text has.
fields(w) ==
  {i.name : i \in w.infos} \cup (IF w.idempotency THEN {"IdempotencyStore"} ELSE {})
    \cup (IF w.auth THEN {"ServiceKeys"} ELSE {}) \cup (IF w.by = "new" THEN {} ELSE {"MaxBodySize"})

serverImports(s) ==
  /\ s.redis => Has(<<"pkg", "redisclient">>)
  /\ s.idempotency => Has(<<"pkg", "idempotency">>)
  /\ s.infos # {} => Has(<<"pkg", "docs">>) /\ Has(<<"pkg", "telemetry">>)

\* The server rendered by "new" builds the domains itself; its singleflight
\* group does not compile when no domain uses it.
newServer(s) == (s.redis => s.infos # {}) /\ \A i \in s.infos : constructible(i)

\* The others take the handlers from the container.
containerServer(s) == {i.name : i \in s.infos} \subseteq {i.name : i \in wiring["container"].infos}

serverCompiles ==
  LET s == wiring["server"] IN
  /\ serverImports(s) /\ fields(s) \subseteq fields(wiring["router"])
  /\ IF s.by = "new" THEN newServer(s) ELSE containerServer(s)

routerCompiles ==
  LET r == wiring["router"] IN
  /\ r.idempotency => Has(<<"mw", "idempotency">>) /\ Has(<<"pkg", "idempotency">>)
  /\ r.auth => Has(<<"mw", "service_key">>)
  /\ \A i \in r.infos : Has(<<i.name, "router">>) /\ Has(<<i.name, "handler">>)

\* Without a domain, imports of the regenerated container are unused.
containerCompiles ==
  LET c == wiring["container"] IN
  c.infos # {} /\ Has(<<"pkg", "telemetry">>) /\ \A i \in c.infos : constructible(i)

\* The same holds for a variable of the regenerated test helpers.
testHelpersCompile ==
  LET t == wiring["test_helpers"] IN
  /\ t.auth => Has(<<"mw", "service_key">>)
  /\ t.by = "wiring" => t.infos # {}
  /\ \A i \in t.infos : Has(<<i.name, "router">>) /\ i.name \in {j.name : j \in wiring["container"].infos}

noneTorn == \A w \in DOMAIN wiring : wiring[w].by # "torn"

middlewareCompiles == Has(<<"mw", "idempotency">>) => Has(<<"pkg", "idempotency">>)

Builds ==
  /\ noneTorn /\ middlewareCompiles /\ grpcCompiles
  /\ \A d \in Domains : domainCompiles(d)
  /\ serverCompiles /\ routerCompiles /\ containerCompiles /\ testHelpersCompile
-----------------------------------------------------------------------------
(* Properties. *)

\* Whatever was declined, a completed "new" leaves a tree that builds exactly
\* when it keeps the examples and the driver: pruning and wiring agree on every
\* feature, but the copied container and the gRPC handlers refer to the
\* examples, and the examples' repositories to lib/pq.
NewBuildsWithExamples == last[1] = "new" => (Builds <=> config.examples /\ config.db \notin DBDrivers)

whole(d) ==
  LET there == {f \in buildTemplateMappings(d) : tree[f] = "rendered"} IN
  there \in {{}, buildTemplateMappings(d)} /\ (Has(<<d, "endpoint">>) => there # {} /\ Has(<<d, "endpoint_dto">>))

examplesIntact == \A d \in Shipped : \A p \in shippedParts(d) : tree[<<d, p>>] = "copied"

\* "wiring" mends whatever sequence of additions, removals and interruptions
\* came before it, torn wiring files included, when no domain is half made and
\* the tree still has every feature and both examples; without the features or
\* the examples no tree it leaves builds, and no later command changes that.
WiringMends ==
  last[1] = "wiring" =>
    LET kept == (\A f \in Features \cup {errorFile} : tree[f] = "copied") /\ examplesIntact
    IN  /\ kept /\ (\A d \in NewDomains : whole(d))
             /\ (\A d \in Shipped : Has(<<d, "endpoint">>) => Has(<<d, "endpoint_dto">>)) => Builds
        /\ Builds => kept

mentioned == Shipped \cup UNION {{i.name : i \in wiring[w].infos} : w \in DOMAIN wiring}

\* A completed command on a tree that builds leaves one that builds, unless a
\* domain called after a file of its own layer (error.go) is added or removed,
\* the removed domain is still mentioned by the wiring or the gRPC handlers,
\* or an endpoint is added to what an interrupted "add domain" left.
CommandsKeepBuilding ==
  [][Builds /\ last'[1] \in {"add domain", "remove domain", "add endpoint", "remove endpoint"}
       => (Builds' <=> /\ last'[2] = "error" => last'[1] \in {"add endpoint", "remove endpoint"}
                       /\ last'[1] = "remove domain" => last'[2] \notin mentioned
                       /\ last'[1] = "add endpoint" => last'[2] \in Shipped \/ Has(<<last'[2], "ports">>))]_vars
=============================================================================
