-------------------------- MODULE GeneratorProofs --------------------------
(***************************************************************************)
(* Proofs about Generator, for any use cases, any names of new domains and *)
(* any number of commands and interruptions.                               *)
(***************************************************************************)
EXTENDS Generator, TLAPS

AllWiring == {"server", "router", "container", "test_helpers"}
Texts == {"absent", "copied", "switched", "rendered"}

\* Which file may have which text.
TreeSane ==
  /\ tree \in [Files -> Texts]
  /\ \A f \in Features : tree[f] \in {"absent", "copied"}
  /\ \A d \in Domains, p \in Parts :
       /\ tree[<<d, p>>] = "copied" => <<d, p>> = errorFile \/ (d \in Shipped /\ p \in shippedParts(d))
       /\ tree[<<d, p>>] = "switched" => d \in Shipped /\ p = "repository"
       /\ tree[<<d, p>>] = "rendered" => p # "vo"

\* A removal takes the entity, the filter and the value objects first: while the
\* copies of these are there, a shipped domain is all there, and as it was copied.
HeadIntact(d) ==
  /\ tree[<<d, "entity">>] = "copied" /\ tree[<<d, "filter">>] = "copied"
  /\ d = "user" => tree[<<d, "vo">>] = "copied"
CopyKept(d) ==
  /\ tree[<<d, "entity">>] = "copied" => \A p \in CRUD \ opsOf(d) : ~Has(<<d, p>>)
  /\ HeadIntact(d) => \A p \in shippedParts(d) :
       tree[<<d, p>>] = "copied" \/ (p = "repository" /\ tree[<<d, p>>] = "switched")
CopiesKept == \A d \in Shipped : CopyKept(d)

\* What "new" has made of a file by each of its steps.
CopyText(f) ==
  IF f \in Features \cup {errorFile} \/ (f[1] \in Shipped /\ f[2] \in shippedParts(f[1]))
    THEN "copied" ELSE "absent"
DriverText(f) ==
  IF config.db \in DBDrivers /\ f \in Shipped \X {"repository"} THEN "switched" ELSE CopyText(f)
PrunedText(f) == IF f \in toRemove THEN "absent" ELSE DriverText(f)
FinalText(f) == IF ~config.examples /\ f = <<"pkg", "docs">> THEN "absent" ELSE PrunedText(f)

NewContent == content("new", IF config.examples THEN copiedWiring.infos ELSE {},
                      config.redis, config.idempotency, config.auth)
NewWiring(w) == IF w = "container" THEN copiedWiring ELSE NewContent

NewSteps ==
  /\ phase # "ready" => last = <<"none", "">>
  /\ phase # "none" => DOMAIN wiring = AllWiring
  /\ phase = "none" => \A f \in Files : tree[f] = "absent"
  /\ phase = "copied" => \A f \in Files : tree[f] = CopyText(f)
  /\ phase = "switched" => \A f \in Files : tree[f] = DriverText(f)
  /\ phase \in {"pruned", "wired"} => \A f \in Files : tree[f] = PrunedText(f)
  /\ phase \in {"copied", "switched", "pruned"} => \A w \in AllWiring : wiring[w] = copiedWiring
  /\ phase = "wired" => \A w \in AllWiring : wiring[w] = NewWiring(w)
  /\ last[1] = "new" => /\ phase = "ready"
                        /\ \A f \in Files : tree[f] = FinalText(f)
                        /\ \A w \in AllWiring : wiring[w] = NewWiring(w)

Scanned == content("wiring", scanDomains, TRUE, TRUE, TRUE)

\* Nothing runs between "wiring" and the next command.
WiringFresh == last[1] = "wiring" =>
  /\ phase = "ready"
  /\ \A w \in AllWiring : wiring[w] = Scanned

\* The wiring names domains that may exist, and use cases they may have.
InfosKnown == phase # "none" =>
  \A w \in AllWiring : \A i \in wiring[w].infos : i.name \in Domains /\ i.ops \subseteq CRUD

\* A file of the domain package is in its directory.
DirsHold == \A d \in Domains : \A p \in Paths[1] : Has(<<d, p>>) => Has(<<d, "dir">>)

IInv == config \in Configs /\ TreeSane /\ CopiesKept /\ DirsHold /\ NewSteps /\ WiringFresh /\ InfosKnown

-----------------------------------------------------------------------------
(***************************************************************************)
(* Files and texts                                                         *)
(***************************************************************************)
LEMMA PartsAre ==
  /\ Parts = {"dir", "entity", "filter", "vo", "ports", "endpoint", "endpoint_dto", "repository",
              "handler", "router"} \cup CRUD
  /\ Len(Paths) = 5
  /\ Paths[1] = {"dir", "entity", "filter", "vo"}
  /\ AllWiring = {WiringFiles[k] : k \in 1..4} /\ Len(WiringFiles) = 4
<1>1. Len(Paths) = 5
  BY DEF Paths
<1>2. /\ Paths[1] = {"dir", "entity", "filter", "vo"}
      /\ Paths[2] = {"ports", "endpoint", "endpoint_dto"} \cup CRUD
      /\ Paths[3] = {"repository"} /\ Paths[4] = {"handler"} /\ Paths[5] = {"router"}
  BY DEF Paths
<1>3. Parts = Paths[1] \cup Paths[2] \cup Paths[3] \cup Paths[4] \cup Paths[5]
  <2>1. 1..5 = {1, 2, 3, 4, 5}
    OBVIOUS
  <2>2. Parts = UNION {Paths[k] : k \in {1, 2, 3, 4, 5}}
    BY <1>1, <2>1 DEF Parts
  <2> QED
    BY <2>2
<1>4. AllWiring = {WiringFiles[k] : k \in 1..4} /\ Len(WiringFiles) = 4
  BY DEF AllWiring, WiringFiles
<1> QED
  BY <1>1, <1>2, <1>3, <1>4

LEMMA Pairs ==
  ASSUME NEW d \in Domains, NEW p \in Parts
  PROVE  /\ <<d, p>> \in Files /\ <<d, p>> \notin Features
         /\ d = "error" => d \notin Shipped
BY GeneratorAssumption DEF Files, Features, Domains, Shipped

LEMMA FeatureFacts ==
  /\ Features \subseteq Files /\ errorFile \in Files /\ errorFile \notin Features
  /\ \A f \in Features : f[1] \notin Domains
BY GeneratorAssumption DEF Files, Features, errorFile, Domains, Shipped

LEMMA ShippedFacts ==
  ASSUME NEW d \in Shipped
  PROVE  /\ d \in Domains /\ opsOf(d) \subseteq CRUD
         /\ shippedParts(d) \subseteq Parts
         /\ shippedParts(d) \cap {"endpoint", "endpoint_dto"} = {}
         /\ CRUD \cap {"endpoint", "endpoint_dto"} = {}
         /\ shippedParts(d) \cap CRUD = opsOf(d)
         /\ "vo" \in shippedParts(d) <=> d = "user"
BY PartsAre, GeneratorAssumption DEF Shipped, Domains, opsOf, shippedParts

LEMMA WithText ==
  ASSUME TreeSane, NEW files, NEW text \in Texts, tree' = with(files, text)
  PROVE  /\ tree' \in [Files -> Texts]
         /\ \A f \in Files : tree'[f] = IF f \in files THEN text ELSE tree[f]
BY DEF TreeSane, with

\* What a command on domain d does to the files, whichever of them it reaches.
LEMMA CommandTree ==
  ASSUME TreeSane, NEW d \in Domains, NEW files \in SUBSET ({d} \X Parts),
         NEW text \in {"absent", "rendered"}, tree' = with(files, text),
         text = "rendered" => <<d, "vo">> \notin files
  PROVE  /\ TreeSane'
         /\ \A f \in Features : tree'[f] = tree[f]
         /\ \A e \in Domains, p \in Parts : e # d => tree'[<<e, p>>] = tree[<<e, p>>]
<1>1. /\ tree' \in [Files -> Texts]
      /\ \A f \in Files : tree'[f] = IF f \in files THEN text ELSE tree[f]
  BY WithText DEF Texts
<1>2. \A f \in Features : f \in Files /\ f \notin files
  BY FeatureFacts
<1>3. \A e \in Domains, p \in Parts : <<e, p>> \in Files
  BY Pairs
<1>4. \A f \in Features : tree'[f] = tree[f]
  BY <1>1, <1>2
<1>5. \A e \in Domains, p \in Parts : tree'[<<e, p>>] = tree[<<e, p>>] \/ (<<e, p>> \in files /\ tree'[<<e, p>>] = text)
  BY <1>1, <1>3
<1>6. \A e \in Domains, p \in Parts : e # d => tree'[<<e, p>>] = tree[<<e, p>>]
  BY <1>5
<1>7. \A p \in Parts : <<d, p>> \in files /\ text = "rendered" => p # "vo"
  OBVIOUS
<1>8. ASSUME NEW e \in Domains, NEW p \in Parts
      PROVE  /\ tree'[<<e, p>>] = "copied" => <<e, p>> = errorFile \/ (e \in Shipped /\ p \in shippedParts(e))
             /\ tree'[<<e, p>>] = "switched" => e \in Shipped /\ p = "repository"
             /\ tree'[<<e, p>>] = "rendered" => p # "vo"
  <2>1. CASE tree'[<<e, p>>] = tree[<<e, p>>]
    BY <2>1 DEF TreeSane
  <2>2. CASE <<e, p>> \in files /\ tree'[<<e, p>>] = text
    <3>1. e = d
      BY <2>2
    <3> QED
      BY <2>2, <3>1, <1>7
  <2> QED
    BY <1>5, <2>1, <2>2
<1>9. \A f \in Features : tree'[f] \in {"absent", "copied"}
  BY <1>4 DEF TreeSane
<1> QED
  BY <1>1, <1>4, <1>6, <1>8, <1>9 DEF TreeSane

\* A domain whose files, but for those of an endpoint, stay keeps its copy.
LEMMA CopyStays ==
  ASSUME NEW d \in Shipped, CopyKept(d),
         \A p \in Parts \ {"endpoint", "endpoint_dto"} : tree'[<<d, p>>] = tree[<<d, p>>]
  PROVE  CopyKept(d)'
<1>1. \A p \in shippedParts(d) \cup CRUD \cup {"entity", "filter", "vo"} :
        tree'[<<d, p>>] = tree[<<d, p>>]
  BY PartsAre, ShippedFacts
<1> QED
  BY <1>1 DEF CopyKept, HeadIntact, Has

\* So does one of which a part of the domain package is removed, or all of that
\* and more: a removal begins with the package.
LEMMA CopyCut ==
  ASSUME NEW d \in Shipped, CopyKept(d), NEW cut,
         \A p \in Parts : tree'[<<d, p>>] = IF p \in cut THEN "absent" ELSE tree[<<d, p>>],
         "entity" \in cut \/ cut \subseteq Paths[1],
         "dir" \in cut => Paths[1] \subseteq cut
  PROVE  CopyKept(d)'
<1>1. CASE "entity" \in cut
  <2>1. tree'[<<d, "entity">>] = "absent"
    BY <1>1, PartsAre
  <2> QED
    BY <2>1 DEF CopyKept, HeadIntact
<1>2. CASE "entity" \notin cut
  <2>1. cut \subseteq {"filter", "vo"}
    BY <1>2, PartsAre
  <2>2. \A p \in CRUD : tree'[<<d, p>>] = tree[<<d, p>>]
    BY <2>1, PartsAre, GeneratorAssumption
  <2>3. tree'[<<d, "entity">>] = tree[<<d, "entity">>]
    BY <2>1, PartsAre
  <2>4. ASSUME HeadIntact(d)'
        PROVE  HeadIntact(d) /\ \A p \in shippedParts(d) : tree'[<<d, p>>] = tree[<<d, p>>]
    <3>1. "filter" \notin cut
      BY <2>4, PartsAre DEF HeadIntact
    <3>2. "vo" \in cut => d # "user"
      BY <2>4, PartsAre DEF HeadIntact
    <3>3. \A p \in shippedParts(d) : p \notin cut /\ p \in Parts
      BY <2>1, <3>1, <3>2, ShippedFacts
    <3>4. \A p \in shippedParts(d) : tree'[<<d, p>>] = tree[<<d, p>>]
      BY <3>3
    <3>5. {"entity", "filter"} \subseteq shippedParts(d) /\ (d = "user" => "vo" \in shippedParts(d))
      BY DEF shippedParts
    <3>6. HeadIntact(d)
      BY <2>4, <3>4, <3>5 DEF HeadIntact
    <3> QED
      BY <3>4, <3>6
  <2> QED
    BY <2>2, <2>3, <2>4 DEF CopyKept, Has
<1> QED
  BY <1>1, <1>2

LEMMA DirsCut ==
  ASSUME DirsHold, NEW files,
         \A f \in Files : tree'[f] = IF f \in files THEN "absent" ELSE tree[f],
         \A e \in Domains : <<e, "dir">> \in files => {e} \X Paths[1] \subseteq files
  PROVE  DirsHold'
<1> SUFFICES ASSUME NEW e \in Domains, NEW p \in Paths[1], Has(<<e, p>>)'
             PROVE  Has(<<e, "dir">>)'
  BY DEF DirsHold
<1>1. <<e, p>> \in Files /\ <<e, "dir">> \in Files
  BY PartsAre, Pairs
<1>2. <<e, p>> \notin files /\ Has(<<e, p>>)
  BY <1>1 DEF Has
<1>3. Has(<<e, "dir">>) /\ <<e, "dir">> \notin files
  BY <1>2 DEF DirsHold
<1> QED
  BY <1>1, <1>3 DEF Has

LEMMA DirsStay ==
  ASSUME DirsHold, \A e \in Domains : \A p \in Paths[1] : tree'[<<e, p>>] = tree[<<e, p>>]
  PROVE  DirsHold'
BY PartsAre DEF DirsHold, Has

-----------------------------------------------------------------------------
(***************************************************************************)
(* The commands keep the invariant                                         *)
(***************************************************************************)
\* What every command does to the rest of the state.
LEMMA CommandEnds ==
  ASSUME NEW command, NEW d, NEW complete, ended(command, d, complete)
  PROVE  /\ config' = config /\ phase' = phase
         /\ last' = <<command, d>> \/ last' = <<"interrupted", d>>
         /\ complete => last' = <<command, d>>
         /\ ~complete => last' = <<"interrupted", d>>
BY DEF ended

LEMMA CommandKeeps ==
  ASSUME IInv, ready, NEW command \in {"add domain", "remove domain", "add endpoint", "remove endpoint"},
         NEW d, NEW complete, ended(command, d, complete), wiring' = wiring,
         TreeSane', CopiesKept', DirsHold'
  PROVE  IInv'
<1>1. /\ config' = config /\ phase' = "ready"
      /\ last'[1] \in {command, "interrupted"}
  <2>1. config' = config /\ phase' = phase /\ (last' = <<command, d>> \/ last' = <<"interrupted", d>>)
    BY CommandEnds, Zenon
  <2>2. <<command, d>>[1] = command /\ <<"interrupted", d>>[1] = "interrupted"
    OBVIOUS
  <2>3. last'[1] \in {command, "interrupted"}
    BY <2>1, <2>2, Zenon
  <2> QED
    BY <2>1, <2>3 DEF ready
<1>2. NewSteps' /\ WiringFresh' /\ InfosKnown'
  BY <1>1 DEF IInv, NewSteps, WiringFresh, InfosKnown, ready
<1> QED
  BY <1>1, <1>2 DEF IInv

LEMMA AddDomainStep ==
  ASSUME IInv, NEW d \in Domains, AddDomain(d)
  PROVE  IInv'
<1>1. PICK written \in SUBSET buildTemplateMappings(d) :
        /\ (\E p \in Paths[1] : <<d, p>> \in written) => <<d, "dir">> \in written
        /\ tree' = with(written, "rendered")
        /\ ended("add domain", d, written = buildTemplateMappings(d))
  BY DEF AddDomain
<1>2. /\ written \in SUBSET ({d} \X Parts) /\ <<d, "vo">> \notin written
  BY <1>1, PartsAre, GeneratorAssumption DEF buildTemplateMappings
<1>3. /\ TreeSane'
      /\ \A e \in Domains, p \in Parts : e # d => tree'[<<e, p>>] = tree[<<e, p>>]
  BY <1>1, <1>2, CommandTree DEF IInv
<1>4. \A p \in Paths[1] : tree[<<d, p>>] = "absent"
  BY PartsAre DEF AddDomain, domainExists, Has, IInv, DirsHold
<1>5. tree'[<<d, "entity">>] # "copied"
  <2>1. <<d, "entity">> \in Files
    BY PartsAre, Pairs
  <2>2. TreeSane /\ "rendered" \in Texts /\ tree' = with(written, "rendered")
    BY <1>1 DEF IInv, Texts
  <2>3. tree'[<<d, "entity">>] \in {"rendered", tree[<<d, "entity">>]}
    BY <2>1, <2>2, WithText
  <2> QED
    BY <1>4, <2>3, PartsAre
<1>6. ASSUME NEW e \in Shipped PROVE CopyKept(e)'
  <2>1. CASE e = d
    BY <1>5, <2>1 DEF CopyKept, HeadIntact
  <2>2. CASE e # d
    BY <1>3, <2>2, CopyStays, ShippedFacts DEF IInv, CopiesKept
  <2> QED
    BY <2>1, <2>2
<1>7. DirsHold'
  <2> SUFFICES ASSUME NEW e \in Domains, NEW p \in Paths[1], Has(<<e, p>>)'
               PROVE  Has(<<e, "dir">>)'
    BY DEF DirsHold
  <2>1. p \in Parts /\ "dir" \in Parts
    BY PartsAre
  <2>2. CASE e # d
    BY <1>3, <2>1, <2>2 DEF IInv, DirsHold, Has
  <2>3. CASE e = d
    <3>1. \A q \in Parts : tree'[<<d, q>>] = IF <<d, q>> \in written THEN "rendered" ELSE tree[<<d, q>>]
      <4>1. TreeSane /\ "rendered" \in Texts /\ tree' = with(written, "rendered")
        BY <1>1 DEF IInv, Texts
      <4> QED
        BY <4>1, WithText, Pairs
    <3>2. <<d, p>> \in written
      BY <1>4, <2>1, <2>3, <3>1 DEF Has
    <3> QED
      BY <1>1, <2>1, <2>3, <3>1, <3>2 DEF Has
  <2> QED
    BY <2>2, <2>3
<1> QED
  BY <1>1, <1>3, <1>6, <1>7, CommandKeeps DEF AddDomain, CopiesKept

LEMMA RemoveDomainStep ==
  ASSUME IInv, NEW d \in Domains, RemoveDomain(d)
  PROVE  IInv'
<1>1. PICK k \in 1..Len(Paths) : \E some \in SUBSET Paths[k] :
        /\ emptied({d} \X some, d)
        /\ tree' = with(collectDomainFiles(d, k, some), "absent")
        /\ ended("remove domain", d, k = Len(Paths) /\ some = Paths[k])
  BY DEF RemoveDomain
<1>2. PICK some \in SUBSET Paths[k] :
        /\ emptied({d} \X some, d)
        /\ tree' = with(collectDomainFiles(d, k, some), "absent")
        /\ ended("remove domain", d, k = Len(Paths) /\ some = Paths[k])
  BY <1>1
<1> DEFINE files == collectDomainFiles(d, k, some)
<1>3. files \in SUBSET ({d} \X Parts)
  <2>1. 1..(k - 1) \subseteq 1..Len(Paths)
    BY PartsAre
  <2>2. some \subseteq Parts /\ UNION {Paths[j] : j \in 1..(k - 1)} \subseteq Parts
    BY <2>1 DEF Parts
  <2> QED
    BY <2>2 DEF collectDomainFiles
<1>4. k # 1 => \A p \in Paths[1] : <<d, p>> \in files
  <2> SUFFICES ASSUME k # 1, NEW p \in Paths[1] PROVE <<d, p>> \in files
    OBVIOUS
  <2>1. 1 \in 1..(k - 1)
    BY PartsAre
  <2> QED
    BY <2>1 DEF collectDomainFiles
<1>5. k = 1 => files = {d} \X some /\ some \subseteq Paths[1]
  <2> SUFFICES ASSUME k = 1 PROVE files = {d} \X some /\ some \subseteq Paths[1]
    OBVIOUS
  <2>1. 1..(k - 1) = {}
    OBVIOUS
  <2>2. UNION {Paths[j] : j \in 1..(k - 1)} = {}
    BY <2>1
  <2>3. some \cup UNION {Paths[j] : j \in 1..(k - 1)} = some
    BY <2>2
  <2>4. files = {d} \X some
    BY <2>3 DEF collectDomainFiles
  <2> QED
    BY <2>4, PartsAre
<1> HIDE DEF files
<1>6. /\ TreeSane'
      /\ \A e \in Domains, p \in Parts : e # d => tree'[<<e, p>>] = tree[<<e, p>>]
      /\ \A f \in Files : tree'[f] = IF f \in files THEN "absent" ELSE tree[f]
  BY <1>2, <1>3, CommandTree, WithText DEF IInv, files, Texts
<1>7. \A p \in Parts : tree'[<<d, p>>] = IF <<d, p>> \in files THEN "absent" ELSE tree[<<d, p>>]
  BY <1>6, Pairs
<1>8. <<d, "dir">> \in files => {d} \X Paths[1] \subseteq files
  <2>1. CASE k = 1
    BY <1>2, <1>5, <2>1 DEF emptied
  <2>2. CASE k # 1
    BY <1>4, <2>2
  <2> QED
    BY <2>1, <2>2
<1>9. ASSUME NEW e \in Shipped PROVE CopyKept(e)'
  <2>1. CASE e # d
    BY <1>6, <2>1, CopyStays, ShippedFacts DEF IInv, CopiesKept
  <2>2. CASE e = d
    <3> DEFINE cut == {p \in Parts : <<d, p>> \in files}
    <3>1. \A p \in Parts : tree'[<<d, p>>] = IF p \in cut THEN "absent" ELSE tree[<<d, p>>]
      BY <1>7
    <3>2. "entity" \in cut \/ cut \subseteq Paths[1]
      BY <1>4, <1>5, PartsAre
    <3>3. "dir" \in cut => Paths[1] \subseteq cut
      BY <1>8, PartsAre
    <3>4. CopyKept(d) /\ d \in Shipped
      BY <2>2 DEF IInv, CopiesKept
    <3> HIDE DEF cut
    <3> QED
      BY <2>2, <3>1, <3>2, <3>3, <3>4, CopyCut
  <2> QED
    BY <2>1, <2>2
<1>10. DirsHold'
  <2>1. \A e \in Domains : <<e, "dir">> \in files => {e} \X Paths[1] \subseteq files
    BY <1>3, <1>8
  <2> QED
    BY <1>6, <2>1, DirsCut DEF IInv
<1> QED
  BY <1>2, <1>6, <1>9, <1>10, CommandKeeps DEF RemoveDomain, CopiesKept

LEMMA EndpointStep ==
  ASSUME IInv, NEW d \in Domains, AddEndpoint(d) \/ RemoveEndpoint(d)
  PROVE  IInv'
<1>1. PICK files \in SUBSET endpointFiles(d), text \in {"absent", "rendered"},
           command \in {"add endpoint", "remove endpoint"} :
        /\ tree' = with(files, text)
        /\ ended(command, d, files = endpointFiles(d))
  <2>1. CASE AddEndpoint(d)
    BY <2>1 DEF AddEndpoint
  <2>2. CASE RemoveEndpoint(d)
    <3>1. {{}, {<<d, "endpoint">>}, endpointFiles(d)} \subseteq SUBSET endpointFiles(d)
      BY DEF endpointFiles
    <3> QED
      BY <2>2, <3>1 DEF RemoveEndpoint
  <2> QED
    BY <2>1, <2>2
<1>2. files \in SUBSET ({d} \X Parts) /\ <<d, "vo">> \notin files
  <2>1. endpointFiles(d) \subseteq {d} \X Parts /\ <<d, "vo">> \notin endpointFiles(d)
    <3>1. {"endpoint", "endpoint_dto"} \subseteq Parts
      BY PartsAre
    <3>2. <<d, "endpoint">> \in {d} \X Parts /\ <<d, "endpoint_dto">> \in {d} \X Parts
      BY <3>1
    <3>3. <<d, "vo">> # <<d, "endpoint">> /\ <<d, "vo">> # <<d, "endpoint_dto">>
      OBVIOUS
    <3> QED
      BY <3>2, <3>3, Zenon DEF endpointFiles
  <2> QED
    BY <2>1
<1>3. /\ TreeSane'
      /\ \A e \in Domains, p \in Parts : e # d => tree'[<<e, p>>] = tree[<<e, p>>]
  BY <1>1, <1>2, CommandTree DEF IInv
<1>4. \A p \in Parts \ {"endpoint", "endpoint_dto"} : tree'[<<d, p>>] = tree[<<d, p>>]
  <2> SUFFICES ASSUME NEW p \in Parts \ {"endpoint", "endpoint_dto"}
               PROVE  tree'[<<d, p>>] = tree[<<d, p>>]
    OBVIOUS
  <2>1. <<d, p>> \in Files /\ <<d, p>> \notin files
    BY Pairs DEF endpointFiles
  <2> QED
    BY <1>1, <2>1, WithText DEF IInv, Texts
<1>5. ASSUME NEW e \in Shipped PROVE CopyKept(e)'
  BY <1>3, <1>4, CopyStays, ShippedFacts DEF IInv, CopiesKept
<1>7. DirsHold'
  BY <1>3, <1>4, PartsAre, DirsStay DEF IInv
<1>6. ready /\ wiring' = wiring
  BY DEF AddEndpoint, RemoveEndpoint
<1> QED
  BY <1>1, <1>3, <1>5, <1>6, <1>7, CommandKeeps DEF CopiesKept

LEMMA ScanIs ==
  \A i : i \in scanDomains <=>
    \E d \in Domains : i = DetectDomainInfo(d) /\ domainExists(d) /\ hasDomainInfrastructure(d)
BY DEF scanDomains

LEMMA DetectIs ==
  ASSUME NEW d \in Domains
  PROVE  /\ DetectDomainInfo(d).name = d
         /\ DetectDomainInfo(d).ops \subseteq CRUD
         /\ DetectDomainInfo(d).ops = {o \in CRUD : Has(<<d, o>>)}
BY DEF DetectDomainInfo

LEMMA WiringStep ==
  ASSUME IInv, RunWiring
  PROVE  IInv'
<1>1. PICK k \in 0..Len(WiringFiles), half \in BOOLEAN :
        wiring' = RegenerateFromDomains(k, half) /\ ended("wiring", "", k = Len(WiringFiles))
  BY DEF RunWiring
<1>2. /\ config' = config /\ phase' = "ready" /\ tree' = tree
      /\ last'[1] \in {"wiring", "interrupted"}
      /\ last'[1] = "wiring" => k = 4
  <2>1. config' = config /\ phase' = phase /\ (last' = <<"wiring", "">> \/ last' = <<"interrupted", "">>)
    BY <1>1, CommandEnds, Zenon
  <2>2. k # Len(WiringFiles) => last' = <<"interrupted", "">>
    BY <1>1, CommandEnds, Zenon
  <2>3. phase' = "ready" /\ tree' = tree
    BY <2>1 DEF RunWiring, ready
  <2>4. <<"wiring", "">>[1] = "wiring" /\ <<"interrupted", "">>[1] = "interrupted"
    OBVIOUS
  <2>5. last'[1] \in {"wiring", "interrupted"}
    BY <2>1, <2>4, Zenon
  <2>6. last'[1] = "wiring" => k = Len(WiringFiles)
    BY <2>2, <2>4, Zenon
  <2> QED
    BY <2>1, <2>3, <2>5, <2>6, PartsAre
<1>3. DOMAIN wiring' = AllWiring
  BY <1>1 DEF RunWiring, ready, IInv, NewSteps, RegenerateFromDomains, writtenWiring
<1>4. k = 4 => \A w \in AllWiring : wiring'[w] = Scanned
  <2> SUFFICES ASSUME k = 4 PROVE \A w \in AllWiring : wiring'[w] = Scanned
    OBVIOUS
  <2>1. wiring' = RegenerateFromDomains(4, half) /\ DOMAIN wiring = AllWiring
    BY <1>1 DEF RunWiring, ready, IInv, NewSteps
  <2>2. \A w \in AllWiring : \E j \in 1..4 : WiringFiles[j] = w
    BY PartsAre
  <2> QED
    BY <2>1, <2>2 DEF RegenerateFromDomains, writtenWiring, Scanned
<1>5. scanDomains' = scanDomains /\ Scanned' = Scanned
  BY <1>2 DEF Scanned, scanDomains, DetectDomainInfo, hasDomainInfrastructure, domainExists, Has
<1>6. TreeSane' /\ CopiesKept' /\ DirsHold'
  BY <1>2 DEF IInv, TreeSane, CopiesKept, CopyKept, HeadIntact, DirsHold, Has
<1>7. NewSteps' /\ WiringFresh'
  BY <1>2, <1>3, <1>4, <1>5 DEF NewSteps, WiringFresh
<1>8. InfosKnown'
  <2>1. \A i \in scanDomains : i.name \in Domains /\ i.ops \subseteq CRUD
    BY ScanIs, DetectIs
  <2>2. \A w \in AllWiring : wiring'[w].infos \in {scanDomains, {}, wiring[w].infos}
    BY <1>1, <1>3 DEF RegenerateFromDomains, writtenWiring, tornWiring, content
  <2> QED
    BY <2>1, <2>2 DEF IInv, InfosKnown, RunWiring, ready
<1> QED
  BY <1>2, <1>6, <1>7, <1>8 DEF IInv

-----------------------------------------------------------------------------
(***************************************************************************)
(* The steps of "new" keep the invariant                                   *)
(***************************************************************************)
\* The texts of "new" are among those a tree may have: of the examples, it
\* keeps all the copies or none.
LEMMA TextsAreSane ==
  /\ \A f \in Files : CopyText(f) \in {"absent", "copied"}
  /\ \A f \in Files : \/ DriverText(f) = CopyText(f)
                      \/ DriverText(f) = "switched" /\ CopyText(f) = "copied" /\ f \in Shipped \X {"repository"}
  /\ \A d \in Domains, p \in Parts :
       CopyText(<<d, p>>) = "copied" <=> <<d, p>> = errorFile \/ (d \in Shipped /\ p \in shippedParts(d))
  /\ \A f \in Features : DriverText(f) = "copied"
<1>1. \A f \in Files : CopyText(f) \in {"absent", "copied"}
  BY DEF CopyText
<1>2. \A d \in Domains, p \in Parts :
       CopyText(<<d, p>>) = "copied" <=> <<d, p>> = errorFile \/ (d \in Shipped /\ p \in shippedParts(d))
  BY Pairs DEF CopyText
<1>3. \A f \in Features : f[1] \notin Shipped
  BY FeatureFacts DEF Domains
<1>4. \A f \in Features : DriverText(f) = "copied"
  BY <1>3 DEF DriverText, CopyText
<1>5. \A f \in Files : \/ DriverText(f) = CopyText(f)
                       \/ DriverText(f) = "switched" /\ CopyText(f) = "copied" /\ f \in Shipped \X {"repository"}
  <2> SUFFICES ASSUME NEW f \in Files, f \in Shipped \X {"repository"}
               PROVE  CopyText(f) = "copied"
    BY DEF DriverText
  <2>1. f[1] \in Shipped /\ f[2] \in shippedParts(f[1])
    BY DEF shippedParts
  <2> QED
    BY <2>1 DEF CopyText
<1> QED
  BY <1>1, <1>2, <1>4, <1>5

LEMMA ConfigIs ==
  ASSUME config \in Configs
  PROVE  /\ config \in [redis : BOOLEAN, idempotency : BOOLEAN, auth : BOOLEAN, examples : BOOLEAN, db : STRING]
         /\ config.idempotency => config.redis
<1>1. PICK c \in Choices : config = [c EXCEPT !.idempotency = c.redis /\ c.idempotency]
  BY DEF Configs
<1>2. c \in [redis : BOOLEAN, idempotency : BOOLEAN, auth : BOOLEAN, examples : BOOLEAN, db : STRING]
  BY GeneratorAssumption
<1> QED
  BY <1>1, <1>2

DeclinedBy(k, f) == ~config[k] /\ f \in FeatureFiles[k]

LEMMA DeclinedFacts ==
  /\ \A f : f \in toRemove <=> DeclinedBy("redis", f) \/ DeclinedBy("idempotency", f)
                              \/ DeclinedBy("auth", f) \/ DeclinedBy("examples", f)
  /\ \A d \in Domains, p \in Parts : <<d, p>> \in toRemove <=> d \in Shipped /\ ~config.examples
<1>1. DOMAIN FeatureFiles = {"redis", "idempotency", "auth", "examples"}
  BY DEF FeatureFiles
<1>2. \A f : f \in toRemove <=> \E x \in {"redis", "idempotency", "auth", "examples"} : DeclinedBy(x, f)
  BY <1>1 DEF toRemove, DeclinedBy
<1>3. \A f : f \in toRemove <=> DeclinedBy("redis", f) \/ DeclinedBy("idempotency", f)
                               \/ DeclinedBy("auth", f) \/ DeclinedBy("examples", f)
  BY <1>2, Zenon
<1>4. ASSUME NEW d \in Domains, NEW p \in Parts
      PROVE  <<d, p>> \in toRemove <=> d \in Shipped /\ ~config.examples
  <2>1. d # "pkg" /\ d # "mw"
    BY GeneratorAssumption DEF Domains, Shipped
  <2>2. /\ <<d, p>> \notin FeatureFiles.redis /\ <<d, p>> \notin FeatureFiles.idempotency
        /\ <<d, p>> \notin FeatureFiles.auth
        /\ <<d, p>> \in FeatureFiles.examples <=> d \in Shipped
    BY <2>1 DEF FeatureFiles
  <2> QED
    BY <1>3, <2>2 DEF DeclinedBy
<1> QED
  BY <1>3, <1>4

LEMMA NewTree ==
  ASSUME NEW kept \in BOOLEAN, tree' \in [Files -> Texts],
         \A f \in Features : tree'[f] \in {"absent", "copied"},
         \A d \in Domains, p \in Parts :
           IF d \in Shipped /\ ~kept THEN tree'[<<d, p>>] = "absent"
           ELSE tree'[<<d, p>>] \in {CopyText(<<d, p>>), DriverText(<<d, p>>)}
  PROVE  TreeSane' /\ CopiesKept' /\ DirsHold'
<1>1. ASSUME NEW d \in Domains, NEW p \in Parts
      PROVE  /\ tree'[<<d, p>>] # "rendered"
             /\ tree'[<<d, p>>] = "copied" => <<d, p>> = errorFile \/ (d \in Shipped /\ p \in shippedParts(d))
             /\ tree'[<<d, p>>] = "switched" => d \in Shipped /\ p = "repository"
  <2>1. <<d, p>> \in Files
    BY Pairs
  <2>2. tree'[<<d, p>>] \in {"absent", CopyText(<<d, p>>), DriverText(<<d, p>>)}
    OBVIOUS
  <2> QED
    BY <2>1, <2>2, TextsAreSane
<1>2. TreeSane'
  BY <1>1 DEF TreeSane
<1>3. ASSUME NEW d \in Shipped PROVE CopyKept(d)'
  <2>1. d \in Domains /\ shippedParts(d) \subseteq Parts /\ CRUD \subseteq Parts /\ "entity" \in Parts
    BY ShippedFacts, PartsAre
  <2>2. CASE ~kept
    <3>1. tree'[<<d, "entity">>] = "absent"
      BY <2>1, <2>2
    <3> QED
      BY <3>1 DEF CopyKept, HeadIntact
  <2>3. CASE kept
    <3>1. ASSUME NEW p \in CRUD \ opsOf(d) PROVE ~Has(<<d, p>>)'
      <4>1. p \notin shippedParts(d) /\ p # "repository"
        BY ShippedFacts, GeneratorAssumption
      <4>2. <<d, p>> # errorFile /\ <<d, p>> \in Files
        BY <2>1, Pairs DEF errorFile
      <4>3. CopyText(<<d, p>>) = "absent" /\ DriverText(<<d, p>>) = "absent"
        BY <2>1, <4>1, <4>2, TextsAreSane
      <4> QED
        BY <2>1, <2>3, <4>3 DEF Has
    <3>2. ASSUME NEW p \in shippedParts(d)
          PROVE  tree'[<<d, p>>] = "copied" \/ (p = "repository" /\ tree'[<<d, p>>] = "switched")
      <4>1. <<d, p>> \in Files /\ CopyText(<<d, p>>) = "copied"
        BY <2>1, Pairs, TextsAreSane
      <4>2. DriverText(<<d, p>>) = "copied" \/ (p = "repository" /\ DriverText(<<d, p>>) = "switched")
        BY <4>1, TextsAreSane
      <4> QED
        BY <2>1, <2>3, <4>1, <4>2
    <3> QED
      BY <3>1, <3>2 DEF CopyKept
  <2> QED
    BY <2>2, <2>3
<1>4. DirsHold'
  <2> SUFFICES ASSUME NEW d \in Domains, NEW p \in Paths[1], Has(<<d, p>>)'
               PROVE  Has(<<d, "dir">>)'
    BY DEF DirsHold
  <2>1. {"dir", p} \subseteq Parts /\ p # "handler" /\ p # "repository"
    BY PartsAre
  <2>2. <<d, p>> \in Files /\ <<d, "dir">> \in Files /\ <<d, p>> # errorFile
    BY <2>1, Pairs DEF errorFile
  <2>3. d \in Shipped /\ kept
    <3>1. tree'[<<d, p>>] # "absent"
      BY DEF Has
    <3> QED
      BY <2>1, <2>2, <3>1, TextsAreSane
  <2>4. "dir" \in shippedParts(d)
    BY DEF shippedParts
  <2>5. CopyText(<<d, "dir">>) = "copied" /\ DriverText(<<d, "dir">>) \in {"copied", "switched"}
    BY <2>1, <2>2, <2>3, <2>4, TextsAreSane
  <2> QED
    BY <2>1, <2>3, <2>5 DEF Has
<1> QED
  BY <1>2, <1>3, <1>4 DEF CopiesKept

\* The text "new" has left of a file of a domain after each step.
LEMMA NewTexts ==
  /\ \A f \in Files : {CopyText(f), DriverText(f), PrunedText(f), FinalText(f)} \subseteq Texts
  /\ \A f \in Features : {CopyText(f), DriverText(f), PrunedText(f), FinalText(f)} \subseteq {"absent", "copied"}
  /\ \A d \in Domains, p \in Parts :
       /\ FinalText(<<d, p>>) = PrunedText(<<d, p>>)
       /\ IF d \in Shipped /\ ~config.examples THEN PrunedText(<<d, p>>) = "absent"
          ELSE PrunedText(<<d, p>>) = DriverText(<<d, p>>)
<1>1. \A f \in Files : CopyText(f) \in {"absent", "copied"} /\ DriverText(f) \in {"absent", "copied", "switched"}
  BY TextsAreSane
<1>2. \A f \in Files : /\ PrunedText(f) \in {"absent", DriverText(f)}
                       /\ FinalText(f) \in {"absent", DriverText(f)}
  BY DEF PrunedText, FinalText
<1>3. ASSUME NEW f \in Files
      PROVE  {CopyText(f), DriverText(f), PrunedText(f), FinalText(f)} \subseteq Texts
  BY <1>1, <1>2 DEF Texts
<1>4. ASSUME NEW f \in Features
      PROVE  {CopyText(f), DriverText(f), PrunedText(f), FinalText(f)} \subseteq {"absent", "copied"}
  <2>1. f \in Files /\ DriverText(f) = "copied"
    BY FeatureFacts, TextsAreSane
  <2> QED
    BY <1>1, <1>2, <2>1
<1>5. ASSUME NEW d \in Domains, NEW p \in Parts
      PROVE  /\ FinalText(<<d, p>>) = PrunedText(<<d, p>>)
             /\ IF d \in Shipped /\ ~config.examples THEN PrunedText(<<d, p>>) = "absent"
                ELSE PrunedText(<<d, p>>) = DriverText(<<d, p>>)
  <2>1. d # "pkg"
    BY GeneratorAssumption DEF Domains, Shipped
  <2>2. <<d, p>> # <<"pkg", "docs">>
    BY <2>1
  <2> QED
    BY <2>2, DeclinedFacts DEF FinalText, PrunedText
<1> QED
  BY <1>3, <1>4, <1>5

LEMMA CopiedInfos ==
  \A i \in copiedWiring.infos : i.name \in Domains /\ i.ops \subseteq CRUD
BY ShippedFacts DEF copiedWiring, content, shippedInfo

LEMMA InitStep == Init => IInv
<1> SUFFICES ASSUME Init PROVE IInv
  OBVIOUS
<1>1. \A f \in Files : tree[f] = "absent"
  BY DEF Init
<1>2. TreeSane
  <2>1. tree \in [Files -> Texts]
    BY DEF Init, Texts
  <2> QED
    BY <1>1, <2>1, Pairs, FeatureFacts DEF TreeSane
<1>3. ASSUME NEW d \in Shipped PROVE CopyKept(d)
  <2>1. tree[<<d, "entity">>] = "absent"
    BY <1>1, Pairs, PartsAre, ShippedFacts
  <2> QED
    BY <2>1 DEF CopyKept, HeadIntact
<1>4. NewSteps /\ DirsHold
  <2>1. DirsHold
    BY <1>1, PartsAre, Pairs DEF DirsHold, Has
  <2> QED
    BY <1>1, <2>1 DEF Init, NewSteps
<1>5. WiringFresh
  BY DEF Init, WiringFresh
<1> QED
  BY <1>2, <1>3, <1>4, <1>5 DEF IInv, Init, CopiesKept, InfosKnown

\* What is left of the invariant once a step of "new" has set the tree.
LEMMA NewKeeps ==
  ASSUME IInv, config' = config, TreeSane', CopiesKept', DirsHold', NewSteps', InfosKnown', last'[1] # "wiring"
  PROVE  IInv'
BY DEF IInv, WiringFresh

LEMMA CopyStep ==
  ASSUME IInv, CopyProject
  PROVE  IInv'
<1>1. \A f \in Files : tree'[f] = CopyText(f)
  BY DEF CopyProject, CopyText
<1>2. tree' \in [Files -> Texts]
  BY NewTexts DEF CopyProject, CopyText, Texts
<1>3. TreeSane' /\ CopiesKept' /\ DirsHold'
  <2>1. \A f \in Features : tree'[f] \in {"absent", "copied"}
    BY <1>1, NewTexts, FeatureFacts
  <2>2. \A d \in Domains, p \in Parts : tree'[<<d, p>>] = CopyText(<<d, p>>)
    BY <1>1, Pairs
  <2> QED
    BY <1>2, <2>1, <2>2, NewTree
<1>4. /\ config' = config /\ last' = <<"none", "">> /\ phase' = "copied"
      /\ wiring' = [w \in AllWiring |-> copiedWiring]
  BY PartsAre DEF CopyProject, IInv, NewSteps
<1>5. NewSteps' /\ last'[1] # "wiring"
  BY <1>1, <1>4 DEF NewSteps
<1>6. InfosKnown'
  BY <1>4, CopiedInfos DEF InfosKnown
<1> QED
  BY <1>3, <1>4, <1>5, <1>6, NewKeeps

LEMMA DriverStep ==
  ASSUME IInv, SwitchDBDriver
  PROVE  IInv'
<1>1. \A f \in Files : tree'[f] = DriverText(f)
  BY DEF SwitchDBDriver, driverFiles, with, DriverText, IInv, NewSteps
<1>2. tree' \in [Files -> Texts]
  BY WithText DEF SwitchDBDriver, IInv, Texts
<1>3. TreeSane' /\ CopiesKept' /\ DirsHold'
  <2>1. \A f \in Features : tree'[f] \in {"absent", "copied"}
    BY <1>1, NewTexts, FeatureFacts
  <2>2. \A d \in Domains, p \in Parts : tree'[<<d, p>>] = DriverText(<<d, p>>)
    BY <1>1, Pairs
  <2> QED
    BY <1>2, <2>1, <2>2, NewTree
<1>4. /\ config' = config /\ last' = <<"none", "">> /\ phase' = "switched" /\ wiring' = wiring
      /\ DOMAIN wiring = AllWiring /\ \A w \in AllWiring : wiring[w] = copiedWiring
  BY DEF SwitchDBDriver, IInv, NewSteps
<1>5. \A f \in Files : DriverText(f)' = DriverText(f)
  BY <1>4 DEF DriverText, CopyText
<1>6. NewSteps' /\ last'[1] # "wiring"
  BY <1>1, <1>4, <1>5 DEF NewSteps
<1>7. InfosKnown'
  BY <1>4, CopiedInfos DEF InfosKnown
<1> QED
  BY <1>3, <1>4, <1>6, <1>7, NewKeeps

LEMMA PruneStep ==
  ASSUME IInv, RemoveDisabledFeatures
  PROVE  IInv'
<1>1. tree' = [f \in Files |-> IF f \in toRemove THEN "absent" ELSE tree[f]]
  BY DEF RemoveDisabledFeatures, with
<1>2. \A f \in Files : tree'[f] = PrunedText(f)
  BY <1>1 DEF RemoveDisabledFeatures, PrunedText, IInv, NewSteps
<1>3. tree' \in [Files -> Texts]
  <2>1. \A f \in Files : (IF f \in toRemove THEN "absent" ELSE tree[f]) \in Texts
    BY DEF IInv, TreeSane, Texts
  <2> QED
    BY <1>1, <2>1
<1>4. TreeSane' /\ CopiesKept' /\ DirsHold'
  <2>1. \A f \in Features : tree'[f] \in {"absent", "copied"}
    BY <1>2, NewTexts, FeatureFacts
  <2>2. \A d \in Domains, p \in Parts : tree'[<<d, p>>] = PrunedText(<<d, p>>)
    BY <1>2, Pairs
  <2>3. config.examples \in BOOLEAN
    BY ConfigIs DEF IInv
  <2>4. \A d \in Domains, p \in Parts :
           IF d \in Shipped /\ ~config.examples THEN tree'[<<d, p>>] = "absent"
           ELSE tree'[<<d, p>>] \in {CopyText(<<d, p>>), DriverText(<<d, p>>)}
    BY <2>2, NewTexts
  <2> QED
    BY <1>3, <2>1, <2>3, <2>4, NewTree
<1>5. /\ config' = config /\ last' = <<"none", "">> /\ phase' = "pruned" /\ wiring' = wiring
      /\ DOMAIN wiring = AllWiring /\ \A w \in AllWiring : wiring[w] = copiedWiring
  BY DEF RemoveDisabledFeatures, IInv, NewSteps
<1>6. \A f \in Files : PrunedText(f)' = PrunedText(f)
  BY <1>5 DEF PrunedText, toRemove, DriverText, CopyText
<1>7. NewSteps' /\ last'[1] # "wiring"
  BY <1>2, <1>5, <1>6 DEF NewSteps
<1>8. InfosKnown'
  BY <1>5, CopiedInfos DEF InfosKnown
<1> QED
  BY <1>4, <1>5, <1>7, <1>8, NewKeeps

LEMMA CleanupStep ==
  ASSUME IInv, CleanupWiring
  PROVE  IInv'
<1>1. DOMAIN wiring' = DOMAIN wiring
      /\ \A w \in AllWiring : wiring'[w] = IF w = "container" THEN wiring[w] ELSE NewContent
  <2>1. wiring' = writtenWiring(CleanedFiles, 3, FALSE, NewContent)
    BY DEF CleanupWiring, cleanedWiring, CleanedFiles, NewContent
  <2>2. \A w \in AllWiring : w # "container" <=> \E j \in 1..3 : CleanedFiles[j] = w
    <3>1. 1..3 = {1, 2, 3}
      OBVIOUS
    <3>2. CleanedFiles[1] = "server" /\ CleanedFiles[2] = "router" /\ CleanedFiles[3] = "test_helpers"
      BY DEF CleanedFiles
    <3> QED
      BY <3>1, <3>2 DEF AllWiring
  <2>3. DOMAIN wiring = AllWiring
    BY DEF CleanupWiring, IInv, NewSteps
  <2> QED
    BY <2>1, <2>2, <2>3 DEF writtenWiring
<1>2. /\ config' = config /\ last' = <<"none", "">> /\ phase' = "wired" /\ tree' = tree
      /\ DOMAIN wiring = AllWiring /\ \A w \in AllWiring : wiring[w] = copiedWiring
      /\ \A f \in Files : tree[f] = PrunedText(f)
  BY DEF CleanupWiring, IInv, NewSteps
<1>3. \A w \in AllWiring : wiring'[w] = NewWiring(w)
  BY <1>1, <1>2 DEF NewWiring
<1>4. \A w \in AllWiring : NewWiring(w)' = NewWiring(w)
  BY <1>2 DEF NewWiring, NewContent
<1>5. \A f \in Files : PrunedText(f)' = PrunedText(f)
  BY <1>2 DEF PrunedText, toRemove, DriverText, CopyText
<1>6. NewSteps' /\ last'[1] # "wiring"
  BY <1>1, <1>2, <1>3, <1>4, <1>5 DEF NewSteps
<1>7. TreeSane' /\ CopiesKept' /\ DirsHold'
  BY <1>2 DEF IInv, TreeSane, CopiesKept, CopyKept, HeadIntact, DirsHold, Has
<1>8. InfosKnown'
  <2>1. NewContent.infos \in {{}, copiedWiring.infos}
    BY DEF NewContent, content
  <2>2. \A w \in AllWiring : wiring'[w] \in {copiedWiring, NewContent}
    BY <1>1, <1>2
  <2> QED
    BY <1>2, <2>1, <2>2, CopiedInfos DEF InfosKnown
<1> QED
  BY <1>2, <1>6, <1>7, <1>8, NewKeeps

LEMMA FinishStep ==
  ASSUME IInv, FinishNew
  PROVE  IInv'
<1>1. /\ config' = config /\ last' = <<"new", "">> /\ phase' = "ready" /\ wiring' = wiring
      /\ DOMAIN wiring = AllWiring /\ \A w \in AllWiring : wiring[w] = NewWiring(w)
      /\ \A f \in Files : tree[f] = PrunedText(f)
  BY DEF FinishNew, IInv, NewSteps
<1>2. \A f \in Files : tree'[f] = FinalText(f)
  BY <1>1 DEF FinishNew, FinalText, IInv, TreeSane
<1>3. tree' \in [Files -> Texts]
  BY DEF FinishNew, IInv, TreeSane, Texts
<1>4. TreeSane' /\ CopiesKept' /\ DirsHold'
  <2>1. \A f \in Features : tree'[f] \in {"absent", "copied"}
    BY <1>2, NewTexts, FeatureFacts
  <2>2. \A d \in Domains, p \in Parts : tree'[<<d, p>>] = PrunedText(<<d, p>>)
    BY <1>2, NewTexts, Pairs
  <2>3. config.examples \in BOOLEAN
    BY ConfigIs DEF IInv
  <2>4. \A d \in Domains, p \in Parts :
           IF d \in Shipped /\ ~config.examples THEN tree'[<<d, p>>] = "absent"
           ELSE tree'[<<d, p>>] \in {CopyText(<<d, p>>), DriverText(<<d, p>>)}
    BY <2>2, NewTexts
  <2> QED
    BY <1>3, <2>1, <2>3, <2>4, NewTree
<1>5. /\ \A w \in AllWiring : NewWiring(w)' = NewWiring(w)
      /\ \A f \in Files : FinalText(f)' = FinalText(f)
  BY <1>1 DEF NewWiring, NewContent, FinalText, PrunedText, toRemove, DriverText, CopyText
<1>6. NewSteps' /\ last'[1] # "wiring"
  BY <1>1, <1>2, <1>5 DEF NewSteps
<1>7. InfosKnown'
  BY <1>1 DEF InfosKnown, IInv, FinishNew
<1> QED
  BY <1>1, <1>4, <1>6, <1>7, NewKeeps

\* The examples are removed path by path, the domain packages first.
LEMMA OrderIs ==
  /\ Len(RemovalOrder) = 15
  /\ \A k \in 1..4 : RemovalOrder[k] \subseteq Features
  /\ RemovalOrder[5] = {"user"} \X Paths[1] /\ RemovalOrder[6] = {"role"} \X Paths[1]
  /\ \A k \in 7..15 : \A d \in Domains : \A p \in Paths[1] : <<d, p>> \notin RemovalOrder[k]
<1>1. Len(RemovalOrder) = 15
  BY DEF RemovalOrder
<1>2. /\ RemovalOrder[1] = {<<"pkg", "redisclient">>} /\ RemovalOrder[2] = {<<"pkg", "idempotency">>}
      /\ RemovalOrder[3] = {<<"mw", "idempotency">>} /\ RemovalOrder[4] = {<<"mw", "service_key">>}
  BY DEF RemovalOrder
<1>3. /\ RemovalOrder[5] = {"user"} \X Paths[1] /\ RemovalOrder[6] = {"role"} \X Paths[1]
      /\ RemovalOrder[7] = {"user"} \X Paths[2] /\ RemovalOrder[8] = {"role"} \X Paths[2]
  BY DEF RemovalOrder
<1>4. /\ RemovalOrder[9] = {"user"} \X Paths[3] /\ RemovalOrder[10] = {"role"} \X Paths[3]
      /\ RemovalOrder[11] = {"user"} \X Paths[4] /\ RemovalOrder[12] = {"role"} \X Paths[4]
  BY DEF RemovalOrder
<1>5. /\ RemovalOrder[13] = {"user"} \X Paths[5] /\ RemovalOrder[14] = {"role"} \X Paths[5]
      /\ RemovalOrder[15] = {<<"pkg", "telemetry">>}
  BY DEF RemovalOrder
<1>6. \A k \in 1..4 : RemovalOrder[k] \subseteq Features
  <2>1. \A k \in 1..4 : k = 1 \/ k = 2 \/ k = 3 \/ k = 4
    OBVIOUS
  <2> QED
    BY <1>2, <2>1 DEF Features
<1>7. ASSUME NEW k \in 7..15, NEW d \in Domains, NEW p \in Paths[1] PROVE <<d, p>> \notin RemovalOrder[k]
  <2>1. p \notin Paths[2] /\ p \notin Paths[3] /\ p \notin Paths[4] /\ p \notin Paths[5]
    <3>1. /\ Paths[2] = {"ports", "endpoint", "endpoint_dto"} \cup CRUD
          /\ Paths[3] = {"repository"} /\ Paths[4] = {"handler"} /\ Paths[5] = {"router"}
      BY DEF Paths
    <3>2. p \in {"dir", "entity", "filter", "vo"}
      BY PartsAre
    <3> QED
      BY <3>1, <3>2, GeneratorAssumption
  <2>2. d # "pkg"
    BY GeneratorAssumption DEF Domains, Shipped
  <2>3. k \in {7, 8, 9, 10, 11, 12, 13, 14, 15}
    OBVIOUS
  <2>4. \A e \in {"user", "role"}, j \in 2..5 : <<d, p>> \notin {e} \X Paths[j]
    <3>1. \A j \in 2..5 : j = 2 \/ j = 3 \/ j = 4 \/ j = 5
      OBVIOUS
    <3> QED
      BY <2>1, <3>1
  <2>5. <<d, p>> \notin {<<"pkg", "telemetry">>}
    BY <2>2
  <2> QED
    BY <1>3, <1>4, <1>5, <2>3, <2>4, <2>5
<1> QED
  BY <1>1, <1>3, <1>6, <1>7

\* Which files of an example are gone when the removal stops.
Begun(k, some) == some \cup UNION {RemovalOrder[j] : j \in 1..(k - 1)}

LEMMA BegunIs ==
  ASSUME NEW k \in 1..Len(RemovalOrder), NEW some \in SUBSET RemovalOrder[k],
         \A d \in Shipped : emptied(some, d),
         NEW d \in Shipped
  PROVE  \/ {d} \X Paths[1] \subseteq Begun(k, some)
         \/ \A p \in Parts : <<d, p>> \in Begun(k, some) => p \in Paths[1] \ {"dir"}
<1>1. Len(RemovalOrder) = 15 /\ k \in 1..15
  BY OrderIs
<1>2. \A f : f \in Begun(k, some) <=> f \in some \/ \E j \in 1..(k - 1) : f \in RemovalOrder[j]
  BY DEF Begun
<1>3. PICK h \in {5, 6} : RemovalOrder[h] = {d} \X Paths[1] /\ (h = 6 => RemovalOrder[5] = {"user"} \X Paths[1] /\ d = "role")
  <2>1. d = "user" \/ d = "role"
    BY DEF Shipped
  <2> QED
    BY <2>1, OrderIs
<1>4. ASSUME NEW j \in 1..15, j < h, NEW p \in Parts PROVE <<d, p>> \notin RemovalOrder[j]
  <2>1. d \in Domains
    BY ShippedFacts
  <2>2. CASE j \in 1..4
    BY <2>1, <2>2, OrderIs, Pairs
  <2>3. CASE j \notin 1..4
    <3>1. j = 5 /\ h = 6
      BY <1>3, <1>4, <2>3
    <3>2. <<d, p>> \notin {"user"} \X Paths[1]
      BY <1>3, <3>1
    <3> QED
      BY <1>3, <3>1, <3>2
  <2> QED
    BY <2>2, <2>3
<1>5. CASE k > h
  <2>1. h \in 1..(k - 1)
    BY <1>1, <1>3, <1>5
  <2> QED
    BY <1>2, <1>3, <2>1
<1>6. CASE k < h
  <2>1. \A p \in Parts : <<d, p>> \notin Begun(k, some)
    <3> SUFFICES ASSUME NEW p \in Parts, <<d, p>> \in Begun(k, some) PROVE FALSE
      OBVIOUS
    <3>1. \E j \in 1..15 : j < h /\ <<d, p>> \in RemovalOrder[j]
      BY <1>1, <1>2, <1>3, <1>6
    <3> QED
      BY <1>4, <3>1
  <2> QED
    BY <2>1
<1>7. CASE k = h
  <2>1. \A p \in Parts : <<d, p>> \in Begun(k, some) => <<d, p>> \in some
    <3> SUFFICES ASSUME NEW p \in Parts, <<d, p>> \in Begun(k, some), <<d, p>> \notin some PROVE FALSE
      OBVIOUS
    <3>1. \E j \in 1..15 : j < h /\ <<d, p>> \in RemovalOrder[j]
      BY <1>1, <1>2, <1>3, <1>7
    <3> QED
      BY <1>4, <3>1
  <2>2. some \subseteq {d} \X Paths[1]
    BY <1>3, <1>7
  <2>3. CASE <<d, "dir">> \in some
    BY <1>2, <2>3 DEF emptied
  <2>4. CASE <<d, "dir">> \notin some
    BY <2>1, <2>2, <2>4
  <2> QED
    BY <2>3, <2>4
<1> QED
  BY <1>1, <1>3, <1>5, <1>6, <1>7

LEMMA RemovalStopsStep ==
  ASSUME IInv, RemovalStops
  PROVE  TreeSane' /\ CopiesKept' /\ DirsHold'
<1>0. PICK k \in 1..Len(RemovalOrder) : \E some \in SUBSET RemovalOrder[k] :
        /\ \A d \in Shipped : emptied(some, d)
        /\ tree' = with(toRemove \cap Begun(k, some), "absent")
  BY DEF RemovalStops, Begun
<1>1. PICK some \in SUBSET RemovalOrder[k] :
        /\ \A d \in Shipped : emptied(some, d)
        /\ tree' = with(toRemove \cap Begun(k, some), "absent")
  BY <1>0
<1> DEFINE gone == toRemove \cap Begun(k, some)
<1>2. /\ tree' \in [Files -> Texts]
      /\ \A f \in Files : tree'[f] = IF f \in gone THEN "absent" ELSE tree[f]
  <2>1. "absent" \in Texts /\ tree' = with(gone, "absent")
    BY <1>1 DEF Texts
  <2> HIDE DEF gone
  <2> QED
    BY <2>1, WithText DEF IInv
<1>3. \A d \in Domains, p \in Parts :
        <<d, p>> \in gone <=> d \in Shipped /\ ~config.examples /\ <<d, p>> \in Begun(k, some)
  BY DeclinedFacts
<1>4. \A d \in Shipped : \/ {d} \X Paths[1] \subseteq Begun(k, some)
                         \/ \A p \in Parts : <<d, p>> \in Begun(k, some) => p \in Paths[1] \ {"dir"}
  BY <1>1, BegunIs
<1> HIDE DEF gone
<1>5. TreeSane'
  <2>1. \A f \in Features : tree'[f] \in {"absent", "copied"}
    BY <1>2, FeatureFacts DEF IInv, TreeSane
  <2>2. \A d \in Domains, p \in Parts : tree'[<<d, p>>] \in {"absent", tree[<<d, p>>]}
    BY <1>2, Pairs
  <2> QED
    BY <1>2, <2>1, <2>2 DEF IInv, TreeSane
<1>6. ASSUME NEW d \in Shipped PROVE CopyKept(d)'
  <2> DEFINE cut == {p \in Parts : <<d, p>> \in gone}
  <2>1. d \in Domains /\ CopyKept(d)
    BY ShippedFacts DEF IInv, CopiesKept
  <2>2. \A p \in Parts : tree'[<<d, p>>] = IF p \in cut THEN "absent" ELSE tree[<<d, p>>]
    BY <1>2, <2>1, Pairs
  <2>3. CASE config.examples
    <3>1. cut = {}
      BY <1>3, <2>1, <2>3
    <3> HIDE DEF cut
    <3> QED
      BY <2>1, <2>2, <3>1, CopyCut
  <2>4. CASE ~config.examples
    <3>1. \A p \in Parts : p \in cut <=> <<d, p>> \in Begun(k, some)
      BY <1>3, <2>1, <2>4
    <3>2. cut \subseteq Parts /\ Paths[1] \subseteq Parts /\ {"entity", "dir"} \subseteq Paths[1]
      BY PartsAre
    <3> HIDE DEF cut
    <3>3. CASE {d} \X Paths[1] \subseteq Begun(k, some)
      <4>1. Paths[1] \subseteq cut
        BY <3>1, <3>2, <3>3
      <4> QED
        BY <2>1, <2>2, <3>2, <4>1, CopyCut
    <3>4. CASE \A p \in Parts : <<d, p>> \in Begun(k, some) => p \in Paths[1] \ {"dir"}
      <4>1. cut \subseteq Paths[1] \ {"dir"}
        BY <3>1, <3>2, <3>4
      <4> QED
        BY <2>1, <2>2, <4>1, CopyCut
    <3> QED
      BY <1>4, <3>3, <3>4
  <2> QED
    BY <2>3, <2>4
<1>7. ASSUME NEW d \in Domains, <<d, "dir">> \in gone PROVE {d} \X Paths[1] \subseteq gone
  <2>1. "dir" \in Parts /\ Paths[1] \subseteq Parts
    BY PartsAre
  <2>2. d \in Shipped /\ ~config.examples /\ <<d, "dir">> \in Begun(k, some)
    BY <1>3, <1>7, <2>1
  <2>3. {d} \X Paths[1] \subseteq Begun(k, some)
    BY <1>4, <2>1, <2>2
  <2> QED
    BY <1>3, <2>1, <2>2, <2>3
<1>8. DirsHold'
  BY <1>2, <1>7, DirsCut DEF IInv
<1> QED
  BY <1>5, <1>6, <1>8 DEF CopiesKept

LEMMA SwitchStopsStep ==
  ASSUME IInv, phase = "copied", SwitchStops
  PROVE  TreeSane' /\ CopiesKept' /\ DirsHold'
<1>1. PICK some \in SUBSET driverFiles : tree' = with(some, "switched")
  BY DEF SwitchStops
<1>2. /\ tree' \in [Files -> Texts]
      /\ \A f \in Files : tree'[f] = IF f \in some THEN "switched" ELSE tree[f]
  BY <1>1, WithText DEF IInv, Texts
<1>3. \A f \in Files : tree'[f] \in {CopyText(f), DriverText(f)}
  <2>1. \A f \in Files : tree[f] = CopyText(f)
    BY DEF IInv, NewSteps
  <2>2. \A f \in some : DriverText(f) = "switched"
    BY <1>1 DEF driverFiles, DriverText
  <2> QED
    BY <1>2, <2>1, <2>2
<1>4. \A f \in Features : tree'[f] \in {"absent", "copied"}
  BY <1>3, NewTexts, FeatureFacts
<1>5. \A d \in Domains, p \in Parts : tree'[<<d, p>>] \in {CopyText(<<d, p>>), DriverText(<<d, p>>)}
  BY <1>3, Pairs
<1> QED
  BY <1>2, <1>4, <1>5, NewTree

LEMMA InterruptStep ==
  ASSUME IInv, NewInterrupted
  PROVE  IInv'
<1>1. /\ config' = config /\ last' = <<"interrupted", "">> /\ phase' = "ready" /\ phase # "none"
      /\ DOMAIN wiring = AllWiring
  BY DEF NewInterrupted, IInv, NewSteps
<1>3. TreeSane' /\ CopiesKept' /\ DirsHold'
  <2>1. tree' = tree => TreeSane' /\ CopiesKept' /\ DirsHold'
    BY DEF IInv, TreeSane, CopiesKept, CopyKept, HeadIntact, DirsHold, Has
  <2> QED
    BY <2>1, SwitchStopsStep, RemovalStopsStep DEF NewInterrupted, CleanupStops
<1>4. /\ DOMAIN wiring' = AllWiring
      /\ \A w \in AllWiring : wiring'[w].infos \in {{}, copiedWiring.infos, wiring[w].infos}
  <2>1. CASE wiring' = wiring
    BY <1>1, <2>1
  <2>2. CASE CleanupStops
    <3>1. PICK k \in 0..Len(CleanedFiles), half \in BOOLEAN : wiring' = cleanedWiring(k, half)
      BY <2>2 DEF CleanupStops
    <3>2. wiring' = writtenWiring(CleanedFiles, k, half, NewContent)
      BY <3>1 DEF cleanedWiring, NewContent
    <3>3. NewContent.infos \in {{}, copiedWiring.infos} /\ tornWiring.infos = {}
      BY DEF NewContent, tornWiring, content
    <3> QED
      BY <1>1, <3>2, <3>3 DEF writtenWiring
  <2> QED
    BY <2>1, <2>2 DEF NewInterrupted, SwitchStops, RemovalStops
<1>5. NewSteps' /\ last'[1] # "wiring"
  BY <1>1, <1>4 DEF NewSteps
<1>6. InfosKnown'
  BY <1>1, <1>4, CopiedInfos DEF InfosKnown, IInv
<1> QED
  BY <1>1, <1>3, <1>5, <1>6, NewKeeps

\* Whatever was asked, added, removed and interrupted: a file has a text it can
\* have, a shipped domain whose head is there is all there ("remove domain"
\* deletes the head first), "new" leaves its own texts and wiring at each step, and
\* "wiring" what it scanned.
THEOREM Inductive == Spec => []IInv
<1>1. Init => IInv
  BY InitStep
<1>2. IInv /\ [Next]_vars => IInv'
  <2> SUFFICES ASSUME IInv, [Next]_vars PROVE IInv'
    OBVIOUS
  <2>1. CASE Next
    <3>1. CASE CopyProject \/ SwitchDBDriver \/ RemoveDisabledFeatures \/ CleanupWiring \/ FinishNew \/ NewInterrupted
      BY <3>1, CopyStep, DriverStep, PruneStep, CleanupStep, FinishStep, InterruptStep
    <3>2. CASE \E d \in Domains : AddDomain(d) \/ RemoveDomain(d) \/ AddEndpoint(d) \/ RemoveEndpoint(d)
      BY <3>2, AddDomainStep, RemoveDomainStep, EndpointStep
    <3>3. CASE RunWiring
      BY <3>3, WiringStep
    <3> QED
      BY <2>1, <3>1, <3>2, <3>3, Zenon DEF Next
  <2>2. CASE UNCHANGED vars
    <3>1. /\ config' = config /\ tree' = tree /\ wiring' = wiring /\ phase' = phase /\ last' = last
      BY <2>2 DEF vars
    <3>2. TreeSane' /\ CopiesKept' /\ DirsHold'
      BY <3>1 DEF IInv, TreeSane, CopiesKept, CopyKept, HeadIntact, DirsHold, Has
    <3>3. /\ \A w \in AllWiring : NewWiring(w)' = NewWiring(w)
          /\ \A f \in Files : /\ FinalText(f)' = FinalText(f) /\ PrunedText(f)' = PrunedText(f)
                              /\ DriverText(f)' = DriverText(f) /\ CopyText(f)' = CopyText(f)
      BY <3>1 DEF NewWiring, NewContent, FinalText, PrunedText, toRemove, DriverText, CopyText
    <3>4. NewSteps'
      BY <3>1, <3>3 DEF IInv, NewSteps
    <3>5. Scanned' = Scanned
      BY <3>1 DEF Scanned, scanDomains, DetectDomainInfo, hasDomainInfrastructure, domainExists, Has
    <3>6. WiringFresh'
      BY <3>1, <3>5 DEF IInv, WiringFresh
    <3>7. InfosKnown'
      BY <3>1 DEF IInv, InfosKnown
    <3> QED
      BY <3>1, <3>2, <3>4, <3>6, <3>7 DEF IInv
  <2> QED
    BY <2>1, <2>2
<1> QED
  BY <1>1, <1>2, PTL DEF Spec

-----------------------------------------------------------------------------
(***************************************************************************)
(* What builds                                                             *)
(***************************************************************************)
LEMMA NeedsAre ==
  ASSUME NEW d, NEW p \in Parts
  PROVE  /\ p \in {"dir", "entity", "vo", "endpoint", "endpoint_dto"} => needs(d, p) = {}
         /\ p = "filter" => needs(d, p) = {"entity"}
         /\ p \in {"ports", "repository"} => needs(d, p) = {"entity", "filter"}
         /\ p \in CRUD => needs(d, p) = {"entity", "filter", "ports"}
         /\ p = "handler" => needs(d, p) = {"ports"} \cup (IF tree[<<d, p>>] = "copied" THEN opsOf(d) ELSE CRUD)
         /\ p = "router" => needs(d, p) = {"handler"}
<1>1. CASE p \in CRUD
  BY <1>1, GeneratorAssumption, PartsAre DEF needs
<1>2. CASE p \notin CRUD
  BY <1>2, PartsAre DEF needs
<1> QED
  BY <1>1, <1>2

\* No file refers to an endpoint.
LEMMA NeedsParts ==
  ASSUME NEW d \in Domains, NEW p \in Parts
  PROVE  needs(d, p) \subseteq Parts \ {"endpoint", "endpoint_dto"}
<1>1. /\ {"entity", "filter", "ports", "handler"} \cup CRUD \subseteq Parts
      /\ CRUD \cap {"endpoint", "endpoint_dto"} = {}
  BY PartsAre, GeneratorAssumption
<1>2. opsOf(d) \subseteq CRUD
  BY GeneratorAssumption DEF opsOf
<1>3. CASE p = "handler"
  <2>1. needs(d, p) = {"ports"} \cup (IF tree[<<d, p>>] = "copied" THEN opsOf(d) ELSE CRUD)
    BY <1>3, NeedsAre
  <2>2. needs(d, p) \subseteq {"ports"} \cup CRUD
    BY <1>2, <2>1
  <2> QED
    BY <1>1, <2>2
<1>4. CASE p # "handler"
  <2>1. CASE p \in CRUD
    BY <1>1, <2>1, NeedsAre
  <2>2. CASE p \notin CRUD
    <3>1. needs(d, p) \in {{}, {"entity"}, {"entity", "filter"}, {"handler"}}
      BY <1>4, <2>2, PartsAre, NeedsAre
    <3> QED
      BY <1>1, <3>1
  <2> QED
    BY <2>1, <2>2
<1> QED
  BY <1>3, <1>4

\* A shipped domain as it was copied.
LEMMA ShippedCompiles ==
  ASSUME TreeSane, CopiesKept, examplesIntact, tree[errorFile] = "copied", Has(<<"pkg", "telemetry">>),
         NEW d \in Shipped, Has(<<d, "endpoint">>) => Has(<<d, "endpoint_dto">>)
  PROVE  domainCompiles(d)
<1>1. /\ d \in Domains /\ shippedParts(d) \subseteq Parts
      /\ \A p \in shippedParts(d) : tree[<<d, p>>] = "copied"
      /\ {"entity", "filter", "ports", "repository", "handler", "router"} \cup opsOf(d) \subseteq shippedParts(d)
  BY ShippedFacts DEF examplesIntact, shippedParts
<1>2. Has(<<"user", "vo">>)
  BY DEF examplesIntact, Shipped, shippedParts, Has
<1>3. endpointCompiles(d)
  BY <1>1 DEF endpointCompiles, Has
<1>4. ASSUME NEW p \in shippedParts(d) PROVE compiles(d, p)
  <2>1. p \in Parts /\ tree[<<d, p>>] = "copied"
    BY <1>1
  <2>2. needs(d, p) \subseteq shippedParts(d)
    <3>1. p # "endpoint" /\ p # "endpoint_dto" /\ (p \in CRUD => p \in opsOf(d))
      BY <1>1, ShippedFacts
    <3>2. CASE p = "handler"
      BY <1>1, <2>1, <3>2, NeedsAre
    <3>3. CASE p # "handler"
      BY <1>1, <2>1, <3>1, <3>3, NeedsAre, PartsAre
    <3> QED
      BY <3>2, <3>3
  <2>3. \A q \in needs(d, p) : tree[<<d, q>>] = tree[<<d, p>>]
    BY <1>1, <2>1, <2>2
  <2> QED
    BY <1>2, <2>1, <2>3 DEF compiles
<1>5. ASSUME NEW p \in Parts \ shippedParts(d) PROVE compiles(d, p)
  <2>1. \/ p \in CRUD \ opsOf(d)
        \/ p \in {"endpoint", "endpoint_dto"}
        \/ p = "vo"
    BY PartsAre, ShippedFacts DEF shippedParts
  <2>2. CASE p \in CRUD \ opsOf(d)
    <3>1. ~Has(<<d, p>>)
      BY <1>1, <2>2 DEF CopiesKept, CopyKept
    <3> QED
      BY <3>1 DEF compiles
  <2>3. CASE p \in {"endpoint", "endpoint_dto"}
    <3>1. needs(d, p) = {} /\ p # "entity" /\ p # "handler" /\ p # "repository"
      BY <2>3, NeedsAre
    <3>2. tree[<<d, p>>] # "switched"
      BY <1>1, <3>1 DEF TreeSane
    <3> QED
      BY <3>1, <3>2 DEF compiles
  <2>4. CASE p = "vo"
    <3>1. <<d, p>> # errorFile /\ <<d, p>> \in Files
      BY <1>1, <2>4, Pairs DEF errorFile
    <3>2. ~Has(<<d, p>>)
      BY <1>1, <2>4, <3>1 DEF TreeSane, Texts, Has
    <3> QED
      BY <3>2 DEF compiles
  <2> QED
    BY <2>1, <2>2, <2>3, <2>4
<1> QED
  BY <1>3, <1>4, <1>5 DEF domainCompiles

\* What a new domain has: nothing, or all that its templates are rendered to.
LEMMA WholeIs ==
  ASSUME TreeSane, NEW d \in NewDomains, whole(d)
  PROVE  /\ \/ \A f \in buildTemplateMappings(d) : tree[f] = "rendered"
            \/ \A f \in buildTemplateMappings(d) : tree[f] # "rendered"
         /\ Has(<<d, "endpoint">>) =>
              (\A f \in buildTemplateMappings(d) : tree[f] = "rendered") /\ Has(<<d, "endpoint_dto">>)
         /\ \A p \in Parts : Has(<<d, p>>) =>
              tree[<<d, p>>] = "rendered" \/ (<<d, p>> = errorFile /\ tree[errorFile] = "copied")
<1> DEFINE there == {f \in buildTemplateMappings(d) : tree[f] = "rendered"}
<1>1. /\ there = {} \/ there = buildTemplateMappings(d)
      /\ Has(<<d, "endpoint">>) => there # {} /\ Has(<<d, "endpoint_dto">>)
  BY DEF whole
<1>2. d \in Domains /\ d \notin Shipped
  BY GeneratorAssumption DEF Domains, Shipped
<1>3. ASSUME NEW p \in Parts, Has(<<d, p>>)
      PROVE  tree[<<d, p>>] = "rendered" \/ (<<d, p>> = errorFile /\ tree[errorFile] = "copied")
  <2>1. <<d, p>> \in Files
    BY <1>2, Pairs
  <2>2. tree[<<d, p>>] \in {"copied", "switched", "rendered"}
    BY <1>3, <2>1 DEF TreeSane, Texts, Has
  <2> QED
    BY <1>2, <2>2 DEF TreeSane
<1>4. \/ \A f \in buildTemplateMappings(d) : tree[f] = "rendered"
      \/ \A f \in buildTemplateMappings(d) : tree[f] # "rendered"
  <2>1. CASE there = {}
    BY <2>1
  <2>2. CASE there = buildTemplateMappings(d)
    BY <2>2
  <2> QED
    BY <1>1, <2>1, <2>2
<1>5. there # {} => \A f \in buildTemplateMappings(d) : tree[f] = "rendered"
  BY <1>4
<1>6. Has(<<d, "endpoint">>) =>
        (\A f \in buildTemplateMappings(d) : tree[f] = "rendered") /\ Has(<<d, "endpoint_dto">>)
  BY <1>1, <1>5, Zenon
<1> HIDE DEF there
<1> QED
  BY <1>3, <1>4, <1>6, Zenon

LEMMA WholeCompiles ==
  ASSUME TreeSane, tree[errorFile] = "copied", NEW d \in NewDomains, whole(d)
  PROVE  domainCompiles(d)
<1>1. d \in Domains /\ d \notin Shipped /\ d # "user"
  BY GeneratorAssumption DEF Domains, Shipped
<1> DEFINE made == {"dir", "entity", "filter", "ports", "repository", "handler", "router"} \cup CRUD
<1>2. \A p \in made : <<d, p>> \in buildTemplateMappings(d)
  BY DEF buildTemplateMappings
<1>3. endpointCompiles(d)
  BY <1>2, WholeIs DEF endpointCompiles, Has
<1>4. ASSUME NEW p \in Parts PROVE compiles(d, p)
  <2> SUFFICES ASSUME Has(<<d, p>>), ~(<<d, p>> = errorFile)
               PROVE  /\ tree[<<d, p>>] = "rendered"
                      /\ \A q \in needs(d, p) : tree[<<d, q>>] = "rendered"
    BY <1>1 DEF compiles
  <2>1. tree[<<d, p>>] = "rendered"
    BY WholeIs
  <2>2. p # "vo"
    BY <1>1, <2>1 DEF TreeSane
  <2>3. CASE p \in {"endpoint", "endpoint_dto"}
    BY <2>1, <2>3, NeedsAre
  <2>4. CASE p \notin {"endpoint", "endpoint_dto"}
    <3>1. p \in made
      BY <2>2, <2>4, PartsAre
    <3>2. \A q \in made : tree[<<d, q>>] = "rendered"
      BY <1>2, <2>1, <3>1, WholeIs
    <3>3. needs(d, p) \subseteq made
      <4>1. CASE p = "handler"
        BY <2>1, <4>1, NeedsAre
      <4>2. CASE p # "handler"
        BY <2>2, <2>4, <4>2, NeedsAre, PartsAre
      <4> QED
        BY <4>1, <4>2
    <3> QED
      BY <2>1, <3>2, <3>3
  <2> QED
    BY <2>3, <2>4
<1> QED
  BY <1>3, <1>4 DEF domainCompiles

\* The gRPC handlers keep the examples as they were copied, and so error.go.
LEMMA BuildsKeepsExamples ==
  ASSUME TreeSane, CopiesKept, grpcCompiles, \A d \in Domains : domainCompiles(d)
  PROVE  examplesIntact /\ tree[errorFile] = "copied"
<1>1. ASSUME NEW d \in Shipped
      PROVE  tree[<<d, "ports">>] = "copied" /\ tree[<<d, "entity">>] = "copied" /\ tree[<<d, "filter">>] = "copied"
  <2>1. tree[<<d, "ports">>] = "copied"
    BY DEF grpcCompiles
  <2>2. compiles(d, "ports") /\ "ports" \in Parts
    BY ShippedFacts, PartsAre DEF domainCompiles
  <2>3. needs(d, "ports") = {"entity", "filter"}
    BY <2>2, NeedsAre
  <2>4. <<d, "ports">> # errorFile /\ Has(<<d, "ports">>)
    BY <2>1 DEF errorFile, Has
  <2> QED
    BY <2>1, <2>2, <2>3, <2>4 DEF compiles
<1>2. tree[<<"user", "vo">>] = "copied"
  <2>1. "user" \in Shipped /\ "user" \in Domains /\ "entity" \in Parts /\ "vo" \in Parts
    BY PartsAre DEF Shipped, Domains
  <2>2. compiles("user", "entity") /\ tree[<<"user", "entity">>] = "copied"
    BY <1>1, <2>1 DEF domainCompiles
  <2>3. Has(<<"user", "vo">>)
    BY <2>2 DEF compiles, errorFile, Has
  <2>4. <<"user", "vo">> \in Files
    BY <2>1, Pairs
  <2>5. /\ tree[<<"user", "vo">>] # "switched" /\ tree[<<"user", "vo">>] # "rendered"
    BY <2>1 DEF TreeSane
  <2> QED
    BY <2>3, <2>4, <2>5 DEF TreeSane, Texts, Has
<1>3. ASSUME NEW d \in Shipped, NEW p \in shippedParts(d)
      PROVE  tree[<<d, p>>] = "copied"
  <2>1. HeadIntact(d)
    BY <1>1, <1>2 DEF HeadIntact
  <2>2. tree[<<d, p>>] = "copied" \/ (p = "repository" /\ tree[<<d, p>>] = "switched")
    BY <2>1 DEF CopiesKept, CopyKept
  <2>3. compiles(d, p)
    BY ShippedFacts DEF domainCompiles
  <2> QED
    BY <2>2, <2>3 DEF compiles, Has, errorFile
<1>4. tree[errorFile] = "copied"
  <2>1. "user" \in Shipped /\ "user" \in Domains /\ "handler" \in Parts /\ "handler" \in shippedParts("user")
    BY PartsAre DEF Shipped, Domains, shippedParts
  <2>2. compiles("user", "handler") /\ tree[<<"user", "handler">>] = "copied"
    BY <1>3, <2>1 DEF domainCompiles
  <2> QED
    BY <2>2 DEF compiles, Has, errorFile
<1> QED
  BY <1>3, <1>4 DEF examplesIntact

-----------------------------------------------------------------------------
(***************************************************************************)
(* "wiring"                                                                *)
(***************************************************************************)
\* A scanned domain can be constructed as it was detected.
LEMMA DetectedIsConstructible ==
  ASSUME TreeSane, CopiesKept, examplesIntact, \A d \in NewDomains : whole(d),
         NEW d \in Domains, hasDomainInfrastructure(d)
  PROVE  constructible(DetectDomainInfo(d))
<1> DEFINE i == DetectDomainInfo(d)
<1>1. /\ i.name = d /\ i.ops = {o \in CRUD : Has(<<d, o>>)}
      /\ \A o \in i.ops : Has(<<d, o>>)
  BY DetectIs
<1>2. Has(<<d, "repository">>) /\ Has(<<d, "handler">>)
  BY DEF hasDomainInfrastructure
<1>3. CASE d \in Shipped
  <2>1. tree[<<d, "handler">>] = "copied"
    BY <1>3 DEF examplesIntact, shippedParts
  <2>2. opsOf(d) \subseteq CRUD /\ \A o \in opsOf(d) : Has(<<d, o>>)
    BY <1>3, ShippedFacts DEF examplesIntact, shippedParts, Has
  <2>3. \A o \in CRUD \ opsOf(d) : ~Has(<<d, o>>)
    <3>1. tree[<<d, "entity">>] = "copied" /\ CopyKept(d)
      BY <1>3 DEF CopiesKept, examplesIntact, shippedParts
    <3> QED
      BY <3>1 DEF CopyKept
  <2>4. {o \in CRUD : Has(<<d, o>>)} = opsOf(d)
    BY <2>2, <2>3
  <2>5. i = shippedInfo(d)
    BY <2>1, <2>4 DEF shippedInfo, DetectDomainInfo
  <2> HIDE DEF i
  <2>6. /\ Has(<<i.name, "repository">>) /\ \A o \in i.ops : Has(<<i.name, o>>)
        /\ tree[<<i.name, "handler">>] = "copied" /\ i = shippedInfo(i.name)
    BY <1>1, <1>2, <2>1, <2>5
  <2>7. constructible(i)
    BY <2>6, Zenon DEF constructible
  <2> QED
    BY <2>7 DEF i
<1>4. CASE d \notin Shipped
  <2>1. d \in NewDomains /\ "handler" \in Parts /\ "repository" \in Parts
    BY <1>4, PartsAre DEF Domains
  <2>2. tree[<<d, "repository">>] = "rendered"
    BY <1>2, <2>1, WholeIs DEF errorFile
  <2>3. \A f \in buildTemplateMappings(d) : tree[f] = "rendered"
    <3>1. <<d, "repository">> \in buildTemplateMappings(d)
      BY DEF buildTemplateMappings
    <3> QED
      BY <2>1, <2>2, <3>1, WholeIs
  <2>4. tree[<<d, "handler">>] = "rendered" /\ \A o \in CRUD : Has(<<d, o>>)
    BY <2>3 DEF buildTemplateMappings, Has
  <2>5. {o \in CRUD : Has(<<d, o>>)} = CRUD /\ d # "user"
    BY <1>4, <2>4 DEF Shipped
  <2>6. i = NewDomainInfo(d)
    BY <2>5 DEF NewDomainInfo, DetectDomainInfo
  <2> HIDE DEF i
  <2>7. /\ Has(<<i.name, "repository">>) /\ \A o \in i.ops : Has(<<i.name, o>>)
        /\ tree[<<i.name, "handler">>] = "rendered" /\ i = NewDomainInfo(i.name)
    BY <1>1, <1>2, <2>4, <2>6
  <2>8. constructible(i)
    BY <2>7 DEF constructible
  <2> QED
    BY <2>8 DEF i
<1> QED
  BY <1>3, <1>4

Kept == (\A f \in Features \cup {errorFile} : tree[f] = "copied") /\ examplesIntact

LEMMA WiringBuilds ==
  ASSUME TreeSane, CopiesKept, DOMAIN wiring = AllWiring, \A w \in AllWiring : wiring[w] = Scanned,
         Kept, \A d \in NewDomains : whole(d),
         \A d \in Shipped : Has(<<d, "endpoint">>) => Has(<<d, "endpoint_dto">>)
  PROVE  Builds
<1>1. /\ Has(<<"pkg", "redisclient">>) /\ Has(<<"pkg", "idempotency">>) /\ Has(<<"pkg", "telemetry">>)
      /\ Has(<<"pkg", "docs">>) /\ Has(<<"mw", "idempotency">>) /\ Has(<<"mw", "service_key">>)
      /\ tree[errorFile] = "copied" /\ examplesIntact
  BY DEF Kept, Features, Has
<1>2. \A d \in Domains : domainCompiles(d)
  BY <1>1, ShippedCompiles, WholeCompiles DEF Domains
<1>3. grpcCompiles /\ middlewareCompiles
  BY <1>1 DEF grpcCompiles, middlewareCompiles, examplesIntact, shippedParts
<1>4. /\ wiring["server"] = Scanned /\ wiring["router"] = Scanned
      /\ wiring["container"] = Scanned /\ wiring["test_helpers"] = Scanned
  BY DEF AllWiring
<1>5. /\ Scanned.by = "wiring" /\ Scanned.infos = scanDomains
  BY DEF Scanned, content
<1>6. \A i \in scanDomains : Has(<<i.name, "router">>) /\ Has(<<i.name, "handler">>) /\ constructible(i)
  <2> SUFFICES ASSUME NEW d \in Domains, hasDomainInfrastructure(d)
               PROVE  /\ Has(<<DetectDomainInfo(d).name, "router">>)
                      /\ Has(<<DetectDomainInfo(d).name, "handler">>)
                      /\ constructible(DetectDomainInfo(d))
    BY ScanIs
  <2> QED
    BY <1>1, DetectIs, DetectedIsConstructible DEF hasDomainInfrastructure
<1>7. scanDomains # {}
  <2>1. "user" \in Domains /\ "user" \in Shipped
    BY DEF Domains, Shipped
  <2>2. domainExists("user") /\ hasDomainInfrastructure("user")
    BY <1>1, <2>1 DEF examplesIntact, shippedParts, domainExists, hasDomainInfrastructure, Has
  <2>3. DetectDomainInfo("user") \in scanDomains
    BY <2>1, <2>2, ScanIs
  <2> QED
    BY <2>3
<1>8. serverCompiles
  BY <1>1, <1>4, <1>5 DEF serverCompiles, serverImports, containerServer
<1>9. routerCompiles
  BY <1>1, <1>4, <1>5, <1>6 DEF routerCompiles
<1>10. containerCompiles
  BY <1>1, <1>4, <1>5, <1>6, <1>7 DEF containerCompiles
<1>11. testHelpersCompile
  BY <1>1, <1>4, <1>5, <1>6, <1>7 DEF testHelpersCompile
<1>12. noneTorn
  BY <1>5 DEF noneTorn
<1> QED
  BY <1>2, <1>3, <1>8, <1>9, <1>10, <1>11, <1>12 DEF Builds

LEMMA BuildsHasAll ==
  ASSUME TreeSane, CopiesKept, \A w \in AllWiring : wiring[w] = Scanned, Builds
  PROVE  Kept
<1>1. examplesIntact /\ tree[errorFile] = "copied"
  BY BuildsKeepsExamples DEF Builds
<1>2. /\ wiring["server"] = Scanned /\ wiring["router"] = Scanned
      /\ wiring["container"] = Scanned /\ wiring["test_helpers"] = Scanned
  BY DEF AllWiring
<1>3. /\ Scanned.infos = scanDomains /\ Scanned.redis /\ Scanned.idempotency /\ Scanned.auth
  BY DEF Scanned, content
<1>4. scanDomains # {} /\ Has(<<"pkg", "telemetry">>)
  BY <1>2, <1>3 DEF Builds, containerCompiles
<1>5. Has(<<"pkg", "redisclient">>) /\ Has(<<"pkg", "idempotency">>) /\ Has(<<"pkg", "docs">>)
  BY <1>2, <1>3, <1>4 DEF Builds, serverCompiles, serverImports
<1>6. Has(<<"mw", "idempotency">>) /\ Has(<<"mw", "service_key">>)
  BY <1>2, <1>3 DEF Builds, routerCompiles
<1>7. \A f \in Features : Has(f)
  BY <1>4, <1>5, <1>6 DEF Features
<1>8. \A f \in Features : tree[f] = "copied"
  BY <1>7 DEF TreeSane, Has
<1> QED
  BY <1>1, <1>8 DEF Kept

\* Regenerating the wiring mends any tree that has every feature, both examples
\* and no half-made domain, whatever commands and interruptions came before, for
\* any use cases and any names of new domains (WiringMends); and it builds no
\* other: RegenerateFromDomains assumes every feature, and the gRPC handlers
\* both examples.
THEOREM WiringAlwaysMends == Spec => []WiringMends
<1>1. IInv => WiringMends
  <2> SUFFICES ASSUME IInv, last[1] = "wiring"
               PROVE  /\ Kept /\ (\A d \in NewDomains : whole(d))
                            /\ (\A d \in Shipped : Has(<<d, "endpoint">>) => Has(<<d, "endpoint_dto">>)) => Builds
                      /\ Builds => Kept
    BY DEF WiringMends, Kept
  <2>1. /\ TreeSane /\ CopiesKept /\ \A w \in AllWiring : wiring[w] = Scanned
        /\ DOMAIN wiring = AllWiring
    BY DEF IInv, WiringFresh, NewSteps, Scanned
  <2> QED
    BY <2>1, WiringBuilds, BuildsHasAll
<1> QED
  BY <1>1, Inductive, PTL

-----------------------------------------------------------------------------
(***************************************************************************)
(* "new"                                                                   *)
(***************************************************************************)
\* Which features the pruning leaves.
LEMMA FinalFeatures ==
  ASSUME config \in Configs, config.examples
  PROVE  /\ FinalText(<<"pkg", "telemetry">>) = "copied" /\ FinalText(<<"pkg", "docs">>) = "copied"
         /\ config.redis => FinalText(<<"pkg", "redisclient">>) = "copied"
         /\ config.idempotency => FinalText(<<"pkg", "idempotency">>) = "copied"
         /\ IF config.idempotency THEN FinalText(<<"mw", "idempotency">>) = "copied"
            ELSE FinalText(<<"mw", "idempotency">>) = "absent"
         /\ config.auth => FinalText(<<"mw", "service_key">>) = "copied"
<1>1. config.idempotency => config.redis
  BY ConfigIs
<1>2. \A f \in Features : FinalText(f) = IF f \in toRemove THEN "absent" ELSE "copied"
  BY TextsAreSane DEF FinalText, PrunedText
<1>3. <<"pkg", "telemetry">> \notin toRemove /\ <<"pkg", "docs">> \notin toRemove
  BY DeclinedFacts DEF DeclinedBy, FeatureFiles, Shipped
<1>4. config.redis => <<"pkg", "redisclient">> \notin toRemove
  BY DeclinedFacts DEF DeclinedBy, FeatureFiles, Shipped
<1>5. config.idempotency => <<"pkg", "idempotency">> \notin toRemove
  BY <1>1, DeclinedFacts DEF DeclinedBy, FeatureFiles, Shipped
<1>6. IF config.idempotency THEN <<"mw", "idempotency">> \notin toRemove ELSE <<"mw", "idempotency">> \in toRemove
  BY DeclinedFacts DEF DeclinedBy, FeatureFiles, Shipped
<1>7. config.auth => <<"mw", "service_key">> \notin toRemove
  BY DeclinedFacts DEF DeclinedBy, FeatureFiles, Shipped
<1> QED
  BY <1>2, <1>3, <1>4, <1>5, <1>6, <1>7 DEF Features

LEMMA NewBuilds ==
  ASSUME IInv, last[1] = "new", config.examples, config.db \notin DBDrivers
  PROVE  Builds
<1>1. /\ \A f \in Files : tree[f] = FinalText(f)
      /\ \A w \in AllWiring : wiring[w] = NewWiring(w)
      /\ TreeSane /\ CopiesKept /\ config \in Configs
  BY DEF IInv, NewSteps
<1>2. \A d \in Domains, p \in Parts : tree[<<d, p>>] = CopyText(<<d, p>>)
  <2>1. \A f : DriverText(f) = CopyText(f)
    BY DEF DriverText
  <2>2. \A d \in Domains, p \in Parts : FinalText(<<d, p>>) = DriverText(<<d, p>>)
    BY NewTexts
  <2> QED
    BY <1>1, <2>1, <2>2, Pairs
<1>3. examplesIntact
  <2> SUFFICES ASSUME NEW d \in Shipped, NEW p \in shippedParts(d)
               PROVE  tree[<<d, p>>] = "copied"
    BY DEF examplesIntact
  <2>1. d \in Domains /\ p \in Parts
    BY ShippedFacts
  <2> QED
    BY <1>2, <2>1, TextsAreSane
<1>4. tree[errorFile] = "copied"
  <2>1. errorFile \notin toRemove /\ errorFile \in Files /\ errorFile # <<"pkg", "docs">>
    BY DeclinedFacts, FeatureFacts DEF DeclinedBy, FeatureFiles, Shipped, errorFile
  <2>2. DriverText(errorFile) = "copied"
    BY DEF DriverText, CopyText, errorFile, Shipped
  <2> QED
    BY <1>1, <2>1, <2>2 DEF FinalText, PrunedText
<1>5. /\ Has(<<"pkg", "telemetry">>) /\ Has(<<"pkg", "docs">>)
      /\ config.redis => Has(<<"pkg", "redisclient">>)
      /\ config.idempotency => Has(<<"pkg", "idempotency">>)
      /\ config.idempotency <=> Has(<<"mw", "idempotency">>)
      /\ config.auth => Has(<<"mw", "service_key">>)
  <2>1. \A f \in Features : tree[f] = FinalText(f)
    BY <1>1, FeatureFacts
  <2> QED
    BY <1>1, <2>1, FinalFeatures DEF Has, Features
<1>6. ASSUME NEW d \in Domains, NEW p \in {"endpoint", "endpoint_dto"} PROVE ~Has(<<d, p>>)
  <2>1. p \in Parts /\ <<d, p>> # errorFile
    BY PartsAre DEF errorFile
  <2>2. d \in Shipped => p \notin shippedParts(d)
    BY ShippedFacts
  <2>3. <<d, p>> \in Files
    BY <2>1, Pairs
  <2> QED
    BY <1>2, <2>1, <2>2, <2>3, TextsAreSane DEF Has
<1>7. ASSUME NEW d \in NewDomains PROVE whole(d)
  <2>1. d \in Domains /\ d \notin Shipped
    BY GeneratorAssumption DEF Domains, Shipped
  <2>2. buildTemplateMappings(d) \subseteq {d} \X Parts
    BY PartsAre DEF buildTemplateMappings
  <2>3. \A p \in Parts : CopyText(<<d, p>>) # "rendered"
    BY <2>1, Pairs, TextsAreSane
  <2>4. {f \in buildTemplateMappings(d) : tree[f] = "rendered"} = {}
    BY <1>2, <2>1, <2>2, <2>3
  <2> QED
    BY <1>6, <2>1, <2>4 DEF whole
<1>8. \A d \in Domains : domainCompiles(d)
  <2>1. ASSUME NEW d \in Shipped PROVE domainCompiles(d)
    BY <1>1, <1>3, <1>4, <1>5, <1>6, ShippedCompiles, ShippedFacts
  <2>2. ASSUME NEW d \in NewDomains PROVE domainCompiles(d)
    BY <1>1, <1>4, <1>7, WholeCompiles
  <2> QED
    BY <2>1, <2>2 DEF Domains
<1>9. grpcCompiles /\ middlewareCompiles
  BY <1>3, <1>5 DEF grpcCompiles, middlewareCompiles, examplesIntact, shippedParts
<1>10. /\ wiring["server"] = NewContent /\ wiring["router"] = NewContent
       /\ wiring["container"] = copiedWiring /\ wiring["test_helpers"] = NewContent
  BY <1>1 DEF AllWiring, NewWiring
<1>11. /\ NewContent.by = "new" /\ NewContent.infos = copiedWiring.infos
       /\ NewContent.redis = config.redis /\ NewContent.idempotency = config.idempotency
       /\ NewContent.auth = config.auth
       /\ copiedWiring.infos = {shippedInfo(d) : d \in Shipped}
  BY DEF NewContent, content, copiedWiring
<1>12. ASSUME NEW i \in copiedWiring.infos
       PROVE  constructible(i) /\ Has(<<i.name, "router">>) /\ Has(<<i.name, "handler">>)
  <2>1. PICK d \in Shipped : i = shippedInfo(d)
    BY <1>11
  <2>2. i.name = d /\ i.ops = opsOf(d)
    BY <2>1 DEF shippedInfo
  <2>3. /\ tree[<<d, "handler">>] = "copied" /\ Has(<<d, "repository">>) /\ Has(<<d, "router">>)
        /\ \A o \in opsOf(d) : Has(<<d, o>>)
    BY <1>3 DEF examplesIntact, shippedParts, Has
  <2>4. constructible(i)
    BY <2>1, <2>2, <2>3 DEF constructible
  <2> QED
    BY <2>2, <2>3, <2>4 DEF Has
<1>13. copiedWiring.infos # {}
  BY <1>11 DEF Shipped
<1>14. serverCompiles
  <2>1. serverImports(NewContent) /\ newServer(NewContent)
    BY <1>5, <1>11, <1>12, <1>13 DEF serverImports, newServer
  <2> QED
    BY <1>10, <1>11, <2>1 DEF serverCompiles
<1>15. routerCompiles
  BY <1>5, <1>10, <1>11, <1>12 DEF routerCompiles
<1>16. containerCompiles
  BY <1>5, <1>10, <1>12, <1>13 DEF containerCompiles
<1>17. testHelpersCompile
  BY <1>5, <1>10, <1>11, <1>12 DEF testHelpersCompile
<1>18. noneTorn
  BY <1>1 DEF noneTorn, IInv, NewSteps, NewWiring, NewContent, copiedWiring, content
<1> QED
  BY <1>8, <1>9, <1>14, <1>15, <1>16, <1>17, <1>18 DEF Builds

\* A completed "new" builds exactly when it keeps the examples and PostgreSQL,
\* for every choice of the other features (NewBuildsWithExamples): what pruning
\* deletes, the three rendered wiring files no longer name.
THEOREM NewBuildsExactlyWithExamples == Spec => []NewBuildsWithExamples
<1>1. IInv => NewBuildsWithExamples
  <2> SUFFICES ASSUME IInv, last[1] = "new"
               PROVE  Builds <=> config.examples /\ config.db \notin DBDrivers
    BY DEF NewBuildsWithExamples
  <2>1. \A f \in Files : tree[f] = FinalText(f)
    BY DEF IInv, NewSteps
  <2>2. "user" \in Shipped /\ "user" \in Domains /\ "ports" \in Parts /\ "repository" \in Parts
    BY PartsAre DEF Shipped, Domains
  <2>3. CASE ~config.examples
    <3>1. tree[<<"user", "ports">>] = "absent"
      BY <2>1, <2>2, <2>3, NewTexts, Pairs
    <3>2. ~grpcCompiles
      BY <2>2, <3>1 DEF grpcCompiles
    <3> QED
      BY <2>3, <3>2 DEF Builds
  <2>4. CASE config.examples /\ config.db \in DBDrivers
    <3>1. tree[<<"user", "repository">>] = "switched"
      BY <2>1, <2>2, <2>4, NewTexts, Pairs DEF DriverText
    <3>2. ~compiles("user", "repository")
      BY <3>1 DEF compiles, Has, errorFile
    <3> QED
      BY <2>2, <2>4, <3>2 DEF Builds, domainCompiles
  <2>5. CASE config.examples /\ config.db \notin DBDrivers
    BY <2>5, NewBuilds
  <2> QED
    BY <2>3, <2>4, <2>5
<1> QED
  BY <1>1, Inductive, PTL

-----------------------------------------------------------------------------
(***************************************************************************)
(* The commands on a tree that builds                                      *)
(***************************************************************************)
LEMMA NeedsNext ==
  ASSUME NEW d \in Domains, NEW p \in Parts
  PROVE  /\ p # "handler" => needs(d, p)' = needs(d, p)
         /\ p = "handler" => needs(d, p)' = {"ports"} \cup (IF tree'[<<d, p>>] = "copied" THEN opsOf(d) ELSE CRUD)
<1>1. p # "handler" => needs(d, p)' = needs(d, p)
  BY DEF needs
<1>2. CASE p = "handler"
  <2>1. p \notin CRUD
    BY <1>2, GeneratorAssumption
  <2> QED
    BY <1>2, <2>1 DEF needs
<1> QED
  BY <1>1, <1>2

\* The files other domains look at.
SharedKept ==
  /\ tree'[errorFile] = tree[errorFile]
  /\ tree'[<<"pkg", "telemetry">>] = tree[<<"pkg", "telemetry">>]
  /\ tree'[<<"user", "vo">>] = tree[<<"user", "vo">>]

LEMMA CompilesStays ==
  ASSUME SharedKept, NEW d \in Domains, NEW p \in Parts, compiles(d, p), tree'[<<d, p>>] = tree[<<d, p>>],
         \A q \in Parts \ {"endpoint", "endpoint_dto"} : tree'[<<d, q>>] = tree[<<d, q>>]
  PROVE  compiles(d, p)'
<1>1. needs(d, p)' = needs(d, p)
  <2>1. CASE p = "handler"
    <3>1. needs(d, p)' = {"ports"} \cup (IF tree'[<<d, p>>] = "copied" THEN opsOf(d) ELSE CRUD)
      BY <2>1, NeedsNext
    <3>2. needs(d, p) = {"ports"} \cup (IF tree[<<d, p>>] = "copied" THEN opsOf(d) ELSE CRUD)
      BY <2>1, NeedsAre
    <3> QED
      BY <3>1, <3>2
  <2> QED
    BY <2>1, NeedsNext
<1>2. \A q \in needs(d, p) : tree'[<<d, q>>] = tree[<<d, q>>]
  BY NeedsParts
<1>3. /\ tree'[errorFile] = tree[errorFile]
      /\ Has(<<"user", "vo">>)' = Has(<<"user", "vo">>)
      /\ Has(<<"pkg", "telemetry">>)' = Has(<<"pkg", "telemetry">>)
      /\ Has(<<d, p>>)' = Has(<<d, p>>)
  BY DEF SharedKept, Has
<1> QED
  BY <1>1, <1>2, <1>3 DEF compiles

LEMMA DomainStays ==
  ASSUME SharedKept, NEW d \in Domains, domainCompiles(d), \A p \in Parts : tree'[<<d, p>>] = tree[<<d, p>>]
  PROVE  domainCompiles(d)'
<1>1. \A p \in Parts : compiles(d, p)'
  BY CompilesStays DEF domainCompiles
<1>2. endpointCompiles(d)'
  BY PartsAre DEF domainCompiles, endpointCompiles, Has
<1> QED
  BY <1>1, <1>2 DEF domainCompiles

LEMMA ConstructibleStays ==
  ASSUME NEW i, constructible(i), i.ops \subseteq CRUD,
         \A p \in {"repository", "handler", "router"} \cup CRUD : Has(<<i.name, p>>) => Has(<<i.name, p>>)',
         tree[<<i.name, "handler">>] \in {"copied", "rendered"}
           => tree'[<<i.name, "handler">>] = tree[<<i.name, "handler">>]
  PROVE  constructible(i)'
<1>1. /\ Has(<<i.name, "repository">>)' /\ \A o \in i.ops : Has(<<i.name, o>>)'
      /\ tree[<<i.name, "handler">>] \in {"copied", "rendered"}
  BY DEF constructible
<1>2. tree'[<<i.name, "handler">>] = tree[<<i.name, "handler">>]
  BY <1>1
<1> QED
  BY <1>1, <1>2 DEF constructible

\* The files the wiring names.
NamedKept ==
  \A w \in AllWiring : \A i \in wiring[w].infos :
    /\ \A p \in {"repository", "handler", "router"} \cup CRUD : Has(<<i.name, p>>) => Has(<<i.name, p>>)'
    /\ tree[<<i.name, "handler">>] \in {"copied", "rendered"}
         => tree'[<<i.name, "handler">>] = tree[<<i.name, "handler">>]

LEMMA WiringStays ==
  ASSUME IInv, phase = "ready", Builds, wiring' = wiring, NamedKept,
         \A f \in Features : tree'[f] = tree[f],
         \A d \in Shipped : \A p \in {"ports"} \cup opsOf(d) : tree'[<<d, p>>] = tree[<<d, p>>],
         \A d \in Domains : domainCompiles(d)'
  PROVE  Builds'
<1>1. \A f \in Features : Has(f)' = Has(f)
  BY DEF Has
<1>2. /\ Has(<<"pkg", "redisclient">>)' = Has(<<"pkg", "redisclient">>)
      /\ Has(<<"pkg", "idempotency">>)' = Has(<<"pkg", "idempotency">>)
      /\ Has(<<"pkg", "telemetry">>)' = Has(<<"pkg", "telemetry">>)
      /\ Has(<<"pkg", "docs">>)' = Has(<<"pkg", "docs">>)
      /\ Has(<<"mw", "idempotency">>)' = Has(<<"mw", "idempotency">>)
      /\ Has(<<"mw", "service_key">>)' = Has(<<"mw", "service_key">>)
  BY <1>1 DEF Features
<1>3. {"server", "router", "container", "test_helpers"} = AllWiring
  BY DEF AllWiring
<1>4. ASSUME NEW w \in AllWiring, NEW i \in wiring[w].infos, constructible(i)
      PROVE  constructible(i)'
  BY <1>4, ConstructibleStays DEF NamedKept, IInv, InfosKnown
<1>5. ASSUME NEW w \in AllWiring, NEW i \in wiring[w].infos, NEW p \in {"router", "handler"}, Has(<<i.name, p>>)
      PROVE  Has(<<i.name, p>>)'
  BY <1>5 DEF NamedKept
<1>6. noneTorn' /\ grpcCompiles' /\ middlewareCompiles'
  BY <1>2 DEF Builds, noneTorn, grpcCompiles, middlewareCompiles
<1>7. serverCompiles'
  <2> DEFINE s == wiring["server"]
  <2>1. serverImports(s)'
    BY <1>2 DEF Builds, serverCompiles, serverImports
  <2>2. fields(s)' \subseteq fields(wiring["router"])'
    BY DEF Builds, serverCompiles, fields
  <2>3. CASE s.by = "new"
    <3>1. newServer(s)
      BY <2>3 DEF Builds, serverCompiles
    <3>2. newServer(s)'
      BY <1>3, <1>4, <3>1 DEF newServer
    <3> QED
      BY <2>1, <2>2, <2>3, <3>2 DEF serverCompiles
  <2>4. CASE s.by # "new"
    <3>1. containerServer(s)
      BY <2>4 DEF Builds, serverCompiles
    <3>2. containerServer(s)'
      BY <3>1 DEF containerServer
    <3> QED
      BY <2>1, <2>2, <2>4, <3>2 DEF serverCompiles
  <2> QED
    BY <2>3, <2>4
<1>8. routerCompiles'
  BY <1>2, <1>3, <1>5 DEF Builds, routerCompiles
<1>9. containerCompiles'
  BY <1>2, <1>3, <1>4 DEF Builds, containerCompiles
<1>10. testHelpersCompile'
  BY <1>2, <1>3, <1>5 DEF Builds, testHelpersCompile
<1> QED
  BY <1>6, <1>7, <1>8, <1>9, <1>10 DEF Builds

\* Two domains do not share a file: what a command does to one of them leaves
\* the others, the examples among them, as they compiled.
LEMMA OthersStay ==
  ASSUME IInv, Builds, NEW d \in Domains, d # "error", NEW files \in SUBSET ({d} \X Parts),
         NEW text \in {"absent", "rendered"}, tree' = with(files, text), <<"user", "vo">> \notin files
  PROVE  /\ SharedKept
         /\ \A f \in Features : tree'[f] = tree[f]
         /\ \A e \in Domains \ {d}, p \in Parts : tree'[<<e, p>>] = tree[<<e, p>>]
         /\ \A e \in Domains \ {d} : domainCompiles(e)'
         /\ \A f \in Files : tree'[f] = IF f \in files THEN text ELSE tree[f]
<1>1. /\ \A f \in Files : tree'[f] = IF f \in files THEN text ELSE tree[f]
      /\ \A f \in Files : f[1] # d => f \notin files
  BY WithText DEF IInv, Texts
<1>2. \A f \in Features : tree'[f] = tree[f]
  BY <1>1, FeatureFacts
<1>3. \A e \in Domains \ {d}, p \in Parts : tree'[<<e, p>>] = tree[<<e, p>>]
  BY <1>1, Pairs
<1>4. SharedKept
  <2>1. "user" \in Domains /\ "vo" \in Parts
    BY PartsAre DEF Domains, Shipped
  <2>2. <<"user", "vo">> \in Files
    BY <2>1, Pairs
  <2>3. errorFile \in Files /\ errorFile[1] # d
    BY FeatureFacts DEF errorFile
  <2> QED
    BY <1>1, <1>2, <2>2, <2>3 DEF SharedKept, Features
<1>5. ASSUME NEW e \in Domains \ {d} PROVE domainCompiles(e)'
  <2>1. domainCompiles(e)
    BY DEF Builds
  <2> QED
    BY <1>3, <1>4, <2>1, DomainStays
<1> QED
  BY <1>1, <1>2, <1>3, <1>4, <1>5

\* "add domain" on a tree that builds: error.go is the one file it can spoil.
LEMMA AddDomainBuilds ==
  ASSUME IInv, Builds, phase = "ready", NEW d \in Domains, ~domainExists(d), wiring' = wiring,
         tree' = with(buildTemplateMappings(d), "rendered")
  PROVE  Builds' <=> d # "error"
<1> DEFINE made == {"dir", "entity", "filter", "ports", "repository", "handler", "router"} \cup CRUD
<1> DEFINE files == buildTemplateMappings(d)
<1>1. examplesIntact /\ tree[errorFile] = "copied" /\ TreeSane
  BY BuildsKeepsExamples DEF Builds, IInv
<1>2. d \notin Shipped /\ d # "user"
  BY <1>1 DEF Shipped, domainExists, examplesIntact, shippedParts, Has
<1>3. /\ files \in SUBSET ({d} \X Parts) /\ <<"user", "vo">> \notin files
      /\ \A p \in made : <<d, p>> \in files /\ p \in Parts
      /\ \A p \in Parts \ made : <<d, p>> \notin files
  BY <1>2, PartsAre DEF buildTemplateMappings
<1>4. \A f \in Files : tree'[f] = IF f \in files THEN "rendered" ELSE tree[f]
  BY <1>1, WithText DEF Texts
<1> HIDE DEF files
<1>5. CASE d = "error"
  <2>1. <<d, "handler">> = errorFile /\ tree'[errorFile] = "rendered"
    BY <1>3, <1>4, <1>5, FeatureFacts DEF errorFile
  <2>2. "user" \in Domains /\ "handler" \in Parts /\ tree'[<<"user", "handler">>] = "copied"
    <3>1. "user" \in Domains /\ "handler" \in Parts /\ "user" \in Shipped
      BY PartsAre DEF Domains, Shipped
    <3>2. <<"user", "handler">> \in Files /\ <<"user", "handler">> \notin files
      BY <1>2, <1>3, <3>1, Pairs
    <3> QED
      BY <1>1, <1>4, <3>1, <3>2 DEF examplesIntact, shippedParts
  <2>3. ~compiles("user", "handler")'
    BY <2>1, <2>2 DEF compiles, Has, errorFile
  <2> QED
    BY <1>5, <2>2, <2>3 DEF Builds, domainCompiles
<1>6. CASE d # "error"
  <2>1. /\ SharedKept /\ \A f \in Features : tree'[f] = tree[f]
        /\ \A e \in Domains \ {d}, p \in Parts : tree'[<<e, p>>] = tree[<<e, p>>]
        /\ \A e \in Domains \ {d} : domainCompiles(e)'
    BY <1>3, <1>6, OthersStay DEF files
  <2>2. \A p \in made : tree'[<<d, p>>] = "rendered"
    BY <1>3, <1>4, Pairs
  <2>3. ASSUME NEW p \in {"endpoint", "endpoint_dto"}
        PROVE  tree'[<<d, p>>] = tree[<<d, p>>] /\ p \in Parts
    <3>1. p \in Parts \ made /\ <<d, p>> \in Files
      BY PartsAre, Pairs, GeneratorAssumption
    <3> QED
      BY <1>3, <1>4, <3>1
  <2>4. ~Has(<<d, "endpoint">>)
    <3>1. endpointCompiles(d) /\ ~Has(<<d, "entity">>)
      BY PartsAre DEF Builds, domainCompiles, domainExists, IInv, DirsHold
    <3> QED
      BY <3>1 DEF endpointCompiles
  <2>5. endpointCompiles(d)'
    BY <2>3, <2>4 DEF endpointCompiles, Has
  <2>6. ASSUME NEW p \in Parts PROVE compiles(d, p)'
    <3>1. CASE p \in made
      <4>1. needs(d, p)' \subseteq made
        <5>1. CASE p = "handler"
          BY <2>2, <3>1, <5>1, NeedsNext
        <5>2. CASE p # "handler"
          <6>1. needs(d, p)' = needs(d, p)
            BY <5>2, NeedsNext
          <6>2. p \in CRUD => needs(d, p) \subseteq made
            BY NeedsAre
          <6>3. p \notin CRUD => needs(d, p) \subseteq made
            BY <3>1, <5>2, NeedsAre
          <6> QED
            BY <6>1, <6>2, <6>3
        <5> QED
          BY <5>1, <5>2
      <4>2. tree'[<<d, p>>] = "rendered" /\ \A q \in needs(d, p)' : tree'[<<d, q>>] = "rendered"
        BY <2>2, <3>1, <4>1
      <4>3. tree'[errorFile] = "copied"
        BY <1>1, <2>1 DEF SharedKept
      <4> QED
        BY <4>2, <4>3 DEF compiles
    <3>2. CASE p \in {"endpoint", "endpoint_dto"}
      <4>1. tree'[<<d, p>>] # "switched"
        BY <1>1, <1>2, <2>3, <3>2 DEF TreeSane
      <4>2. needs(d, p)' = {} /\ p # "handler" /\ p # "entity"
        <5>1. needs(d, p)' = needs(d, p)
          BY <3>2, NeedsNext
        <5> QED
          BY <3>2, <5>1, NeedsAre
      <4> QED
        BY <4>1, <4>2 DEF compiles
    <3>3. CASE p = "vo"
      <4>1. <<d, p>> \in Files /\ <<d, p>> \notin files /\ <<d, p>> # errorFile
        BY <1>3, <3>3, Pairs, GeneratorAssumption DEF errorFile
      <4>2. tree'[<<d, p>>] = "absent"
        BY <1>1, <1>2, <1>4, <3>3, <4>1 DEF TreeSane, Texts
      <4> QED
        BY <4>2 DEF compiles, Has
    <3> QED
      BY <3>1, <3>2, <3>3, PartsAre
  <2>7. \A e \in Domains : domainCompiles(e)'
    BY <2>1, <2>5, <2>6 DEF domainCompiles
  <2>8. NamedKept
    <3> SUFFICES ASSUME NEW w \in AllWiring, NEW i \in wiring[w].infos
                 PROVE  /\ \A p \in {"repository", "handler", "router"} \cup CRUD :
                             Has(<<i.name, p>>) => Has(<<i.name, p>>)'
                        /\ tree[<<i.name, "handler">>] \in {"copied", "rendered"}
                             => tree'[<<i.name, "handler">>] = tree[<<i.name, "handler">>]
      BY DEF NamedKept
    <3>1. i.name \in Domains /\ {"repository", "handler", "router"} \cup CRUD \subseteq Parts
      BY PartsAre DEF IInv, InfosKnown
    <3>2. CASE i.name # d
      BY <2>1, <3>1, <3>2 DEF Has
    <3>3. CASE i.name = d
      <4>1. \A p \in {"repository", "handler", "router"} \cup CRUD : Has(<<i.name, p>>)'
        BY <2>2, <3>3 DEF Has
      <4>2. tree[<<d, "handler">>] # "copied"
        <5>1. "handler" \in Parts /\ <<d, "handler">> # errorFile
          BY <1>6, PartsAre DEF errorFile
        <5> QED
          BY <1>1, <1>2, <5>1 DEF TreeSane
      <4> QED
        BY <2>2, <3>3, <4>1, <4>2
    <3> QED
      BY <3>2, <3>3
  <2>9. \A e \in Shipped : \A p \in {"ports"} \cup opsOf(e) : tree'[<<e, p>>] = tree[<<e, p>>]
    BY <1>2, <2>1, PartsAre, ShippedFacts
  <2> QED
    BY <1>6, <2>1, <2>7, <2>8, <2>9, WiringStays
<1> QED
  BY <1>5, <1>6

\* "remove domain" on a tree that builds: the wiring it leaves must not name it.
LEMMA RemoveDomainBuilds ==
  ASSUME IInv, Builds, phase = "ready", NEW d \in Domains, wiring' = wiring,
         tree' = with({d} \X Parts, "absent")
  PROVE  Builds' <=> d # "error" /\ d \notin mentioned
<1>1. examplesIntact /\ tree[errorFile] = "copied" /\ TreeSane
  BY BuildsKeepsExamples DEF Builds, IInv
<1>2. \A f \in Files : tree'[f] = IF f \in {d} \X Parts THEN "absent" ELSE tree[f]
  <2> DEFINE files == {d} \X Parts
  <2>1. "absent" \in Texts /\ tree' = with(files, "absent")
    BY DEF Texts
  <2> HIDE DEF files
  <2>2. \A f \in Files : tree'[f] = IF f \in files THEN "absent" ELSE tree[f]
    BY <1>1, <2>1, WithText
  <2> QED
    BY <2>2 DEF files
<1>3. \A p \in Parts : tree'[<<d, p>>] = "absent"
  BY <1>2, Pairs
<1>4. DOMAIN wiring = AllWiring
  BY DEF IInv, NewSteps
<1>5. CASE d \in Shipped
  <2>1. ~grpcCompiles'
    BY <1>3, <1>5, PartsAre DEF grpcCompiles
  <2> QED
    BY <1>5, <2>1 DEF Builds, mentioned
<1>6. CASE d \notin Shipped /\ d = "error"
  <2>1. errorFile = <<d, "handler">> /\ tree'[errorFile] = "absent"
    BY <1>3, <1>6, PartsAre DEF errorFile
  <2>2. "user" \in Domains /\ "handler" \in Parts /\ tree'[<<"user", "handler">>] = "copied"
    <3>1. "user" \in Domains /\ "handler" \in Parts /\ "user" \in Shipped
      BY PartsAre DEF Domains, Shipped
    <3>2. <<"user", "handler">> \in Files /\ <<"user", "handler">> \notin {d} \X Parts
      BY <1>6, <3>1, Pairs
    <3> QED
      BY <1>1, <1>2, <3>1, <3>2 DEF examplesIntact, shippedParts
  <2>3. ~compiles("user", "handler")'
    BY <2>1, <2>2 DEF compiles, Has, errorFile
  <2> QED
    BY <1>6, <2>2, <2>3 DEF Builds, domainCompiles
<1>7. CASE d \notin Shipped /\ d \in mentioned
  <2>1. PICK w \in AllWiring : \E i \in wiring[w].infos : i.name = d
    BY <1>4, <1>7 DEF mentioned
  <2>2. \A i : i.name = d => ~constructible(i)' /\ ~Has(<<i.name, "router">>)'
    BY <1>3, PartsAre DEF constructible, Has
  <2>3. CASE w = "server"
    <3> SUFFICES ASSUME serverCompiles', containerCompiles' PROVE FALSE
      BY <1>7 DEF Builds
    <3>1. CASE wiring["server"].by = "new"
      BY <2>1, <2>2, <2>3, <3>1 DEF serverCompiles, newServer
    <3>2. CASE wiring["server"].by # "new"
      <4>1. containerServer(wiring["server"])'
        BY <3>2 DEF serverCompiles
      <4>2. \E j \in wiring["container"].infos : j.name = d
        BY <2>1, <2>3, <4>1 DEF containerServer
      <4> QED
        BY <2>2, <4>2 DEF containerCompiles
    <3> QED
      BY <3>1, <3>2
  <2>4. CASE w = "router"
    BY <1>7, <2>1, <2>2, <2>4 DEF Builds, routerCompiles
  <2>5. CASE w = "container"
    BY <1>7, <2>1, <2>2, <2>5 DEF Builds, containerCompiles
  <2>6. CASE w = "test_helpers"
    BY <1>7, <2>1, <2>2, <2>6 DEF Builds, testHelpersCompile
  <2> QED
    BY <2>3, <2>4, <2>5, <2>6 DEF AllWiring
<1>8. CASE d \notin Shipped /\ d # "error" /\ d \notin mentioned
  <2>1. /\ SharedKept /\ \A f \in Features : tree'[f] = tree[f]
        /\ \A e \in Domains \ {d}, p \in Parts : tree'[<<e, p>>] = tree[<<e, p>>]
        /\ \A e \in Domains \ {d} : domainCompiles(e)'
    <3>1. <<"user", "vo">> \notin {d} \X Parts
      BY <1>8 DEF Shipped
    <3> QED
      BY <1>8, <3>1, OthersStay
  <2>2. domainCompiles(d)'
    <3>1. \A p \in Parts : ~Has(<<d, p>>)'
      BY <1>3 DEF Has
    <3> QED
      BY <3>1, PartsAre DEF domainCompiles, endpointCompiles, compiles
  <2>3. NamedKept
    <3> SUFFICES ASSUME NEW w \in AllWiring, NEW i \in wiring[w].infos
                 PROVE  /\ \A p \in {"repository", "handler", "router"} \cup CRUD :
                             Has(<<i.name, p>>) => Has(<<i.name, p>>)'
                        /\ tree[<<i.name, "handler">>] \in {"copied", "rendered"}
                             => tree'[<<i.name, "handler">>] = tree[<<i.name, "handler">>]
      BY DEF NamedKept
    <3>1. i.name \in Domains /\ {"repository", "handler", "router"} \cup CRUD \subseteq Parts
      BY PartsAre DEF IInv, InfosKnown
    <3>2. i.name # d
      BY <1>4, <1>8 DEF mentioned
    <3> QED
      BY <2>1, <3>1, <3>2 DEF Has
  <2>4. \A e \in Shipped : \A p \in {"ports"} \cup opsOf(e) : tree'[<<e, p>>] = tree[<<e, p>>]
    BY <1>8, <2>1, PartsAre, ShippedFacts
  <2>5. \A e \in Domains : domainCompiles(e)'
    BY <2>1, <2>2
  <2> QED
    BY <1>8, <2>1, <2>3, <2>4, <2>5, WiringStays
<1> QED
  BY <1>5, <1>6, <1>7, <1>8

\* "add endpoint" and "remove endpoint" on a tree that builds: no file but the
\* endpoint itself refers to what they write.
LEMMA EndpointBuilds ==
  ASSUME IInv, Builds, phase = "ready", NEW d \in Domains, wiring' = wiring,
         NEW text \in {"absent", "rendered"}, tree' = with(endpointFiles(d), text)
  PROVE  Builds' <=> (text = "rendered" => d \in Shipped \/ Has(<<d, "ports">>))
<1> DEFINE files == endpointFiles(d)
<1>1. examplesIntact /\ tree[errorFile] = "copied" /\ TreeSane
  BY BuildsKeepsExamples DEF Builds, IInv
<1>2. \A f \in Files : tree'[f] = IF f \in files THEN text ELSE tree[f]
  BY <1>1, WithText DEF Texts
<1>3. files = {<<d, "endpoint">>, <<d, "endpoint_dto">>}
  BY DEF endpointFiles
<1> HIDE DEF files
<1>4. ASSUME NEW e \in Domains, NEW p \in Parts, e # d \/ p \notin {"endpoint", "endpoint_dto"}
      PROVE  tree'[<<e, p>>] = tree[<<e, p>>]
  <2>1. <<e, p>> \in Files /\ <<e, p>> \notin files
    BY <1>3, <1>4, Pairs
  <2> QED
    BY <1>2, <2>1
<1>5. \A p \in {"endpoint", "endpoint_dto"} : tree'[<<d, p>>] = text
  <2> SUFFICES ASSUME NEW p \in {"endpoint", "endpoint_dto"} PROVE tree'[<<d, p>>] = text
    OBVIOUS
  <2>1. <<d, p>> \in Files /\ <<d, p>> \in files
    BY <1>3, Pairs, PartsAre
  <2> QED
    BY <1>2, <2>1
<1>6. \A f \in Features : tree'[f] = tree[f]
  <2> SUFFICES ASSUME NEW f \in Features PROVE tree'[f] = tree[f]
    OBVIOUS
  <2>1. f \in Files /\ f \notin files
    BY <1>3, FeatureFacts
  <2> QED
    BY <1>2, <2>1
<1>7. SharedKept
  <2>1. "user" \in Domains /\ "vo" \in Parts
    BY PartsAre DEF Domains, Shipped
  <2>2. errorFile \in Files /\ errorFile \notin files
    BY <1>3, FeatureFacts DEF errorFile
  <2> QED
    BY <1>2, <1>4, <1>6, <2>1, <2>2 DEF SharedKept, Features
<1>8. ASSUME NEW e \in Domains, NEW p \in Parts PROVE compiles(e, p)'
  <2>1. compiles(e, p)
    BY DEF Builds, domainCompiles
  <2>2. CASE e # d \/ p \notin {"endpoint", "endpoint_dto"}
    BY <1>4, <1>7, <2>1, <2>2, CompilesStays
  <2>3. CASE e = d /\ p \in {"endpoint", "endpoint_dto"}
    <3>1. tree'[<<e, p>>] # "switched"
      BY <1>5, <2>3
    <3>2. needs(e, p)' = {} /\ p # "handler" /\ p # "entity"
      <4>1. needs(e, p)' = needs(e, p)
        BY <2>3, NeedsNext
      <4> QED
        BY <2>3, <4>1, NeedsAre
    <3> QED
      BY <3>1, <3>2 DEF compiles
  <2> QED
    BY <2>2, <2>3
<1>9. ASSUME NEW e \in Domains \ {d} PROVE endpointCompiles(e)'
  <2>1. endpointCompiles(e)
    BY DEF Builds, domainCompiles
  <2> QED
    BY <1>4, <2>1, PartsAre DEF endpointCompiles, Has
<1>10. endpointCompiles(d)' <=> (text = "rendered" => Has(<<d, "entity">>) /\ Has(<<d, "ports">>))
  <2>1. tree'[<<d, "entity">>] = tree[<<d, "entity">>] /\ tree'[<<d, "ports">>] = tree[<<d, "ports">>]
    BY <1>4, PartsAre
  <2> QED
    BY <1>5, <2>1 DEF endpointCompiles, Has
<1>11. Has(<<d, "entity">>) /\ Has(<<d, "ports">>) <=> d \in Shipped \/ Has(<<d, "ports">>)
  <2>1. d \in Shipped => Has(<<d, "entity">>) /\ Has(<<d, "ports">>)
    BY <1>1 DEF examplesIntact, shippedParts, Has
  <2>2. ASSUME Has(<<d, "ports">>) PROVE Has(<<d, "entity">>)
    <3>1. compiles(d, "ports") /\ "ports" \in Parts
      BY PartsAre DEF Builds, domainCompiles
    <3>2. needs(d, "ports") = {"entity", "filter"}
      BY <3>1, NeedsAre
    <3> QED
      BY <2>2, <3>1, <3>2 DEF compiles, Has, errorFile
  <2> QED
    BY <2>1, <2>2
<1>12. ASSUME endpointCompiles(d)' PROVE Builds'
  <2>1. \A e \in Domains : domainCompiles(e)'
    BY <1>8, <1>9, <1>12 DEF domainCompiles
  <2>2. CRUD \cap {"endpoint", "endpoint_dto"} = {}
    BY GeneratorAssumption
  <2>3. NamedKept
    <3> SUFFICES ASSUME NEW w \in AllWiring, NEW i \in wiring[w].infos
                 PROVE  \A p \in {"repository", "handler", "router"} \cup CRUD :
                          tree'[<<i.name, p>>] = tree[<<i.name, p>>]
      BY DEF NamedKept, Has
    <3>1. i.name \in Domains /\ {"repository", "handler", "router"} \cup CRUD \subseteq Parts
      BY PartsAre DEF IInv, InfosKnown
    <3> QED
      BY <1>4, <2>2, <3>1
  <2>4. \A e \in Shipped : \A p \in {"ports"} \cup opsOf(e) : tree'[<<e, p>>] = tree[<<e, p>>]
    BY <1>4, <2>2, PartsAre, ShippedFacts
  <2> QED
    BY <1>6, <2>1, <2>3, <2>4, WiringStays
<1>13. Builds' => endpointCompiles(d)'
  BY DEF Builds, domainCompiles
<1> QED
  BY <1>10, <1>11, <1>12, <1>13

\* What a completed command makes of a tree that builds.
StillBuilds ==
  Builds' <=> /\ last'[2] = "error" => last'[1] \in {"add endpoint", "remove endpoint"}
              /\ last'[1] = "remove domain" => last'[2] \notin mentioned
              /\ last'[1] = "add endpoint" => last'[2] \in Shipped \/ Has(<<last'[2], "ports">>)

\* A command that did not complete says so; one that did names itself.
LEMMA CompletedIs ==
  ASSUME NEW command \in {"add domain", "remove domain", "add endpoint", "remove endpoint", "wiring"},
         NEW d, NEW complete, ended(command, d, complete), last'[1] # "interrupted"
  PROVE  complete /\ last'[1] = command /\ last'[2] = d
<1>1. /\ <<command, d>>[1] = command /\ <<command, d>>[2] = d /\ <<"interrupted", d>>[1] = "interrupted"
  OBVIOUS
<1>2. /\ complete => last' = <<command, d>>
      /\ ~complete => last' = <<"interrupted", d>>
  BY Zenon DEF ended
<1>3. complete
  BY <1>1, <1>2, Zenon
<1> QED
  BY <1>1, <1>2, <1>3, Zenon

LEMMA DomainCommandBuilds ==
  ASSUME IInv, Builds, last'[1] # "interrupted", NEW d \in Domains, AddDomain(d) \/ RemoveDomain(d)
  PROVE  StillBuilds
<1>1. phase = "ready" /\ wiring' = wiring
  BY DEF AddDomain, RemoveDomain, ready
<1>2. CASE AddDomain(d)
  <2>1. PICK written \in SUBSET buildTemplateMappings(d) :
          /\ tree' = with(written, "rendered")
          /\ ended("add domain", d, written = buildTemplateMappings(d))
    BY <1>2 DEF AddDomain
  <2>2. written = buildTemplateMappings(d) /\ last'[1] = "add domain" /\ last'[2] = d
    BY <2>1, CompletedIs
  <2>3. ~domainExists(d)
    BY <1>2 DEF AddDomain
  <2>4. Builds' <=> d # "error"
    BY <1>1, <2>1, <2>2, <2>3, AddDomainBuilds
  <2> QED
    BY <2>2, <2>4 DEF StillBuilds
<1>3. CASE RemoveDomain(d)
  <2>1. PICK k \in 1..Len(Paths) : \E some \in SUBSET Paths[k] :
          /\ tree' = with(collectDomainFiles(d, k, some), "absent")
          /\ ended("remove domain", d, k = Len(Paths) /\ some = Paths[k])
    BY <1>3 DEF RemoveDomain
  <2>2. PICK some \in SUBSET Paths[k] :
          /\ tree' = with(collectDomainFiles(d, k, some), "absent")
          /\ ended("remove domain", d, k = Len(Paths) /\ some = Paths[k])
    BY <2>1
  <2>3. k = Len(Paths) /\ some = Paths[k] /\ last'[1] = "remove domain" /\ last'[2] = d
    BY <2>2, CompletedIs
  <2>4. collectDomainFiles(d, k, some) = {d} \X Parts
    <3>1. \A j : j \in 1..Len(Paths) <=> j \in 1..(k - 1) \/ j = k
      <4>1. k = 5 /\ Len(Paths) = 5
        BY <2>3, PartsAre
      <4> QED
        BY <4>1
    <3>2. some \cup UNION {Paths[j] : j \in 1..(k - 1)} = Parts
      BY <2>3, <3>1 DEF Parts
    <3> QED
      BY <3>2 DEF collectDomainFiles
  <2>5. Builds' <=> d # "error" /\ d \notin mentioned
    BY <1>1, <2>2, <2>4, RemoveDomainBuilds
  <2> QED
    BY <2>3, <2>5 DEF StillBuilds
<1> QED
  BY <1>2, <1>3

LEMMA EndpointCommandBuilds ==
  ASSUME IInv, Builds, last'[1] # "interrupted", NEW d \in Domains, AddEndpoint(d) \/ RemoveEndpoint(d)
  PROVE  StillBuilds
<1>1. phase = "ready" /\ wiring' = wiring
  BY DEF AddEndpoint, RemoveEndpoint, ready
<1>2. CASE AddEndpoint(d)
  <2>1. PICK written \in SUBSET endpointFiles(d) :
          /\ tree' = with(written, "rendered")
          /\ ended("add endpoint", d, written = endpointFiles(d))
    BY <1>2 DEF AddEndpoint
  <2>2. written = endpointFiles(d) /\ last'[1] = "add endpoint" /\ last'[2] = d
    BY <2>1, CompletedIs
  <2>3. Builds' <=> d \in Shipped \/ Has(<<d, "ports">>)
    <3>1. tree' = with(endpointFiles(d), "rendered")
      BY <2>1, <2>2
    <3>2. Builds' <=> ("rendered" = "rendered" => d \in Shipped \/ Has(<<d, "ports">>))
      BY <1>1, <3>1, EndpointBuilds, Zenon
    <3> QED
      BY <3>2
  <2> QED
    BY <2>2, <2>3 DEF StillBuilds
<1>3. CASE RemoveEndpoint(d)
  <2>1. PICK gone \in {{}, {<<d, "endpoint">>}, endpointFiles(d)} :
          /\ tree' = with(gone, "absent")
          /\ ended("remove endpoint", d, gone = endpointFiles(d))
    BY <1>3 DEF RemoveEndpoint
  <2>2. gone = endpointFiles(d) /\ last'[1] = "remove endpoint" /\ last'[2] = d
    BY <2>1, CompletedIs
  <2>3. Builds'
    <3>1. tree' = with(endpointFiles(d), "absent")
      BY <2>1, <2>2
    <3>2. Builds' <=> ("absent" = "rendered" => d \in Shipped \/ Has(<<d, "ports">>))
      BY <1>1, <3>1, EndpointBuilds, Zenon
    <3> QED
      BY <3>2
  <2> QED
    BY <2>2, <2>3 DEF StillBuilds
<1> QED
  BY <1>2, <1>3

\* Which completed commands a tree that builds survives, exactly
\* (CommandsKeepBuilding): all of them, but for a domain named after error.go, the
\* removal of a domain the wiring still names, which cmd/cli leaves to "wiring",
\* and an endpoint for a domain without its ports.
THEOREM BuildingIsKept == Spec => CommandsKeepBuilding
<1> DEFINE Keeps ==
      Builds /\ last'[1] \in {"add domain", "remove domain", "add endpoint", "remove endpoint"} => StillBuilds
<1>1. IInv /\ [Next]_vars => [Keeps]_vars
  <2> SUFFICES ASSUME IInv, Next, Builds,
                      last'[1] \in {"add domain", "remove domain", "add endpoint", "remove endpoint"}
               PROVE  StillBuilds
    OBVIOUS
  <2>1. CASE CopyProject \/ SwitchDBDriver \/ RemoveDisabledFeatures \/ CleanupWiring \/ FinishNew \/ NewInterrupted
    <3>1. last' = <<"new", "">> \/ last' = <<"interrupted", "">> \/ (phase # "ready" /\ last' = last)
      BY <2>1 DEF CopyProject, SwitchDBDriver, RemoveDisabledFeatures, CleanupWiring, FinishNew, NewInterrupted
    <3>2. phase # "ready" => last = <<"none", "">>
      BY DEF IInv, NewSteps
    <3>3. last' \in {<<"new", "">>, <<"interrupted", "">>, <<"none", "">>}
      BY <3>1, <3>2
    <3>4. <<"new", "">>[1] = "new" /\ <<"interrupted", "">>[1] = "interrupted" /\ <<"none", "">>[1] = "none"
      OBVIOUS
    <3>5. last'[1] \in {"new", "interrupted", "none"}
      BY <3>3, <3>4, Zenon
    <3> QED
      BY <3>5
  <2>2. CASE \E d \in Domains : AddDomain(d) \/ RemoveDomain(d) \/ AddEndpoint(d) \/ RemoveEndpoint(d)
    BY <2>2, DomainCommandBuilds, EndpointCommandBuilds
  <2>3. CASE RunWiring
    <3>1. PICK k \in 0..Len(WiringFiles) : ended("wiring", "", k = Len(WiringFiles))
      BY <2>3 DEF RunWiring
    <3>2. last'[1] = "wiring"
      BY <3>1, CompletedIs
    <3> QED
      BY <3>2
  <2> QED
    BY <2>1, <2>2, <2>3, Zenon DEF Next
<1>2. Spec => [][Keeps]_vars
  BY <1>1, Inductive, PTL DEF Spec
<1> QED
  BY <1>2 DEF CommandsKeepBuilding, StillBuilds
=============================================================================
