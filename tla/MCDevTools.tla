------------------------------ MODULE MCDevTools ------------------------------
(***************************************************************************)
(* Four-bit IPv4 and ten-bit IPv6 addresses, a calendar of five days, and  *)
(* for each tool the inputs that reach every branch of it.                   *)
(***************************************************************************)
EXTENDS DevToolResults

CONSTANTS empty, nothing

MCDaysOfMonth == <<3, 2>>
Cidr(n, p) == [octets |-> ToDigits(n, 2, 4), prefix |-> p]
BadBlock == [octets |-> <<0, 2, 0, 0>>, prefix |-> 2]

MCAddressTypes ==
  <<[prefix |-> <<Gap>>, length |-> 10, label |-> "unspecified"],
    [prefix |-> <<Gap, 1>>, length |-> 10, label |-> "loopback"],
    [prefix |-> <<Gap, 3, 0, 0>>, length |-> 6, label |-> "IPv4-mapped"],
    [prefix |-> <<2, Gap>>, length |-> 2, label |-> "6to4"],
    [prefix |-> <<3, Gap>>, length |-> 2, label |-> "multicast"]>>

\* Cron parts: *, */1, */2, a range, numbers, a step of zero, out of range.
Part(lo, hi, step, slash) == [lo |-> lo, hi |-> hi, step |-> step, slash |-> slash]
Num(n) == Part(n, n, 1, FALSE)
Parts == {<<Star>>, <<Part(-1, -1, 2, TRUE)>>, <<Num(1), Num(3)>>}
DayParts == {<<Star>>, <<Part(-1, -1, 1, TRUE)>>, <<Num(3)>>, <<Part(1, 2, 1, FALSE)>>}
Cron(m, h, d, w) == [minute |-> m, hour |-> h, dom |-> d, month |-> <<Star>>, dow |-> w]
CronInputs ==
  {Cron(m, <<Num(1)>>, d, w) : m \in Parts, d \in DayParts, w \in DayParts}
  \cup {Cron(<<Num(4)>>, <<Star>>, <<Star>>, <<Star>>), Cron(<<Part(-1, -1, 0, TRUE)>>, <<Star>>, <<Star>>, <<Star>>)}

Obj(kind, name, ns, fields) ==
  [kind |-> kind, name |-> name, namespace |-> ns, fields |-> fields, spawned |-> FALSE, headless |-> FALSE,
   replicas |-> 2, class |-> None, annotated |-> None, paths |-> {}, items |-> <<>>]
Web  == Obj("Deployment", "web", "shop", {"uid", "last-applied"})
Svc  == [Obj("Service", "svc", None, {"clusterIP", "nodePort"}) EXCEPT !.headless = TRUE]
Sys  == Obj("ConfigMap", "dns", "kube-system", {"uid"})
Job  == [Obj("Job", "nightly", "shop", {"ownerReferences"}) EXCEPT !.spawned = TRUE]
Shop == Obj("Namespace", "shop", None, {"uid"})
Ing  == [Obj("Ingress", "ing", "edge", {"class-annotation", "snippet"}) EXCEPT
          !.annotated = "nginx", !.paths = {[regex |-> TRUE, type |-> "Prefix"], [regex |-> FALSE, type |-> "Exact"]}]
Pod  == Obj("Pod", "p", "shop", {"nodeName"})
All  == [Obj("List", "l", None, {}) EXCEPT !.items = <<Web, Sys, Job, Shop>>]
CleanInputs ==
  {[docs |-> d, options |-> o, defaultNamespace |-> n] :
     d \in {<<All, Ing>>, <<Svc, Pod>>, <<Ing, Web, Svc>>, <<>>},
     o \in {{"dropSystemNamespaces", "dropPods", "dropGenerated", "fixIngress", "emitNamespaces", "stripBindingInfo",
             "stripLastApplied"},
            {"emitNamespaces", "stripIngressSnippets", "scaleToZero"}, {"stripNamespace", "fixIngress", "stripNodePorts"}},
     n \in {None, "kube-system"}}

Rule(h, p, t) == [host |-> h, path |-> p, type |-> t, to |-> h \o p]
Ingress(rules, tls, class) == [kind |-> "Ingress", rules |-> rules, tls |-> tls, class |-> class, defaultBackend |-> class = None]
Tls == {[host |-> "a", secret |-> "cert"], [host |-> "b", secret |-> None]}
IngressInputs ==
  {<<Ingress(r, t, c)>> :
     r \in {<<>>, <<Rule("a", "/", "Prefix"), Rule("b", "/x", "ImplementationSpecific")>>, <<Rule(AnyHost, "/", "Exact")>>,
            <<Rule("a", "/", "Exact"), Rule("a", "/x", "Prefix")>>, <<Rule("b", "/", "Prefix"), Rule(AnyHost, "/x", "Prefix")>>,
            <<Rule("a", "/", "Prefix"), Rule("b", "/", "Exact"), Rule("a", "/x", "Prefix")>>},
     t \in {{}, Tls}, c \in {None, "nginx"}}
  \cup {<<[kind |-> "Service"]>>,
         <<Ingress(<<Rule("a", "/", "Exact")>>, Tls, "nginx"), [kind |-> "Service"], Ingress(<<Rule("b", "/x", "Prefix")>>, Tls, None)>>}

Cert(id, s, i, ca) == [id |-> id, subject |-> s, issuer |-> i, isCA |-> ca, validity |-> "good", weakKey |-> id = 1]
Chain == <<Cert(1, "leaf", "i1", FALSE), Cert(2, "i1", "i2", TRUE), Cert(3, "i2", "root", TRUE), Cert(4, "root", "root", TRUE)>>
ChainInputs ==
  {Chain, SubSeq(Chain, 1, 3), SubSeq(Chain, 1, 1), Reverse(Chain), RemoveAt(Chain, 2), RemoveAt(Chain, 3), SubSeq(Chain, 1, 2),
   Reverse(SubSeq(Chain, 1, 2)), <<Chain[1], Chain[1]>>, <<Chain[2], Chain[1], Chain[3]>>}

KeyLine(type, blob) == [type |-> type, blob |-> blob]
Rsa == <<1, 7, 1, 3, 2, 0, 200>>
MCKeyNames == (<<7>> :> "ssh-rsa") @@ (<<8>> :> "ssh-ed25519")
KeyInputs ==
  {<<KeyLine("ssh-rsa", Rsa)>>, <<KeyLine("comment", <<>>), KeyLine("ssh-ed25519", <<1, 8, 2, 5, 5>>)>>,
   <<KeyLine("ssh-ed25519", Rsa), KeyLine("ssh-rsa", <<5, 7>>)>>, <<KeyLine("private", <<>>)>>, <<KeyLine("unknown", Rsa)>>}

\* A certificate of empty parts, one with a version and an extension, a torn one.
Der(parts) == <<48, 2 * parts + 4, 48, 2 * parts>> \o FlattenSeq([i \in 1..parts |-> <<2, 0>>]) \o <<48, 0>>
Versioned == <<48, 20, 48, 16, 160, 0>> \o FlattenSeq([i \in 1..6 |-> <<2, 0>>]) \o <<163, 0, 48, 0>>
PemInputs == {[blocks |-> b, versionTag |-> 160] : b \in {<<Der(6)>>, <<Versioned, Der(6)>>, <<SubSeq(Der(6), 1, 9)>>, <<Der(5)>>, <<>>}}

Lines == {<<"">>, <<"a">>, <<"a", "b">>, <<"b", "a">>, <<"a", "b", "a">>, <<"b", "b", "a">>}
Image(path, digest) == [path |-> path, digest |-> digest]
Segment(name, dotted, colon) == [name |-> name, dotted |-> dotted, colon |-> colon]

MCInputs(t) ==
  CASE t \in {"json", "yaml-json"} -> {[op |-> o, doc |-> "d", valid |-> v, yaml |-> v] : o \in {"format", "toJson"}, v \in BOOLEAN} \cup {empty}
    [] t = "base64" -> {[op |-> o, latin1 |-> v, base64 |-> ~v] : o \in {"encode", "decode"}, v \in BOOLEAN} \cup {empty}
    [] t \in {"hash"} -> {"a", "b", empty}
    [] t = "epoch" -> {[digits |-> d, n |-> d] : d \in 9..12}
    [] t = "jwt" -> {[parts |-> p] : p \in {<<"h">>, <<"h", "p", "s">>, <<"h", "garbled", "s">>}} \cup {empty}
    [] t \in {"jwt-encode", "jsonnet"} -> {[doc |-> d, valid |-> d # "x"] : d \in {"d", "e", "x"}} \cup {empty}
    [] t = "cert-decode" -> PemInputs \cup {empty}
    [] t = "cert-chain" -> ChainInputs \cup {empty}
    [] t = "ssh-key" -> KeyInputs \cup {empty}
    [] t = "k8s-clean" -> CleanInputs \cup {empty}
    [] t = "ingress2gateway" -> IngressInputs \cup {empty}
    [] t = "k8s-units" -> {[what |-> w, n |-> 2, suffix |-> s, wellFormed |-> w # "bad"] : w \in {"cpu", "mem", "bad"}, s \in {"m", "Ki", "k", ""}}
    [] t = "cron" -> CronInputs
    [] t = "cidr" -> {Cidr(n, p) : n \in {0, 6, 9, 15}, p \in 0..5} \cup {BadBlock, Cidr(3, Absent)}
    [] t = "subnet-split" -> {[block |-> Cidr(n, p), mode |-> m, value |-> v] : n \in {0, 12}, p \in {0, 2, 3}, m \in {"prefix", "count"}, v \in {0, 1, 3, 4, 5}}
    [] t = "cidr-match" -> {[cidrs |-> <<Cidr(5, p), BadBlock, Cidr(n, q)>>, tests |-> <<Cidr(n, Absent), Cidr(4, p)>>] :
                              n \in {4, 7}, p \in {0, 2, 4}, q \in 0..4}
    [] t = "ipv6" -> {[groups |-> g, tail |-> <<>>, prefix |-> p] : g \in [1..5 -> {0, 2}] \cup {<<Gap>>, <<Gap, 1>>, <<0, Gap>>, <<2, Gap, 0, 1>>, <<Gap, 1, Gap>>, <<1, 2>>, <<Gap, 0, 0, 0, 0, 0>>, <<0, 4, 0, 0, 0>>},
                                                                   p \in {Absent, 3, 9}}
                     \cup {[groups |-> <<Gap, 3>>, tail |-> o, prefix |-> 4] : o \in {<<0, 1, 1, 0>>, <<0, 1>>}}
    [] t = "dns" -> {[name |-> [dotted |-> d, odd |-> FALSE, text |-> d], type |-> y, resolves |-> y = "A"] : d \in BOOLEAN, y \in {"A", "AAAA"}} \cup {empty}
    [] t = "uuid" -> {[count |-> c, charset |-> k] : c \in {0, 5, 60}, k \in {16, 62}}
    [] t = "diff" -> {[original |-> a, modified |-> b] : a, b \in Lines} \cup {empty}
    [] t = "docker-image" -> {Image(<<Segment("nginx", FALSE, c)>>, d) : c \in {None, "1"}, d \in {None, "sha"}}
                             \cup {Image(<<Segment("host", h, c), Segment("app", FALSE, None)>>, None) : h \in BOOLEAN, c \in {None, "5000"}}
                             \cup {Image(<<>>, None)}

MCDefault(t) == IF empty \in MCInputs(t) THEN empty ELSE CHOOSE x \in MCInputs(t) : TRUE
=============================================================================
