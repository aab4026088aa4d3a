---------------------------- MODULE DevToolResults ----------------------------
(***************************************************************************)
(* What the developer tools compute (pages/DevTools.tsx and the utilities it *)
(* calls), and what their results promise.  An input is what the tool's      *)
(* parser makes of the text; a tool gives a result or fails.                 *)
(***************************************************************************)
EXTENDS DevTools, NetTools, TextTools, K8sTools, CodecTools

CONSTANTS Now,          \* the minute at which the tools look at the clock
          KeyNames      \* the key types by their bytes

-----------------------------------------------------------------------------
(* The tools *)


\* Both buttons parse the text and show it again, indented or not.
JsonFormatterTool(in) == OkIf(in.valid, <<in.op, in.doc>>)

\* Encoding fails on characters above Latin-1, decoding on other alphabets.
Base64Tool(in) == OkIf(IF in.op = "encode" THEN in.latin1 ELSE in.base64, <<in.op, in>>)

YamlJsonTool(in) == OkIf(IF in.op = "toJson" THEN in.yaml ELSE in.valid, <<in.op, in.doc>>)

\* Up to ten digits are seconds, more are milliseconds.
EpochConverterTool(in) == Ok(IF in.digits <= 10 THEN in.n * 1000 ELSE in.n)

\* Three parts, of which the first two are decoded.
JwtDecoderTool(in) ==
  OkIf(Len(in.parts) = 3 /\ "garbled" \notin {in.parts[1], in.parts[2]}, SubSeq(in.parts, 1, 2))

\* The digest of each algorithm in turn.
HashGeneratorTool(in) == Ok(<<"digests", in>>)

\* The first block of the text is decoded, the others are counted.
CertDecoderTool(in) ==
  IF in.blocks = <<>> THEN Failed
  ELSE Then(decodeDer(in.blocks[1], in.versionTag), LAMBDA d : Ok([cert |-> d, others |-> Len(in.blocks) - 1]))

CertChainTool(in) == Ok(analyzeCertChain(in))
SshKeyTool(in)    == Ok(inspectSshKeys(in, KeyNames))

\* The payload is validated before it is signed.
signJwtHS256(in)   == OkIf(in.valid, <<"signed", in>>)
JwtEncoderTool(in) == signJwtHS256(in)

JsonnetEvaluatorTool(in) == OkIf(in.valid, in.doc)

\* Names that cannot be asked for are refused without a request.
isQueryableName(name) == name.dotted /\ ~name.odd
lookupDns(in)         == OkIf(isQueryableName(in.name) /\ in.resolves, [name |-> in.name, type |-> in.type])
DnsLookupTool(in)     == lookupDns(in)

\* A manifest with the options chosen for it; one that does not parse is an error.
K8sManifestCleanerTool(in) == OkIf(in.docs # <<>>, cleanManifest(in.docs, in.options, in.defaultNamespace))
Ingress2GatewayTool(in)    == convertIngressToGateway(in)

CronParserTool(in)      == parseCron(in, Now, 3)
CidrCalculatorTool(in)  == calculateCidr(in)
SubnetSplitterTool(in)  == splitCidr(in.block, in.mode, in.value)
CidrMatchTool(in)       == Ok(analyzeCidrs(in.cidrs, in.tests))
Ipv6Tool(in)            == analyzeIpv6(in)
DiffCheckerTool(in)     == Ok(computeDiff(in.original, in.modified))

\* A quantity in thousandths of its unit.
parseCpuQuantity(q)    == IF q.suffix = "m" THEN q.n ELSE q.n * 1000
parseMemoryQuantity(q) == CASE q.suffix = "Ki" -> q.n * 1024 [] q.suffix = "k" -> q.n * 1000 [] OTHER -> q.n
ResourceUnitsTool(in) ==
  OkIf(in.wellFormed, IF in.what = "cpu" THEN parseCpuQuantity(in) ELSE parseMemoryQuantity(in))

\* Random bytes that would favour some characters are drawn again: what is left
\* of the 256 maps evenly.  The result is how many bytes give each character.
generateSecret(charset) ==
  LET top == 256 - (256 % charset)
  IN [c \in 0..(charset - 1) |-> Cardinality({b \in 0..(top - 1) : b % charset = c})]
Clamp(n, lo, hi) == IF n < lo THEN lo ELSE IF n > hi THEN hi ELSE n
UuidGeneratorTool(in) ==
  Ok([uuids |-> Clamp(in.count, 1, 50), secret |-> generateSecret(in.charset)])

\* The digest is cut off at "@", the tag at a ":" after the last "/", and the
\* registry is a first part that looks like a host.
parseImageReference(ref) ==
  LET last == ref.path[Len(ref.path)]
      tag  == IF last.colon = None THEN IF ref.digest = None THEN "latest" ELSE None ELSE last.colon
      host == Len(ref.path) > 1 /\ (ref.path[1].dotted \/ ref.path[1].colon # None)
      rest == IF host THEN Tail(ref.path) ELSE ref.path
      name == [i \in DOMAIN rest |-> rest[i].name]
      hub  == ~host \/ ref.path[1].name = "docker.io"
  IN [registry |-> IF host THEN ref.path[1].name ELSE "docker.io",
      repository |-> IF hub /\ Len(name) = 1 THEN <<"library">> \o name ELSE name,
      tag |-> tag, digest |-> ref.digest]
DockerImageParserTool(in) == OkIf(in.path # <<>>, parseImageReference(in))

ToolOf(t, in) ==
  CASE t = "json" -> JsonFormatterTool(in)        [] t = "base64" -> Base64Tool(in)
    [] t = "yaml-json" -> YamlJsonTool(in)        [] t = "hash" -> HashGeneratorTool(in)
    [] t = "epoch" -> EpochConverterTool(in)      [] t = "cron" -> CronParserTool(in)
    [] t = "jwt" -> JwtDecoderTool(in)            [] t = "jwt-encode" -> JwtEncoderTool(in)
    [] t = "cert-decode" -> CertDecoderTool(in)   [] t = "cert-chain" -> CertChainTool(in)
    [] t = "ssh-key" -> SshKeyTool(in)            [] t = "k8s-clean" -> K8sManifestCleanerTool(in)
    [] t = "ingress2gateway" -> Ingress2GatewayTool(in) [] t = "k8s-units" -> ResourceUnitsTool(in)
    [] t = "jsonnet" -> JsonnetEvaluatorTool(in)  [] t = "cidr" -> CidrCalculatorTool(in)
    [] t = "subnet-split" -> SubnetSplitterTool(in) [] t = "cidr-match" -> CidrMatchTool(in)
    [] t = "ipv6" -> Ipv6Tool(in)                 [] t = "dns" -> DnsLookupTool(in)
    [] t = "uuid" -> UuidGeneratorTool(in)        [] t = "diff" -> DiffCheckerTool(in)
    [] t = "docker-image" -> DockerImageParserTool(in)

-----------------------------------------------------------------------------
(* Properties of what is shown *)

Shows(t) == tab = t /\ result # Nothing

\* The listed subnets tile the block: the first starts it, each starts where the
\* last ended, none leaves it and the whole list fills it; a count is reached
\* with less than twice as many subnets (splitCidr).
SubnetsPartition ==
  Shows("subnet-split") =>
    LET s == result.value.subnets
        b == parseCidr(result.of.block, FALSE).value
        n == Len(s)
    IN /\ s[1].network = b.network
       /\ \A i \in 1..(n - 1) : s[i + 1].network = s[i].broadcast + 1
       /\ s[n].broadcast <= b.broadcast
       /\ result.value.listTruncated \/ s[n].broadcast = b.broadcast
       /\ \A i \in 1..n : /\ s[i].usable[2] - s[i].usable[1] + 1 = result.value.hostsPerSubnet
                          /\ parseCidr([octets |-> intToIp(s[i].usable[1]), prefix |-> s[i].prefix], FALSE).value.network
                               = s[i].network
       /\ result.of.mode = "count" =>
            result.value.totalSubnets >= result.of.value /\ result.value.totalSubnets < 2 * result.of.value

\* What the overlap checker says agrees with the addresses themselves: the
\* blocks around a target are the ones all of its addresses lie in, a more
\* specific one never after a wider one, and two blocks that share an address
\* are reported, as nested or equal (analyzeCidrs).
MatchAgrees ==
  Shows("cidr-match") =>
    LET v == result.value
        Addresses(c) == c.network..c.broadcast
    IN /\ \A i \in DOMAIN v.rows : v.rows[i].ok =>
             LET m == v.rows[i].matchedBy
                 t == v.rows[i].target.value
             IN /\ {m[k] : k \in DOMAIN m} = {c \in {v.valid[j] : j \in DOMAIN v.valid} : Addresses(t) \subseteq Addresses(c)}
                /\ \A k \in 1..(Len(m) - 1) : Addresses(m[k]) \subseteq Addresses(m[k + 1])
       /\ \A i, j \in DOMAIN v.valid : i < j /\ Addresses(v.valid[i]) \cap Addresses(v.valid[j]) # {} =>
             \E o \in v.overlaps :
               /\ o.a = i /\ o.b = j
               /\ o.relation = "identical" <=> Addresses(v.valid[i]) = Addresses(v.valid[j])
               /\ o.relation = "contains" => Addresses(v.valid[j]) \subseteq Addresses(v.valid[i])
               /\ o.relation = "contained" => Addresses(v.valid[i]) \subseteq Addresses(v.valid[j])

\* The short form of an IPv6 address denotes the address, is the same for every
\* way to write it, and no shorter form or earlier "::" denotes it: what is
\* shown can be pasted back (compressIpv6 and parseAddress; RFC 5952).
Ipv6Canonical ==
  Shows("ipv6") =>
    LET v == result.value
        Denotes(g) == parseAddress(g, <<>>) = v.value
        g == toGroups(v.value)
    IN /\ Denotes(v.compressed) /\ Denotes(v.expanded)
       /\ parseAddress(v.first, <<>>) <= v.value /\ v.value <= parseAddress(v.last, <<>>)
       /\ \A a, n \in 1..GroupCount :
            LET w == SubSeq(g, 1, a - 1) \o <<Gap>> \o SubSeq(g, a + n, GroupCount)
            IN n >= 2 /\ a + n - 1 <= GroupCount /\ Denotes(w) =>
                 \/ Len(v.compressed) < Len(w)
                 \/ Len(v.compressed) = Len(w) /\ \E k \in 1..a : v.compressed[k] = Gap

\* The calculators answer about addresses what the addresses themselves say.
AddressToolsAgree == SubnetsPartition /\ MatchAgrees /\ Ipv6Canonical

Subsequences(s) == {LET k == SetToSortSeq(S, <) IN [i \in DOMAIN k |-> s[k[i]]] : S \in SUBSET DOMAIN s}

\* The diff rebuilds both texts, numbers their lines without a gap, and keeps as
\* many lines as any common subsequence has (diffLines).
DiffRebuildsBoth ==
  Shows("diff") /\ result.value.ok =>
    LET l == result.value.lines
        old == SelectSeq(l, LAMBDA x : x.type # "add")
        new == SelectSeq(l, LAMBDA x : x.type # "remove")
    IN /\ [i \in DOMAIN old |-> old[i].text] = result.of.original
       /\ [i \in DOMAIN new |-> new[i].text] = result.of.modified
       /\ \A i \in DOMAIN old : old[i].oldLine = i
       /\ \A i \in DOMAIN new : new[i].newLine = i
       /\ \A c \in Subsequences(result.of.original) \cap Subsequences(result.of.modified) :
            Len(c) <= Len(SelectSeq(l, LAMBDA x : x.type = "equal"))

\* A minute that the expression names, field by field as written.
Named(parts, v, min, max) == \E i \in DOMAIN parts : v \in PartValues(parts[i], min, max)
Due(e, t) ==
  LET d == DateOf(t)
      dom == Named(e.dom, d.dayOfMonth, 1, MaxOf({DaysOfMonth[m] : m \in DOMAIN DaysOfMonth}))
      dow == \E w \in {d.dayOfWeek, d.dayOfWeek + DaysOfWeek} : w <= DaysOfWeek /\ Named(e.dow, w, 0, DaysOfWeek)
  IN /\ Named(e.minute, d.minute, 0, MaxMinute) /\ Named(e.hour, d.hour, 0, MaxHour)
     /\ Named(e.month, d.month, 1, Len(DaysOfMonth))
     /\ IF e.dom = <<Star>> \/ e.dow = <<Star>> THEN dom /\ dow ELSE dom \/ dow

\* The next runs are the minutes the expression names, in order and none left
\* out, the first after now (nextRuns, matches: day-of-month and day-of-week
\* are alternatives when both are restricted).
CronNextRuns ==
  Shows("cron") =>
    LET r == result.value.runs
        upTo == IF Len(r) = 3 THEN r[3] ELSE Now + Horizon
    IN /\ {r[i] : i \in DOMAIN r} = {t \in (Now + 1)..upTo : Due(result.of, t)}
       /\ \A i \in 1..(Len(r) - 1) : r[i] < r[i + 1]

\* Cleaning what was cleaned changes nothing more, nothing of a system namespace
\* is left, and each namespace an object needs is made before it (cleanManifest;
\* a system namespace as the default is left to the user).
CleanedManifestIsClean ==
  Shows("k8s-clean") /\ result.of.defaultNamespace \notin SystemNamespaces =>
    LET out == result.value.output
        opt == result.of.options
    IN /\ cleanManifest(out, opt, result.of.defaultNamespace).output = out
       /\ "dropSystemNamespaces" \in opt => \A i \in DOMAIN out : out[i].namespace \notin SystemNamespaces
       /\ "emitNamespaces" \in opt => \A i \in DOMAIN out :
            out[i].namespace \notin SystemNamespaces \cup {None} =>
              \E j \in 1..(i - 1) : out[j].kind = "Namespace" /\ out[j].name = out[i].namespace

\* The rules under which an Ingress serves a host: those that name it, or else those
\* that name none; and those of the route, which has one list for all its hosts.
Routes(rules) == [k \in DOMAIN rules |-> [path |-> rules[k].path, to |-> rules[k].to,
                                          exact |-> rules[k].type = "Exact"]]
NamedHosts(ing) == {ing.rules[k].host : k \in DOMAIN ing.rules} \ {AnyHost}
IngressServes(ing, h) ==
  Routes(SelectSeq(ing.rules, LAMBDA r : r.host = (IF h \in NamedHosts(ing) THEN h ELSE AnyHost)))
GatewayServes(g, h) == IF g.hostnames = {} \/ h \in g.hostnames THEN Routes(g.rules) ELSE <<>>

\* s in the order of t, with others between.
Within(s, t) ==
  \E at \in [DOMAIN s -> DOMAIN t] :
    /\ \A i \in DOMAIN s : t[at[i]] = s[i]
    /\ \A i, j \in DOMAIN s : i < j => at[i] < at[j]

\* P(ing, g) of each Ingress and what it was converted to.
EachConverted(P(_, _)) ==
  Shows("ingress2gateway") =>
    LET ings == SelectSeq(result.of, LAMBDA d : d.kind = "Ingress")
    IN DOMAIN result.value = DOMAIN ings /\ \A i \in DOMAIN ings : P(ings[i], result.value[i])

\* Of every Ingress, each host it names keeps its paths, in their order, to the same
\* services, and its listener, with TLS and the secret where it had them; with at
\* most one host, named or not, nothing is added.  Of a second host, nothing more is
\* promised (convertIngress).
GatewayKeepsRoutes ==
  EachConverted(LAMBDA ing, g :
    /\ \A h \in NamedHosts(ing) :
         /\ Within(IngressServes(ing, h), GatewayServes(g, h))
         /\ \E l \in g.listeners :
              /\ l.host = h
              /\ l.port = 443 <=> \E x \in ing.tls : x.host = h
              /\ \A x \in ing.tls : x.host = h /\ x.secret # None => l.cert = x.secret
    /\ {l.host : l \in g.listeners} \subseteq NamedHosts(ing) \cup {AnyHost}
    /\ Cardinality({l.host : l \in g.listeners}) = 1 =>
         \A h \in NamedHosts(ing) \cup {AnyHost} : GatewayServes(g, h) = IngressServes(ing, h))

\* A host is served what the Ingress served it, a host without rules of its own
\* included.  The conversion gives every named host the paths of all, so that a path
\* may go to another host's service, and drops the any-host rules of the others when
\* a host is named (hosts.filter(h => h !== '*')).
GatewayServesTheSame ==
  EachConverted(LAMBDA ing, g :
    \A h \in NamedHosts(ing) \cup {AnyHost} : GatewayServes(g, h) = IngressServes(ing, h))

\* The manifest cleaner's output is clean, and a converted Ingress keeps the routes of
\* the hosts that it names.
ManifestsAreConverted == CleanedManifestIsClean /\ GatewayKeepsRoutes

\* The check tells a reversed bundle from one that lacks a certificate: the
\* reverse of a good bundle is called reversed at every link, and a good bundle
\* without one of its intermediates is called short exactly there
\* (analyzeCertChain: "the two are worth distinguishing").
ChainIsDiagnosed ==
  Shows("cert-chain") /\ secure =>
    LET of == result.of
        At(p) == {x.at : x \in {y \in result.value.problems : y.problem = p}}
        Distinct(c) == \A i, j \in DOMAIN c : c[i].subject = c[j].subject => i = j
        Fine(c) == analyzeCertChain(c).ordered /\ Distinct(c)
    IN /\ Len(of) > 1 /\ Fine(Reverse(of)) =>
            At("reverse order") = 1..(Len(of) - 1) /\ At("missing intermediate") = {}
       /\ \A b \in Inputs("cert-chain") \ {Empty} : \A k \in 2..(Len(b) - 1) :
            Fine(b) /\ of = RemoveAt(b, k) => At("missing intermediate") = {k - 1}
=============================================================================
