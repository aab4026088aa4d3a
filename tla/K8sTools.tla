------------------------------ MODULE K8sTools ------------------------------
(***************************************************************************)
(* The manifest tools: what is dropped from and changed in the objects of a *)
(* manifest that moves to another cluster (utils/k8sManifestCleaner.ts),    *)
(* and the Gateway and HTTPRoute of an Ingress (utils/ingressToGateway.ts). *)
(* An object is a record of what the code looks at: its scope class, the    *)
(* sets of fields it carries, and for an Ingress its rules.                 *)
(***************************************************************************)
EXTENDS Outcomes, Integers, Sequences, FiniteSets, SequencesExt

CONSTANTS SystemNamespaces,    \* what every cluster has of its own
          ClusterScoped,       \* kinds without a namespace
          Generated,           \* kinds a controller recreates
          Scalable             \* kinds with replicas

None == "none"                 \* a field that is absent, a text that is empty

\* The fields that are stripped of any object, by where they are.
ServerFields == {"uid", "resourceVersion", "status", "ownerReferences", "creationTimestamp", "revision"}

\* The fields that an option strips, by the option; a field only some kinds
\* carry is given with its kind.
OptionalFields ==
  [stripLastApplied |-> {"last-applied"}, stripFinalizers |-> {"pvc-protection"},
   stripBindingInfo |-> {"clusterIP", "ipFamilies", "volumeName", "nodeName"},
   stripNodePorts |-> {"nodePort"}]
FieldKind == [clusterIP |-> "Service", ipFamilies |-> "Service", nodePort |-> "Service",
              volumeName |-> "PersistentVolumeClaim", nodeName |-> "Pod"]

-----------------------------------------------------------------------------
(* What is left out *)

IsSystem(d) == IF d.kind = "Namespace" THEN d.name \in SystemNamespaces ELSE FALSE

\* Mutant of dropReason: the Namespace objects go, what is in them stays.
DropNamespacesOnly(d, options) ==
  \/ d.kind = None
  \/ "dropSystemNamespaces" \in options /\ IsSystem(d)

dropReason(d, options) ==
  \/ d.kind = None
  \/ "dropSystemNamespaces" \in options /\ (d.namespace \in SystemNamespaces \/ IsSystem(d))
  \/ "dropPods" \in options /\ d.kind = "Pod"
  \/ /\ "dropGenerated" \in options
     /\ \/ d.kind \in Generated
        \/ d.kind = "Job" /\ d.spawned
        \/ d.kind = "Secret" /\ d.spawned

\* A list is replaced by its items, which may be lists again (two levels here).
ItemsOf(docs) == FlattenSeq([i \in DOMAIN docs |-> IF docs[i].kind = "List" THEN docs[i].items ELSE <<docs[i]>>])
FlatList(docs) == ItemsOf(ItemsOf(docs))

-----------------------------------------------------------------------------
(* What is changed in an object that stays *)

Stripped(kind, options) ==
  LET fits(f) == f \notin DOMAIN FieldKind \/ FieldKind[f] = kind
  IN ServerFields \cup {f \in UNION {OptionalFields[o] : o \in options \cap DOMAIN OptionalFields} : fits(f)}

\* A headless Service keeps its clusterIP, which is "None" by intent.
cleanFields(d, options) ==
  LET gone == Stripped(d.kind, options)
  IN IF d.headless THEN d.fields \ (gone \ {"clusterIP"}) ELSE d.fields \ gone

cleanMetadata(d, options) ==
  [d EXCEPT !.fields = cleanFields(d, options),
            !.namespace = IF "stripNamespace" \in options THEN None ELSE @]

\* The class annotation becomes the field, unless the field is there; a path
\* that is a regular expression loses its literal type and asks for use-regex;
\* snippets go only where that is asked.
cleanIngress(d, options) ==
  LET fixed == "fixIngress" \in options
      regex == {p \in d.paths : p.regex /\ p.type \in {"Prefix", "Exact"}}
      moved == fixed /\ "class-annotation" \in d.fields
  IN [d EXCEPT
       !.class = IF moved /\ @ = None THEN d.annotated ELSE @,
       !.paths = IF fixed THEN (@ \ regex) \cup {[p EXCEPT !.type = "ImplementationSpecific"] : p \in regex} ELSE @,
       !.fields = (@ \ ((IF moved THEN {"class-annotation"} ELSE {})
                        \cup (IF "stripIngressSnippets" \in options THEN {"snippet"} ELSE {})))
                  \cup (IF fixed /\ regex # {} THEN {"use-regex"} ELSE {})]

cleanDocument(d, options) ==
  LET m == cleanMetadata(d, options)
      s == IF "scaleToZero" \in options /\ m.kind \in Scalable THEN [m EXCEPT !.replicas = 0] ELSE m
  IN IF s.kind = "Ingress" THEN cleanIngress(s, options) ELSE s

\* The namespace that an object without one is given, if one was chosen.
Stamped(d, options, defaultNamespace) ==
  IF d.kind \in ClusterScoped \/ "stripNamespace" \in options \/ d.namespace # None THEN d
  ELSE [d EXCEPT !.namespace = defaultNamespace]

NamespaceDoc(n) ==
  [kind |-> "Namespace", name |-> n, namespace |-> None, fields |-> {}, spawned |-> FALSE,
   headless |-> FALSE, replicas |-> 1, class |-> None, annotated |-> None, paths |-> {}]

\* The manifest again: namespaces first, those it lacks generated.
cleanManifest(docs, options, defaultNamespace) ==
  LET flat == FlatList(docs)
      live == SelectSeq(flat, LAMBDA d : ~dropReason(d, options))
      kept == [i \in DOMAIN live |-> Stamped(cleanDocument(live[i], options), options, defaultNamespace)]
      own  == SelectSeq(kept, LAMBDA d : d.kind = "Namespace")
      rest == SelectSeq(kept, LAMBDA d : d.kind # "Namespace")
      defined == {own[i].name : i \in DOMAIN own}
      used == ({kept[i].namespace : i \in DOMAIN kept} \ (SystemNamespaces \cup {None})) \cup defined
      made == IF "emitNamespaces" \in options /\ "stripNamespace" \notin options
                THEN SetToSeq(used \ defined) ELSE <<>>
  IN [output |-> [i \in DOMAIN made |-> NamespaceDoc(made[i])] \o own \o rest,
      namespaces |-> used, generated |-> Len(made), dropped |-> Len(flat) - Len(live),
      missing |-> Cardinality({i \in DOMAIN kept : kept[i].namespace = None
                                 /\ kept[i].kind \notin ClusterScoped /\ "stripNamespace" \notin options})]

-----------------------------------------------------------------------------
(* An Ingress as a Gateway and an HTTPRoute *)

AnyHost == "*"                      \* the host of a rule that names none

pathType(t) == IF t = "Exact" THEN "Exact" ELSE "PathPrefix"

\* Mutant of TlsHosts: only those whose secret is named.
TlsHostsWithSecret(ing) == {t.host : t \in {x \in ing.tls : x.secret # None}}

\* The hosts that are served with TLS.
TlsHosts(ing) == {t.host : t \in ing.tls}

\* One listener for each host, secured when its host is a TLS host, and one
\* route with the paths of all the rules under all the named hosts.
convertIngress(ing) ==
  LET hosts == IF ing.rules = <<>> THEN {AnyHost} ELSE {ing.rules[i].host : i \in DOMAIN ing.rules}
      secret(h) == LET s == {t \in ing.tls : h = t.host /\ t.secret # None}
                   IN IF s = {} THEN "CHANGEME" ELSE (CHOOSE t \in s : TRUE).secret
      secured == TlsHosts(ing)
      listener(h) == IF h \in secured THEN [host |-> h, port |-> 443, cert |-> secret(h)]
                     ELSE [host |-> h, port |-> 80, cert |-> None]
  IN [listeners |-> {listener(h) : h \in hosts},
      class |-> IF ing.class = None THEN "CHANGEME" ELSE ing.class,
      hostnames |-> hosts \ {AnyHost},
      rules |-> [i \in DOMAIN ing.rules |->
                  [path |-> ing.rules[i].path, type |-> pathType(ing.rules[i].type), to |-> ing.rules[i].to]],
      warnings |-> (IF ing.class = None THEN {"class"} ELSE {})
                   \cup {"secret" : h \in {x \in hosts : x \in secured /\ secret(x) = "CHANGEME"}}
                   \cup {"path type" : i \in {j \in DOMAIN ing.rules : ing.rules[j].type = "ImplementationSpecific"}}
                   \cup (IF ing.defaultBackend THEN {"default backend"} ELSE {})]

convertIngressToGateway(docs) ==
  LET ings == SelectSeq(docs, LAMBDA d : d.kind = "Ingress")
  IN OkIf(ings # <<>> \/ docs = <<>>, [i \in DOMAIN ings |-> convertIngress(ings[i])])
=============================================================================
