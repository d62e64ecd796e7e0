---- MODULE MCServices ----
(* The services beside the data plane on small instances: a certificate configuration of every mode,  *)
(* three time servers of which one lies, files of up to three instances, two bindings.                *)
EXTENDS Services

\* One configuration of every mode, and the panel's incomplete ones.
Half(x) == <<"half", x>>
Pair(x, y) == [cert |-> x, key |-> y]
Cfg(mode, auto, domain, provider, content, withFiles) ==
  [mode |-> mode, auto |-> auto, domain |-> domain, provider |-> provider, content |-> content, files |-> withFiles]
MCCertConfigs == {Cfg("", TRUE, "d1", "", NoPair, FALSE), Cfg("dns", FALSE, "d2", "p", NoPair, FALSE),
  Cfg("dns", FALSE, "d1", "", NoPair, FALSE), Cfg("self", FALSE, "d1", "", NoPair, FALSE),
  Cfg("", FALSE, "d1", "", Pair(Half("panel"), Half("panel")), FALSE), Cfg("content", FALSE, "", "", NoPair, FALSE),
  Cfg("", FALSE, "", "", NoPair, TRUE), Cfg("", FALSE, "", "", NoPair, FALSE)}
MCFilePairs == {Pair(Half("file"), Half("file")), Pair(Half("file"), Half("other"))}

MCWrongOffsets == {-3}
MCBounds == [warn |-> 1, error |-> 2, critical |-> 3]

\* Instances of one node, of several, of a machine and on their own, and environments that complete,
\* override or lack something.
Blank == [url |-> "", node |-> 0, nodes |-> <<>>, machine |-> 0, standalone |-> FALSE, dir |-> <<>>, certDir |-> <<>>,
          kernel |-> "", stateDir |-> <<>>, interval |-> 0, certMode |-> "", domain |-> "", autoTLS |-> FALSE,
          port |-> 0, secrets |-> {}, refs |-> {"panel", "machine"}]
Entry(id, kernel, dir) == [id |-> id, kernel |-> kernel, dir |-> dir, cert |-> kernel]
Raw == {[Blank EXCEPT !.url = "p", !.node = 1], [Blank EXCEPT !.url = "p/", !.node = 1, !.secrets = {"panel"}],
  [Blank EXCEPT !.url = "p", !.machine = 1], [Blank EXCEPT !.standalone = TRUE, !.stateDir = <<"own">>],
  [Blank EXCEPT !.url = "p", !.nodes = <<Entry(1, FALSE, <<>>), Entry(2, FALSE, <<>>)>>],
  [Blank EXCEPT !.url = "q", !.nodes = <<Entry(1, TRUE, <<>>), Entry(2, TRUE, <<"x">>)>>, !.port = 1],
  [Blank EXCEPT !.url = "q", !.node = 3, !.dir = <<"x">>, !.port = 1, !.certMode = "self"]}
Tops == {Blank, [Blank EXCEPT !.url = "p", !.node = 2, !.kernel = "singbox", !.autoTLS = TRUE, !.domain = "d"]}
Lists == {<<>>} \cup {<<a>> : a \in Raw} \cup (Raw \X Raw) \cup (Raw \X Raw \X Raw)
MCFiles == {[top |-> t, instances |-> l] : t \in Tops, l \in {x \in Lists : \A i, j \in DOMAIN x : x[i] = x[j] => i = j}}
NoEnv == [url |-> "", machine |-> 0, domain |-> "", secrets |-> {"panel", "machine"}]
MCEnvs == {NoEnv, [NoEnv EXCEPT !.secrets = {"panel"}], [NoEnv EXCEPT !.url = "q", !.domain = "e"], [NoEnv EXCEPT !.machine = 7]}

MCBindings == {[id |-> "b1", mode |-> "node", nodeType |-> "vless"], [id |-> "b2", mode |-> "node", nodeType |-> "tuic"]}
\* An installation without bindings, and one binding at the top level.
CtlFile(top, list) == [shared |-> TRUE, top |-> top, instances |-> list]
MCInstance(id) == [i \in {id} |-> [kernel |-> "singbox", type |-> "vless"]]
MCCtlFiles == {CtlFile(<<>>, <<>>), CtlFile(MCInstance("b1"), <<>>)}
====
