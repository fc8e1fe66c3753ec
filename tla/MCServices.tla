----------------------------- MODULE MCServices -----------------------------
(* Eight parts of the system that do not share state, each in scenarios of
   its own: a behaviour runs one of them and leaves the others alone. *)
EXTENDS SignalHub, PidFile, EventAcl, Protocol, Config, Plugins, Storage

VARIABLE part

MCSlots == [l \in {"locator", "logging"} |->
  IF l = "locator" THEN {"prepared", "shutdown", "exposed", "removed"} ELSE {"os_signal"}]

MCScope == [s \in {"c1", "u1", "u2"} |-> IF s = "c1" THEN "cids" ELSE "uids"]

\* A protocol of a plugin that inherits one of the core's and recurses.
MCPlugged ==
  (<<"app">> :> [messages |-> <<Message("open", Required(1), <<"rw">>, Streaming(1)),
                                Message("stat", Required(1), Void, Primitive(0))>>,
                 parent |-> <<"storage">>, transition |-> FALSE]) @@
  (<<"rw">> :> [messages |-> <<Message("seek", Required(1), <<"rw">>, Void)>>,
                parent |-> Streaming(1), transition |-> TRUE])
Words == UNION {[1 .. n -> {0, 1, 3, 4, 5, MaxId - 3}] : n \in 1 .. 3}
Lists == UNION {[1 .. n -> {Req, Opt}] : n \in 0 .. 4}

Types == {Bool, Signed(2), Signed(Bits), Unsigned(2), Double, String, AnyType, Vector(Signed(2)), Dict(Unsigned(2)),
          Tuple(<<Signed(2), String>>), Vector(Tuple(<<Bool, Unsigned(2)>>)), Dict(Vector(Bool)),
          Tuple(<<Dict(String), Vector(Double)>>)}
Nested == {Null, <<"bool", TRUE>>, <<"int", -1>>, <<"uint", 7>>, <<"string", 2>>, <<"array", <<>>>>,
           <<"array", <<<<"bool", TRUE>>, <<"uint", 1>>>>>>}

Str(s) == <<"string", s>>
Obj(members) == <<"object", members>>
One(name, v) == Obj(<<<<name, v>>>>)
Num(n) == <<"number", n>>
Arr(s) == <<"array", s>>
Sections ==
  [n \in {"version", "paths", "network", "logging", "services", "isolate"} |->
     CASE n = "version" -> {Num(4), Num(3)}
       [] n = "paths" -> {One("plugins", x) : x \in {Str("p"), Arr(<<Str("p"), Str("q")>>), Arr(<<Num(1)>>), Num(1)}}
                           \cup {One("runtime", Str("gone"))}
       [] n = "network" -> {Null, One("pool", Num(0)), One("endpoint", Num(1)), One("shared", Arr(<<Num(1)>>)),
                            One("pinned", One("x", Num(-1))), Obj(<<<<"pool", Num(0)>>, <<"pool", Num(1)>>>>)}
                             \cup {Obj(<<<<"shared", Arr(<<Num(a), Num(b)>>)>>, <<"pinned", One("x", Num(a))>>>>) : a, b \in 0 .. 4}
       [] n = "logging" -> {Obj(<<>>), One("loggers", Obj(<<>>)),
                            Obj(<<<<"loggers", Obj(<<>>)>>, <<"severity", Str("loud")>>>>)}
       [] n = "services" -> {One("x", One("type", Str("t"))), One("x", One("type", Num(1))), Num(1)}
       [] n = "isolate" -> {Obj(<<>>), One("x", Num(1))}]

MCInstalled == [n \in {"a", "b", "c", "d"} |->
  CASE n = "a" -> {1, 2} [] n = "b" -> {2, 3} [] n = "c" -> {4, 5} [] n = "d" -> {1, 6}]
MCCalls == [p \in 1 .. 6 |->
  CASE p = 1 -> <<Component("x"), Category("node", 20)>>
    [] p = 2 -> <<Category("docker", 21), Component("y")>>
    [] p = 3 -> <<Component("z"), Category("other", 21)>>
    [] p = 4 -> <<Category("node", 20), Category("net", 22), Component("x")>>
    [] p = 5 -> <<Component("q"), Failure>>
    [] p = 6 -> <<>>]

\* Batches of writers, readers, removers and a change of the ACL, over one
\* collection in which a tag may be taken for an object and the reverse.
Alice == [cids |-> {}, uids |-> {"alice"}]
Bob == [cids |-> {"app"}, uids |-> {"bob"}]
Nobody == [cids |-> {}, uids |-> {}]

Order(op, c, k, blob, tags, who) ==
  [op |-> op, collection |-> c, key |-> k, blob |-> blob, tags |-> tags, who |-> who]

MCRequests == {"w1", "w2", "w3", "w4", "rd", "rm", "rmk", "fd", "fdk", "acl"}

MCBatches ==
  {{"w1", "w2", "rd", "fd"}, {"w1", "w3", "acl", "rd"}, {"w1", "w3", "rm", "fd"},
   {"w1", "w3", "rmk", "fd"}, {"w1", "w4", "fd"}, {"w3", "fdk"}}

MCRequest == [r \in MCRequests |->
  CASE r = "w1" -> Order("write", "data", "k", Blob("one"), <<"t", "u">>, Nobody)
    [] r = "w2" -> Order("write", "data", "k", Blob("two"), <<"t", "k">>, Alice)
    [] r = "w3" -> Order("write", "data", "k", Blob("three"), <<"u">>, Bob)
    [] r = "w4" -> Order("write", "data", "t", Blob("four"), <<>>, Nobody)
    [] r = "rd" -> Order("read", "data", "k", Absent, <<>>, Bob)
    [] r = "rm" -> Order("remove", "data", "t", Absent, <<>>, Alice)
    [] r = "rmk" -> Order("remove", "data", "k", Absent, <<>>, Nobody)
    [] r = "fdk" -> Order("find", "data", "data", Absent, <<"k">>, Bob)
    [] r = "fd" -> Order("find", "data", "data", Absent, <<"u", "t">>, Nobody)
    [] r = "acl" -> Order("write", ".collection-acls", "data",
                        Acl([c |-> ("app" :> {"read"}), u |-> <<>>]), <<>>, Alice)]

Parts == {"hub", "pid", "acl", "storage", "plugins", "protocol", "dynamic", "config"}

Init ==
  /\ part \in Parts
  /\ HubInit(IF part = "hub" THEN {"locator", "logging"} ELSE {})
  /\ PidInit /\ AclInit
  /\ StorageInit(IF part = "storage" THEN MCBatches ELSE {{}})
  /\ PluginsInit(IF part = "plugins" THEN Nodes ELSE {})
  /\ IF part = "protocol" THEN ProtocolInit(Words, 0 .. 4, Lists) ELSE case = [kind |-> "off"]
  /\ IF part = "dynamic" THEN DynamicInit(Types, Nested) ELSE sample = [kind |-> "off"]
  /\ IF part = "config" THEN ConfigInit(Sections) ELSE document = Null

pureVars == <<case, sample, document>>

Next ==
  /\ UNCHANGED <<part, pureVars>>
  /\ \/ part = "hub" /\ HubNext /\ UNCHANGED <<pidVars, aclVars, pluginVars, storageVars>>
     \/ part = "pid" /\ PidNext /\ UNCHANGED <<hubVars, aclVars, pluginVars, storageVars>>
     \/ part = "acl" /\ AclNext /\ UNCHANGED <<hubVars, pidVars, pluginVars, storageVars>>
     \/ part = "plugins" /\ PluginsNext /\ UNCHANGED <<hubVars, pidVars, aclVars, storageVars>>
     \/ part = "storage" /\ StorageNext /\ UNCHANGED <<hubVars, pidVars, aclVars, pluginVars>>

vars == <<part, pureVars, hubVars, pidVars, aclVars, pluginVars, storageVars>>

Spec == Init /\ [][Next]_vars
=============================================================================
