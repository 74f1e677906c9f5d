-------------------------- MODULE NodeConfigProofs --------------------------
(***************************************************************************)
(* The loaders of NodeConfig, for every object and every file: what a load *)
(* assigns does not depend on what was loaded before, and what it checks   *)
(* holds when it returns.  Every loader is a sequence of statements run on *)
(* the object; two objects that run the same statements agree on what the  *)
(* statements assign.                                                      *)
(***************************************************************************)
EXTENDS NodeConfig, WellFoundedInduction, TLAPS

\* a set of natural numbers has a least one: the argument by the smallest counterexample
LEMMA LeastNatural ==
    ASSUME NEW T \in SUBSET Nat, T # {}
    PROVE  \E x \in T : \A y \in T : x <= y
  <1> DEFINE R == OpToRel(<, Nat)
  <1>1. IsWellFoundedOn(R, Nat)
    BY NatLessThanWellFounded, ZenonT(30)
  <1>2. PICK x \in T : \A y \in T : ~ (<<y, x>> \in R)
    <2> HIDE DEF R
    <2> QED
      BY <1>1, WFMin, ZenonT(30)
  <1>3. \A y \in T : ~ (y < x)
    BY <1>2, ZenonT(30) DEF OpToRel
  <1> QED
    BY <1>3

\* ... and Min is it
LEMMA LeastOf ==
    ASSUME NEW T \in SUBSET Nat, T # {}
    PROVE  Min(T) \in T /\ \A y \in T : Min(T) <= y
  BY LeastNatural, ZenonT(30) DEF Min

\* an object: any values in its members, with or without an earlier throw
Members == DOMAIN NewNodeConfig

IsConfig(c) ==
    /\ c = [m \in Members |-> c[m]]
    /\ c.thrown \in BOOLEAN

\* statements that throw or assign exactly the members M
Statements(s, M) ==
    /\ Len(s) \in Nat \ {0} /\ DOMAIN s = 1..Len(s)
    /\ \A i \in DOMAIN s : "thrown" \in DOMAIN s[i] => s[i]["thrown"] = TRUE
    /\ (\A i \in DOMAIN s : "thrown" \notin DOMAIN s[i]) =>
            \A m : m \in M <=> \E i \in DOMAIN s : m \in DOMAIN s[i]

\* no statement throws
Quiet(s) == \A i \in DOMAIN s : "thrown" \notin DOMAIN s[i]

\* what the first of them to assign m assigns
Value(s, m) == s[Min({i \in DOMAIN s : m \in DOMAIN s[i]})][m]

\* c with what the statements assign in the members M
Assigned(c, s, M) == [m \in DOMAIN c |-> IF m \in M THEN Value(s, m) ELSE c[m]]

\* an object that no statement has thrown in has seen them all
LEMMA RunQuiet ==
    ASSUME NEW c, IsConfig(c), NEW s, NEW M, Statements(s, M), ~Run(c, s).thrown
    PROVE  ~c.thrown /\ \A i \in DOMAIN s : "thrown" \notin DOMAIN s[i]
  <1> DEFINE throws == {i \in DOMAIN s : "thrown" \in DOMAIN s[i]}
             last == Min(throws \cup {Len(s)})
             of == {i \in 1..last : "thrown" \in DOMAIN s[i]}
  <1>1. ~c.thrown
    BY DEF Run
  <1>2. Run(c, s)["thrown"] = IF of = {} THEN c["thrown"] ELSE s[Min(of)]["thrown"]
    <2>1. "thrown" \in DOMAIN c
      BY DEF IsConfig, Members, NewNodeConfig
    <2> QED
      BY <1>1, <2>1 DEF Run
  <1>3. SUFFICES ASSUME throws # {} PROVE FALSE
    BY <1>1
  <1>4. last \in throws
    <2>1. throws \cup {Len(s)} \in SUBSET Nat /\ throws \cup {Len(s)} # {}
      BY DEF Statements
    <2>2. last \in throws \cup {Len(s)} /\ \A y \in throws \cup {Len(s)} : last <= y
      BY <2>1, LeastOf
    <2> HIDE DEF last
    <2>3. PICK i : i \in throws
      BY <1>3
    <2>4. i \in 1..Len(s) /\ last <= i /\ Len(s) \in Nat
      BY <2>2, <2>3 DEF Statements
    <2>5. last = Len(s) => last = i
      BY <2>4
    <2> QED
      BY <2>2, <2>3, <2>5
  <1> HIDE DEF last
  <1>5. last \in of /\ of \in SUBSET DOMAIN s
    BY <1>4 DEF Statements
  <1>6. Min(of) \in of
    <2>1. of \in SUBSET Nat /\ of # {}
      BY <1>5 DEF Statements
    <2> QED
      BY <2>1, LeastOf
  <1> QED
    BY <1>2, <1>5, <1>6 DEF Statements

\* ... and holds what they assign
LEMMA RunAssigns ==
    ASSUME NEW c, IsConfig(c), ~c.thrown, NEW s, NEW M, Statements(s, M),
           \A i \in DOMAIN s : "thrown" \notin DOMAIN s[i]
    PROVE  Run(c, s) = Assigned(c, s, M)
  <1> DEFINE throws == {i \in DOMAIN s : "thrown" \in DOMAIN s[i]}
             last == Min(throws \cup {Len(s)})
             of(m) == {i \in 1..last : m \in DOMAIN s[i]}
  <1>1. Run(c, s) = [m \in DOMAIN c |-> IF of(m) = {} THEN c[m] ELSE s[Min(of(m))][m]]
    BY DEF Run
  <1>2. last = Len(s)
    <2>1. throws \cup {Len(s)} = {Len(s)}
      OBVIOUS
    <2>2. {Len(s)} \in SUBSET Nat
      BY DEF Statements
    <2> QED
      BY <2>1, <2>2, LeastOf
  <1> HIDE DEF last
  <1>3. \A m : of(m) = {i \in DOMAIN s : m \in DOMAIN s[i]}
    BY <1>2 DEF Statements
  <1>4. \A m : m \in M <=> of(m) # {}
    BY <1>3 DEF Statements
  <1>5. \A m : m \in M => s[Min(of(m))][m] = Value(s, m)
    BY <1>3, ZenonT(30) DEF Value
  <1> HIDE DEF of
  <1> QED
    BY <1>1, <1>4, <1>5 DEF Assigned

\* an object stays an object, whatever is thrown in it
LEMMA RunConfig ==
    ASSUME NEW c, IsConfig(c), NEW s, NEW M, Statements(s, M)
    PROVE  IsConfig(Run(c, s))
  <1> DEFINE throws == {i \in DOMAIN s : "thrown" \in DOMAIN s[i]}
             last == Min(throws \cup {Len(s)})
             of(m) == {i \in 1..last : m \in DOMAIN s[i]}
             after == [m \in DOMAIN c |-> IF of(m) = {} THEN c[m] ELSE s[Min(of(m))][m]]
  <1>1. DOMAIN c = Members /\ "thrown" \in DOMAIN c
    BY DEF IsConfig, Members, NewNodeConfig
  <1>2. Run(c, s) = IF c.thrown THEN c ELSE after
    BY DEF Run
  <1>3. last \in Nat /\ last <= Len(s) /\ Len(s) \in Nat
    <2>1. throws \cup {Len(s)} \in SUBSET Nat /\ throws \cup {Len(s)} # {} /\ Len(s) \in Nat
      BY DEF Statements
    <2> HIDE DEF throws
    <2> QED
      BY <2>1, LeastOf, SMTT(30)
  <1> HIDE DEF last
  <1>4. ASSUME of("thrown") # {} PROVE s[Min(of("thrown"))]["thrown"] = TRUE
    <2>1. of("thrown") \in SUBSET Nat /\ of("thrown") \in SUBSET throws
      BY <1>3 DEF Statements
    <2>2. Min(of("thrown")) \in throws
      BY <1>4, <2>1, LeastOf
    <2> QED
      BY <2>2 DEF Statements
  <1>5. after["thrown"] = IF of("thrown") = {} THEN c["thrown"] ELSE s[Min(of("thrown"))]["thrown"]
    BY <1>1
  <1>6. DOMAIN after = Members /\ after = [m \in Members |-> after[m]]
    BY <1>1
  <1> HIDE DEF after, of
  <1>7. after["thrown"] \in BOOLEAN
    BY <1>4, <1>5, ZenonT(30) DEF IsConfig
  <1>8. IsConfig(after)
    BY <1>6, <1>7 DEF IsConfig
  <1> QED
    BY <1>2, <1>8

\* two objects, neither thrown in, with the same values in the members M
Agree(c, d, M) ==
    /\ IsConfig(c) /\ IsConfig(d) /\ ~c.thrown /\ ~d.thrown
    /\ M \subseteq Members /\ \A m \in M : c[m] = d[m]

\* ... and is an object again
LEMMA AssignedConfig ==
    ASSUME NEW c, IsConfig(c), ~c.thrown, NEW s, NEW M, "thrown" \notin M
    PROVE  IsConfig(Assigned(c, s, M)) /\ ~Assigned(c, s, M).thrown
  <1>1. DOMAIN c = Members /\ "thrown" \in DOMAIN c
    BY DEF IsConfig, Members, NewNodeConfig
  <1>2. DOMAIN Assigned(c, s, M) = Members
    BY <1>1 DEF Assigned
  <1>3. Assigned(c, s, M).thrown = c.thrown
    BY <1>1 DEF Assigned
  <1>4. Assigned(c, s, M) = [m \in Members |-> Assigned(c, s, M)[m]]
    BY <1>2 DEF Assigned
  <1> QED
    BY <1>3, <1>4 DEF IsConfig

\* The step of the argument: two objects that agree on A agree, after the same statements, on
\* A and on what those assign, if none throws in the first object
LEMMA RunForgets ==
    ASSUME NEW c, NEW d, NEW A, Agree(c, d, A), NEW s, NEW M \in SUBSET Members, Statements(s, M),
           ~Run(c, s).thrown
    PROVE  /\ Agree(Run(c, s), Run(d, s), A \cup M)
           /\ \A m \in M : Run(c, s)[m] = Value(s, m)
           /\ \A m \in Members \ M : Run(c, s)[m] = c[m]
  <1>1. \A i \in DOMAIN s : "thrown" \notin DOMAIN s[i]
    BY RunQuiet DEF Agree
  <1>2. Run(c, s) = Assigned(c, s, M) /\ Run(d, s) = Assigned(d, s, M)
    BY <1>1, RunAssigns DEF Agree
  <1>3. "thrown" \notin M
    BY <1>1 DEF Statements
  <1>4. DOMAIN c = Members /\ DOMAIN d = Members
    BY DEF IsConfig, Agree
  <1>5. IsConfig(Run(c, s)) /\ IsConfig(Run(d, s)) /\ ~Run(c, s).thrown /\ ~Run(d, s).thrown
    BY <1>2, <1>3, AssignedConfig DEF Agree
  <1>6. \A m \in Members :
            /\ Run(c, s)[m] = IF m \in M THEN Value(s, m) ELSE c[m]
            /\ Run(d, s)[m] = IF m \in M THEN Value(s, m) ELSE d[m]
    BY <1>2, <1>4 DEF Assigned
  <1> QED
    BY <1>5, <1>6 DEF Agree
-----------------------------------------------------------------------------

\* a statement that throws or assigns exactly the members M
Sets(st, M) ==
    /\ "thrown" \in DOMAIN st => st["thrown"] = TRUE
    /\ "thrown" \notin DOMAIN st => DOMAIN st = M

\* the statements of the loaders
LEMMA AssignSets ==
    ASSUME NEW m, m # "thrown", NEW v
    PROVE  Sets(Assign(m, v), {m}) /\ Assign(m, v)[m] = v
  BY DEF Sets, Assign

LEMMA ThrowSets == ASSUME NEW M PROVE Sets(Throw, M)
  BY DEF Sets, Throw, Assign

LEMMA CheckedName == ASSUME NEW text PROVE Sets(Check(IsalNumStr(text)), {})
  BY DEF IsalNumStr, Check, Throw, Assign, Sets

\* sequences of statements
LEMMA OneStatement ==
    ASSUME NEW a, NEW A, Sets(a, A)
    PROVE  Statements(<<a>>, A)
  BY DEF Statements, Sets

LEMMA TwoStatements ==
    ASSUME NEW a, NEW b, NEW A, NEW B, Sets(a, A), Sets(b, B)
    PROVE  \A M : M = A \cup B => Statements(<<a, b>>, M)
  BY DEF Statements, Sets

LEMMA ThreeStatements ==
    ASSUME NEW a, NEW b, NEW e, NEW A, NEW B, NEW E, Sets(a, A), Sets(b, B), Sets(e, E)
    PROVE  \A M : M = A \cup B \cup E => Statements(<<a, b, e>>, M)
  BY DEF Statements, Sets

LEMMA FourStatements ==
    ASSUME NEW a, NEW b, NEW e, NEW f, NEW A, NEW B, NEW E, NEW F,
           Sets(a, A), Sets(b, B), Sets(e, E), Sets(f, F)
    PROVE  \A M : M = A \cup B \cup E \cup F => Statements(<<a, b, e, f>>, M)
  BY DEF Statements, Sets

LEMMA FiveStatements ==
    ASSUME NEW a, NEW b, NEW e, NEW f, NEW g, NEW A, NEW B, NEW E, NEW F, NEW G,
           Sets(a, A), Sets(b, B), Sets(e, E), Sets(f, F), Sets(g, G)
    PROVE  \A M : M = A \cup B \cup E \cup F \cup G => Statements(<<a, b, e, f, g>>, M)
  BY DEF Statements, Sets

LEMMA SevenStatements ==
    ASSUME NEW a, NEW b, NEW e, NEW f, NEW g, NEW h, NEW i,
           NEW A, NEW B, NEW E, NEW F, NEW G, NEW H, NEW I,
           Sets(a, A), Sets(b, B), Sets(e, E), Sets(f, F), Sets(g, G), Sets(h, H), Sets(i, I)
    PROVE  Statements(<<a, b, e, f, g, h, i>>, A \cup B \cup E \cup F \cup G \cup H \cup I)
  BY DEF Statements, Sets

\* a member that only one statement assigns has the value of that statement
LEMMA ValueOf ==
    ASSUME NEW s, NEW M, Statements(s, M), NEW m, NEW i \in DOMAIN s, m \in DOMAIN s[i],
           \A j \in DOMAIN s : m \in DOMAIN s[j] => j = i
    PROVE  Value(s, m) = s[i][m]
  <1>1. {j \in DOMAIN s : m \in DOMAIN s[j]} = {i} /\ i \in Nat
    BY DEF Statements
  <1>2. Min({i}) = i
    BY <1>1, LeastOf
  <1> QED
    BY <1>1, <1>2 DEF Value

\* Every loader runs one sequence of statements, the same for every object, and a number with a
\* limit is within it when no statement throws
LEMMA ChainStatements ==
    ASSUME NEW pt
    PROVE  \E s : /\ Statements(s, {"smCryptoType", "groupId", "chainId", "blockLimit"})
                  /\ \A c : LoadChainConfig(c, pt) = Run(c, s)
                  /\ Quiet(s) => /\ Value(s, "blockLimit") > 0
                                 /\ Value(s, "blockLimit") <= MaxBlockLimit
  <1> DEFINE chainId == Get(pt, "chain.chain_id", "chain")
             k == Assign("smCryptoType", Get(pt, "chain.sm_crypto", FALSE))
             a == Assign("groupId", Get(pt, "chain.group_id", "group"))
             b == Assign("chainId", chainId)
             e == Check(IsalNumStr(chainId))
             f == SetSize(pt, "chain.block_limit", 1000, "blockLimit",
                          LAMBDA n : n > 0 /\ n <= MaxBlockLimit)
             s == <<k, a, b, e, f>>
  <1>1. \A c : LoadChainConfig(c, pt) = Run(c, s)
    BY DEF LoadChainConfig
  <1>2. Sets(k, {"smCryptoType"}) /\ Sets(a, {"groupId"}) /\ Sets(b, {"chainId"})
    BY AssignSets
  <1>3. Sets(e, {})
    BY CheckedName
  <1>4. Sets(f, {"blockLimit"})
    BY DEF SetSize, Check, Throw, Assign, Sets
  <1>5. ASSUME "thrown" \notin DOMAIN f
        PROVE f["blockLimit"] > 0 /\ f["blockLimit"] <= MaxBlockLimit
    BY <1>5 DEF SetSize, Check, Throw, Assign
  <1> HIDE DEF k, a, b, e, f
  <1>6. Statements(s, {"smCryptoType", "groupId", "chainId", "blockLimit"})
    BY <1>2, <1>3, <1>4, FiveStatements
  <1>7. ASSUME Quiet(s)
        PROVE  Value(s, "blockLimit") = f["blockLimit"] /\ "thrown" \notin DOMAIN f
    <2>1. DOMAIN s = 1..5 /\ s[1] = k /\ s[2] = a /\ s[3] = b /\ s[4] = e /\ s[5] = f
      OBVIOUS
    <2>2. /\ DOMAIN k = {"smCryptoType"} /\ DOMAIN a = {"groupId"} /\ DOMAIN b = {"chainId"} /\ DOMAIN e = {}
          /\ DOMAIN f = {"blockLimit"}
      BY <1>2, <1>3, <1>4, <1>7, <2>1 DEF Quiet, Sets
    <2>3. \A j \in DOMAIN s : ("blockLimit" \in DOMAIN s[j] => j = 5)
      BY <2>1, <2>2
    <2> HIDE DEF s
    <2> QED
      BY <1>6, <2>1, <2>2, <2>3, ValueOf
  <1> HIDE DEF s
  <1> QED
    BY <1>1, <1>5, <1>6, <1>7, ZenonT(30)

LEMMA CertStatements ==
    ASSUME NEW pt
    PROVE  \E s : /\ Statements(s, {"certPath", "smCaCert", "caCert", "nodeCert"})
                  /\ \A c : LoadCertConfig(c, pt) = Run(c, s)
  <1> DEFINE path == Get(pt, "cert.ca_path", "./")
             a == Assign("certPath", path)
             b == Assign("smCaCert", <<path, Get(pt, "cert.sm_ca_cert", "sm_ca.crt")>>)
             e == Assign("caCert", <<path, Get(pt, "cert.ca_cert", "ca.crt")>>)
             f == Assign("nodeCert", <<path, Get(pt, "cert.node_cert", "ssl.crt")>>)
             s == <<a, b, e, f>>
  <1>1. \A c : LoadCertConfig(c, pt) = Run(c, s)
    BY DEF LoadCertConfig
  <1>2. /\ Sets(a, {"certPath"}) /\ Sets(b, {"smCaCert"}) /\ Sets(e, {"caCert"})
        /\ Sets(f, {"nodeCert"})
    BY AssignSets
  <1> HIDE DEF a, b, e, f
  <1>3. Statements(s, {"certPath", "smCaCert", "caCert", "nodeCert"})
    BY <1>2, FourStatements
  <1> HIDE DEF s
  <1> QED
    BY <1>1, <1>3, ZenonT(30)

LEMMA RpcStatements ==
    ASSUME NEW pt
    PROVE  \E s : /\ Statements(s, {"rpcListenPort", "rpcThreadPoolSize"})
                  /\ \A c : LoadRpcConfig(c, pt) = Run(c, s)
  <1> DEFINE a == Assign("rpcListenPort", Uint16(GetInt(pt, "rpc.listen_port", 20200)))
             b == Assign("rpcThreadPoolSize", Uint32(GetInt(pt, "rpc.thread_count", 8)))
             s == <<a, b>>
  <1>1. \A c : LoadRpcConfig(c, pt) = Run(c, s)
    BY DEF LoadRpcConfig
  <1>2. Sets(a, {"rpcListenPort"}) /\ Sets(b, {"rpcThreadPoolSize"})
    BY AssignSets
  <1> HIDE DEF a, b
  <1>3. Statements(s, {"rpcListenPort", "rpcThreadPoolSize"})
    BY <1>2, TwoStatements
  <1> HIDE DEF s
  <1> QED
    BY <1>1, <1>3, ZenonT(30)

LEMMA GatewayStatements ==
    ASSUME NEW pt
    PROVE  \E s : /\ Statements(s, {"p2pListenPort", "p2pNodeFileName"})
                  /\ \A c : LoadGatewayConfig(c, pt) = Run(c, s)
  <1> DEFINE a == Assign("p2pListenPort", Uint16(GetInt(pt, "p2p.listen_port", 30300)))
             b == Assign("p2pNodeFileName", Get(pt, "p2p.nodes_file", "nodes.json"))
             s == <<a, b>>
  <1>1. \A c : LoadGatewayConfig(c, pt) = Run(c, s)
    BY DEF LoadGatewayConfig
  <1>2. Sets(a, {"p2pListenPort"}) /\ Sets(b, {"p2pNodeFileName"})
    BY AssignSets
  <1> HIDE DEF a, b
  <1>3. Statements(s, {"p2pListenPort", "p2pNodeFileName"})
    BY <1>2, TwoStatements
  <1> HIDE DEF s
  <1> QED
    BY <1>1, <1>3, ZenonT(30)

LEMMA TxPoolStatements ==
    ASSUME NEW pt
    PROVE  \E s : /\ Statements(s, {"txpoolLimit", "notifyWorkerNum", "verifierWorkerNum"})
                  /\ \A c : LoadTxPoolConfig(c, pt) = Run(c, s)
                  /\ Quiet(s) => /\ Value(s, "txpoolLimit") > 0 /\ Value(s, "notifyWorkerNum") > 0
                                 /\ Value(s, "verifierWorkerNum") > 0
  <1> DEFINE a == SetSize(pt, "txpool.limit", 15000, "txpoolLimit", Positive)
             b == SetSize(pt, "txpool.notify_worker_num", 2, "notifyWorkerNum", Positive)
             e == SetSize(pt, "txpool.verify_worker_num", 2, "verifierWorkerNum", Positive)
             s == <<a, b, e>>
  <1>1. \A c : LoadTxPoolConfig(c, pt) = Run(c, s)
    BY DEF LoadTxPoolConfig
  <1>2. Sets(a, {"txpoolLimit"})
    BY DEF SetSize, Check, Throw, Assign, Sets
  <1>3. Sets(b, {"notifyWorkerNum"})
    BY DEF SetSize, Check, Throw, Assign, Sets
  <1>4. Sets(e, {"verifierWorkerNum"})
    BY DEF SetSize, Check, Throw, Assign, Sets
  <1>5. ASSUME "thrown" \notin DOMAIN a PROVE a["txpoolLimit"] > 0
    BY <1>5 DEF SetSize, Check, Throw, Assign, Positive
  <1>6. ASSUME "thrown" \notin DOMAIN b PROVE b["notifyWorkerNum"] > 0
    BY <1>6 DEF SetSize, Check, Throw, Assign, Positive
  <1>7. ASSUME "thrown" \notin DOMAIN e PROVE e["verifierWorkerNum"] > 0
    BY <1>7 DEF SetSize, Check, Throw, Assign, Positive
  <1> HIDE DEF a, b, e
  <1>8. Statements(s, {"txpoolLimit", "notifyWorkerNum", "verifierWorkerNum"})
    BY <1>2, <1>3, <1>4, ThreeStatements
  <1>9. ASSUME Quiet(s)
        PROVE  /\ Value(s, "txpoolLimit") = a["txpoolLimit"] /\ "thrown" \notin DOMAIN a
               /\ Value(s, "notifyWorkerNum") = b["notifyWorkerNum"] /\ "thrown" \notin DOMAIN b
               /\ Value(s, "verifierWorkerNum") = e["verifierWorkerNum"] /\ "thrown" \notin DOMAIN e
    <2>1. DOMAIN s = 1..3 /\ s[1] = a /\ s[2] = b /\ s[3] = e
      OBVIOUS
    <2>2. /\ DOMAIN a = {"txpoolLimit"} /\ DOMAIN b = {"notifyWorkerNum"}
          /\ DOMAIN e = {"verifierWorkerNum"}
      BY <1>2, <1>3, <1>4, <1>9, <2>1 DEF Quiet, Sets
    <2>3. \A j \in DOMAIN s : /\ ("txpoolLimit" \in DOMAIN s[j] => j = 1)
                              /\ ("notifyWorkerNum" \in DOMAIN s[j] => j = 2)
                              /\ ("verifierWorkerNum" \in DOMAIN s[j] => j = 3)
      BY <2>1, <2>2
    <2> HIDE DEF s
    <2> QED
      BY <1>8, <2>1, <2>2, <2>3, ValueOf
  <1> HIDE DEF s
  <1> QED
    BY <1>1, <1>5, <1>6, <1>7, <1>8, <1>9, ZenonT(30)

LEMMA SecurityStatements ==
    ASSUME NEW pt
    PROVE  \E s : /\ Statements(s, {"privateKeyPath"})
                  /\ \A c : LoadSecurityConfig(c, pt) = Run(c, s)
  <1> DEFINE a == Assign("privateKeyPath", Get(pt, "security.private_key_path", "node.pem"))
             s == <<a>>
  <1>1. \A c : LoadSecurityConfig(c, pt) = Run(c, s)
    BY DEF LoadSecurityConfig
  <1>2. Sets(a, {"privateKeyPath"})
    BY AssignSets
  <1> HIDE DEF a
  <1>3. Statements(s, {"privateKeyPath"})
    BY <1>2, OneStatement
  <1> HIDE DEF s
  <1> QED
    BY <1>1, <1>3, ZenonT(30)

LEMMA SealerStatements ==
    ASSUME NEW pt
    PROVE  \E s : /\ Statements(s, {"minSealTime"})
                  /\ \A c : LoadSealerConfig(c, pt) = Run(c, s)
                  /\ Quiet(s) => Value(s, "minSealTime") > 0 /\ Value(s, "minSealTime") <= 3000
  <1> DEFINE a == SetSize(pt, "consensus.min_seal_time", 500, "minSealTime",
                          LAMBDA n : n > 0 /\ n <= 3000)
             s == <<a>>
  <1>1. \A c : LoadSealerConfig(c, pt) = Run(c, s)
    BY DEF LoadSealerConfig
  <1>2. Sets(a, {"minSealTime"})
    BY DEF SetSize, Check, Throw, Assign, Sets
  <1>3. ASSUME "thrown" \notin DOMAIN a PROVE a["minSealTime"] > 0 /\ a["minSealTime"] <= 3000
    BY <1>3 DEF SetSize, Check, Throw, Assign
  <1> HIDE DEF a
  <1>4. Statements(s, {"minSealTime"})
    BY <1>2, OneStatement
  <1>5. ASSUME Quiet(s)
        PROVE  Value(s, "minSealTime") = a["minSealTime"] /\ "thrown" \notin DOMAIN a
    <2>1. DOMAIN s = 1..1 /\ s[1] = a
      OBVIOUS
    <2>2. DOMAIN a = {"minSealTime"}
      BY <1>2, <1>5, <2>1 DEF Quiet, Sets
    <2>3. \A j \in DOMAIN s : ("minSealTime" \in DOMAIN s[j] => j = 1)
      BY <2>1, <2>2
    <2> HIDE DEF s
    <2> QED
      BY <1>4, <2>1, <2>2, <2>3, ValueOf
  <1> HIDE DEF s
  <1> QED
    BY <1>1, <1>3, <1>4, <1>5

LEMMA ConsensusStatements ==
    ASSUME NEW pt
    PROVE  \E s : /\ Statements(s, {"checkPointTimeoutInterval"})
                  /\ \A c : LoadConsensusConfig(c, pt) = Run(c, s)
                  /\ Quiet(s) => Value(s, "checkPointTimeoutInterval") >= 3000
  <1> DEFINE a == SetSize(pt, "consensus.checkpoint_timeout", 3000, "checkPointTimeoutInterval",
                          LAMBDA n : n >= 3000)
             s == <<a>>
  <1>1. \A c : LoadConsensusConfig(c, pt) = Run(c, s)
    BY DEF LoadConsensusConfig
  <1>2. Sets(a, {"checkPointTimeoutInterval"})
    BY DEF SetSize, Check, Throw, Assign, Sets
  <1>3. ASSUME "thrown" \notin DOMAIN a PROVE a["checkPointTimeoutInterval"] >= 3000
    BY <1>3 DEF SetSize, Check, Throw, Assign
  <1> HIDE DEF a
  <1>4. Statements(s, {"checkPointTimeoutInterval"})
    BY <1>2, OneStatement
  <1>5. ASSUME Quiet(s)
        PROVE  /\ Value(s, "checkPointTimeoutInterval") = a["checkPointTimeoutInterval"]
               /\ "thrown" \notin DOMAIN a
    <2>1. DOMAIN s = 1..1 /\ s[1] = a
      OBVIOUS
    <2>2. DOMAIN a = {"checkPointTimeoutInterval"}
      BY <1>2, <1>5, <2>1 DEF Quiet, Sets
    <2>3. \A j \in DOMAIN s : ("checkPointTimeoutInterval" \in DOMAIN s[j] => j = 1)
      BY <2>1, <2>2
    <2> HIDE DEF s
    <2> QED
      BY <1>4, <2>1, <2>2, <2>3, ValueOf
  <1> HIDE DEF s
  <1> QED
    BY <1>1, <1>3, <1>4, <1>5

\* the storage path is named after the group, which the chain section has assigned
LEMMA StorageStatements ==
    ASSUME NEW pt, NEW group
    PROVE  \E s : /\ Statements(s, {"storagePath"})
                  /\ \A c : c.groupId = group => LoadStorageConfig(c, pt) = Run(c, s)
  <1> DEFINE a == Assign("storagePath", Get(pt, "storage.data_path", <<"data/", group>>))
             s == <<a>>
  <1>1. \A c : c.groupId = group => LoadStorageConfig(c, pt) = Run(c, s)
    BY DEF LoadStorageConfig
  <1>2. Sets(a, {"storagePath"})
    BY AssignSets
  <1> HIDE DEF a
  <1>3. Statements(s, {"storagePath"})
    BY <1>2, OneStatement
  <1> HIDE DEF s
  <1> QED
    BY <1>1, <1>3, ZenonT(30)

LEMMA ExecutorStatements ==
    ASSUME NEW pt
    PROVE  \E s : /\ Statements(s, {"isWasm", "authAdminAddress"})
                  /\ \A c : LoadExecutorConfig(c, pt) = Run(c, s)
  <1> DEFINE a == Assign("isWasm", Get(pt, "executor.is_wasm", FALSE))
             b == Assign("authAdminAddress", Get(pt, "executor.auth_admin_account", ""))
             s == <<a, b>>
  <1>1. \A c : LoadExecutorConfig(c, pt) = Run(c, s)
    BY DEF LoadExecutorConfig
  <1>2. Sets(a, {"isWasm"}) /\ Sets(b, {"authAdminAddress"})
    BY AssignSets, ZenonT(30)
  <1> HIDE DEF a, b
  <1>3. Statements(s, {"isWasm", "authAdminAddress"})
    BY <1>2, TwoStatements
  <1> HIDE DEF s
  <1> QED
    BY <1>1, <1>3, ZenonT(30)

LEMMA ServiceStatements ==
    ASSUME NEW pt
    PROVE  \E s : /\ Statements(s, {"gatewayServiceName", "rpcServiceName"})
                  /\ \A c : LoadServiceConfig(c, pt) = Run(c, s)
  <1> DEFINE a == SetService(pt, "service.gateway", "GatewayServiceObj", "gatewayServiceName")
             b == SetService(pt, "service.rpc", "RpcServiceObj", "rpcServiceName")
             s == <<a, b>>
  <1>1. \A c : LoadServiceConfig(c, pt) = Run(c, s)
    BY DEF LoadServiceConfig
  <1>2. Sets(a, {"gatewayServiceName"})
    BY DEF SetService, Throw, Assign, Sets
  <1>3. Sets(b, {"rpcServiceName"})
    BY DEF SetService, Throw, Assign, Sets
  <1> HIDE DEF a, b
  <1>4. Statements(s, {"gatewayServiceName", "rpcServiceName"})
    BY <1>2, <1>3, TwoStatements
  <1> HIDE DEF s
  <1> QED
    BY <1>1, <1>4, ZenonT(30)

\* a weight is the text of a number, or a text that is none
Number == {<<>>} \cup {<<n>> : n \in Int}

\* a tree whose node weights are texts
IsTree(pt) ==
    LET infos == Get(pt, "consensus.node", <<>>)
    IN  \A i \in 1..Len(infos) : WeightOf(infos[i]) \in Number

\* the node list that a genesis file leaves has nodes, of positive weight
LEMMA ParsedNodes ==
    ASSUME NEW infos, \A i \in 1..Len(infos) : WeightOf(infos[i]) \in Number,
           ParseConsensusNodeList(infos) \notin {<<>>, << <<>> >>}
    PROVE  ValidNodes(ParseConsensusNodeList(infos)[1])
  <1> DEFINE list == [i \in 1..Len(infos) |->
                        [nodeID |-> NodeIDOf(infos[i][1]), weight |-> WeightOf(infos[i])[1]]]
  <1>1. ParseConsensusNodeList(infos) = <<list>>
    BY DEF ParseConsensusNodeList
  <1>2. list # <<>>
    <2> HIDE DEF list
    <2> QED
      BY <1>1
  <1>3. ASSUME NEW i \in 1..Len(infos) PROVE list[i].weight > 0
    <2>1. WeightOf(infos[i]) # <<>> /\ ~(WeightOf(infos[i])[1] <= 0)
      BY <1>1 DEF ParseConsensusNodeList
    <2>2. PICK n \in Int : WeightOf(infos[i]) = <<n>>
      BY <2>1 DEF Number
    <2>3. n > 0
      BY <2>1, <2>2
    <2> QED
      BY <2>2, <2>3
  <1> QED
    BY <1>1, <1>2, <1>3 DEF ValidNodes

\* the ledger section, before the genesis data are made of what it has assigned
LEMMA LedgerStatements ==
    ASSUME NEW pt
    PROVE  \E s : /\ Statements(s, {"consensusType", "blockTxCountLimit", "txGasLimit",
                                    "consensusNodeList", "leaderSwitchPeriod"})
                  /\ \A c : LoadLedgerConfig(c, pt) = GenerateGenesisData(Run(c, s))
                  /\ Quiet(s) => /\ Value(s, "blockTxCountLimit") > 0
                                 /\ Value(s, "txGasLimit") > TxGasLimitMin
                                 /\ (IsTree(pt) => ValidNodes(Value(s, "consensusNodeList")))
                                 /\ Value(s, "leaderSwitchPeriod") > 0
  <1> DEFINE nodes == ParseConsensusNodeList(Get(pt, "consensus.node", <<>>))
             a == Assign("consensusType", Get(pt, "consensus.consensus_type", "pbft"))
             b == SetNumber(pt, "consensus.block_tx_count_limit", 1000, "blockTxCountLimit",
                            Positive)
             e == SetNumber(pt, "tx.gas_limit", 300000000, "txGasLimit",
                            LAMBDA n : n > TxGasLimitMin)
             f == IF nodes \in {<<>>, << <<>> >>} THEN Throw
                  ELSE Assign("consensusNodeList", nodes[1])
             g == SetNumber(pt, "consensus.leader_period", 1, "leaderSwitchPeriod", Positive)
             s == <<a, b, e, f, g>>
  <1>1. \A c : LoadLedgerConfig(c, pt) = GenerateGenesisData(Run(c, s))
    BY DEF LoadLedgerConfig
  <1>2. Sets(a, {"consensusType"})
    BY AssignSets
  <1>3. Sets(b, {"blockTxCountLimit"})
    BY DEF SetNumber, Throw, Assign, Sets
  <1>4. Sets(e, {"txGasLimit"})
    BY DEF SetNumber, Throw, Assign, Sets
  <1>5. Sets(f, {"consensusNodeList"})
    BY DEF Throw, Assign, Sets
  <1>6. Sets(g, {"leaderSwitchPeriod"})
    BY DEF SetNumber, Throw, Assign, Sets
  <1>7. ASSUME "thrown" \notin DOMAIN b PROVE b["blockTxCountLimit"] > 0
    BY <1>7 DEF SetNumber, Throw, Assign, Positive
  <1>8. ASSUME "thrown" \notin DOMAIN e PROVE e["txGasLimit"] > TxGasLimitMin
    BY <1>8 DEF SetNumber, Throw, Assign
  <1>9. ASSUME "thrown" \notin DOMAIN f PROVE (IsTree(pt) => ValidNodes(f["consensusNodeList"]))
    <2>1. nodes \notin {<<>>, << <<>> >>} /\ f["consensusNodeList"] = nodes[1]
      BY <1>9 DEF Throw, Assign
    <2> QED
      BY <2>1, ParsedNodes DEF IsTree
  <1>10. ASSUME "thrown" \notin DOMAIN g PROVE g["leaderSwitchPeriod"] > 0
    BY <1>10 DEF SetNumber, Throw, Assign, Positive
  <1> HIDE DEF a, b, e, f, g
  <1>11. Statements(s, {"consensusType", "blockTxCountLimit", "txGasLimit",
                        "consensusNodeList", "leaderSwitchPeriod"})
    BY <1>2, <1>3, <1>4, <1>5, <1>6, FiveStatements
  <1>12. ASSUME Quiet(s)
        PROVE  /\ Value(s, "blockTxCountLimit") = b["blockTxCountLimit"] /\ "thrown" \notin DOMAIN b
               /\ Value(s, "txGasLimit") = e["txGasLimit"] /\ "thrown" \notin DOMAIN e
               /\ Value(s, "consensusNodeList") = f["consensusNodeList"] /\ "thrown" \notin DOMAIN f
               /\ Value(s, "leaderSwitchPeriod") = g["leaderSwitchPeriod"]
               /\ "thrown" \notin DOMAIN g
    <2>1. DOMAIN s = 1..5 /\ s[1] = a /\ s[2] = b /\ s[3] = e /\ s[4] = f /\ s[5] = g
      OBVIOUS
    <2>2. /\ DOMAIN a = {"consensusType"} /\ DOMAIN b = {"blockTxCountLimit"}
          /\ DOMAIN e = {"txGasLimit"} /\ DOMAIN f = {"consensusNodeList"}
          /\ DOMAIN g = {"leaderSwitchPeriod"}
      BY <1>2, <1>3, <1>4, <1>5, <1>6, <1>12, <2>1 DEF Quiet, Sets
    <2>3. \A j \in DOMAIN s : /\ ("blockTxCountLimit" \in DOMAIN s[j] => j = 2)
                              /\ ("txGasLimit" \in DOMAIN s[j] => j = 3)
                              /\ ("consensusNodeList" \in DOMAIN s[j] => j = 4)
                              /\ ("leaderSwitchPeriod" \in DOMAIN s[j] => j = 5)
      BY <2>1, <2>2
    <2> HIDE DEF s
    <2> QED
      BY <1>11, <2>1, <2>2, <2>3, ValueOf
  <1> HIDE DEF s
  <1> QED
    BY <1>1, <1>7, <1>8, <1>9, <1>10, <1>11, <1>12, ZenonT(30)

-----------------------------------------------------------------------------

\* the statements s take c to e
Runs(c, s, e) == e = Run(c, s)

\* c has not been thrown in
Passed(c) == ~c.thrown

\* what c and the statements s have left in e, which they have not thrown in
Left(c, s, M, e) ==
    /\ Quiet(s)
    /\ \A m \in M : e[m] = Value(s, m)
    /\ \A m \in Members \ M : e[m] = c[m]

\* a throw ends the load: an object that has none at the end had none before
LEMMA EarlierThrow ==
    ASSUME NEW c, NEW s, NEW e, Runs(c, s, e), Passed(e)
    PROVE  Passed(c)
  BY DEF Run, Runs, Passed

\* the step once more, for one loader in a chain of them
LEMMA RunStep ==
    ASSUME NEW c, NEW d, NEW A, Agree(c, d, A), NEW s, NEW M \in SUBSET Members, Statements(s, M),
           NEW e, Runs(c, s, e), NEW f, Runs(d, s, f), Passed(e)
    PROVE  Agree(e, f, A \cup M) /\ Left(c, s, M, e)
  <1>1. Quiet(s)
    BY RunQuiet DEF Agree, Quiet, Runs, Passed
  <1> QED
    BY <1>1, RunForgets DEF Left, Runs, Passed

\* loadConfig: the ten loaders in their order, c1 to c10 on one object and d1 to d10 on the other
LEMMA ConfigLoads ==
    ASSUME NEW c, NEW d, NEW pt, Agree(c, d, {}), ~LoadConfig(c, pt).thrown
    PROVE  LET after == LoadConfig(c, pt)
           IN  /\ Agree(after, LoadConfig(d, pt), MembersOf("config"))
               /\ after.blockLimit > 0 /\ after.blockLimit <= MaxBlockLimit
               /\ after.minSealTime > 0 /\ after.minSealTime <= 3000
               /\ after.checkPointTimeoutInterval >= 3000
               /\ after.txpoolLimit > 0 /\ after.notifyWorkerNum > 0 /\ after.verifierWorkerNum > 0
  <1> DEFINE c1 == LoadChainConfig(c, pt)
             c2 == LoadCertConfig(c1, pt)
             c3 == LoadRpcConfig(c2, pt)
             c4 == LoadGatewayConfig(c3, pt)
             c5 == LoadTxPoolConfig(c4, pt)
             c6 == LoadSecurityConfig(c5, pt)
             c7 == LoadSealerConfig(c6, pt)
             c8 == LoadConsensusConfig(c7, pt)
             c9 == LoadStorageConfig(c8, pt)
             c10 == LoadExecutorConfig(c9, pt)
             d1 == LoadChainConfig(d, pt)
             d2 == LoadCertConfig(d1, pt)
             d3 == LoadRpcConfig(d2, pt)
             d4 == LoadGatewayConfig(d3, pt)
             d5 == LoadTxPoolConfig(d4, pt)
             d6 == LoadSecurityConfig(d5, pt)
             d7 == LoadSealerConfig(d6, pt)
             d8 == LoadConsensusConfig(d7, pt)
             d9 == LoadStorageConfig(d8, pt)
             d10 == LoadExecutorConfig(d9, pt)
             M1 == {"smCryptoType", "groupId", "chainId", "blockLimit"}
             M2 == {"certPath", "smCaCert", "caCert", "nodeCert"}
             M3 == {"rpcListenPort", "rpcThreadPoolSize"}
             M4 == {"p2pListenPort", "p2pNodeFileName"}
             M5 == {"txpoolLimit", "notifyWorkerNum", "verifierWorkerNum"}
             M6 == {"privateKeyPath"}
             M7 == {"minSealTime"}
             M8 == {"checkPointTimeoutInterval"}
             M9 == {"storagePath"}
             M10 == {"isWasm", "authAdminAddress"}
  <1>1. LoadConfig(c, pt) = c10 /\ LoadConfig(d, pt) = d10
    BY DEF LoadConfig
  <1>2. PICK s1 : /\ Statements(s1, M1) /\ Runs(c, s1, c1) /\ Runs(d, s1, d1)
                  /\ Quiet(s1) => /\ Value(s1, "blockLimit") > 0
                                  /\ Value(s1, "blockLimit") <= MaxBlockLimit
    BY ChainStatements DEF Runs
  <1>3. PICK s2 : /\ Statements(s2, M2) /\ Runs(c1, s2, c2) /\ Runs(d1, s2, d2)
    BY CertStatements DEF Runs
  <1>4. PICK s3 : /\ Statements(s3, M3) /\ Runs(c2, s3, c3) /\ Runs(d2, s3, d3)
    BY RpcStatements DEF Runs
  <1>5. PICK s4 : /\ Statements(s4, M4) /\ Runs(c3, s4, c4) /\ Runs(d3, s4, d4)
    BY GatewayStatements DEF Runs
  <1>6. PICK s5 : /\ Statements(s5, M5) /\ Runs(c4, s5, c5) /\ Runs(d4, s5, d5)
                  /\ Quiet(s5) => /\ Value(s5, "txpoolLimit") > 0 /\ Value(s5, "notifyWorkerNum") > 0
                                  /\ Value(s5, "verifierWorkerNum") > 0
    BY TxPoolStatements DEF Runs
  <1>7. PICK s6 : /\ Statements(s6, M6) /\ Runs(c5, s6, c6) /\ Runs(d5, s6, d6)
    BY SecurityStatements DEF Runs
  <1>8. PICK s7 : /\ Statements(s7, M7) /\ Runs(c6, s7, c7) /\ Runs(d6, s7, d7)
                  /\ Quiet(s7) => Value(s7, "minSealTime") > 0 /\ Value(s7, "minSealTime") <= 3000
    BY SealerStatements DEF Runs
  <1>9. PICK s8 : /\ Statements(s8, M8) /\ Runs(c7, s8, c8) /\ Runs(d7, s8, d8)
                  /\ Quiet(s8) => Value(s8, "checkPointTimeoutInterval") >= 3000
    BY ConsensusStatements DEF Runs
  <1>10. PICK s9 : /\ Statements(s9, M9) /\ Runs(c8, s9, c9)
                   /\ d8.groupId = c8.groupId => Runs(d8, s9, d9)
    BY StorageStatements, ZenonT(30) DEF Runs
  <1>11. PICK s10 : /\ Statements(s10, M10) /\ Runs(c9, s10, c10) /\ Runs(d9, s10, d10)
    BY ExecutorStatements DEF Runs
  <1> HIDE DEF c1, d1, c2, d2, c3, d3, c4, d4, c5, d5, c6, d6, c7, d7, c8, d8, c9, d9, c10, d10
  <1>12. Statements(s1, M1) /\ Runs(c, s1, c1) /\ Runs(d, s1, d1)
    BY <1>2
  <1>13. Statements(s5, M5) /\ Runs(c4, s5, c5) /\ Runs(d4, s5, d5)
    BY <1>6
  <1>14. Statements(s7, M7) /\ Runs(c6, s7, c7) /\ Runs(d6, s7, d7)
    BY <1>8
  <1>15. Statements(s8, M8) /\ Runs(c7, s8, c8) /\ Runs(d7, s8, d8)
    BY <1>9
  <1>16. Statements(s9, M9) /\ Runs(c8, s9, c9)
    BY <1>10
  <1>17. /\ Passed(c10) /\ Passed(c9) /\ Passed(c8) /\ Passed(c7) /\ Passed(c6)
         /\ Passed(c5) /\ Passed(c4) /\ Passed(c3) /\ Passed(c2) /\ Passed(c1)
    <2>1. Passed(c10)
      BY <1>1 DEF Passed
    <2> QED
      BY <2>1, <1>3, <1>4, <1>5, <1>13, <1>7, <1>14, <1>15, <1>16, <1>11, EarlierThrow
  <1>18. /\ M1 \in SUBSET Members /\ M2 \in SUBSET Members /\ M3 \in SUBSET Members
         /\ M4 \in SUBSET Members /\ M5 \in SUBSET Members /\ M6 \in SUBSET Members
         /\ M7 \in SUBSET Members /\ M8 \in SUBSET Members /\ M9 \in SUBSET Members
         /\ M10 \in SUBSET Members
    BY DEF Members, NewNodeConfig
  <1>19. MembersOf("config") = {} \cup M1 \cup M2 \cup M3 \cup M4 \cup M5 \cup M6 \cup M7 \cup M8
                                  \cup M9 \cup M10
    BY SMTT(30) DEF MembersOf
  <1>20. /\ "blockLimit" \in M1 \cap Members
         /\ "blockLimit" \notin M2 \cup M3 \cup M4 \cup M5 \cup M6 \cup M7 \cup M8
                                   \cup M9 \cup M10
         /\ "txpoolLimit" \in M5 \cap Members
         /\ "txpoolLimit" \notin M6 \cup M7 \cup M8 \cup M9 \cup M10
         /\ "notifyWorkerNum" \in M5 \cap Members
         /\ "notifyWorkerNum" \notin M6 \cup M7 \cup M8 \cup M9 \cup M10
         /\ "verifierWorkerNum" \in M5 \cap Members
         /\ "verifierWorkerNum" \notin M6 \cup M7 \cup M8 \cup M9 \cup M10
         /\ "minSealTime" \in M7 \cap Members
         /\ "minSealTime" \notin M8 \cup M9 \cup M10
         /\ "checkPointTimeoutInterval" \in M8 \cap Members
         /\ "checkPointTimeoutInterval" \notin M9 \cup M10
    BY DEF Members, NewNodeConfig
  <1>21. "groupId" \in M1
    OBVIOUS
  <1> HIDE DEF M1, M2, M3, M4, M5, M6, M7, M8, M9, M10
  <1>22. /\ Agree(c1, d1, {} \cup M1)
         /\ Left(c, s1, M1, c1)
    BY <1>12, <1>17, <1>18, RunStep, ZenonT(30)
  <1>23. /\ Agree(c2, d2, {} \cup M1 \cup M2)
         /\ Left(c1, s2, M2, c2)
    BY <1>22, <1>3, <1>17, <1>18, RunStep
  <1>24. /\ Agree(c3, d3, {} \cup M1 \cup M2 \cup M3)
         /\ Left(c2, s3, M3, c3)
    BY <1>23, <1>4, <1>17, <1>18, RunStep, ZenonT(30)
  <1>25. /\ Agree(c4, d4, {} \cup M1 \cup M2 \cup M3 \cup M4)
         /\ Left(c3, s4, M4, c4)
    BY <1>24, <1>5, <1>17, <1>18, RunStep, ZenonT(30)
  <1>26. /\ Agree(c5, d5, {} \cup M1 \cup M2 \cup M3 \cup M4 \cup M5)
         /\ Left(c4, s5, M5, c5)
    BY <1>25, <1>13, <1>17, <1>18, RunStep, ZenonT(30)
  <1>27. /\ Agree(c6, d6, {} \cup M1 \cup M2 \cup M3 \cup M4 \cup M5 \cup M6)
         /\ Left(c5, s6, M6, c6)
    BY <1>26, <1>7, <1>17, <1>18, RunStep, ZenonT(30)
  <1>28. /\ Agree(c7, d7, {} \cup M1 \cup M2 \cup M3 \cup M4 \cup M5 \cup M6 \cup M7)
         /\ Left(c6, s7, M7, c7)
    BY <1>27, <1>14, <1>17, <1>18, RunStep, ZenonT(30)
  <1>29. /\ Agree(c8, d8, {} \cup M1 \cup M2 \cup M3 \cup M4 \cup M5 \cup M6 \cup M7 \cup M8)
         /\ Left(c7, s8, M8, c8)
    BY <1>28, <1>15, <1>17, <1>18, RunStep, ZenonT(30)
  <1>30. Runs(d8, s9, d9)
    <2>1. d8.groupId = c8.groupId
      BY <1>21, <1>29 DEF Agree
    <2> QED
      BY <1>10, <2>1
  <1>31. /\ Agree(c9, d9, {} \cup M1 \cup M2 \cup M3 \cup M4 \cup M5
                          \cup M6 \cup M7 \cup M8 \cup M9)
         /\ Left(c8, s9, M9, c9)
    BY <1>29, <1>30, <1>16, <1>17, <1>18, RunStep, ZenonT(30)
  <1>32. /\ Agree(c10, d10, {} \cup M1 \cup M2 \cup M3 \cup M4 \cup M5
                          \cup M6 \cup M7 \cup M8 \cup M9 \cup M10)
         /\ Left(c9, s10, M10, c10)
    BY <1>31, <1>11, <1>17, <1>18, RunStep, ZenonT(30)
  <1>33. /\ Left(c, s1, M1, c1) /\ Left(c1, s2, M2, c2) /\ Left(c2, s3, M3, c3)
         /\ Left(c3, s4, M4, c4) /\ Left(c4, s5, M5, c5) /\ Left(c5, s6, M6, c6)
         /\ Left(c6, s7, M7, c7) /\ Left(c7, s8, M8, c8) /\ Left(c8, s9, M9, c9)
         /\ Left(c9, s10, M10, c10)
    BY <1>22, <1>23, <1>24, <1>25, <1>26, <1>27, <1>28, <1>29, <1>31, <1>32, ZenonT(30)
  <1>34. c10["blockLimit"] = Value(s1, "blockLimit")
    BY <1>20, <1>33, SMTT(30) DEF Left
  <1>35. c10["txpoolLimit"] = Value(s5, "txpoolLimit")
    BY <1>20, <1>33, SMTT(30) DEF Left
  <1>36. c10["notifyWorkerNum"] = Value(s5, "notifyWorkerNum")
    BY <1>20, <1>33, SMTT(30) DEF Left
  <1>37. c10["verifierWorkerNum"] = Value(s5, "verifierWorkerNum")
    BY <1>20, <1>33, SMTT(30) DEF Left
  <1>38. c10["minSealTime"] = Value(s7, "minSealTime")
    BY <1>20, <1>33, SMTT(30) DEF Left
  <1>39. c10["checkPointTimeoutInterval"] = Value(s8, "checkPointTimeoutInterval")
    BY <1>20, <1>33, SMTT(30) DEF Left
  <1>40. /\ c10.blockLimit > 0 /\ c10.blockLimit <= MaxBlockLimit
         /\ c10.txpoolLimit > 0 /\ c10.notifyWorkerNum > 0 /\ c10.verifierWorkerNum > 0
         /\ c10.minSealTime > 0 /\ c10.minSealTime <= 3000
         /\ c10.checkPointTimeoutInterval >= 3000
    <2>1. Quiet(s1) /\ Quiet(s5) /\ Quiet(s7) /\ Quiet(s8)
      BY <1>33 DEF Left
    <2> QED
      BY <1>2, <1>6, <1>8, <1>9, <1>34, <1>35, <1>36, <1>37, <1>38, <1>39, <2>1, SMTT(30)
  <1> QED
    BY <1>1, <1>19, <1>32, <1>40

\* loadGenesisConfig: the genesis data are made of four members that agree by then
LEMMA GenesisLoads ==
    ASSUME NEW c, NEW d, NEW pt, Agree(c, d, {}), ~LoadLedgerConfig(c, pt).thrown
    PROVE  LET after == LoadLedgerConfig(c, pt)
           IN  /\ Agree(after, LoadLedgerConfig(d, pt), MembersOf("genesis"))
               /\ after.blockTxCountLimit > 0 /\ after.leaderSwitchPeriod > 0
               /\ after.txGasLimit > TxGasLimitMin
               /\ IsTree(pt) => ValidNodes(after.consensusNodeList)
  <1> DEFINE M == {"consensusType", "blockTxCountLimit", "txGasLimit", "consensusNodeList",
                   "leaderSwitchPeriod"}
             G == {"genesisData"}
  <1>1. PICK s : /\ Statements(s, M)
                 /\ LoadLedgerConfig(c, pt) = GenerateGenesisData(Run(c, s))
                 /\ LoadLedgerConfig(d, pt) = GenerateGenesisData(Run(d, s))
                 /\ Quiet(s) => /\ Value(s, "blockTxCountLimit") > 0
                                /\ Value(s, "txGasLimit") > TxGasLimitMin
                                /\ (IsTree(pt) => ValidNodes(Value(s, "consensusNodeList")))
                                /\ Value(s, "leaderSwitchPeriod") > 0
    BY LedgerStatements
  <1> DEFINE e == Run(c, s)
             f == Run(d, s)
             data(x) == Assign("genesisData",
                <<x.blockTxCountLimit, x.leaderSwitchPeriod, x.txGasLimit>> \o x.consensusNodeList)
             t == << data(e) >>
             after == Run(e, t)
  <1>2. LoadLedgerConfig(c, pt) = after /\ LoadLedgerConfig(d, pt) = Run(f, << data(f) >>)
    BY <1>1 DEF GenerateGenesisData
  <1>3. Runs(c, s, e) /\ Runs(d, s, f) /\ Runs(e, t, after) /\ Passed(after) /\ Passed(e)
    <2>1. Runs(c, s, e) /\ Runs(d, s, f) /\ Runs(e, t, after) /\ Passed(after)
      BY <1>2 DEF Runs, Passed
    <2> HIDE DEF e, f, t, after
    <2> QED
      BY <2>1, EarlierThrow
  <1>4. /\ M \in SUBSET Members /\ G \in SUBSET Members
        /\ M \cap G = {} /\ MembersOf("genesis") = {} \cup M \cup G
    BY DEF Members, NewNodeConfig, MembersOf
  <1>5. Agree(e, f, {} \cup M) /\ Left(c, s, M, e)
    <2> HIDE DEF M, e, f, t, after
    <2> QED
      BY <1>1, <1>3, <1>4, RunStep, SMTT(30)
  <1>6. /\ e.blockTxCountLimit = f.blockTxCountLimit /\ e.leaderSwitchPeriod = f.leaderSwitchPeriod
        /\ e.txGasLimit = f.txGasLimit /\ e.consensusNodeList = f.consensusNodeList
    <2> HIDE DEF e, f
    <2> QED
      BY <1>5 DEF Agree
  <1>7. data(f) = data(e) /\ Statements(t, G)
    <2> HIDE DEF e, f
    <2>1. data(f) = data(e)
      BY <1>6
    <2>2. Sets(data(e), G)
      BY AssignSets
    <2> HIDE DEF data
    <2> QED
      BY <2>1, <2>2, OneStatement
  <1>8. Agree(after, Run(f, t), {} \cup M \cup G) /\ Left(e, t, G, after)
    <2>1. Runs(f, t, Run(f, t))
      BY DEF Runs
    <2> HIDE DEF e, f, t, M, G, after
    <2> QED
      BY <1>3, <1>4, <1>5, <1>7, <2>1, RunStep, ZenonT(30)
  <1>9. /\ after["blockTxCountLimit"] = Value(s, "blockTxCountLimit")
        /\ after["leaderSwitchPeriod"] = Value(s, "leaderSwitchPeriod")
        /\ after["txGasLimit"] = Value(s, "txGasLimit")
        /\ after["consensusNodeList"] = Value(s, "consensusNodeList")
    <2> HIDE DEF after, e
    <2> QED
      BY <1>4, <1>5, <1>8 DEF Left
  <1>10. LoadLedgerConfig(d, pt) = Run(f, t)
    BY <1>2, <1>7
  <1> HIDE DEF after, e, f, t, M, G, data
  <1> QED
    BY <1>1, <1>2, <1>4, <1>5, <1>8, <1>9, <1>10 DEF Left

\* loadServiceConfig
LEMMA ServiceLoads ==
    ASSUME NEW c, NEW d, NEW pt, Agree(c, d, {}), ~LoadServiceConfig(c, pt).thrown
    PROVE  Agree(LoadServiceConfig(c, pt), LoadServiceConfig(d, pt), MembersOf("service"))
  <1> DEFINE M == {"gatewayServiceName", "rpcServiceName"}
  <1>1. PICK s : /\ Statements(s, M)
                 /\ Runs(c, s, LoadServiceConfig(c, pt)) /\ Runs(d, s, LoadServiceConfig(d, pt))
    BY ServiceStatements DEF Runs
  <1>2. M \in SUBSET Members /\ MembersOf("service") = {} \cup M
    BY DEF Members, NewNodeConfig, MembersOf
  <1>3. Passed(LoadServiceConfig(c, pt))
    BY DEF Passed
  <1> HIDE DEF M
  <1> QED
    BY <1>1, <1>2, <1>3, RunStep

\* the default service names hold the chain
SameChain(c, d) == c.chainId = d.chainId

\* loadNodeServiceConfig reads the chain, and nothing else, from the object
LEMMA NodeServiceStatements ==
    ASSUME NEW c, NEW pt, NEW node
    PROVE  \E s : /\ Statements(s, {"nodeName", "schedulerServiceName", "txpoolServiceName",
                                    "consensusServiceName", "frontServiceName", "executorServiceName"})
                  /\ \A d : SameChain(c, d) => LoadNodeServiceConfig(d, pt, node) = Run(d, s)
  <1> DEFINE M == {"nodeName", "schedulerServiceName", "txpoolServiceName",
                   "consensusServiceName", "frontServiceName", "executorServiceName"}
             given == Get(pt, "service.node_name", "")
             nodeName == IF given = "" THEN node ELSE given
             Name(key, service) == Get(pt, key, <<c.chainId, nodeName, service>>)
             a == Check(IsalNumStr(nodeName))
             b == Assign("nodeName", nodeName)
             e == Assign("schedulerServiceName", Name("service.scheduler", "SchedulerService"))
             f == Assign("txpoolServiceName", Name("service.txpool", "TxPoolService"))
             g == Assign("consensusServiceName", Name("service.consensus", "PBFTService"))
             h == Assign("frontServiceName", Name("service.front", "FrontService"))
             i == Assign("executorServiceName", Name("service.executor", "ExecutorService"))
             s == <<a, b, e, f, g, h, i>>
  <1>1. \A d : SameChain(c, d) => LoadNodeServiceConfig(d, pt, node) = Run(d, s)
    BY DEF LoadNodeServiceConfig, GetDefaultServiceName, SameChain
  <1>2. /\ Sets(b, {"nodeName"}) /\ Sets(e, {"schedulerServiceName"})
        /\ Sets(f, {"txpoolServiceName"}) /\ Sets(g, {"consensusServiceName"})
        /\ Sets(h, {"frontServiceName"}) /\ Sets(i, {"executorServiceName"})
    BY AssignSets, ZenonT(30)
  <1>3. Sets(a, {})
    BY CheckedName, ZenonT(30)
  <1> HIDE DEF a, b, e, f, g, h, i
  <1>4. Statements(s, M)
    <2> DEFINE union == {} \cup {"nodeName"} \cup {"schedulerServiceName"} \cup {"txpoolServiceName"}
                        \cup {"consensusServiceName"} \cup {"frontServiceName"}
                        \cup {"executorServiceName"}
    <2>1. Statements(s, union)
      BY <1>2, <1>3, SevenStatements, ZenonT(30)
    <2>2. union = M
      OBVIOUS
    <2> HIDE DEF union, M, s
    <2> QED
      BY <2>1, <2>2, ZenonT(30)
  <1> HIDE DEF s
  <1> QED
    BY <1>1, <1>4, ZenonT(30)

LEMMA NodeServiceLoads ==
    ASSUME NEW c, NEW d, NEW pt, NEW node, Agree(c, d, {}), SameChain(c, d),
           Passed(LoadNodeServiceConfig(c, pt, node))
    PROVE  Agree(LoadNodeServiceConfig(c, pt, node), LoadNodeServiceConfig(d, pt, node),
                 MembersOf("node service"))
  <1> DEFINE M == {"nodeName", "schedulerServiceName", "txpoolServiceName", "consensusServiceName",
                   "frontServiceName", "executorServiceName"}
  <1>1. SameChain(c, c)
    BY DEF SameChain
  <1>2. PICK s : /\ Statements(s, M)
                 /\ Runs(c, s, LoadNodeServiceConfig(c, pt, node))
                 /\ Runs(d, s, LoadNodeServiceConfig(d, pt, node))
    BY <1>1, NodeServiceStatements, SMTT(30) DEF Runs
  <1>3. M \in SUBSET Members
    BY DEF Members, NewNodeConfig
  <1>4. MembersOf("node service") = {} \cup M
    BY DEF MembersOf
  <1> HIDE DEF M
  <1>5. Agree(LoadNodeServiceConfig(c, pt, node), LoadNodeServiceConfig(d, pt, node), {} \cup M)
    BY <1>2, <1>3, RunStep
  <1> QED
    BY <1>4, <1>5, ZenonT(30)

\* the caller catches a throw and may load again
LEMMA Caught ==
    ASSUME NEW c, IsConfig(c)
    PROVE  LET caught == [c EXCEPT !.thrown = FALSE]
           IN  IsConfig(caught) /\ ~caught.thrown /\ caught.chainId = c.chainId
  <1>1. "thrown" \in DOMAIN c /\ "chainId" \in DOMAIN c /\ DOMAIN c = Members
    BY DEF IsConfig, Members, NewNodeConfig
  <1> QED
    BY <1>1 DEF IsConfig

\* the calls that load
Operations == {"config", "genesis", "service", "node service"}

\* a load, thrown or not, leaves an object, so the two theorems below hold after any loads
LEMMA LoadsLeaveObjects ==
    /\ IsConfig(NewNodeConfig)
    /\ \A c, op, pt : IsConfig(c) /\ op \in Operations => IsConfig(Load(c, op, pt))
  <1>1. IsConfig(NewNodeConfig)
    BY ZenonT(30) DEF IsConfig, Members, NewNodeConfig
  <1>2. ASSUME NEW c, NEW op \in Operations, NEW pt, IsConfig(c) PROVE IsConfig(Load(c, op, pt))
    <2> DEFINE x == [c EXCEPT !.thrown = FALSE]
    <2>1. IsConfig(x)
      BY <1>2, Caught
    <2>2. Load(c, op, pt) = CASE op = "config" -> LoadConfig(x, pt)
                              [] op = "genesis" -> LoadLedgerConfig(x, pt)
                              [] op = "service" -> LoadServiceConfig(x, pt)
                              [] op = "node service" -> LoadNodeServiceConfig(x, pt, "node0")
      BY DEF Load
    <2> HIDE DEF x
    <2>3. IsConfig(LoadConfig(x, pt))
      <3> DEFINE x1 == LoadChainConfig(x, pt)
                 x2 == LoadCertConfig(x1, pt)
                 x3 == LoadRpcConfig(x2, pt)
                 x4 == LoadGatewayConfig(x3, pt)
                 x5 == LoadTxPoolConfig(x4, pt)
                 x6 == LoadSecurityConfig(x5, pt)
                 x7 == LoadSealerConfig(x6, pt)
                 x8 == LoadConsensusConfig(x7, pt)
                 x9 == LoadStorageConfig(x8, pt)
      <3>1. LoadConfig(x, pt) = LoadExecutorConfig(x9, pt)
        BY DEF LoadConfig
      <3>2. IsConfig(x1)
        BY <2>1, ChainStatements, RunConfig
      <3> HIDE DEF x1
      <3>3. IsConfig(x2)
        BY <3>2, CertStatements, RunConfig
      <3> HIDE DEF x2
      <3>4. IsConfig(x3)
        BY <3>3, RpcStatements, RunConfig
      <3> HIDE DEF x3
      <3>5. IsConfig(x4)
        BY <3>4, GatewayStatements, RunConfig
      <3> HIDE DEF x4
      <3>6. IsConfig(x5)
        BY <3>5, TxPoolStatements, RunConfig
      <3> HIDE DEF x5
      <3>7. IsConfig(x6)
        BY <3>6, SecurityStatements, RunConfig
      <3> HIDE DEF x6
      <3>8. IsConfig(x7)
        BY <3>7, SealerStatements, RunConfig
      <3> HIDE DEF x7
      <3>9. IsConfig(x8)
        BY <3>8, ConsensusStatements, RunConfig
      <3> HIDE DEF x8
      <3>10. IsConfig(x9)
        <4>1. PICK s : Statements(s, {"storagePath"}) /\ x9 = Run(x8, s)
          BY StorageStatements, ZenonT(30)
        <4> HIDE DEF x9
        <4> QED
          BY <3>9, <4>1, RunConfig
      <3> HIDE DEF x9
      <3> QED
        BY <3>1, <3>10, ExecutorStatements, RunConfig
    <2>4. IsConfig(LoadLedgerConfig(x, pt))
      <3>0. PICK s : /\ Statements(s, {"consensusType", "blockTxCountLimit", "txGasLimit",
                                       "consensusNodeList", "leaderSwitchPeriod"})
                     /\ LoadLedgerConfig(x, pt) = GenerateGenesisData(Run(x, s))
        BY LedgerStatements
      <3> DEFINE e == Run(x, s)
      <3>1. IsConfig(e) /\ LoadLedgerConfig(x, pt) = GenerateGenesisData(e)
        BY <2>1, <3>0, RunConfig
      <3> HIDE DEF e
      <3> DEFINE a == Assign("genesisData",
                <<e.blockTxCountLimit, e.leaderSwitchPeriod, e.txGasLimit>> \o e.consensusNodeList)
      <3>2. GenerateGenesisData(e) = Run(e, <<a>>)
        BY DEF GenerateGenesisData
      <3>3. Sets(a, {"genesisData"})
        BY AssignSets
      <3> HIDE DEF a
      <3>4. Statements(<<a>>, {"genesisData"})
        BY <3>3, OneStatement
      <3> QED
        BY <3>1, <3>2, <3>4, RunConfig
    <2>5. IsConfig(LoadServiceConfig(x, pt))
      BY <2>1, ServiceStatements, RunConfig
    <2>6. IsConfig(LoadNodeServiceConfig(x, pt, "node0"))
      <3>1. SameChain(x, x)
        BY DEF SameChain
      <3>2. PICK s : /\ Statements(s, {"nodeName", "schedulerServiceName", "txpoolServiceName",
                                "consensusServiceName", "frontServiceName", "executorServiceName"})
                     /\ LoadNodeServiceConfig(x, pt, "node0") = Run(x, s)
        BY <3>1, NodeServiceStatements
      <3> QED
        BY <2>1, <3>2, RunConfig
    <2> QED
      BY <2>2, <2>3, <2>4, <2>5, <2>6, ZenonT(30) DEF Operations
  <1> QED
    BY <1>1, <1>2, ZenonT(30)

\* Loading has no memory (NodeConfig::loadConfig, loadGenesisConfig, loadServiceConfig and
\* loadNodeServiceConfig): whatever earlier loads, thrown or not, have left in two objects of the
\* same chain, a file that loads into the one loads into the other, and every member that the
\* call is about ends up the same in both.
THEOREM LoadsForgetHistory ==
    ASSUME NEW c, NEW d, IsConfig(c), IsConfig(d), NEW op \in Operations, NEW pt
    PROVE  LoadForgets(c, d, op, pt)
  <1> DEFINE x == [c EXCEPT !.thrown = FALSE]
             y == [d EXCEPT !.thrown = FALSE]
  <1>1. SUFFICES ASSUME c.chainId = d.chainId, ~Load(c, op, pt).thrown
                 PROVE  Agree(Load(c, op, pt), Load(d, op, pt), MembersOf(op))
    BY DEF LoadForgets, Agree
  <1>2. Agree(x, y, {}) /\ x.chainId = y.chainId
    BY <1>1, Caught DEF Agree
  <1> HIDE DEF x, y
  <1>3. CASE op = "config"
    <2>1. Load(c, op, pt) = LoadConfig(x, pt) /\ Load(d, op, pt) = LoadConfig(y, pt)
      BY <1>3 DEF Load, x, y
    <2> QED
      BY <1>1, <1>2, <1>3, <2>1, ConfigLoads
  <1>4. CASE op = "genesis"
    <2>1. Load(c, op, pt) = LoadLedgerConfig(x, pt) /\ Load(d, op, pt) = LoadLedgerConfig(y, pt)
      BY <1>4 DEF Load, x, y
    <2> QED
      BY <1>1, <1>2, <1>4, <2>1, GenesisLoads
  <1>5. CASE op = "service"
    <2>1. Load(c, op, pt) = LoadServiceConfig(x, pt) /\ Load(d, op, pt) = LoadServiceConfig(y, pt)
      BY <1>5 DEF Load, x, y
    <2> QED
      BY <1>1, <1>2, <1>5, <2>1, ServiceLoads
  <1>6. CASE op = "node service"
    <2>1. /\ Load(c, op, pt) = LoadNodeServiceConfig(x, pt, "node0")
          /\ Load(d, op, pt) = LoadNodeServiceConfig(y, pt, "node0")
      BY <1>6, ZenonT(30) DEF Load, x, y
    <2> QED
      BY <1>1, <1>2, <1>6, <2>1, NodeServiceLoads, ZenonT(30) DEF SameChain, Passed
  <1> QED
    BY <1>3, <1>4, <1>5, <1>6, ZenonT(30) DEF Operations

\* What is checked stays checked: after a load that does not throw, the block limit, the seal
\* time, the checkpoint timeout, the txpool numbers and the genesis numbers are within the
\* limits that the loaders check, no later loader of the same call has overwritten them, and
\* the consensus nodes are there with positive weights.  The limits are on the members: for
\* the size_t ones this does not say that the number of the file was positive.
THEOREM LoadsStayWithinLimits ==
    ASSUME NEW c, IsConfig(c), NEW op \in Operations, NEW pt, IsTree(pt)
    PROVE  LoadWithinLimits(c, op, pt)
  <1> DEFINE x == [c EXCEPT !.thrown = FALSE]
             after == Load(c, op, pt)
  <1>1. SUFFICES ASSUME ~after.thrown
                 PROVE  LoadWithinLimits(c, op, pt)
    BY DEF LoadWithinLimits
  <1>2. Agree(x, x, {})
    BY Caught DEF Agree
  <1> HIDE DEF x
  <1>3. ASSUME op = "config"
        PROVE  /\ after.blockLimit > 0 /\ after.blockLimit <= MaxBlockLimit
               /\ after.minSealTime > 0 /\ after.minSealTime <= 3000
               /\ after.checkPointTimeoutInterval >= 3000
               /\ after.txpoolLimit > 0 /\ after.notifyWorkerNum > 0 /\ after.verifierWorkerNum > 0
    <2>1. after = LoadConfig(x, pt)
      BY <1>3 DEF Load, x
    <2> HIDE DEF after
    <2> QED
      BY <1>1, <1>2, <2>1, ConfigLoads
  <1>4. ASSUME op = "genesis"
        PROVE  /\ after.blockTxCountLimit > 0 /\ after.leaderSwitchPeriod > 0
               /\ after.txGasLimit > TxGasLimitMin
               /\ ValidNodes(after.consensusNodeList)
    <2>1. after = LoadLedgerConfig(x, pt)
      BY <1>4 DEF Load, x
    <2> HIDE DEF after
    <2> QED
      BY <1>1, <1>2, <2>1, GenesisLoads
  <1> QED
    BY <1>3, <1>4 DEF LoadWithinLimits
=============================================================================
