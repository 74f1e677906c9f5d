------------------------------ MODULE NodeConfig ------------------------------
(***************************************************************************)
(* NodeConfig: what loading a configuration file (loadConfig), a genesis   *)
(* file (loadGenesisConfig) and the service names (loadServiceConfig,      *)
(* loadNodeServiceConfig) does to the object.  Every loader assigns fields *)
(* and then checks them, in order; a check that fails throws and leaves    *)
(* what was assigned before it.                                            *)
(*                                                                         *)
(* A property tree is a function from the keys present to their texts.  A  *)
(* text that boost::lexical_cast reads as a number is <<n>>, any other     *)
(* <<>> where a number is wanted.  A service name is the sequence of its   *)
(* parts between dots.                                                     *)
(***************************************************************************)
EXTENDS DataConvert

CONSTANTS
    SizeModulus,    \* 2^64 in the code; any number above every limit behaves alike
    Uint32Modulus,  \* 2^32 in the code
    AlNumTexts      \* the texts made of letters and digits only

ASSUME SizeAssumption ==
    /\ SizeModulus \in Nat /\ SizeModulus > 2 * 10^8
    /\ Uint32Modulus \in Nat /\ Uint32Modulus > 2^16

MaxBlockLimit == 5000
TxGasLimitMin == 100000

\* an int64_t assigned to a size_t, an int to a uint32_t and to a uint16_t:
\* a negative number becomes a large one
SizeT(n) == n % SizeModulus
Uint32(n) == n % Uint32Modulus
Uint16(n) == n % 2^16

IsalNumStr(text) == text \in AlNumTexts

\* ptree::get with a default: also the default when the text does not convert
Get(pt, key, default) == IF key \in DOMAIN pt THEN pt[key] ELSE default
GetInt(pt, key, default) == IF Get(pt, key, <<>>) = <<>> THEN default ELSE pt[key][1]

-----------------------------------------------------------------------------
(* Loading: a record of the members with the flag thrown                   *)

NewNodeConfig ==
    [thrown |-> FALSE,
     smCryptoType |-> FALSE, chainId |-> "", groupId |-> "", blockLimit |-> 0,
     certPath |-> "", caCert |-> <<>>, nodeCert |-> <<>>, smCaCert |-> <<>>,
     rpcListenPort |-> 0, rpcThreadPoolSize |-> 0, p2pListenPort |-> 0, p2pNodeFileName |-> "",
     txpoolLimit |-> 0, notifyWorkerNum |-> 0, verifierWorkerNum |-> 0,
     privateKeyPath |-> "", minSealTime |-> 0, checkPointTimeoutInterval |-> 0,
     storagePath |-> <<>>, isWasm |-> FALSE, authAdminAddress |-> "",
     consensusType |-> "", blockTxCountLimit |-> 0, txGasLimit |-> 0,
     consensusNodeList |-> <<>>, leaderSwitchPeriod |-> 1, genesisData |-> <<>>,
     rpcServiceName |-> <<>>, gatewayServiceName |-> <<>>,
     nodeName |-> "", schedulerServiceName |-> <<>>, txpoolServiceName |-> <<>>,
     consensusServiceName |-> <<>>, frontServiceName |-> <<>>, executorServiceName |-> <<>>]

(* A statement is the members it changes with their new values; throwing   *)
(* is one of them.                                                         *)
Assign(member, value) == [m \in {member} |-> value]
Throw == Assign("thrown", TRUE)
Check(ok) == IF ok THEN <<>> ELSE Throw

\* the statements up to the one that throws; no two of them assign the same member
Run(c, statements) ==
    LET throws == {i \in DOMAIN statements : "thrown" \in DOMAIN statements[i]}
        ran == 1..Min(throws \cup {Len(statements)})
        of(m) == {i \in ran : m \in DOMAIN statements[i]}
    IN  IF c.thrown THEN c
        ELSE [m \in DOMAIN c |-> IF of(m) = {} THEN c[m] ELSE statements[Min(of(m))][m]]

CheckAndGetValue(pt, key, default) == Get(pt, key, <<default>>)

\* a number assigned to a size_t member and then checked
SetSize(pt, key, default, member, Valid(_)) ==
    LET value == CheckAndGetValue(pt, key, default)
    IN  IF value = <<>> THEN Throw
        ELSE [m \in {member} \cup DOMAIN Check(Valid(SizeT(value[1]))) |->
                IF m = member THEN SizeT(value[1]) ELSE TRUE]

Positive(n) == n > 0

-----------------------------------------------------------------------------
(* loadConfig                                                              *)

LoadChainConfig(c, pt) ==
    LET chainId == Get(pt, "chain.chain_id", "chain")
    IN  Run(c, << Assign("smCryptoType", Get(pt, "chain.sm_crypto", FALSE)),
                  Assign("groupId", Get(pt, "chain.group_id", "group")),
                  Assign("chainId", chainId),
                  Check(IsalNumStr(chainId)),
                  SetSize(pt, "chain.block_limit", 1000, "blockLimit", LAMBDA n : n > 0 /\ n <= MaxBlockLimit) >>)

\* the certificate files are names within certPath; sm_node_cert, sm_node_key and
\* the two sm_ennode files go like sm_ca_cert, node_key like node_cert
LoadCertConfig(c, pt) ==
    LET path == Get(pt, "cert.ca_path", "./")
    IN  Run(c, << Assign("certPath", path),
                  Assign("smCaCert", <<path, Get(pt, "cert.sm_ca_cert", "sm_ca.crt")>>),
                  Assign("caCert", <<path, Get(pt, "cert.ca_cert", "ca.crt")>>),
                  Assign("nodeCert", <<path, Get(pt, "cert.node_cert", "ssl.crt")>>) >>)

LoadRpcConfig(c, pt) ==
    Run(c, << Assign("rpcListenPort", Uint16(GetInt(pt, "rpc.listen_port", 20200))),
              Assign("rpcThreadPoolSize", Uint32(GetInt(pt, "rpc.thread_count", 8))) >>)

LoadGatewayConfig(c, pt) ==
    Run(c, << Assign("p2pListenPort", Uint16(GetInt(pt, "p2p.listen_port", 30300))),
              Assign("p2pNodeFileName", Get(pt, "p2p.nodes_file", "nodes.json")) >>)

LoadTxPoolConfig(c, pt) ==
    Run(c, << SetSize(pt, "txpool.limit", 15000, "txpoolLimit", Positive),
              SetSize(pt, "txpool.notify_worker_num", 2, "notifyWorkerNum", Positive),
              SetSize(pt, "txpool.verify_worker_num", 2, "verifierWorkerNum", Positive) >>)

LoadSecurityConfig(c, pt) ==
    Run(c, << Assign("privateKeyPath", Get(pt, "security.private_key_path", "node.pem")) >>)

LoadSealerConfig(c, pt) ==
    Run(c, << SetSize(pt, "consensus.min_seal_time", 500, "minSealTime", LAMBDA n : n > 0 /\ n <= 3000) >>)

LoadConsensusConfig(c, pt) ==
    Run(c, << SetSize(pt, "consensus.checkpoint_timeout", 3000, "checkPointTimeoutInterval",
                      LAMBDA n : n >= 3000) >>)

LoadStorageConfig(c, pt) ==
    Run(c, << Assign("storagePath", Get(pt, "storage.data_path", <<"data/", c.groupId>>)) >>)

LoadExecutorConfig(c, pt) ==
    Run(c, << Assign("isWasm", Get(pt, "executor.is_wasm", FALSE)),
              Assign("authAdminAddress", Get(pt, "executor.auth_admin_account", "")) >>)

\* the storage path read before the group it is named after
LoadConfigStorageFirst(c, pt) ==
    LET pool == LoadTxPoolConfig(LoadGatewayConfig(LoadRpcConfig(LoadCertConfig(
                    LoadChainConfig(LoadStorageConfig(c, pt), pt), pt), pt), pt), pt)
    IN  LoadExecutorConfig(LoadConsensusConfig(LoadSealerConfig(LoadSecurityConfig(pool, pt), pt), pt), pt)

LoadConfig(c, pt) ==
    LET pool == LoadTxPoolConfig(LoadGatewayConfig(LoadRpcConfig(LoadCertConfig(
                    LoadChainConfig(c, pt), pt), pt), pt), pt)
    IN  LoadExecutorConfig(LoadStorageConfig(LoadConsensusConfig(LoadSealerConfig(
            LoadSecurityConfig(pool, pt), pt), pt), pt), pt)

-----------------------------------------------------------------------------
(* loadGenesisConfig                                                       *)

\* a node is << id >> or << id, weight >>; more parts leave the weight at 1
WeightOf(info) == IF Len(info) = 2 THEN info[2] ELSE <<1>>

\* boost::to_lower, and the key made of the hexadecimal text
NodeIDOf(text) ==
    FromHexString([i \in 1..Len(text) |->
        IF text[i] \in Range(UpperHexChars) THEN HexChars[1 + ConvertCharToHexNumber(text[i])] ELSE text[i]])

\* << nodes >>, or <<>> when the section, a weight or a key throws
ParseConsensusNodeList(infos) ==
    IF \E i \in 1..Len(infos) :
            \/ WeightOf(infos[i]) = <<>> \/ WeightOf(infos[i])[1] <= 0
            \/ NodeIDOf(infos[i][1]) = <<-1>>
    THEN <<>>
    ELSE << [i \in 1..Len(infos) |-> [nodeID |-> NodeIDOf(infos[i][1]), weight |-> WeightOf(infos[i])[1]]] >>

GenerateGenesisData(c) ==
    Run(c, << Assign("genesisData", <<c.blockTxCountLimit, c.leaderSwitchPeriod, c.txGasLimit>> \o c.consensusNodeList) >>)

\* these numbers are checked before they are assigned
SetNumber(pt, key, default, member, Valid(_)) ==
    LET value == CheckAndGetValue(pt, key, default)
    IN  IF value = <<>> \/ ~Valid(value[1]) THEN Throw ELSE Assign(member, value[1])

LoadLedgerConfig(c, pt) ==
    LET nodes == ParseConsensusNodeList(Get(pt, "consensus.node", <<>>))
    IN  GenerateGenesisData(Run(c,
            << Assign("consensusType", Get(pt, "consensus.consensus_type", "pbft")),
               SetNumber(pt, "consensus.block_tx_count_limit", 1000, "blockTxCountLimit", Positive),
               SetNumber(pt, "tx.gas_limit", 300000000, "txGasLimit", LAMBDA n : n > TxGasLimitMin),
               IF nodes \in {<<>>, << <<>> >>} THEN Throw ELSE Assign("consensusNodeList", nodes[1]),
               SetNumber(pt, "consensus.leader_period", 1, "leaderSwitchPeriod", Positive) >>))

-----------------------------------------------------------------------------
(* service names                                                           *)

CheckService(name) == Len(name) = 2 /\ IsalNumStr(name[1]) /\ IsalNumStr(name[2])

\* a required name gets the object appended
SetService(pt, key, obj, member) ==
    LET name == Get(pt, key, <<"">>)
    IN  IF CheckService(name) THEN Assign(member, Append(name, obj)) ELSE Throw

LoadServiceConfig(c, pt) ==
    Run(c, << SetService(pt, "service.gateway", "GatewayServiceObj", "gatewayServiceName"),
              SetService(pt, "service.rpc", "RpcServiceObj", "rpcServiceName") >>)

GetDefaultServiceName(c, nodeName, service) == <<c.chainId, nodeName, service>>

LoadNodeServiceConfig(c, pt, nodeID) ==
    LET given == Get(pt, "service.node_name", "")
        nodeName == IF given = "" THEN nodeID ELSE given
        Name(key, service) == Get(pt, key, GetDefaultServiceName(c, nodeName, service))
    IN  Run(c, << Check(IsalNumStr(nodeName)),
                  Assign("nodeName", nodeName),
                  Assign("schedulerServiceName", Name("service.scheduler", "SchedulerService")),
                  Assign("txpoolServiceName", Name("service.txpool", "TxPoolService")),
                  Assign("consensusServiceName", Name("service.consensus", "PBFTService")),
                  Assign("frontServiceName", Name("service.front", "FrontService")),
                  Assign("executorServiceName", Name("service.executor", "ExecutorService")) >>)

\* one call on the object, after whatever came before it
Load(c, op, pt) ==
    LET caught == [c EXCEPT !.thrown = FALSE]
    IN  CASE op = "config" -> LoadConfig(caught, pt)
          [] op = "genesis" -> LoadLedgerConfig(caught, pt)
          [] op = "service" -> LoadServiceConfig(caught, pt)
          [] op = "node service" -> LoadNodeServiceConfig(caught, pt, "node0")

\* the members each call is about
MembersOf(op) ==
    CASE op = "config" ->
            {"smCryptoType", "chainId", "groupId", "blockLimit", "certPath", "caCert", "nodeCert", "smCaCert",
             "rpcListenPort", "rpcThreadPoolSize", "p2pListenPort", "p2pNodeFileName",
             "txpoolLimit", "notifyWorkerNum", "verifierWorkerNum", "privateKeyPath", "minSealTime",
             "checkPointTimeoutInterval", "storagePath", "isWasm", "authAdminAddress"}
      [] op = "genesis" ->
            {"consensusType", "blockTxCountLimit", "txGasLimit", "consensusNodeList",
             "leaderSwitchPeriod", "genesisData"}
      [] op = "service" -> {"rpcServiceName", "gatewayServiceName"}
      [] op = "node service" ->
            {"nodeName", "schedulerServiceName", "txpoolServiceName", "consensusServiceName",
             "frontServiceName", "executorServiceName"}

\* What a load promises.  One that does not throw assigns the same to two objects of
\* the same chain, whatever earlier loads have left in them ...
LoadForgets(c, d, op, pt) ==
    c.chainId = d.chainId /\ ~Load(c, op, pt).thrown =>
        /\ ~Load(d, op, pt).thrown
        /\ \A m \in MembersOf(op) : Load(c, op, pt)[m] = Load(d, op, pt)[m]

ValidNodes(list) == list # <<>> /\ \A i \in DOMAIN list : list[i].weight > 0

\* ... and leaves the members with a limit, and the consensus nodes, within it.  The
\* limit is on the member: a size_t has wrapped by then, so a negative number of the
\* file passes as a large one
LoadWithinLimits(c, op, pt) ==
    LET after == Load(c, op, pt)
    IN  ~after.thrown =>
            /\ op = "config" =>
                /\ after.blockLimit > 0 /\ after.blockLimit <= MaxBlockLimit
                /\ after.minSealTime > 0 /\ after.minSealTime <= 3000
                /\ after.checkPointTimeoutInterval >= 3000
                /\ after.txpoolLimit > 0 /\ after.notifyWorkerNum > 0 /\ after.verifierWorkerNum > 0
            /\ op = "genesis" =>
                /\ after.blockTxCountLimit > 0 /\ after.leaderSwitchPeriod > 0
                /\ after.txGasLimit > TxGasLimitMin
                /\ ValidNodes(after.consensusNodeList)
=============================================================================
