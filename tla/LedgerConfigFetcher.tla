------------------------- MODULE LedgerConfigFetcher -------------------------
(***************************************************************************)
(* libtool/LedgerConfigFetcher over the ledger: a caller begins some       *)
(* fetches, each of which clears its flag and sends a request, and then    *)
(* waits until all flags are set or the time is up.  Nothing keeps it from *)
(* beginning a fetch whose last request is still in flight, after a wait   *)
(* that failed or twice in a row.  The ledger answers in any order and     *)
(* with errors; a failed request is sent again until it was sent           *)
(* c_maxRetryTime + 1 times.  Answers evaluate the ledger when they are    *)
(* given and run the callback at once, as FakeLedger does.                 *)
(***************************************************************************)
EXTENDS Ledger

CONSTANTS MaxRetryTime,      \* c_maxRetryTime
          MaxLedgerErrors,   \* bound on the errors the ledger answers with
          MaxFetches,        \* bound on the fetches of all rounds together
          NonceOffset        \* the range of nonces the caller asks for

ASSUME FetcherAssumption == MaxRetryTime \in Nat /\ NonceOffset \in Nat

VARIABLES requests,   \* requests in flight
          finished,   \* the fetches whose flag is set
          config,     \* m_ledgerConfig, m_genesisHash and m_nonceList, by fetch
          asked,      \* the fetches that were ever begun
          overlapped, \* ghost: those last begun with a request of theirs in flight
          caller,     \* "fetching", "waiting", "success" or "failed"
          sysValues,  \* the stored system values that are numbers
          errors,     \* errors answered so far
          fetches     \* fetches so far

fetcherVars == <<requests, finished, config, asked, overlapped, caller, sysValues,
                 errors, fetches>>

SystemKeys == {"limit", "period"}
Fetches == {"block", "genesis", "consensus", "observer", "nonces"} \cup SystemKeys

\* a field of the configuration is <<>> until it is set, then <<value>>
Unset == <<>>

FetcherInit ==
    /\ requests = {}
    /\ finished = Fetches
    /\ config = [f \in Fetches \cup {"number"} |-> Unset]
    /\ asked = {} /\ overlapped = {}
    /\ caller = "fetching"
    /\ sysValues \in SUBSET SystemKeys
    /\ errors = 0 /\ fetches = 0

\* id tells apart the requests of two calls of the same fetch
Request(fetch, what, time, id) ==
    [fetch |-> fetch, what |-> what, time |-> time, id |-> id]

\* what a fetch asks the ledger for first; a hash request names its block
FirstQuery(f) == CASE f = "block" -> <<"number">>
                   [] f = "genesis" -> <<"hash", 0>>
                   [] OTHER -> <<f>>

\* fetchBlockNumberAndHash, fetchGenesisHash, fetchConsensusNodeList,
\* fetchObserverNodeList, fetchBlockTxCountLimit, fetchConsensusLeaderPeriod and
\* fetchNonceList
Fetch(f) ==
    /\ caller = "fetching" /\ fetches < MaxFetches
    /\ fetches' = fetches + 1
    /\ asked' = asked \cup {f}
    /\ overlapped' = IF \E r \in requests : r.fetch = f
                     THEN overlapped \cup {f} ELSE overlapped \ {f}
    /\ finished' = finished \ {f}
    /\ requests' = requests \cup {Request(f, FirstQuery(f), 0, fetches)}
    /\ UNCHANGED <<config, caller, sysValues, errors>>

Received(r, field, value) ==
    /\ config' = [config EXCEPT ![field] = <<value>>]
    /\ requests' = requests \ {r}
    /\ UNCHANGED <<asked, overlapped, caller, sysValues, errors, fetches>>

\* the block number is stored and the hash of that block is asked for
AnswerNumberFinishes(r) ==
    /\ r.what = <<"number">>
    /\ config' = [config EXCEPT !["number"] = <<configNumber>>]
    /\ requests' = (requests \ {r}) \cup {Request("block", <<"hash", configNumber>>, 0, r.id)}
    /\ finished' = finished \cup {"block"}
    /\ UNCHANGED <<asked, overlapped, caller, sysValues, errors, fetches>>
AnswerNumber(r) ==
    /\ r.what = <<"number">>
    /\ config' = [config EXCEPT !["number"] = <<configNumber>>]
    /\ requests' = (requests \ {r}) \cup {Request("block", <<"hash", configNumber>>, 0, r.id)}
    /\ UNCHANGED <<finished, asked, overlapped, caller, sysValues, errors, fetches>>

AnswerHash(r) ==
    /\ r.what[1] = "hash" /\ LedgerReadable
    /\ Received(r, r.fetch, blocks[r.what[2] + 1])
    /\ finished' = finished \cup {r.fetch}

\* a list replaces the list of the configuration
AnswerNodeList(r) ==
    /\ r.what[1] \in {"consensus", "observer"}
    /\ Received(r, r.fetch, "list")
    /\ finished' = finished \cup {r.fetch}

AnswerNonceList(r) ==
    /\ r.what[1] = "nonces" /\ LedgerReadable
    /\ Received(r, r.fetch, NonceNumbers(0, NonceOffset))
    /\ finished' = finished \cup {r.fetch}

\* a value that is not a number makes lexical_cast throw: the callback ends
\* there, and the flag stays clear
AnswerSystemConfig(r) ==
    /\ r.what[1] \in SystemKeys
    /\ \/ /\ r.fetch \in sysValues
          /\ Received(r, r.fetch, "value")
          /\ finished' = finished \cup {r.fetch}
       \/ /\ r.fetch \notin sysValues
          /\ requests' = requests \ {r}
          /\ UNCHANGED <<finished, config, asked, overlapped, caller, sysValues, errors, fetches>>

\* an error: the same request once more, unless it was the last time; where the
\* retry calls the whole fetch again, the flag is cleared again
RetryOneLess(r) == IF r.time + 1 >= MaxRetryTime THEN {} ELSE {[r EXCEPT !.time = @ + 1]}
Retry(r) == IF r.time >= MaxRetryTime THEN {} ELSE {[r EXCEPT !.time = @ + 1]}

AnswerError(r) ==
    /\ errors < MaxLedgerErrors
    /\ errors' = errors + 1
    /\ requests' = (requests \ {r}) \cup Retry(r)
    /\ finished' = IF Retry(r) # {} /\ r.what[1] \in {"number", "nonces"}
                   THEN finished \ {r.fetch} ELSE finished
    /\ UNCHANGED <<config, asked, overlapped, caller, sysValues, fetches>>

AnswerOk(r) ==
    \/ AnswerNumber(r)
    \/ AnswerHash(r)
    \/ AnswerNodeList(r)
    \/ AnswerNonceList(r)
    \/ AnswerSystemConfig(r)

\* waitFetchFinished: all flags, tested every 10 ms at least, or the time is up
WaitBegin ==
    /\ caller = "fetching" /\ asked # {}
    /\ caller' = "waiting"
    /\ UNCHANGED <<requests, finished, config, asked, overlapped, sysValues, errors, fetches>>

FetchFinished == finished = Fetches

WaitSuccess ==
    /\ caller = "waiting" /\ FetchFinished
    /\ caller' = "success"
    /\ UNCHANGED <<requests, finished, config, asked, overlapped, sysValues, errors, fetches>>

WaitTimeout ==
    /\ caller = "waiting"
    /\ caller' = "failed"
    /\ UNCHANGED <<requests, finished, config, asked, overlapped, sysValues, errors, fetches>>

\* the caller may fetch again, after a wait that failed too: what is still in
\* flight stays there
NextRound ==
    /\ caller \in {"success", "failed"} /\ fetches < MaxFetches
    /\ caller' = "fetching"
    /\ UNCHANGED <<requests, finished, config, asked, overlapped, sysValues, errors, fetches>>

FetcherStep ==
    \/ \E f \in Fetches : Fetch(f)
    \/ \E r \in requests : AnswerOk(r) \/ AnswerError(r)
    \/ WaitBegin
    \/ WaitSuccess
    \/ WaitTimeout
    \/ NextRound

FetcherNext ==
    \/ FetcherStep /\ UNCHANGED ledgerVars
    \/ LedgerNext /\ UNCHANGED fetcherVars

-----------------------------------------------------------------------------
(* Properties.                                                             *)

\* When the wait has succeeded, nothing that was asked for is missing, the
\* genesis hash is that of block 0, and the hash of the block is that of a block
\* no later than the number.  It is the hash of the block with that number,
\* although the two come in two answers with commits in between, unless
\* fetchBlockNumberAndHash was begun while a request of an earlier call was in
\* flight: then the number may be of one call and the hash of the other.
FetchedBlockIsReal ==
    caller = "success" =>
        /\ \A f \in asked : config[f] # Unset
        /\ "genesis" \in asked => config["genesis"][1] = blocks[1]
        /\ "block" \in asked =>
              \E n \in 0..config["number"][1] :
                  /\ config["block"][1] = blocks[n + 1]
                  /\ "block" \notin overlapped => n = config["number"][1]

\* A number that the ledger has given out has its block: the hash request that
\* follows never reads past the end of m_ledger, and block n is at index n.
NumberHasBlock ==
    /\ \A r \in requests : r.what[1] = "hash" => r.what[2] < Len(blocks)
    /\ config["nonces"] # Unset => \A n \in config["nonces"][1] : n < Len(blocks)
    /\ \A i \in 1..Len(blocks) : blocks[i] = i - 1

Unfinished == {f \in Fetches \ finished : f \in SystemKeys => f \in sysValues}

\* The retries are enough: while the ledger fails no more than c_maxRetryTime
\* times, the fetches that were begun all finish in the end, in whatever order
\* they are answered; system values that are no numbers excepted.
FetchSurvivesErrors == Unfinished # {} ~> Unfinished = {}
=============================================================================
