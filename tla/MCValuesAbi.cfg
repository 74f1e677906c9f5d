SPECIFICATION ValuesSpec
CHECK_DEADLOCK FALSE
CONSTANTS
    SizeModulus = 1073741824
    Uint32Modulus = 536870912
    AlNumTexts = {"", "chain", "c1", "n1", "node0", "app", "rpc", "gateway"}
INVARIANT AbiMixedRoundTrip
