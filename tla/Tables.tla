------------------------------- MODULE Tables -------------------------------
(***************************************************************************)
(* StorageInterface::asyncCreateTable and asyncOpenTable: a table exists   *)
(* when the system table has a row for it, whose value names its fields.   *)
(* Creating reads that row and writes it if there is none, in two calls    *)
(* the storage answers when it likes and either of which may fail, a write *)
(* with or without effect.  Only creations of one table that do not        *)
(* overlap are modelled: the check and the write are not one step.         *)
(***************************************************************************)
EXTENDS Naturals, FiniteSets

CONSTANTS
    TableCallers, TableNames,
    ValueFields,            \* what the comma separated list of fields is split into
    MaxTableCalls           \* bound: calls made

VARIABLES
    sysTables,      \* the rows of SYS_TABLES: <<>> or <<fields>>
    tableCall,      \* the call each caller is in
    handles,        \* the tables callers were given: name and fields
    created,        \* for each table, how many creations succeeded
    tableCalls

tableVars == << sysTables, tableCall, handles, created, tableCalls >>

NoTableCall == [at |-> "idle"]

TablesInit ==
    /\ sysTables = [t \in TableNames |-> <<>>]
    /\ tableCall = [c \in TableCallers |-> NoTableCall]
    /\ handles = {}
    /\ created = [t \in TableNames |-> 0]
    /\ tableCalls = 0

StartTableCall(c, call) ==
    /\ tableCalls < MaxTableCalls
    /\ tableCall[c] = NoTableCall
    /\ tableCall' = [tableCall EXCEPT ![c] = call]
    /\ tableCalls' = tableCalls + 1
    /\ UNCHANGED << sysTables, handles, created >>

Creating(t) == \E c \in TableCallers : tableCall[c].at \in {"check", "put"} /\ tableCall[c].table = t

\* the system table itself is known without asking (getSysTableInfo)
AsyncCreateTable(c, t, f) ==
    ~Creating(t) /\ StartTableCall(c, [at |-> "check", table |-> t, fields |-> f])

AsyncOpenTable(c, t) == StartTableCall(c, [at |-> "open", table |-> t])

\* the callback is called with an error, or with a table or none
Callback(c, opened) ==
    /\ tableCall' = [tableCall EXCEPT ![c] = NoTableCall]
    /\ handles' = handles \cup opened
    /\ UNCHANGED tableCalls

Handle(t, f) == [table |-> t, fields |-> f]

\* the row is written without looking whether there is one
AnswerCheckAlways(c) ==
    /\ tableCall[c].at = "check"
    /\ \/ Callback(c, {})
       \/ /\ tableCall' = [tableCall EXCEPT ![c] = [@ EXCEPT !.at = "put"]]
          /\ UNCHANGED << handles, tableCalls >>
    /\ UNCHANGED << sysTables, created >>

\* asyncGetRow of a creation: a read error, TableExists, or the row is to be written
AnswerCheck(c) ==
    /\ tableCall[c].at = "check"
    /\ \/ Callback(c, {})
       \/ /\ sysTables[tableCall[c].table] = <<>>
          /\ tableCall' = [tableCall EXCEPT ![c] = [@ EXCEPT !.at = "put"]]
          /\ UNCHANGED << handles, tableCalls >>
    /\ UNCHANGED << sysTables, created >>

\* asyncSetRow of a creation
AnswerPut(c) ==
    LET t == tableCall[c].table
        f == tableCall[c].fields
    IN  /\ tableCall[c].at = "put"
        /\ \/ /\ sysTables' = [sysTables EXCEPT ![t] = <<f>>]
              /\ created' = [created EXCEPT ![t] = @ + 1]
              /\ Callback(c, {Handle(t, f)})
           \/ /\ sysTables' \in {sysTables, [sysTables EXCEPT ![t] = <<f>>]}
              /\ Callback(c, {})
              /\ UNCHANGED created

\* asyncGetRow of an opening: a read error, no table, or the table
AnswerOpen(c) ==
    LET t == tableCall[c].table
    IN  /\ tableCall[c].at = "open"
        /\ \/ Callback(c, {})
           \/ sysTables[t] # <<>> /\ Callback(c, {Handle(t, sysTables[t][1])})
        /\ UNCHANGED << sysTables, created >>

TablesNext == \E c \in TableCallers :
    \/ \E t \in TableNames : AsyncOpenTable(c, t) \/ \E f \in ValueFields : AsyncCreateTable(c, t, f)
    \/ AnswerCheck(c)
    \/ AnswerPut(c)
    \/ AnswerOpen(c)

-----------------------------------------------------------------------------

\* A table is created once, and the fields every caller was given with it, by
\* creating or opening, stay the fields the system table has: also after
\* creations that failed, with their row written or not, and were tried again.
SchemaIsStable ==
    /\ \A h \in handles : sysTables[h.table] = << h.fields >>
    /\ \A t \in TableNames : created[t] <= 1
=============================================================================
