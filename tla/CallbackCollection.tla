-------------------------- MODULE CallbackCollection --------------------------
(***************************************************************************)
(* libutilities/CallbackCollectionHandler: subscribers hold a              *)
(* SingleCallback and the collection maps a key to a weak pointer to it.   *)
(* The collection has no lock: everything runs in one thread, but a        *)
(* callback that is being notified may add and drop callbacks.  A          *)
(* subscriber is one SingleCallback and lives once.  The keys are unsigned  *)
(* ints and never wrap here, there are fewer subscribers than keys.        *)
(***************************************************************************)
EXTENDS Naturals, Sequences, FiniteSets, FiniteSetsExt

CONSTANTS Subscribers

VARIABLES collection,   \* m_callbackCollection, a function on the keys in use
          key,          \* m_iterator of a live callback; NoKey: not alive
          handled,      \* its m_callbackCollectionHandler is not null
          born,         \* subscribers that have been added
          pending,      \* notification: the callbacks still to be called
          round,        \* notification: those it began with
          called,       \* notification: those that have been called
          open          \* the collection exists

callbackVars == <<collection, key, handled, born, pending, round, called, open>>

NoKey == 0 - 1
Alive == {s \in Subscribers : key[s] # NoKey}

CallbackInit ==
    /\ collection = [k \in {} |-> 0]
    /\ key = [s \in Subscribers |-> NoKey]
    /\ handled = {} /\ born = {}
    /\ pending = <<>> /\ round = {} /\ called = {}
    /\ open = TRUE

\* the key after the largest one in use
NewKeySize == Cardinality(DOMAIN collection)
NewKey == IF DOMAIN collection = {} THEN 0 ELSE Max(DOMAIN collection) + 1

Add(s) ==
    /\ open /\ s \notin born
    /\ born' = born \cup {s}
    /\ key' = [key EXCEPT ![s] = NewKey]
    /\ handled' = handled \cup {s}
    /\ collection' = [k \in DOMAIN collection \cup {NewKey} |->
                         IF k = NewKey THEN s ELSE collection[k]]
    /\ UNCHANGED <<pending, round, called, open>>

\* ~SingleCallback takes itself out of the collection, unless that is gone
Drop(s) ==
    /\ s \in Alive
    /\ key' = [key EXCEPT ![s] = NoKey]
    /\ handled' = handled \ {s}
    /\ collection' = IF s \in handled
                     THEN [k \in DOMAIN collection \ {key[s]} |-> collection[k]]
                     ELSE collection
    /\ UNCHANGED <<born, pending, round, called, open>>

\* convertMapToVector: the weak pointers in the order of the keys
CollectionSeq == [i \in 1..Cardinality(DOMAIN collection) |->
    collection[CHOOSE k \in DOMAIN collection :
                  Cardinality({j \in DOMAIN collection : j <= k}) = i]]

\* operator() copies the weak pointers and calls the first one (what is in the
\* collection is alive) ...
NotifyBegin ==
    /\ open /\ pending = <<>> /\ DOMAIN collection # {}
    /\ pending' = Tail(CollectionSeq)
    /\ called' = {Head(CollectionSeq)}
    /\ round' = {collection[k] : k \in DOMAIN collection}
    /\ UNCHANGED <<collection, key, handled, born, open>>

\* ... and then those of the others that still are
NotifyNextUntilDead ==
    /\ pending # <<>>
    /\ pending' = IF Head(pending) \in Alive THEN Tail(pending) ELSE <<>>
    /\ called' = called \cup ({Head(pending)} \cap Alive)
    /\ UNCHANGED <<collection, key, handled, born, round, open>>
NotifyNext ==
    /\ pending # <<>>
    /\ pending' = Tail(pending)
    /\ called' = called \cup ({Head(pending)} \cap Alive)
    /\ UNCHANGED <<collection, key, handled, born, round, open>>

\* ~CallbackCollectionHandler resets the callbacks that outlive it
DestroyCollection ==
    /\ open /\ pending = <<>>
    /\ open' = FALSE
    /\ handled' = handled \ {collection[k] : k \in DOMAIN collection}
    /\ collection' = [k \in {} |-> 0]
    /\ UNCHANGED <<key, born, pending, round, called>>

CallbackNext ==
    \/ \E s \in Subscribers : Add(s) \/ Drop(s)
    \/ NotifyBegin
    \/ NotifyNext
    \/ DestroyCollection

\* Whatever was added and dropped before, even from inside a callback: the
\* callbacks that will take themselves out of the collection are exactly the
\* ones in it, each under its own key, so that a subscriber that goes away
\* never takes another one's registration with it and none is left dangling.
RegistrationsMatch ==
    /\ \A s \in handled : key[s] \in DOMAIN collection /\ collection[key[s]] = s
    /\ \A k \in DOMAIN collection : collection[k] \in handled
    /\ open \/ handled = {}

\* A notification reaches every callback that was registered when it began and
\* is still alive when it ends, whatever the callbacks add or drop meanwhile,
\* and none that was not registered then.
NotifiedOnceAlive ==
    /\ called \subseteq round
    /\ pending = <<>> => round \cap Alive \subseteq called
=============================================================================
