---------------------------- MODULE ObjectBroker ----------------------------
(***************************************************************************)
(* j2::broker::object_broker: a process-wide map from a type and a name to *)
(* an instance, each operation under a shared mutex and so a step, and     *)
(* registration_guard, which registers where it is made and unregisters    *)
(* where its scope ends - by name, whatever is registered there by then.   *)
(***************************************************************************)
EXTENDS Functions, FiniteSets, Calls

CONSTANTS
  Types, Names,
  Instances,        \* shared pointers, the null pointer being one of them
  Null,
  Guards            \* threads' scopes that may hold a registration_guard

VARIABLES
  storage_,         \* key to instance, for the registered keys
  guard,            \* scope to [key, instance], or NoGuard outside of it
  promised,         \* the keys that callers may rely on, with their instances
  evicted           \* keys that a guard took away from a later registration

BrokerKeys == Types \X Names
NoGuard == [key |-> <<>>, instance |-> Null]
brokerVars == <<storage_, guard, promised, evicted>>

InitBroker == /\ storage_ = <<>> /\ guard = [g \in Guards |-> NoGuard]
              /\ promised = <<>> /\ evicted = {}

Put(map, key, i) == [k \in DOMAIN map \cup {key} |-> IF k = key THEN i ELSE map[k]]
Drop(map, key) == Restrict(map, DOMAIN map \ {key})

\* (A faulty variant: operator[] replaced by emplace, which keeps the first.)
RegisterOnce(map, key, i) == IF key \in DOMAIN map THEN map ELSE Put(map, key, i)

\* register_instance
Register(map, key, i) == Put(map, key, i)

\* (A faulty variant: the name is erased for every type.)
UnregisterName(map, key) == Restrict(map, {k \in DOMAIN map : k[2] # key[2]})

\* unregister_instance
Unregister(map, key) == Drop(map, key)

\* get and get_optional: the null pointer when nothing is registered.
Lookup(map, key) == IF key \in DOMAIN map THEN map[key] ELSE Null

\* get_all_with_names leaves null instances out, list_names_for_type does not.
GetAllWithNames(map, t) == {<<k[2], map[k]>> : k \in {k \in DOMAIN map : k[1] = t /\ map[k] # Null}}
ListNamesForType(map, t) == {k[2] : k \in {k \in DOMAIN map : k[1] = t}}

-----------------------------------------------------------------------------
RegisterInstance(key, i) ==
  /\ Call /\ storage_' = Register(storage_, key, i)
  /\ promised' = Put(promised, key, i) /\ evicted' = evicted \ {key} /\ UNCHANGED guard

UnregisterInstance(key) ==
  /\ Call /\ storage_' = Unregister(storage_, key)
  /\ promised' = Drop(promised, key) /\ evicted' = evicted \ {key} /\ UNCHANGED guard

ClearBroker ==
  /\ Call /\ storage_' = <<>> /\ promised' = <<>> /\ evicted' = {} /\ UNCHANGED guard

\* registration_guard's constructor
EnterScope(g, key, i) ==
  /\ Call /\ guard[g] = NoGuard
  /\ guard' = [guard EXCEPT ![g] = [key |-> key, instance |-> i]]
  /\ storage_' = Register(storage_, key, i)
  /\ promised' = Put(promised, key, i) /\ evicted' = evicted \ {key}

\* ~registration_guard: what its owner means to end is its own registration.
LeaveScope(g) ==
  /\ guard[g] # NoGuard
  /\ LET key == guard[g].key
         owns == Lookup(promised, key) = guard[g].instance
     IN /\ storage_' = Unregister(storage_, key)
        /\ promised' = IF owns THEN Drop(promised, key) ELSE promised
        /\ evicted' = IF ~owns /\ key \in DOMAIN promised THEN evicted \cup {key} ELSE evicted
  /\ guard' = [guard EXCEPT ![g] = NoGuard]
  /\ UNCHANGED calls

NextBroker ==
  \/ \E key \in BrokerKeys :
        UnregisterInstance(key) \/ \E i \in Instances : RegisterInstance(key, i)
  \/ ClearBroker
  \/ \E g \in Guards : LeaveScope(g) \/ \E key \in BrokerKeys, i \in Instances : EnterScope(g, key, i)

\* The broker on its own.
BrokerSpec == InitBroker /\ InitCalls /\ [][NextBroker]_<<calls, brokerVars>>

-----------------------------------------------------------------------------
\* Whoever registered an instance gets it back, of its type and under its
\* name, until it is unregistered, replaced, or evicted by the guard of an
\* earlier registration of the key, and nobody gets one that was withdrawn; a
\* registration of null is listed by name and left out of the instances.
BrokerKeepsItsPromises ==
  /\ \A key \in BrokerKeys \ evicted : Lookup(storage_, key) = Lookup(promised, key)
  /\ \A t \in Types : \A n \in ListNamesForType(promised, t) :
        <<t, n>> \in evicted \/ n \in ListNamesForType(storage_, t)
  /\ \A t \in Types : GetAllWithNames(storage_, t) \subseteq GetAllWithNames(promised, t)
=============================================================================
