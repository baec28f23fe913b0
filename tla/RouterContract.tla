---------------------------- MODULE RouterContract ----------------------------
(***************************************************************************)
(* What the controller promises about a router it writes to, whatever the  *)
(* plan, the task and the interleaving:                                    *)
(*   - a command leaves only within a batch accepted while the router was  *)
(*     writable and, a person's explicit gesture apart, enforcement on;    *)
(*   - a batch has at most MaxActions commands;                            *)
(*   - a row of another freeQoS instance is never modified, a third-party  *)
(*     row never more than its rate, and that only when adoption is on;    *)
(*   - an automatic job never removes a row.                               *)
(***************************************************************************)
EXTENDS QueuePlanner

CONSTANTS Tasks, Loops, Humans, MaxActions

VARIABLES
    queues,      \* the router's list
    fresh,       \* the next .id
    enforcement, \* the global flag
    writable,    \* the router's write switch
    batch        \* per task, the commands accepted and not yet sent

cvars == <<queues, fresh, enforcement, writable, batch>>

CInit ==
    /\ queues \in [Ids -> Row \cup {Absent}]
    /\ fresh \in 1..(MaxRows + 1)
    /\ \A i \in Ids : i >= fresh => queues[i] = Absent
    /\ enforcement \in BOOLEAN /\ writable \in BOOLEAN
    /\ batch = [t \in Tasks |-> {}]

\* The only ways our commands may change the list: one row at a time.
Changes(i) == /\ queues' # queues
              /\ queues' = [queues EXCEPT ![i] = queues'[i]]

OwnAdd ==
    /\ fresh \in Ids
    /\ Changes(fresh)
    /\ queues'[fresh] \in Row
    /\ queues'[fresh].owner = "ours" /\ ~queues'[fresh].disabled
    /\ queues'[fresh].name \notin Named(queues)
    /\ fresh' = fresh + 1

OwnSet ==
    /\ \E i \in Present(queues) :
           /\ Changes(i)
           /\ queues'[i] \in Row
           /\ IsOurs(queues[i]) /\ IsOurs(queues'[i])
           /\ queues'[i].name = queues[i].name
    /\ UNCHANGED fresh

AlignThird ==
    /\ Adopt
    /\ \E i \in Present(queues) :
           /\ Changes(i)
           /\ queues[i].owner = "third"
           /\ \E rate \in Rates : queues'[i] = [queues[i] EXCEPT !.rate = rate]
    /\ UNCHANGED fresh

OwnRemove(t) ==
    /\ t \notin Loops
    /\ \E i \in Present(queues) :
           Changes(i) /\ IsOurs(queues[i]) /\ queues'[i] = Absent
    /\ UNCHANGED fresh

Write(t) == OwnAdd \/ OwnSet \/ AlignThird \/ OwnRemove(t)

Accept(t) ==
    /\ batch[t] = {}
    /\ writable /\ (enforcement \/ t \in Humans)
    /\ \E names \in SUBSET Subjects :
           /\ Cardinality(names) <= MaxActions
           /\ batch' = [batch EXCEPT ![t] = names]
    /\ UNCHANGED <<queues, fresh, enforcement, writable>>

Command(t) ==
    /\ \E n \in batch[t] : \/ batch' = [batch EXCEPT ![t] = @ \ {n}]
                           \/ batch' = [batch EXCEPT ![t] = {}]
    /\ Write(t) \/ UNCHANGED <<queues, fresh>>
    /\ UNCHANGED <<enforcement, writable>>

\* The operator and the others on the router, the switches, a restart.
Outside ==
    /\ \/ /\ fresh \in Ids
          /\ Changes(fresh)
          /\ queues'[fresh] \in Row /\ ~IsOurs(queues'[fresh])
          /\ fresh' = fresh + 1
       \/ /\ \E i \in Present(queues) :
                 /\ Changes(i)
                 /\ queues'[i] \in {Absent, [queues[i] EXCEPT !.disabled = ~@]}
          /\ UNCHANGED fresh
    /\ UNCHANGED <<enforcement, writable, batch>>

Switch ==
    /\ enforcement' \in BOOLEAN /\ writable' \in BOOLEAN
    /\ UNCHANGED <<queues, fresh, batch>>

Crash ==
    /\ batch' = [t \in Tasks |-> {}]
    /\ UNCHANGED <<queues, fresh, enforcement, writable>>

CNext == \/ Outside \/ Switch \/ Crash
         \/ \E t \in Tasks : Accept(t) \/ Command(t)

CSpec == CInit /\ [][CNext]_cvars
=============================================================================
